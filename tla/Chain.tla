------------------------------- MODULE Chain -------------------------------
(***************************************************************************)
(* When a set of verified records is one linked history.  A record is      *)
(* named by its uid and prev[u] is the uid of its predecessor; ZERO_UID    *)
(* marks a root.  EASKeyStore decides this by a walk (module ChainWalk);   *)
(* these operators are its result for records whose predecessors were      *)
(* issued before them, which is how the store issues them.                 *)
(***************************************************************************)
EXTENDS Naturals

ZERO_UID == 0

Roots(R, prev) == {u \in R : prev[u] = ZERO_UID}

Children(R, prev, p) == {u \in R : prev[u] = p}

(* Every predecessor is among the records. *)
Linked(R, prev) == \A u \in R : prev[u] = ZERO_UID \/ prev[u] \in R

(* Two records follow the same predecessor, or both are roots. *)
Siblings(u, w, prev) == u # w /\ prev[u] = prev[w]

ForkFree(R, prev) == \A u, w \in R : ~Siblings(u, w, prev)

(* Mutants: siblings, or missing predecessors, are not noticed. *)
StatusOfForks(R, prev) ==
    IF R = {} THEN "empty" ELSE IF Linked(R, prev) THEN "canonical" ELSE "ambiguous"
StatusOfOrphans(R, prev) ==
    IF R = {} THEN "empty" ELSE IF ForkFree(R, prev) THEN "canonical" ELSE "ambiguous"

Status(R, prev) ==
    IF R = {} THEN "empty"
    ELSE IF Linked(R, prev) /\ Roots(R, prev) # {} /\ ForkFree(R, prev)
         THEN "canonical"
         ELSE "ambiguous"

(* Mutant: the first record of the chain instead of the last. *)
FirstOfChain(R, prev) == CHOOSE r \in R : prev[r] = ZERO_UID

(* The record of a canonical set that no other record follows. *)
ChainHead(R, prev) == CHOOSE h \in R : Children(R, prev, h) = {}
=============================================================================
