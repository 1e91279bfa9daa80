----------------------------- MODULE ChainWalk -----------------------------
(***************************************************************************)
(* resolveCanonicalChain (src/src/store.ts), loop by loop, on the verified *)
(* records of one key: any set of records with any predecessors, cycles,   *)
(* forks and missing predecessors included, because attestations are made  *)
(* by anyone and an indexer may return any part of them.                   *)
(***************************************************************************)
EXTENDS Naturals, FiniteSets, Sequences, Chain

CONSTANT N    \* bound: records are 1..N, and N + 1 is a uid not loaded

ASSUME SomeRecords == N \in Nat

VARIABLES
    records, prev,   \* the input, constant during a run
    todo,            \* records the first loop has not grouped yet
    children,        \* childrenByParent
    current,         \* the record the walk has come to, ZERO_UID for none
    visited, chain,
    status           \* "group", "walk", or the result

vars == <<records, prev, todo, children, current, visited, chain, status>>

input == <<records, prev>>

Init ==
    /\ records \in SUBSET (1..N)
    /\ prev \in [records -> 0..(N + 1)]
    /\ todo = records
    /\ children = [u \in records |-> {}]
    /\ current = ZERO_UID
    /\ visited = {}
    /\ chain = <<>>
    /\ status = IF records = {} THEN "empty" ELSE "group"

Ambiguous ==
    /\ status' = "ambiguous"
    /\ chain' = <<>>
    /\ UNCHANGED <<todo, children, current, visited>>

(* Mutant: childrenByParent also takes predecessors that were not loaded. *)
GroupBlindly(u) ==
    /\ status = "group" /\ u \in todo
    /\ todo' = todo \ {u}
    /\ children' = [p \in DOMAIN children \cup {prev[u]} |->
                       (IF p \in DOMAIN children THEN children[p] ELSE {})
                       \cup (IF p = prev[u] THEN {u} ELSE {})]
    /\ UNCHANGED <<current, visited, chain, status, input>>

(* The first loop, over the records in any order. *)
Group(u) ==
    /\ status = "group" /\ u \in todo
    /\ IF prev[u] # ZERO_UID /\ prev[u] \notin records
       THEN Ambiguous
       ELSE /\ todo' = todo \ {u}
            /\ children' = IF prev[u] = ZERO_UID THEN children
                           ELSE [children EXCEPT ![prev[u]] = @ \cup {u}]
            /\ UNCHANGED <<current, visited, chain, status>>
    /\ UNCHANGED input

FindRoot ==
    /\ status = "group" /\ todo = {}
    /\ IF Cardinality(Roots(records, prev)) # 1
       THEN Ambiguous
       ELSE /\ current' \in Roots(records, prev)
            /\ status' = "walk"
            /\ UNCHANGED <<todo, children, visited, chain>>
    /\ UNCHANGED input

(* Mutant: an off-by-one in the test for several children. *)
StepRefusesChildren ==
    /\ status = "walk" /\ current # ZERO_UID
    /\ IF current \in visited \/ Cardinality(children[current]) >= 1
       THEN Ambiguous
       ELSE /\ visited' = visited \cup {current}
            /\ chain' = Append(chain, current)
            /\ current' = ZERO_UID
            /\ UNCHANGED <<todo, children, status>>
    /\ UNCHANGED input

(* One turn of the while loop. *)
Step ==
    /\ status = "walk" /\ current # ZERO_UID
    /\ IF current \in visited \/ Cardinality(children[current]) > 1
       THEN Ambiguous
       ELSE /\ visited' = visited \cup {current}
            /\ chain' = Append(chain, current)
            /\ current' \in IF children[current] = {} THEN {ZERO_UID} ELSE children[current]
            /\ UNCHANGED <<todo, children, status>>
    /\ UNCHANGED input

(* Mutant: records that the walk did not reach are ignored. *)
FinishAnyway ==
    /\ status = "walk" /\ current = ZERO_UID
    /\ status' = "canonical"
    /\ UNCHANGED <<todo, children, current, visited, chain, input>>

Finish ==
    /\ status = "walk" /\ current = ZERO_UID
    /\ IF Cardinality(visited) # Cardinality(records)
       THEN Ambiguous
       ELSE /\ status' = "canonical"
            /\ UNCHANGED <<todo, children, current, visited, chain>>
    /\ UNCHANGED input

Done == status \in {"empty", "canonical", "ambiguous"}

Next == (\E u \in todo : Group(u)) \/ FindRoot \/ Step \/ Finish \/ (Done /\ UNCHANGED vars)

Spec == Init /\ [][Next]_vars

-----------------------------------------------------------------------------
(* Properties *)

(* The state of the walk is made of the input's records. *)
TypeOK ==
    /\ records \subseteq 1..N
    /\ prev \in [records -> 0..(N + 1)]
    /\ todo \subseteq records
    /\ children \in [records -> SUBSET records]
    /\ current \in records \cup {ZERO_UID}
    /\ visited \subseteq records
    /\ chain \in Seq(records)
    /\ status \in {"group", "walk", "empty", "canonical", "ambiguous"}

(* p lists R from its root to its head, each record after its predecessor. *)
IsHistory(p, R) ==
    /\ Len(p) = Cardinality(R)
    /\ {p[i] : i \in 1..Len(p)} = R
    /\ \A i \in 1..Len(p) : prev[p[i]] = IF i = 1 THEN ZERO_UID ELSE p[i - 1]

(* A canonical result is the whole input in order, and an input that can   *)
(* be put in such an order is never called ambiguous.                      *)
FindsTheHistory ==
    /\ status = "canonical" => IsHistory(chain, records)
    /\ status = "ambiguous" => \A p \in [1..Cardinality(records) -> records] :
                                   ~IsHistory(p, records)

(* Where predecessors are older, the result is Status, and the head is the *)
(* one that the other modules use.                                         *)
AgreesWithChain ==
    (\A u \in records : prev[u] \notin u..N) =>
        /\ Done => status = Status(records, prev)
        /\ status = "canonical" => chain[Len(chain)] = ChainHead(records, prev)

=============================================================================
