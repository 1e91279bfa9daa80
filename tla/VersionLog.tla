----------------------------- MODULE VersionLog -----------------------------
(***************************************************************************)
(* What a namespace promises its readers: the history of a key is a log    *)
(* that is only appended to, until two writers continue it from the same   *)
(* record.  From then on the key has no history, forever.                  *)
(***************************************************************************)
EXTENDS Sequences

CONSTANTS Keys, Entries

VARIABLES log, forked

vars == <<log, forked>>

Init ==
    /\ log = [k \in Keys |-> <<>>]
    /\ forked = [k \in Keys |-> FALSE]

Extend(k, e) ==
    /\ ~forked[k]
    /\ log' = [log EXCEPT ![k] = Append(@, e)]
    /\ UNCHANGED forked

Fork(k) ==
    /\ ~forked[k]
    /\ log[k] # <<>>
    /\ log' = [log EXCEPT ![k] = <<>>]
    /\ forked' = [forked EXCEPT ![k] = TRUE]

(* A write that read the log of k when it had "base" entries: it is the    *)
(* next entry if nothing was written since, and otherwise a second one.    *)
Write(k, base, e) ==
    IF forked[k] THEN UNCHANGED vars
    ELSE IF Len(log[k]) = base THEN Extend(k, e) ELSE Fork(k)

Next == \E k \in Keys : Fork(k) \/ \E e \in Entries : Extend(k, e)

Spec == Init /\ [][Next]_vars
=============================================================================
