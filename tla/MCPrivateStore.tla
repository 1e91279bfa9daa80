---------------------------- MODULE MCPrivateStore ----------------------------
(***************************************************************************)
(* Instances of PrivateStore for TLC: Alice and Bob on two devices each.   *)
(***************************************************************************)
EXTENDS PrivateStore, TLC

CONSTANTS a1, a2, b1, b2, alice, bob, dapp, c1, c2

MCWalletOf == [s \in Sessions |-> IF s \in {a1, a2} THEN alice ELSE bob]
MCDappOf   == [s \in Sessions |-> dapp]

(* Alice grants with a second device, Bob writes with one device and       *)
(* changes his key with the other.                                         *)
MCOperations ==
    [s \in Sessions |-> CASE s = a1 -> {"set", "delete", "revoke"}
                          [] s = a2 -> {"grant"}
                          [] s = b1 -> {"set"}
                          [] s = b2 -> {"create", "publish"}]

(* Alice writes with one device and grants with the other. *)
SetAndGrant ==
    [s \in Sessions |-> CASE s = a1 -> {"set"} [] s = a2 -> {"grant"} [] OTHER -> {}]

AloneOrWithBob == {{}, {bob}}

Pair(w) == [wallet |-> w, dapp |-> dapp]

(* A version of Alice's record, written for Bob. *)
Shared(i) ==
    [kind |-> "set", owner |-> alice, key |-> 1, dapp |-> dapp, version |-> i,
     data |-> i, value |-> i,
     wraps |-> [w \in Wallets |->
         [key |-> IF w = alice THEN 1 ELSE 2, data |-> i,
          context |-> [version |-> i, owner |-> alice, key |-> 1, dapp |-> dapp]]],
     basis |-> i - 1, checked |-> i - 1, named |-> {bob}, drops |-> {}]

(* A tombstone of Alice's. *)
Deleted ==
    [kind |-> "delete", owner |-> alice, key |-> 0, dapp |-> dapp, version |-> 0,
     data |-> 0, value |-> 0,
     wraps |-> [w \in Wallets |->
         [key |-> 0, data |-> 0,
          context |-> [version |-> 0, owner |-> w, key |-> 0, dapp |-> dapp]]],
     basis |-> 0, checked |-> 0, named |-> {}, drops |-> {}]

(* Alice and Bob have published the keys that they use here.  Either the   *)
(* second device of Bob has lost the pair that it generated and stays idle *)
(* while a record gets all its versions but the first, or it is about to   *)
(* generate one while the record gets its last version.                    *)
MCInit ==
    /\ \/ /\ keys = <<Pair(alice), Pair(bob), Pair(bob)>>
          /\ \E first \in {Shared(1), Deleted} : log = [n \in Names |-> <<first>>]
       \/ /\ keys = <<Pair(alice), Pair(bob)>>
          /\ log = [n \in Names |-> [i \in 1..(MaxLog - 1) |-> Shared(i)]]
    /\ identity = [s \in Sessions |-> CASE s \in {a1, a2} -> 1 [] s = b1 -> 2 [] s = b2 -> 0]
    /\ stored = [x \in Slots |-> NoBackup] /\ backups = {}
    /\ claims = [x \in Slots |-> IF x[1] = bob THEN <<2>> ELSE <<1>>]
    /\ lost = [x \in Slots |-> FALSE]
    /\ job = [s \in Sessions |-> NoJob]
    /\ forked = [n \in Names |-> FALSE]
    /\ call = [c \in Calls |-> IdleCall]

MCSpec == MCInit /\ [][Next]_vars

CallSymmetry == Permutations({c1, c2})
=============================================================================
