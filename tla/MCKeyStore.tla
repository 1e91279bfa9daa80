----------------------------- MODULE MCKeyStore -----------------------------
(***************************************************************************)
(* Instances of KeyStore for TLC over one indexer: two sessions with a     *)
(* client call and a signer each, or one session with two calls.           *)
(***************************************************************************)
EXTENDS KeyStore, TLC

CONSTANTS s1, s2, c1, c2, alice, bob, i1

MCStoreOf   == [c \in Calls |-> IF c = c2 THEN s2 ELSE s1]
OneStore    == [c \in Calls |-> s1]
MCSignerOf  == [s \in Stores |-> IF s = s2 THEN bob ELSE alice]
MCIndexerOf == [s \in Stores |-> i1]
MCTrusts    == [s \in Stores |-> Signers]

Unfiltered == {Signers}
ByAlice    == {{alice}}

(* One call at a time: no two calls are in flight together, so that no key *)
(* forks.                                                                  *)
TakingTurns ==
    \A c, d \in Calls : call[c].pc # "idle" /\ call[d].pc # "idle" => c = d

TurnsSpec == Init /\ [][Next /\ TakingTurns']_vars

(* The two sessions are alike: exchanging them, with their calls and       *)
(* signers, maps behaviours to behaviours.                                 *)
SessionSymmetry ==
    {f \in Permutations({s1, s2, c1, c2, alice, bob}) :
        \/ \A x \in DOMAIN f : f[x] = x
        \/ f[s1] = s2 /\ f[s2] = s1 /\ f[c1] = c2 /\ f[c2] = c1
           /\ f[alice] = bob /\ f[bob] = alice}

(* The two calls of one session are alike. *)
CallSymmetry == Permutations({c1, c2})
=============================================================================
