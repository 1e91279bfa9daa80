------------------------------- MODULE MCDemo -------------------------------
(***************************************************************************)
(* An instance of Demo for TLC: two namespaces, two networks, and visitors *)
(* who use different parts of the page.                                    *)
(***************************************************************************)
EXTENDS Demo, TLC

CONSTANTS na, nb, n1, n2, other

MCSessions == Modes \X Namespaces
MCWalletOf == [s \in MCSessions |-> IF s[1] = "onchain" THEN "injected" ELSE "session"]
MCDappOf   == [s \in MCSessions |-> s[2]]
MCOperations == [s \in MCSessions |-> IdentityOperations]

MCSchemas == {<<n1, "a">>, <<n1, "b">>, <<n2, "a">>}

(* The other client ensures all schemas of the first network at once. *)
MCLists == [c \in Clients |-> {{n1} \X Kinds}]

(* The workspace; its schemas, beside another client of the registry, or   *)
(* with a wallet that changes its network; private mode while the page is  *)
(* reloaded, while records are written, and while the mode changes.        *)
Workspace == {"namespace", "reset", "connect", "activate", "record", "network", "wallet"}
Publisher == {"activate", "publishSchema", "clients"}
Traveller == {"activate", "publishSchema", "record", "wallet"}
Dapp      == {"namespace", "reset", "phrase", "reload", "setup", "restore"}
Author    == {"namespace", "reset", "setup", "privateSet"}
Wallet    == {"activate", "phrase"} \cup PrivateHandlers
MCVisits  == {Workspace, Publisher, Traveller, Dapp, Author, Wallet}

MCInit == Init /\ registered = {} /\ chain = n1
MCSpec == MCInit /\ [][Next]_vars /\ Fairness
=============================================================================
