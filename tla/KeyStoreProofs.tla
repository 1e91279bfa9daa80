--------------------------- MODULE KeyStoreProofs ---------------------------
(***************************************************************************)
(* What is proved of KeyStore, for every number of sessions, calls, keys,  *)
(* signers and attestations, every mode, indexer and set of faults:        *)
(*   - records are well typed and linked with consecutive versions;        *)
(*   - no update is lost, no fork continued and no read goes back,         *)
(*     provided that reading a stored value does not fail ("storage" is    *)
(*     not among the faults): a failed fetch hides a verified record;      *)
(*   - with a local indexer that does not throw, acknowledged records are  *)
(*     indexed;                                                            *)
(*   - published histories implement VersionLog: every record is published *)
(*     as a write that continues what its call read, and what a call       *)
(*     accepts is a beginning of the published history;                    *)
(*   - a fork is a race or a lagging index, never a session forking what   *)
(*     it knows, and sessions that take turns do not fork at all.          *)
(***************************************************************************)
EXTENDS KeyStore, ChainProofs

(* What a call relies on besides its type, given the attestations a.       *)
CallGood(r, a) ==
    LET issued == 1..Len(a) IN
    /\ r \in CallState
    /\ r.raw \subseteq issued /\ r.floor \subseteq issued
    /\ r.todo \subseteq r.raw /\ r.ok \subseteq r.raw
    /\ r.uid \in issued \cup {0}
    /\ r.pc = "check" => r.uid \in issued
    /\ r.pc # "idle" /\ r.kind # "query" => \E k \in Keys : r.keys = {k}
    /\ \A u \in r.raw \cup r.floor : a[u].key \in r.keys

(* The inductive invariant behind TypeOK and LinkedVersions.  The two need *)
(* each other: a version is a number because the head it continues is an   *)
(* issued record, and a head exists because issued records are linked.     *)
IInv ==
    /\ TypeOK
    /\ LinkedVersions
    /\ \A c \in Calls : CallGood(call[c], att)

-----------------------------------------------------------------------------
(* The pieces of a step *)

LEMMA IdleIsGood == IdleCall \in CallState /\ CallGood(IdleCall, att)
  BY DEF IdleCall, CallState, CallGood, Uids

(* A step that issues nothing, and leaves every call good, is inductive.   *)
LEMMA Frame ==
    ASSUME IInv, att' = att,
           \A S \in {mined', revoked', expired', stamped'} : S \subseteq Uids,
           index' \in [Indexers -> SUBSET Uids],
           cache' \in [Stores -> SUBSET Uids],
           known' \in [Stores -> SUBSET Uids],
           call' \in [Calls -> CallState],
           \A c \in Calls : CallGood(call'[c], att)
    PROVE  IInv'
<1>1. Uids' = Uids
  BY DEF Uids
<1>2. \A c \in Calls : CallGood(call'[c], att')
  OBVIOUS
<1>3. TypeOK'
  BY <1>1 DEF IInv, TypeOK, CallGood, Uids
<1>4. LinkedVersions'
  BY <1>1 DEF IInv, LinkedVersions
<1> QED
  BY <1>2, <1>3, <1>4 DEF IInv

LEMMA OneCall ==
    ASSUME IInv, NEW c \in Calls, NEW r, CallGood(r, att),
           call' = [call EXCEPT ![c] = r]
    PROVE  /\ call' \in [Calls -> CallState]
           /\ \A d \in Calls : CallGood(call'[d], att)
  BY DEF IInv, TypeOK, CallGood

(* Issuing a record that links to the end of its history.                  *)
LEMMA AttGrows ==
    ASSUME att \in Seq(Attestation), NEW e \in Attestation, att' = Append(att, e)
    PROVE  /\ att' \in Seq(Attestation)
           /\ Len(att) \in Nat /\ Len(att') = Len(att) + 1
           /\ Uids' = Uids \cup {Len(att) + 1}
           /\ \A u \in Uids : att'[u] = att[u]
           /\ att'[Len(att) + 1] = e
<1>1. Len(att) \in Nat /\ Len(att') = Len(att) + 1 /\ att' \in Seq(Attestation)
  OBVIOUS
<1>2. \A u \in 1..Len(att) : att'[u] = att[u]
  OBVIOUS
<1> QED
  BY <1>1, <1>2 DEF Uids

LEMMA Typed ==
    ASSUME IInv, NEW u \in Uids
    PROVE  /\ u \in Nat /\ u # ZERO_UID /\ att[u] \in Attestation
           /\ att[u].prev \in Nat /\ att[u].version \in Nat
<1>1. att \in Seq(Attestation) /\ u \in 1..Len(att)
  BY DEF IInv, TypeOK, Uids
<1>2. u \in Nat /\ u # ZERO_UID /\ att[u] \in Attestation
  BY <1>1 DEF ZERO_UID
<1> QED
  BY <1>2 DEF Attestation

Versions == [u \in Uids |-> att[u].version]

LEMMA StoreIssues ==
    ASSUME IInv, NEW R \in SUBSET Uids
    PROVE  Issued(R, Prev, Versions)
<1> SUFFICES ASSUME NEW u \in R
             PROVE /\ u \in Nat /\ Prev[u] \in Nat /\ Versions[u] \in Nat
                   /\ Prev[u] = ZERO_UID => Versions[u] = 1
                   /\ Prev[u] # ZERO_UID /\ Prev[u] \in R =>
                         Prev[u] < u /\ Versions[u] = Versions[Prev[u]] + 1
                   /\ Prev[u] # ZERO_UID => Versions[u] > 1
  BY DEF Issued
<1>1. \A w \in Uids : /\ w \in Nat
                       /\ att[w].prev \in Nat /\ att[w].version \in Nat
                       /\ Prev[w] = att[w].prev /\ Versions[w] = att[w].version
  BY Typed DEF Prev, Versions
<1>2. \A w \in Uids :
         IF att[w].prev = ZERO_UID THEN att[w].version = 1
         ELSE /\ att[w].prev \in Uids /\ att[w].prev < w
              /\ att[w].version = att[att[w].prev].version + 1
  BY <1>1 DEF IInv, LinkedVersions, Uids
<1>3. \A w \in Uids : att[w].version >= 1
  BY <1>1, <1>2
<1>4. u \in Uids
  OBVIOUS
<1>5. CASE Prev[u] = ZERO_UID
  BY <1>1, <1>2, <1>4, <1>5
<1>6. CASE Prev[u] # ZERO_UID
  BY <1>1, <1>2, <1>3, <1>4, <1>6
<1> QED
  BY <1>5, <1>6

(* The head that a call picks from its verified records.                   *)
LEMMA LatestIsNewest ==
    ASSUME IInv, NEW R \in SUBSET Uids, Status(R, Prev) = "canonical"
    PROVE  /\ ChainHead(R, Prev) \in R
           /\ \A a \in R : Supersedes(ChainHead(R, Prev), a)
<1>1. Len(att) \in Nat /\ R \in SUBSET (1..Len(att))
  BY DEF IInv, TypeOK, Uids
<1>2. Issued(R, Prev, Versions)
  BY StoreIssues
<1>3. /\ ChainHead(R, Prev) \in R
      /\ \A a \in R : \/ a = ChainHead(R, Prev)
                     \/ Versions[a] < Versions[ChainHead(R, Prev)]
  BY <1>1, <1>2, HeadIsNewest
<1>4. \A a \in R : Versions[a] = att[a].version
  BY DEF Versions
<1> QED
  BY <1>3, <1>4 DEF Supersedes

(* What prepareWrite chooses: the end of the verified history, with a      *)
(* version above every record of it.                                       *)
LEMMA PreparedLinks ==
    ASSUME IInv, NEW c \in Calls, MayWrite(c)
    PROVE  /\ Prepared(c) \in Attestation
           /\ Prepared(c).floor = call[c].floor
           /\ call[c].keys = {Prepared(c).key}
           /\ IF Prepared(c).prev = ZERO_UID
              THEN call[c].ok = {} /\ Prepared(c).version = 1
              ELSE /\ Prepared(c).prev \in Uids
                   /\ att[Prepared(c).prev].key = Prepared(c).key
                   /\ Prepared(c).version = att[Prepared(c).prev].version + 1
           /\ \A a \in call[c].ok : att[a].version < Prepared(c).version
<1> DEFINE r == call[c]
           h == LatestOf(c)
<1>1. /\ r \in CallState /\ CallGood(r, att)
      /\ r.pc # "idle" /\ r.kind \in WriteKinds /\ r.kind # "query"
  BY DEF IInv, TypeOK, MayWrite, Resolved, WriteKinds
<1>2. PICK k \in Keys : r.keys = {k}
  BY <1>1 DEF CallGood
<1>3. Prepared(c).key = k /\ Prepared(c).floor = r.floor /\ Prepared(c).op = r.kind
  BY <1>2 DEF Prepared
<1>4. SignerOf[StoreOf[c]] \in Signers
  BY Parties
<1>5. r.ok \in SUBSET Uids /\ r.floor \in SUBSET Nat
      /\ r.opt \in {"plain", "expiring", "misaddressed"}
  BY <1>1 DEF CallGood, CallState, Uids
<1>6. CASE r.ok = {}
  <2>1. Prepared(c).version = 1 /\ Prepared(c).prev = ZERO_UID
    BY <1>6 DEF Prepared, NextVersion
  <2>2. Prepared(c) \in Attestation
    BY <1>1, <1>2, <1>4, <1>5, <1>6 DEF Prepared, NextVersion, Attestation, ZERO_UID
  <2> QED
    BY <1>2, <1>3, <1>6, <2>1, <2>2
<1>7. CASE r.ok # {}
  <2>1. Status(r.ok, Prev) = "canonical"
    BY <1>7 DEF MayWrite, Resolution, Status
  <2>2. h \in r.ok /\ \A a \in r.ok : Supersedes(h, a)
    BY <1>5, <2>1, LatestIsNewest DEF LatestOf
  <2>3. h \in Uids /\ h # ZERO_UID /\ h \in Nat
    BY <1>5, <2>2, Typed
  <2>4. \A a \in r.ok : att[a].version \in Nat
    BY <1>5, Typed
  <2>5. Prepared(c).version = att[h].version + 1 /\ Prepared(c).prev = h
    BY <1>7 DEF Prepared, NextVersion
  <2>6. att[h].key = k
    BY <1>1, <1>2, <2>2 DEF CallGood
  <2>7. \A a \in r.ok : att[a].version < Prepared(c).version
    BY <2>2, <2>4, <2>5 DEF Supersedes
  <2>8. Prepared(c) \in Attestation
    BY <1>1, <1>2, <1>4, <1>5, <1>7, <2>2, <2>3, <2>4
    DEF Prepared, NextVersion, Attestation
  <2> QED
    BY <1>2, <1>3, <2>3, <2>5, <2>6, <2>7, <2>8
<1> QED
  BY <1>6, <1>7

-----------------------------------------------------------------------------
(* The steps *)

(* Growing the attestations keeps every call good.                         *)
LEMMA StaysGood ==
    ASSUME NEW a \in Seq(Attestation), NEW e \in Attestation, NEW r, CallGood(r, a)
    PROVE  CallGood(r, Append(a, e))
<1>1. /\ Len(a) \in Nat /\ Len(Append(a, e)) = Len(a) + 1
      /\ \A u \in 1..Len(a) : Append(a, e)[u] = a[u]
  OBVIOUS
<1>2. 1..Len(a) \subseteq 1..Len(Append(a, e))
  BY <1>1
<1> QED
  BY <1>1, <1>2 DEF CallGood

(* Sign or Send: one record is issued, and its writer waits for it, checks *)
(* it, or has failed.                                                      *)
LEMMA Issue ==
    ASSUME IInv, NEW c \in Calls, MayWrite(c), att' = Append(att, Prepared(c)),
           UNCHANGED <<mined, revoked, expired, stamped, known>>,
           index' \in [Indexers -> SUBSET (Uids \cup {Len(att) + 1})],
           cache' \in [Stores -> SUBSET (Uids \cup {Len(att) + 1})],
           \/ call' = [call EXCEPT ![c] = IdleCall]
           \/ \E p \in {"wait", "check"} :
                  call' = [call EXCEPT ![c] =
                              [call[c] EXCEPT !.pc = p, !.uid = Len(att) + 1]]
    PROVE  IInv'
<1> DEFINE e == Prepared(c)
           n == Len(att) + 1
<1>1. /\ e \in Attestation /\ e.floor = call[c].floor /\ e.floor \subseteq Uids
      /\ IF e.prev = ZERO_UID THEN e.version = 1
         ELSE /\ e.prev \in Uids /\ att[e.prev].key = e.key
              /\ e.version = att[e.prev].version + 1
  BY PreparedLinks DEF IInv, CallGood, Uids
<1>2. att \in Seq(Attestation)
  BY DEF IInv, TypeOK
<1>3. /\ att' \in Seq(Attestation) /\ Len(att) \in Nat /\ Len(att') = n
      /\ Uids' = Uids \cup {n} /\ n \notin Uids
      /\ \A u \in Uids : att'[u] = att[u]
      /\ att'[n] = e
  BY <1>1, <1>2, AttGrows DEF Uids
<1> HIDE DEF e
<1>4. LinkedVersions'
  <2> SUFFICES ASSUME NEW u \in Uids'
               PROVE IF att'[u].prev = ZERO_UID THEN att'[u].version = 1
                     ELSE /\ att'[u].prev \in 1..(u - 1)
                          /\ att'[att'[u].prev].key = att'[u].key
                          /\ att'[u].version = att'[att'[u].prev].version + 1
    BY DEF LinkedVersions
  <2>1. CASE u = n
    BY <1>1, <1>3, <2>1 DEF Uids
  <2>2. CASE u \in Uids
    <3>1. att'[u] = att[u]
      BY <1>3, <2>2
    <3>2. CASE att[u].prev = ZERO_UID
      BY <2>2, <3>1, <3>2 DEF IInv, LinkedVersions
    <3>3. CASE att[u].prev # ZERO_UID
      <4>1. /\ att[u].prev \in 1..(u - 1)
            /\ att[att[u].prev].key = att[u].key
            /\ att[u].version = att[att[u].prev].version + 1
        BY <2>2, <3>3 DEF IInv, LinkedVersions
      <4>2. att[u].prev \in Uids
        BY <1>3, <2>2, <4>1 DEF Uids
      <4> QED
        BY <1>3, <3>1, <3>3, <4>1, <4>2
    <3> QED
      BY <3>2, <3>3
  <2> QED
    BY <1>3, <2>1, <2>2
<1>5. \A d \in Calls : CallGood(call[d], att')
  BY <1>1, <1>2, StaysGood DEF IInv, e
<1>6. /\ call' \in [Calls -> CallState]
      /\ \A d \in Calls : CallGood(call'[d], att')
  <2>1. call \in [Calls -> CallState] /\ n \in 1..Len(att') /\ n \in Nat
    BY <1>3 DEF IInv, TypeOK
  <2>2. CASE call' = [call EXCEPT ![c] = IdleCall]
    <3>1. IdleCall \in CallState /\ CallGood(IdleCall, att')
      BY DEF IdleCall, CallState, CallGood
    <3> QED
      BY <1>5, <2>1, <2>2, <3>1
  <2>3. ASSUME NEW p \in {"wait", "check"},
               call' = [call EXCEPT ![c] = [call[c] EXCEPT !.pc = p, !.uid = n]]
        PROVE  call' \in [Calls -> CallState] /\ CallGood(call'[c], att')
    <3> DEFINE r == [call[c] EXCEPT !.pc = p, !.uid = n]
    <3>1. call[c].pc # "idle" /\ call[c] \in CallState
      BY <2>1 DEF MayWrite, Resolved
    <3>2. r \in CallState
      BY <2>1, <3>1 DEF CallState
    <3>3. CallGood(r, att')
      BY <1>5, <2>1, <3>1, <3>2 DEF CallGood, CallState
    <3> QED
      BY <2>1, <2>3, <3>2, <3>3
  <2> QED
    BY <1>5, <2>1, <2>2, <2>3
<1>7. TypeOK'
  <2>1. \A S \in {mined, revoked, expired, stamped} : S \subseteq Uids
    BY DEF IInv, TypeOK
  <2>2. known \in [Stores -> SUBSET Uids]
    BY DEF IInv, TypeOK
  <2>3. \A u \in Uids' : att'[u].floor \subseteq Uids'
    BY <1>1, <1>3 DEF IInv, TypeOK
  <2>4. \A d \in Calls : /\ call'[d].raw \cup call'[d].floor \subseteq Uids'
                         /\ call'[d].todo \cup call'[d].ok \subseteq call'[d].raw
                         /\ call'[d].uid \in Uids' \cup {0}
    BY <1>6 DEF CallGood, Uids
  <2> QED
    BY <1>3, <1>6, <2>1, <2>2, <2>3, <2>4 DEF TypeOK
<1> QED
  BY <1>4, <1>6, <1>7 DEF IInv

LEMMA Sets ==
    ASSUME IInv
    PROVE  /\ \A S \in {mined, revoked, expired, stamped} : S \subseteq Uids
           /\ index \in [Indexers -> SUBSET Uids]
           /\ cache \in [Stores -> SUBSET Uids]
           /\ known \in [Stores -> SUBSET Uids]
           /\ call \in [Calls -> CallState]
           /\ \A c \in Calls : CallGood(call[c], att)
           /\ \A c \in Calls : StoreOf[c] \in Stores /\ IndexerOf[StoreOf[c]] \in Indexers
           /\ \A s \in Stores : IndexerOf[s] \in Indexers
  BY Parties DEF IInv, TypeOK

(* A call that ends, whatever it hands to its session.                     *)
LEMMA EndOfCall ==
    ASSUME IInv, NEW c \in Calls, Finish(c),
           UNCHANGED <<att, mined, revoked, expired, stamped, index, cache>>,
           known' \in [Stores -> SUBSET Uids]
    PROVE  IInv'
<1>1. /\ call' \in [Calls -> CallState]
      /\ \A d \in Calls : CallGood(call'[d], att)
  BY IdleIsGood, OneCall DEF Finish
<1> QED
  BY <1>1, Sets, Frame

LEMMA ReturnKeeps ==
    ASSUME IInv, NEW c \in Calls, NEW res \in SUBSET Uids, Return(c, res),
           UNCHANGED <<att, mined, revoked, expired, stamped, index, cache>>
    PROVE  IInv'
<1>1. known' \in [Stores -> SUBSET Uids]
  BY Sets DEF Return
<1> QED
  BY <1>1, EndOfCall DEF Return

LEMMA BeginKeeps ==
    ASSUME IInv, NEW c \in Calls, NEW kind, NEW keys \in SUBSET Keys,
           NEW by \in SUBSET Signers, NEW opt \in {"plain", "expiring", "misaddressed"},
           kind # "query" => \E k \in Keys : keys = {k},
           Begin(c, kind, keys, by, opt)
    PROVE  IInv'
<1> DEFINE s == StoreOf[c]
           found == Matching(Loads(s), keys, by)
           r == [IdleCall EXCEPT
                   !.pc = IF Scope = "local" THEN "verify" ELSE "query",
                   !.kind = kind, !.keys = keys, !.by = by, !.opt = opt,
                   !.raw = found, !.todo = found, !.floor = Floor(s, keys)]
<1>1. found \subseteq Uids /\ \A u \in found : att[u].key \in keys
  BY Sets DEF Matching, Loads
<1>2. Floor(s, keys) \subseteq Uids /\ \A u \in Floor(s, keys) : att[u].key \in keys
  BY Sets DEF Floor
<1>3. kind \in WriteKinds \cup ReadKinds
  BY Parties DEF Begin
<1>4. Uids \subseteq Nat
  BY DEF Uids
<1> HIDE DEF found
<1>5. r \in CallState
  BY <1>1, <1>2, <1>3, <1>4 DEF IdleCall, CallState
<1>6. CallGood(r, att)
  BY <1>1, <1>2, <1>5 DEF CallGood, IdleCall, Uids
<1>7. call' = [call EXCEPT ![c] = r]
  BY DEF Begin, found
<1>8. /\ call' \in [Calls -> CallState]
      /\ \A d \in Calls : CallGood(call'[d], att)
  BY <1>6, <1>7, OneCall
<1> QED
  BY <1>8, Sets, Frame DEF Begin

(* Every step preserves the invariant, action by action.                   *)
THEOREM StepKeeps == IInv /\ [Next]_vars => IInv'
<1> SUFFICES ASSUME IInv, [Next]_vars PROVE IInv'
  OBVIOUS
<1>1. ASSUME NEW c \in Calls, BeginWrite(c) PROVE IInv'
  <2>1. Signers \in SUBSET Signers /\ Options \subseteq {"plain", "expiring", "misaddressed"}
    BY Parties
  <2>2. PICK k \in Keys : \/ \E opt \in Options : Begin(c, "set", {k}, Signers, opt)
                         \/ Begin(c, "delete", {k}, Signers, "plain")
    BY <1>1 DEF BeginWrite
  <2>3. ASSUME NEW opt \in Options, Begin(c, "set", {k}, Signers, opt) PROVE IInv'
    BY <2>1, <2>3, BeginKeeps
  <2>4. ASSUME Begin(c, "delete", {k}, Signers, "plain") PROVE IInv'
    BY <2>1, <2>4, BeginKeeps
  <2> QED
    BY <2>2, <2>3, <2>4
<1>2. ASSUME NEW c \in Calls, BeginRead(c) PROVE IInv'
  <2>1. ASSUME NEW k \in Keys, NEW kind \in {"get", "history"},
               Begin(c, kind, {k}, Signers, "plain")
        PROVE  IInv'
    BY <2>1, BeginKeeps
  <2>2. ASSUME NEW by \in Filters, Begin(c, "query", Keys, by, "plain") PROVE IInv'
    BY <2>2, BeginKeeps, Parties
  <2> QED
    BY <1>2, <2>1, <2>2 DEF BeginRead
<1>3. ASSUME NEW c \in Calls, QueryIndex(c) PROVE IInv'
  <2> DEFINE more == Matching(index[IndexerOf[StoreOf[c]]], call[c].keys, call[c].by)
             r == [call[c] EXCEPT !.pc = "verify", !.raw = call[c].raw \cup more,
                                  !.todo = call[c].todo \cup more]
  <2>1. more \subseteq Uids /\ \A u \in more : att[u].key \in call[c].keys
    BY Sets DEF Matching
  <2>2. call[c] \in CallState /\ CallGood(call[c], att) /\ call[c].pc = "query"
    BY <1>3, Sets DEF QueryIndex
  <2>3. call' = [call EXCEPT ![c] = r]
    BY <1>3 DEF QueryIndex
  <2>4. more \in SUBSET Nat
    BY <2>1 DEF Uids
  <2> HIDE DEF more
  <2>5. r \in CallState
    <3>1. call[c].raw \cup more \in SUBSET Nat /\ call[c].todo \cup more \in SUBSET Nat
      BY <2>2, <2>4 DEF CallState
    <3> QED
      BY <2>2, <3>1 DEF CallState
  <2>6. CallGood(r, att)
    BY <2>1, <2>2, <2>5 DEF CallGood, CallState, Uids
  <2>7. /\ call' \in [Calls -> CallState]
        /\ \A d \in Calls : CallGood(call'[d], att)
    BY <2>3, <2>6, OneCall
  <2> QED
    BY <1>3, <2>7, Sets, Frame DEF QueryIndex
<1>4. ASSUME NEW c \in Calls, VerifyNext(c) PROVE IInv'
  <2>1. PICK u \in call[c].todo : \E fetched \in Fetches(u) :
           call' = [call EXCEPT ![c] =
              [call[c] EXCEPT !.todo = call[c].todo \ {u},
                              !.ok = IF Verifies(StoreOf[c], u) /\ fetched
                                     THEN call[c].ok \cup {u} ELSE call[c].ok]]
    BY <1>4 DEF VerifyNext
  <2>2. PICK fetched \in Fetches(u) :
           call' = [call EXCEPT ![c] =
              [call[c] EXCEPT !.todo = call[c].todo \ {u},
                              !.ok = IF Verifies(StoreOf[c], u) /\ fetched
                                     THEN call[c].ok \cup {u} ELSE call[c].ok]]
    BY <2>1
  <2> DEFINE ok == IF Verifies(StoreOf[c], u) /\ fetched
                   THEN call[c].ok \cup {u} ELSE call[c].ok
             r == [call[c] EXCEPT !.todo = call[c].todo \ {u}, !.ok = ok]
  <2>3. call[c] \in CallState /\ CallGood(call[c], att)
    BY Sets
  <2>4. ok \subseteq call[c].raw
    BY <2>3 DEF CallGood
  <2> HIDE DEF ok
  <2>5. r \in CallState
    BY <2>3, <2>4 DEF CallState
  <2>6. CallGood(r, att)
    BY <2>3, <2>4, <2>5 DEF CallGood, CallState
  <2>7. call' = [call EXCEPT ![c] = r]
    BY <2>2 DEF ok
  <2>8. /\ call' \in [Calls -> CallState]
        /\ \A d \in Calls : CallGood(call'[d], att)
    BY <2>6, <2>7, OneCall
  <2> QED
    BY <1>4, <2>8, Sets, Frame DEF VerifyNext
<1>5. ASSUME NEW c \in Calls, RefuseWrite(c) \/ Reject(c) PROVE IInv'
  BY <1>5, Sets, EndOfCall DEF RefuseWrite, Reject
<1>6. ASSUME NEW c \in Calls, Sign(c) PROVE IInv'
  <2> DEFINE n == Len(att) + 1
             s == StoreOf[c]
  <2>1. cache' = Cached(s, n) /\ (index' = Indexed(s, n) \/ index' = index)
    BY <1>6 DEF Sign, Store
  <2>2. \/ call' = [call EXCEPT ![c] = IdleCall]
        \/ call' = [call EXCEPT ![c] = [call[c] EXCEPT !.pc = "check", !.uid = n]]
    BY <1>6 DEF Sign, Store, Finish
  <2>3. cache' \in [Stores -> SUBSET (Uids \cup {n})]
    BY <2>1, Sets DEF Cached
  <2>4. index' \in [Indexers -> SUBSET (Uids \cup {n})]
    BY <2>1, Sets DEF Indexed
  <2> QED
    BY <1>6, <2>2, <2>3, <2>4, Issue DEF Sign
<1>7. ASSUME NEW c \in Calls, Send(c) PROVE IInv'
  <2> DEFINE n == Len(att) + 1
  <2>1. call' = [call EXCEPT ![c] = [call[c] EXCEPT !.pc = "wait", !.uid = n]]
    BY <1>7 DEF Send
  <2>2. /\ cache' \in [Stores -> SUBSET (Uids \cup {n})]
        /\ index' \in [Indexers -> SUBSET (Uids \cup {n})]
    BY <1>7, Sets DEF Send
  <2> QED
    BY <1>7, <2>1, <2>2, Issue DEF Send
<1>8. ASSUME NEW c \in Calls, Confirm(c) PROVE IInv'
  <2> DEFINE u == call[c].uid
             r == [call[c] EXCEPT !.pc = "check", !.uid = u]
  <2>1. u \in Uids /\ call[c].pc = "wait" /\ call[c] \in CallState /\ CallGood(call[c], att)
    BY <1>8, Sets DEF Confirm
  <2>2. cache' = Cached(StoreOf[c], u) /\ (index' = Indexed(StoreOf[c], u) \/ index' = index)
    BY <1>8 DEF Confirm, Store
  <2>3. cache' \in [Stores -> SUBSET Uids] /\ index' \in [Indexers -> SUBSET Uids]
    BY <2>1, <2>2, Sets DEF Cached, Indexed
  <2>4. call' = [call EXCEPT ![c] = IdleCall] \/ call' = [call EXCEPT ![c] = r]
    BY <1>8 DEF Confirm, Store, Finish
  <2>5. r \in CallState /\ CallGood(r, att)
    BY <2>1 DEF CallState, CallGood, Uids
  <2>6. /\ call' \in [Calls -> CallState]
        /\ \A d \in Calls : CallGood(call'[d], att)
    BY <2>4, <2>5, IdleIsGood, OneCall
  <2> QED
    BY <1>8, <2>3, <2>6, Sets, Frame DEF Confirm
<1>9. ASSUME NEW c \in Calls, CheckWrite(c) PROVE IInv'
  <2>1. call[c].uid \in Uids
    BY <1>9, Sets DEF CheckWrite, CallGood, Uids
  <2>2. \/ Return(c, {call[c].uid})
        \/ Return(c, {})
    BY <1>9 DEF CheckWrite
  <2> QED
    BY <1>9, <2>1, <2>2, ReturnKeeps DEF CheckWrite
<1>10. ASSUME NEW c \in Calls, ReturnGet(c) PROVE IInv'
  <2>1. call[c].ok \in SUBSET Uids
    BY Sets DEF CallGood, Uids
  <2>2. GetResult(c) \in SUBSET Uids
    BY <2>1, LatestIsNewest DEF GetResult, Resolution, LatestOf
  <2> QED
    BY <1>10, <2>2, ReturnKeeps DEF ReturnGet
<1>11. ASSUME NEW c \in Calls, ReturnHistory(c) PROVE IInv'
  <2>1. (IF RefusesHistory(c) THEN {} ELSE call[c].ok) \in SUBSET Uids
    BY Sets DEF CallGood, Uids
  <2> QED
    BY <1>11, <2>1, ReturnKeeps DEF ReturnHistory
<1>12. ASSUME NEW c \in Calls, ReturnQuery(c) PROVE IInv'
  <2>1. call[c].ok \in SUBSET Uids
    BY Sets DEF CallGood, Uids
  <2>2. QueryResult(c) \in SUBSET Uids
    BY <2>1, LatestIsNewest DEF QueryResult
  <2> QED
    BY <1>12, <2>2, ReturnKeeps DEF ReturnQuery
<1>13. ASSUME NEW u \in Uids, Mine(u) \/ Revoke(u) \/ Expire(u) PROVE IInv'
  BY <1>13, Sets, Frame DEF Mine, Revoke, Expire
<1>14. ASSUME NEW i \in Indexers, NEW u \in Uids, Discover(i, u) PROVE IInv'
  <2>1. index' \in [Indexers -> SUBSET Uids]
    BY <1>14, Sets DEF Discover
  <2> QED
    BY <1>14, <2>1, Sets, Frame DEF Discover
<1>15. ASSUME NEW U \in SUBSET Findable, Timestamp(U) PROVE IInv'
  <2>1. stamped' \subseteq Uids
    BY <1>15, Sets DEF Timestamp, Findable
  <2> QED
    BY <1>15, <2>1, Sets, Frame DEF Timestamp
<1>16. ASSUME NEW s \in Stores, Restart(s) PROVE IInv'
  <2>1. /\ cache' \in [Stores -> SUBSET Uids]
        /\ known' \in [Stores -> SUBSET Uids]
    BY <1>16, Sets DEF Restart
  <2>2. /\ call' \in [Calls -> CallState]
        /\ \A d \in Calls : CallGood(call'[d], att)
    BY <1>16, Sets, IdleIsGood DEF Restart
  <2> QED
    BY <1>16, <2>1, <2>2, Sets, Frame DEF Restart
<1>17. CASE UNCHANGED vars
  BY <1>17, Sets, Frame DEF vars
<1> QED
  BY <1>1, <1>2, <1>3, <1>4, <1>5, <1>6, <1>7, <1>8, <1>9, <1>10, <1>11, <1>12,
     <1>13, <1>14, <1>15, <1>16, <1>17 DEF Next, Progress

LEMMA InitGood == Init => IInv
<1> SUFFICES ASSUME Init PROVE IInv
  OBVIOUS
<1>1. att = <<>> /\ Len(att) = 0 /\ Uids = {}
  BY DEF Init, Uids
<1>2. att \in Seq(Attestation)
  BY <1>1
<1>3. \A c \in Calls : call[c] = IdleCall
  BY DEF Init
<1>4. \A c \in Calls : CallGood(call[c], att)
  BY <1>3, IdleIsGood
<1>5. LinkedVersions
  BY <1>1 DEF LinkedVersions
<1>6. TypeOK
  <2>1. call \in [Calls -> CallState]
    BY IdleIsGood DEF Init
  <2>2. /\ index \in [Indexers -> SUBSET Uids]
        /\ cache \in [Stores -> SUBSET Uids] /\ known \in [Stores -> SUBSET Uids]
        /\ \A S \in {mined, revoked, expired, stamped} : S \subseteq Uids
    BY DEF Init
  <2>3. \A c \in Calls : /\ call[c].raw \cup call[c].floor \subseteq Uids
                         /\ call[c].todo \cup call[c].ok \subseteq call[c].raw
                         /\ call[c].uid \in Uids \cup {0}
    BY <1>3 DEF IdleCall
  <2> QED
    BY <1>1, <1>2, <2>1, <2>2, <2>3 DEF TypeOK
<1> QED
  BY <1>4, <1>5, <1>6 DEF IInv

THEOREM Inductive == Spec => []IInv
<1>1. Init => IInv
  BY InitGood
<1>2. IInv /\ [Next]_vars => IInv'
  BY StepKeeps
<1> QED
  BY <1>1, <1>2, PTL DEF Spec

(* The state is well typed: nothing is cached, indexed, loaded or returned *)
(* that was not issued.                                                    *)
THEOREM TypeCorrect == Spec => []TypeOK
<1>1. IInv => TypeOK
  BY DEF IInv
<1> QED
  BY <1>1, Inductive, PTL

(* Every record ever issued continues an older record of its key with the  *)
(* next version, or starts at 1, in every mode and under every fault.      *)
THEOREM RecordsAreLinked == Spec => []LinkedVersions
<1>1. IInv => LinkedVersions
  BY DEF IInv
<1> QED
  BY <1>1, Inductive, PTL

-----------------------------------------------------------------------------
(* What sessions know *)

(* What verification asks of a record apart from trust and from not having *)
(* lapsed.  It never becomes false again.                                  *)
Sound(u) ==
    /\ att[u].opt # "misaddressed"
    /\ RequireTimestamp /\ Mode = "offchain" => u \in stamped

Reach(s) == cache[s] \cup index[IndexerOf[s]]

(* Where the records that a call may not contradict (its floor) are while  *)
(* it is in progress.  by = Signers: the call filters no attester.         *)
CallSees(c) ==
    LET r == call[c]
        s == StoreOf[c]
    IN  /\ r.raw \subseteq Reach(s)
        /\ r.pc = "check" => r.uid \in cache[s]
        /\ \A u \in r.ok : Sound(u)
        /\ \A a \in r.floor : Sound(a) /\ att[a].by \in Trusts[s]
        /\ r.kind \in {"set", "delete", "get", "history"} => r.by = Signers
        /\ r.kind = "query" => r.by \in Filters
        /\ r.pc = "query" => r.todo = r.raw
        /\ r.pc = "query" /\ r.by = Signers =>
              r.floor \subseteq r.raw \cup index[IndexerOf[s]]
        /\ r.pc = "verify" /\ r.by = Signers =>
              \A a \in r.floor : Lapsed(a) \/ a \in r.todo \cup r.ok

KnownIn(s) == \A u \in known[s] : u \in Reach(s) /\ Sound(u)

(* The inductive invariant behind WritesExtendKnown, ForkedHistoryIsRefused *)
(* and ReadsFresh: what a session knows can still be found, and a call     *)
(* loses none of it between its first read and its decision.               *)
KInv ==
    /\ IInv
    /\ \A s \in Stores : KnownIn(s)
    /\ \A c \in Calls : CallSees(c)
    /\ WritesExtendKnown
    /\ ForkedHistoryIsRefused

-----------------------------------------------------------------------------
(* What every step keeps *)

(* Records, timestamps, expirations and revocations are forever, and an    *)
(* index forgets nothing.                                                  *)
Grows ==
    /\ \A u \in Uids : u \in Uids' /\ att'[u] = att[u]
    /\ stamped \subseteq stamped' /\ expired \subseteq expired' /\ revoked \subseteq revoked'
    /\ \A i \in Indexers : index[i] \subseteq index'[i]

LEMMA Forever ==
    ASSUME Grows, NEW u \in Uids
    PROVE  /\ u \in Uids' /\ att'[u] = att[u]
           /\ Sound(u) => Sound(u)'
           /\ Lapsed(u) => Lapsed(u)'
  BY DEF Grows, Sound, Lapsed

(* A call that a step leaves alone sees what it saw, unless its session    *)
(* restarts.                                                               *)
LEMMA StillSees ==
    ASSUME KInv, Grows, NEW c \in Calls, call'[c] = call[c],
           cache[StoreOf[c]] \subseteq cache'[StoreOf[c]]
    PROVE  CallSees(c)'
<1> DEFINE r == call[c]
           s == StoreOf[c]
<1>1. CallSees(c) /\ CallGood(r, att) /\ IndexerOf[s] \in Indexers
  BY Sets DEF KInv
<1>2. r.raw \subseteq Uids /\ r.ok \subseteq Uids /\ r.floor \subseteq Uids
  BY <1>1 DEF CallGood, Uids
<1>3. index[IndexerOf[s]] \subseteq index'[IndexerOf[s]] /\ Reach(s) \subseteq Reach(s)'
  BY <1>1 DEF Grows, Reach
<1>4. \A u \in Uids : (Sound(u) => Sound(u)') /\ (Lapsed(u) => Lapsed(u)')
                      /\ att'[u] = att[u]
  BY Forever
<1>5. /\ r.raw \subseteq Reach(s)'
      /\ r.pc = "check" => r.uid \in cache'[s]
      /\ r.kind \in {"set", "delete", "get", "history"} => r.by = Signers
      /\ r.kind = "query" => r.by \in Filters
      /\ r.pc = "query" => r.todo = r.raw
      /\ r.pc = "query" /\ r.by = Signers =>
            r.floor \subseteq r.raw \cup index'[IndexerOf[s]]
  BY <1>1, <1>3 DEF CallSees
<1>6. /\ \A u \in r.ok : Sound(u)'
      /\ \A a \in r.floor : Sound(a)' /\ att'[a].by \in Trusts[s]
  BY <1>1, <1>2, <1>4 DEF CallSees
<1>7. r.pc = "verify" /\ r.by = Signers =>
         \A a \in r.floor : Lapsed(a)' \/ a \in r.todo \cup r.ok
  BY <1>1, <1>2, <1>4 DEF CallSees
<1> QED
  BY <1>5, <1>6, <1>7 DEF CallSees

LEMMA IdleSees ==
    ASSUME NEW c \in Calls, call'[c] = IdleCall
    PROVE  CallSees(c)'
  BY DEF CallSees, IdleCall

LEMMA StillKnown ==
    ASSUME KInv, Grows, NEW s \in Stores, known'[s] \subseteq known[s],
           cache[s] \subseteq cache'[s]
    PROVE  KnownIn(s)'
<1>1. KnownIn(s) /\ known[s] \subseteq Uids /\ IndexerOf[s] \in Indexers
  BY Sets DEF KInv
<1>2. Reach(s) \subseteq Reach(s)'
  BY <1>1 DEF Grows, Reach
<1>3. \A u \in Uids : Sound(u) => Sound(u)'
  BY Forever
<1> QED
  BY <1>1, <1>2, <1>3 DEF KnownIn

(* A step that issues nothing keeps what is said of the records issued.    *)
LEMMA StillExtends ==
    ASSUME KInv, Grows, UNCHANGED att
    PROVE  WritesExtendKnown' /\ ForkedHistoryIsRefused'
<1>1. Uids' = Uids /\ Prev' = Prev
  BY DEF Uids, Prev
<1>2. \A u \in Uids : att[u].floor \subseteq Uids
  BY DEF KInv, IInv, TypeOK
<1>3. \A u \in Uids : Lapsed(u) => Lapsed(u)'
  BY Forever
<1>4. WritesExtendKnown'
  BY <1>1, <1>2, <1>3 DEF KInv, WritesExtendKnown
<1>5. ForkedHistoryIsRefused'
  BY <1>1, <1>2, <1>3 DEF KInv, ForkedHistoryIsRefused, Siblings
<1> QED
  BY <1>4, <1>5

LEMMA OneCallMoves ==
    ASSUME KInv, Grows, IInv', NEW c \in Calls,
           \A d \in Calls \ {c} : call'[d] = call[d],
           \A s \in Stores : cache[s] \subseteq cache'[s],
           \A s \in Stores : KnownIn(s)',
           CallSees(c)', WritesExtendKnown', ForkedHistoryIsRefused'
    PROVE  KInv'
<1>1. ASSUME NEW d \in Calls PROVE CallSees(d)'
  <2>1. CASE d = c
    BY <2>1
  <2>2. CASE d # c
    <3>1. call'[d] = call[d] /\ cache[StoreOf[d]] \subseteq cache'[StoreOf[d]]
      BY <2>2, Parties
    <3> QED
      BY <3>1, StillSees
  <2> QED
    BY <2>1, <2>2
<1> QED
  BY <1>1 DEF KInv

LEMMA SameGrows ==
    ASSUME UNCHANGED <<att, revoked, expired, stamped, index>>
    PROVE  Grows
  BY DEF Grows, Uids

(* A call that ends, and what its session then knows.                      *)
LEMMA Ends ==
    ASSUME KInv, IInv', NEW c \in Calls, NEW res \in SUBSET Uids, Return(c, res),
           \A u \in res : u \in Reach(StoreOf[c]) /\ Sound(u),
           UNCHANGED <<att, mined, revoked, expired, stamped, index, cache>>
    PROVE  KInv'
<1>1. Grows
  BY SameGrows
<1>2. call \in [Calls -> CallState] /\ known \in [Stores -> SUBSET Uids]
  BY Sets DEF KInv
<1>3. call' = [call EXCEPT ![c] = IdleCall]
      /\ known' = [known EXCEPT ![StoreOf[c]] = @ \cup res]
  BY DEF Return, Finish
<1>4. CallSees(c)' /\ \A d \in Calls \ {c} : call'[d] = call[d]
  BY <1>2, <1>3, IdleSees
<1>5. ASSUME NEW s \in Stores PROVE KnownIn(s)'
  <2>1. KnownIn(s)
    BY DEF KInv
  <2>2. \A u \in known'[s] : u \in known[s] \/ (s = StoreOf[c] /\ u \in res)
    BY <1>2, <1>3
  <2>3. Reach(s)' = Reach(s) /\ \A u : Sound(u)' = Sound(u)
    BY DEF Sound, Reach
  <2> QED
    BY <2>1, <2>2, <2>3 DEF KnownIn
<1> QED
  BY <1>1, <1>4, <1>5, StillExtends, OneCallMoves

(* A call that rejects: its session learns nothing.                        *)
LEMMA Rejects ==
    ASSUME KInv, IInv', NEW c \in Calls, Finish(c),
           UNCHANGED <<att, mined, revoked, expired, stamped, index, cache, known>>
    PROVE  KInv'
<1>1. Return(c, {})
  BY Sets DEF Finish, Return, KInv
<1> QED
  BY <1>1, Ends

(* A call that goes on, without a change to anything else.                 *)
LEMMA GoesOn ==
    ASSUME KInv, IInv', NEW c \in Calls, NEW r, call' = [call EXCEPT ![c] = r],
           UNCHANGED <<att, mined, revoked, expired, stamped, index, cache, known>>,
           CallSees(c)'
    PROVE  KInv'
<1>1. Grows /\ \A d \in Calls \ {c} : call'[d] = call[d]
  BY SameGrows, Sets DEF KInv
<1>2. \A s \in Stores : KnownIn(s)'
  BY <1>1, StillKnown
<1> QED
  BY <1>1, <1>2, StillExtends, OneCallMoves

(* The first read of a call finds what its session knows, or the remote    *)
(* indexer that it asks next does.                                         *)
LEMMA BeginSees ==
    ASSUME KInv, IInv', NEW c \in Calls, NEW kind, NEW keys \in SUBSET Keys, NEW by, NEW opt,
           IF kind = "query" THEN by \in Filters ELSE by = Signers,
           Begin(c, kind, keys, by, opt)
    PROVE  KInv'
<1> DEFINE s == StoreOf[c]
           found == Matching(Loads(s), keys, by)
           floor == Floor(s, keys)
           r == [IdleCall EXCEPT
                   !.pc = IF Scope = "local" THEN "verify" ELSE "query",
                   !.kind = kind, !.keys = keys, !.by = by, !.opt = opt,
                   !.raw = found, !.todo = found, !.floor = floor]
<1>1. s \in Stores /\ IndexerOf[s] \in Indexers /\ KnownIn(s)
  BY Parties DEF KInv
<1>2. call' = [call EXCEPT ![c] = r] /\ call'[c] = r
  BY Sets DEF Begin, KInv
<1>3. /\ UNCHANGED <<att, mined, revoked, expired, stamped, index, cache, known>>
      /\ Reach(s)' = Reach(s) /\ \A u : Sound(u)' = Sound(u)
  BY DEF Begin, Reach, Sound
<1>4. found \subseteq Reach(s)
  BY DEF Matching, Loads, Reach
<1>5. \A a \in floor : /\ Sound(a) /\ att[a].by \in Trusts[s]
                       /\ a \in Uids /\ att[a].key \in keys
  <2>1. \A p \in Stores : \A u \in known[p] : Sound(u) /\ u \in Uids
    BY Sets DEF KInv, KnownIn
  <2> QED
    BY <1>1, <2>1 DEF Floor
<1>6. ASSUME by = Signers, NEW a \in floor PROVE a \in found \/ a \in index[IndexerOf[s]]
  <2>1. a \in Reach(s)
    BY <1>1 DEF Floor, KnownIn, Reach
  <2>2. att[a].by \in Signers /\ att[a].key \in keys
    BY <1>5, Typed DEF KInv, Attestation
  <2> QED
    BY <1>6, <2>1, <2>2 DEF Matching, Loads, Reach
<1>7. ASSUME by = Signers, Scope = "local", NEW a \in floor PROVE a \in found
  <2>1. a \in Reach(s)
    BY <1>1 DEF Floor, KnownIn, Reach
  <2>2. att[a].by \in Signers /\ att[a].key \in keys
    BY <1>5, Typed DEF KInv, Attestation
  <2> QED
    BY <1>7, <2>1, <2>2 DEF Matching, Loads, Reach
<1> HIDE DEF found, floor
<1>8. /\ r.raw = found /\ r.todo = found /\ r.ok = {} /\ r.floor = floor
      /\ r.kind = kind /\ r.by = by
      /\ r.pc = IF Scope = "local" THEN "verify" ELSE "query"
  BY DEF IdleCall
<1>9. /\ r.raw \subseteq Reach(s)'
      /\ \A a \in r.floor : Sound(a)' /\ att'[a].by \in Trusts[s]
      /\ r.kind \in {"set", "delete", "get", "history"} => r.by = Signers
      /\ r.kind = "query" => r.by \in Filters
  BY <1>3, <1>4, <1>5, <1>8
<1>10. /\ r.pc = "query" /\ r.by = Signers =>
             r.floor \subseteq r.raw \cup index'[IndexerOf[s]]
       /\ r.pc = "verify" /\ r.by = Signers =>
             \A a \in r.floor : Lapsed(a)' \/ a \in r.todo \cup r.ok
  BY <1>3, <1>6, <1>7, <1>8
<1>11. CallSees(c)'
  <2> HIDE DEF r
  <2> QED
    BY <1>2, <1>8, <1>9, <1>10 DEF CallSees
<1> QED
  BY <1>2, <1>3, <1>11, GoesOn

(* verifyRecords keeps every record of the floor that has not lapsed.      *)
LEMMA VerifySees ==
    ASSUME "storage" \notin Faults, KInv, IInv', NEW c \in Calls, VerifyNext(c)
    PROVE  KInv'
<1> DEFINE s == StoreOf[c]
           r == call[c]
<1>1. PICK u \in r.todo : \E fetched \in Fetches(u) :
         call' = [call EXCEPT ![c] =
            [r EXCEPT !.todo = r.todo \ {u},
                      !.ok = IF Verifies(s, u) /\ fetched THEN r.ok \cup {u} ELSE r.ok]]
  BY DEF VerifyNext
<1> DEFINE ok == IF Verifies(s, u) THEN r.ok \cup {u} ELSE r.ok
           q == [r EXCEPT !.todo = r.todo \ {u}, !.ok = ok]
<1>2. call' = [call EXCEPT ![c] = q]
  <2>1. Fetches(u) = {TRUE}
    BY DEF Fetches
  <2> QED
    BY <1>1, <2>1
<1>3. /\ UNCHANGED <<att, mined, revoked, expired, stamped, index, cache, known>>
      /\ Reach(s)' = Reach(s) /\ \A w : Sound(w)' = Sound(w)
      /\ \A w : Lapsed(w)' = Lapsed(w)
  BY DEF VerifyNext, Reach, Sound, Lapsed
<1>4. /\ r \in CallState /\ CallGood(r, att) /\ CallSees(c) /\ r.pc = "verify"
  BY Sets DEF KInv, VerifyNext
<1>5. \A w \in ok : Sound(w)
  BY <1>4 DEF CallSees, Verifies, Sound
<1>6. ASSUME r.by = Signers, NEW a \in r.floor
      PROVE  Lapsed(a) \/ a \in (r.todo \ {u}) \cup ok
  <2>1. Lapsed(a) \/ a \in r.todo \cup r.ok
    BY <1>4, <1>6 DEF CallSees
  <2>2. Lapsed(u) \/ Verifies(s, u) \/ u \notin r.floor
    BY <1>4 DEF CallSees, Verifies, Sound
  <2> QED
    BY <2>1, <2>2
<1>7. ok \in SUBSET Nat
  BY <1>4 DEF CallState
<1> HIDE DEF ok
<1>8. /\ q.raw = r.raw /\ q.todo = r.todo \ {u} /\ q.ok = ok /\ q.floor = r.floor
      /\ q.kind = r.kind /\ q.by = r.by /\ q.pc = "verify"
  BY <1>4 DEF CallState
<1>9. call'[c] = q
  BY <1>2, Sets DEF KInv
<1>10. CallSees(c)'
  <2>1. /\ q.raw \subseteq Reach(s)'
        /\ \A a \in q.floor : Sound(a)' /\ att'[a].by \in Trusts[s]
        /\ q.kind \in {"set", "delete", "get", "history"} => q.by = Signers
        /\ q.kind = "query" => q.by \in Filters
        /\ \A w \in q.ok : Sound(w)'
    BY <1>3, <1>4, <1>5, <1>8 DEF CallSees
  <2>2. q.by = Signers => \A a \in q.floor : Lapsed(a)' \/ a \in q.todo \cup q.ok
    BY <1>3, <1>6, <1>8
  <2> HIDE DEF q
  <2> QED
    BY <1>8, <1>9, <2>1, <2>2 DEF CallSees
<1> QED
  BY <1>2, <1>3, <1>10, GoesOn

(* The remote index adds what the cache did not have.                      *)
LEMMA QuerySees ==
    ASSUME KInv, IInv', NEW c \in Calls, QueryIndex(c)
    PROVE  KInv'
<1> DEFINE s == StoreOf[c]
           r == call[c]
           more == Matching(index[IndexerOf[s]], r.keys, r.by)
           q == [r EXCEPT !.pc = "verify", !.raw = r.raw \cup more,
                          !.todo = r.todo \cup more]
<1>1. /\ call' = [call EXCEPT ![c] = q] /\ call'[c] = q
      /\ UNCHANGED <<att, mined, revoked, expired, stamped, index, cache, known>>
  BY Sets DEF QueryIndex, KInv
<1>2. Reach(s)' = Reach(s) /\ \A w : Sound(w)' = Sound(w)
  BY <1>1 DEF Reach, Sound
<1>3. /\ r \in CallState /\ CallGood(r, att) /\ CallSees(c) /\ r.pc = "query"
      /\ IInv
  BY Sets DEF KInv, QueryIndex
<1>4. more \subseteq Reach(s)
  BY DEF Matching, Reach
<1>5. ASSUME r.by = Signers, NEW a \in r.floor PROVE a \in r.todo \cup more
  <2>1. a \in r.todo \/ a \in index[IndexerOf[s]]
    BY <1>3, <1>5 DEF CallSees
  <2>2. a \in Uids /\ att[a].key \in r.keys
    BY <1>3 DEF CallGood, Uids
  <2>3. att[a].by \in Signers
    BY <1>3, <2>2, Typed DEF Attestation
  <2> QED
    BY <1>5, <2>1, <2>2, <2>3 DEF Matching
<1> HIDE DEF more
<1>6. /\ q.raw = r.raw \cup more /\ q.todo = r.todo \cup more /\ q.ok = r.ok
      /\ q.floor = r.floor /\ q.kind = r.kind /\ q.by = r.by /\ q.pc = "verify"
  BY <1>3 DEF CallState
<1>7. CallSees(c)'
  <2>1. /\ q.raw \subseteq Reach(s)'
        /\ \A a \in q.floor : Sound(a)' /\ att'[a].by \in Trusts[s]
        /\ q.kind \in {"set", "delete", "get", "history"} => q.by = Signers
        /\ q.kind = "query" => q.by \in Filters
        /\ \A w \in q.ok : Sound(w)'
    BY <1>1, <1>2, <1>3, <1>4, <1>6 DEF CallSees
  <2>2. q.by = Signers => \A a \in q.floor : a \in q.todo
    BY <1>5, <1>6
  <2> HIDE DEF q
  <2> QED
    BY <1>1, <1>6, <2>1, <2>2 DEF CallSees
<1> QED
  BY <1>1, <1>7, GoesOn

-----------------------------------------------------------------------------
(* The decisions *)

(* A call that has verified everything holds every record of its floor     *)
(* that has not lapsed.                                                    *)
LEMMA FloorVerified ==
    ASSUME KInv, NEW c \in Calls,
           \/ Resolved(c, {"set", "delete", "get", "history"})
           \/ Resolved(c, {"query"}) /\ call[c].by = Signers
    PROVE  /\ \A a \in call[c].floor : Lapsed(a) \/ a \in call[c].ok
           /\ call[c].ok \subseteq Uids /\ call[c].floor \subseteq Uids
           /\ \A u \in call[c].ok : u \in Reach(StoreOf[c]) /\ Sound(u)
<1>1. CallSees(c) /\ CallGood(call[c], att)
  BY Sets DEF KInv
<1> QED
  BY <1>1 DEF CallSees, CallGood, Resolved, Uids

(* prepareWrite picks a version above every record of the floor, and the   *)
(* floor has no two branches.                                              *)
LEMMA WriteIsSafe ==
    ASSUME KInv, NEW c \in Calls, MayWrite(c)
    PROVE  /\ Prepared(c).floor \subseteq Uids
           /\ \A a \in Prepared(c).floor : Lapsed(a) \/ att[a].version < Prepared(c).version
           /\ \A a, b \in Prepared(c).floor :
                 Siblings(a, b, Prev) => Lapsed(a) \/ Lapsed(b)
<1>1. Resolved(c, {"set", "delete", "get", "history"})
  BY DEF MayWrite, Resolved, WriteKinds
<1>2. /\ \A a \in call[c].floor : Lapsed(a) \/ a \in call[c].ok
      /\ call[c].floor \subseteq Uids
  BY <1>1, FloorVerified
<1>3. /\ Prepared(c).floor = call[c].floor
      /\ \A a \in call[c].ok : att[a].version < Prepared(c).version
  BY PreparedLinks DEF KInv
<1>4. \A a, b \in call[c].ok : ~Siblings(a, b, Prev)
  BY DEF MayWrite, Resolution, Status, ForkFree
<1> QED
  BY <1>2, <1>3, <1>4

LEMMA IssueExtends ==
    ASSUME KInv, NEW c \in Calls, MayWrite(c), att' = Append(att, Prepared(c)), Grows
    PROVE  WritesExtendKnown' /\ ForkedHistoryIsRefused'
<1> DEFINE e == Prepared(c)
           n == Len(att) + 1
<1>1. att \in Seq(Attestation) /\ \A u \in Uids : att[u].floor \subseteq Uids
  BY DEF KInv, IInv, TypeOK
<1>2. e \in Attestation
  BY PreparedLinks DEF KInv
<1>3. /\ Uids' = Uids \cup {n} /\ n \notin Uids
      /\ \A u \in Uids : att'[u] = att[u]
      /\ att'[n] = e
  BY <1>1, <1>2, AttGrows DEF Uids
<1>4. /\ \A u \in Uids : Lapsed(u) => Lapsed(u)'
      /\ \A u \in Uids : Prev'[u] = Prev[u]
  BY <1>3, Forever DEF Prev
<1>5. /\ e.floor \subseteq Uids
      /\ \A a \in e.floor : Lapsed(a) \/ att[a].version < e.version
      /\ \A a, b \in e.floor : Siblings(a, b, Prev) => Lapsed(a) \/ Lapsed(b)
  BY WriteIsSafe
<1> HIDE DEF e, n
<1>6. ASSUME NEW u \in Uids', NEW a \in att'[u].floor
      PROVE  Lapsed(a)' \/ att'[a].version < att'[u].version
  <2>1. CASE u = n
    BY <1>3, <1>4, <1>5, <1>6, <2>1
  <2>2. CASE u \in Uids
    BY <1>1, <1>3, <1>4, <1>6, <2>2 DEF KInv, WritesExtendKnown
  <2> QED
    BY <1>3, <2>1, <2>2
<1>7. ASSUME NEW u \in Uids', NEW a \in att'[u].floor, NEW b \in att'[u].floor,
             Siblings(a, b, Prev')
      PROVE  Lapsed(a)' \/ Lapsed(b)'
  <2>1. CASE u = n
    BY <1>3, <1>4, <1>5, <1>7, <2>1 DEF Siblings
  <2>2. CASE u \in Uids
    BY <1>1, <1>3, <1>4, <1>7, <2>2 DEF KInv, ForkedHistoryIsRefused, Siblings
  <2> QED
    BY <1>3, <2>1, <2>2
<1> QED
  BY <1>6, <1>7 DEF WritesExtendKnown, ForkedHistoryIsRefused

(* A writer that waits for its transaction, or is about to check it.       *)
LEMMA WriterSees ==
    ASSUME KInv, Grows, NEW c \in Calls, NEW p \in {"wait", "check"}, NEW n,
           call' = [call EXCEPT ![c] = [call[c] EXCEPT !.pc = p, !.uid = n]],
           cache[StoreOf[c]] \subseteq cache'[StoreOf[c]],
           p = "check" => n \in cache'[StoreOf[c]]
    PROVE  CallSees(c)'
<1> DEFINE r == call[c]
           s == StoreOf[c]
           q == [r EXCEPT !.pc = p, !.uid = n]
<1>1. CallSees(c) /\ CallGood(r, att) /\ r \in CallState /\ IndexerOf[s] \in Indexers
  BY Sets DEF KInv
<1>2. r.raw \subseteq Uids /\ r.ok \subseteq Uids /\ r.floor \subseteq Uids
  BY <1>1 DEF CallGood, Uids
<1>3. Reach(s) \subseteq Reach(s)'
  BY <1>1 DEF Grows, Reach
<1>4. \A u \in Uids : (Sound(u) => Sound(u)') /\ att'[u] = att[u]
  BY Forever
<1>5. /\ q.raw = r.raw /\ q.ok = r.ok /\ q.floor = r.floor /\ q.kind = r.kind
      /\ q.by = r.by /\ q.pc = p /\ q.uid = n
  BY <1>1 DEF CallState
<1>6. call'[c] = q
  BY Sets DEF KInv
<1>7. /\ q.raw \subseteq Reach(s)'
      /\ \A a \in q.floor : Sound(a)' /\ att'[a].by \in Trusts[s]
      /\ q.kind \in {"set", "delete", "get", "history"} => q.by = Signers
      /\ q.kind = "query" => q.by \in Filters
      /\ \A w \in q.ok : Sound(w)'
  BY <1>1, <1>2, <1>3, <1>4, <1>5 DEF CallSees
<1> HIDE DEF q
<1> QED
  BY <1>5, <1>6, <1>7 DEF CallSees

LEMMA StoreSees ==
    ASSUME KInv, IInv', Grows, NEW c \in Calls, NEW n, Store(c, n),
           UNCHANGED known, WritesExtendKnown', ForkedHistoryIsRefused'
    PROVE  KInv'
<1>1. /\ cache' = [cache EXCEPT ![StoreOf[c]] = @ \cup {n}]
      /\ cache \in [Stores -> SUBSET Uids] /\ StoreOf[c] \in Stores
  BY Sets DEF Store, Cached, KInv
<1>2. \A s \in Stores : cache[s] \subseteq cache'[s] /\ KnownIn(s)'
  BY <1>1, StillKnown
<1>3. n \in cache'[StoreOf[c]]
  BY <1>1
<1>4. \/ call' = [call EXCEPT ![c] = [call[c] EXCEPT !.pc = "check", !.uid = n]]
      \/ call' = [call EXCEPT ![c] = IdleCall]
  BY DEF Store, Finish
<1>5. CallSees(c)'
  <2>1. CASE call' = [call EXCEPT ![c] = IdleCall]
    BY <2>1, IdleSees, Sets DEF KInv
  <2>2. CASE call' = [call EXCEPT ![c] = [call[c] EXCEPT !.pc = "check", !.uid = n]]
    BY <1>1, <1>2, <1>3, <2>2, WriterSees
  <2> QED
    BY <1>4, <2>1, <2>2
<1>6. \A d \in Calls \ {c} : call'[d] = call[d]
  BY <1>4, Sets DEF KInv
<1> QED
  BY <1>2, <1>5, <1>6, OneCallMoves

LEMMA SignSees ==
    ASSUME KInv, IInv', NEW c \in Calls, Sign(c) PROVE KInv'
<1>1. /\ MayWrite(c) /\ att' = Append(att, Prepared(c)) /\ Store(c, Len(att) + 1)
      /\ UNCHANGED <<mined, revoked, expired, stamped, known>>
      /\ index' = Indexed(StoreOf[c], Len(att) + 1) \/ index' = index
  BY DEF Sign, Store
<1>2. Grows
  <2>1. Prepared(c) \in Attestation /\ att \in Seq(Attestation)
    BY <1>1, PreparedLinks DEF KInv, IInv, TypeOK
  <2>2. \A u \in Uids : u \in Uids' /\ att'[u] = att[u]
    BY <1>1, <2>1, AttGrows
  <2>3. \A i \in Indexers : index[i] \subseteq index'[i]
    BY <1>1, Sets DEF KInv, Indexed
  <2> QED
    BY <1>1, <2>2, <2>3 DEF Grows
<1>3. WritesExtendKnown' /\ ForkedHistoryIsRefused'
  BY <1>1, <1>2, IssueExtends
<1> QED
  BY <1>1, <1>2, <1>3, StoreSees

LEMMA SendSees ==
    ASSUME KInv, IInv', NEW c \in Calls, Send(c) PROVE KInv'
<1>1. /\ MayWrite(c) /\ att' = Append(att, Prepared(c))
      /\ UNCHANGED <<mined, revoked, expired, stamped, index, cache, known>>
      /\ call' = [call EXCEPT ![c] = [call[c] EXCEPT !.pc = "wait", !.uid = Len(att) + 1]]
  BY DEF Send
<1>2. Grows
  <2>1. Prepared(c) \in Attestation /\ att \in Seq(Attestation)
    BY <1>1, PreparedLinks DEF KInv, IInv, TypeOK
  <2>2. \A u \in Uids : u \in Uids' /\ att'[u] = att[u]
    BY <1>1, <2>1, AttGrows
  <2> QED
    BY <1>1, <2>2 DEF Grows
<1>3. WritesExtendKnown' /\ ForkedHistoryIsRefused'
  BY <1>1, <1>2, IssueExtends
<1>4. CallSees(c)'
  BY <1>1, <1>2, WriterSees
<1>5. \A s \in Stores : cache[s] \subseteq cache'[s] /\ KnownIn(s)'
  BY <1>1, <1>2, StillKnown
<1>6. \A d \in Calls \ {c} : call'[d] = call[d]
  BY <1>1, Sets DEF KInv
<1> QED
  BY <1>2, <1>3, <1>4, <1>5, <1>6, OneCallMoves

LEMMA ConfirmSees ==
    ASSUME KInv, IInv', NEW c \in Calls, Confirm(c) PROVE KInv'
<1>1. /\ Store(c, call[c].uid) /\ UNCHANGED <<att, revoked, expired, stamped, known>>
      /\ index' = Indexed(StoreOf[c], call[c].uid) \/ index' = index
  BY DEF Confirm, Store
<1>2. \A i \in Indexers : index[i] \subseteq index'[i]
  BY <1>1, Sets DEF KInv, Indexed
<1>3. Grows
  BY <1>1, <1>2 DEF Grows, Uids
<1> QED
  BY <1>1, <1>3, StillExtends, StoreSees

(* What a call hands to its session passed verification, and the session   *)
(* or its indexer holds it.                                                *)
LEMMA ReturnSees ==
    ASSUME KInv, IInv', NEW c \in Calls,
           CheckWrite(c) \/ ReturnGet(c) \/ ReturnHistory(c) \/ ReturnQuery(c)
    PROVE  KInv'
<1> DEFINE s == StoreOf[c]
<1>1. CallSees(c) /\ CallGood(call[c], att) /\ IInv
  BY Sets DEF KInv
<1>2. call[c].ok \in SUBSET Uids /\ \A u \in call[c].ok : u \in Reach(s) /\ Sound(u)
  BY <1>1 DEF CallSees, CallGood, Uids
<1>3. CASE CheckWrite(c)
  <2> DEFINE u == call[c].uid
  <2>1. u \in Uids /\ u \in Reach(s)
    BY <1>1, <1>3 DEF CheckWrite, CallGood, CallSees, Reach, Uids
  <2>2. \/ Return(c, {})
        \/ Return(c, {u}) /\ Verifies(s, u)
    BY <1>3 DEF CheckWrite
  <2>3. Verifies(s, u) => Sound(u)
    BY DEF Verifies, Sound
  <2>4. CASE Return(c, {})
    BY <1>3, <2>4, Ends DEF CheckWrite
  <2>5. CASE Return(c, {u}) /\ Verifies(s, u)
    BY <1>3, <2>1, <2>3, <2>5, Ends DEF CheckWrite
  <2> QED
    BY <2>2, <2>4, <2>5
<1>4. CASE ReturnGet(c)
  <2>1. GetResult(c) \subseteq call[c].ok
    BY <1>1, <1>2, LatestIsNewest DEF GetResult, Resolution, LatestOf
  <2>2. GetResult(c) \in SUBSET Uids /\ \A u \in GetResult(c) : u \in Reach(s) /\ Sound(u)
    BY <1>2, <2>1
  <2> QED
    BY <1>4, <2>2, Ends DEF ReturnGet
<1>5. CASE ReturnHistory(c)
  <2> DEFINE res == IF RefusesHistory(c) THEN {} ELSE call[c].ok
  <2>1. res \in SUBSET Uids /\ \A u \in res : u \in Reach(s) /\ Sound(u)
    BY <1>2
  <2> QED
    BY <1>5, <2>1, Ends DEF ReturnHistory
<1>6. CASE ReturnQuery(c)
  <2>1. QueryResult(c) \subseteq call[c].ok
    BY <1>1, <1>2, LatestIsNewest DEF QueryResult
  <2>2. QueryResult(c) \in SUBSET Uids /\ \A u \in QueryResult(c) : u \in Reach(s) /\ Sound(u)
    BY <1>2, <2>1
  <2> QED
    BY <1>6, <2>2, Ends DEF ReturnQuery
<1> QED
  BY <1>3, <1>4, <1>5, <1>6

(* The chain, the indexer and the clock. *)
LEMMA EnvironmentSees ==
    ASSUME KInv, IInv', Grows, UNCHANGED <<att, cache, call, known>> PROVE KInv'
<1>1. \A c \in Calls : CallSees(c)'
  BY StillSees
<1>2. \A s \in Stores : KnownIn(s)'
  BY StillKnown
<1> QED
  BY <1>1, <1>2, StillExtends DEF KInv

(* A session that starts again knows what its indexer holds. *)
LEMMA RestartSees ==
    ASSUME KInv, IInv', NEW s \in Stores, Restart(s) PROVE KInv'
<1>1. /\ UNCHANGED <<att, mined, revoked, expired, stamped, index>>
      /\ cache' = [cache EXCEPT ![s] = {}]
      /\ known' = [known EXCEPT ![s] = @ \cap index[IndexerOf[s]]]
      /\ call' = [c \in Calls |-> IF StoreOf[c] = s THEN IdleCall ELSE call[c]]
  BY DEF Restart
<1>2. Grows
  BY <1>1, SameGrows
<1>3. ASSUME NEW c \in Calls PROVE CallSees(c)'
  <2>1. CASE StoreOf[c] = s
    BY <1>1, <2>1, IdleSees
  <2>2. CASE StoreOf[c] # s
    <3>1. call'[c] = call[c] /\ cache'[StoreOf[c]] = cache[StoreOf[c]]
      BY <1>1, <2>2, Sets DEF KInv
    <3> QED
      BY <1>2, <3>1, StillSees
  <2> QED
    BY <2>1, <2>2
<1>4. ASSUME NEW t \in Stores PROVE KnownIn(t)'
  <2>1. CASE t = s
    <3>1. known'[s] = known[s] \cap index[IndexerOf[s]]
      BY <1>1, Sets DEF KInv
    <3>2. \A u \in known'[s] : u \in Reach(s)' /\ Sound(u)'
      BY <1>1, <3>1 DEF KInv, KnownIn, Reach, Sound
    <3> QED
      BY <2>1, <3>2 DEF KnownIn
  <2>2. CASE t # s
    <3>1. known'[t] = known[t] /\ cache'[t] = cache[t]
      BY <1>1, <2>2, Sets DEF KInv
    <3> QED
      BY <1>2, <3>1, StillKnown
  <2> QED
    BY <2>1, <2>2
<1> QED
  BY <1>1, <1>2, <1>3, <1>4, StillExtends DEF KInv

-----------------------------------------------------------------------------
(* The theorems *)

(* Every step preserves the invariant, action by action. *)
THEOREM StepSees ==
    ASSUME "storage" \notin Faults
    PROVE  KInv /\ [Next]_vars => KInv'
<1> SUFFICES ASSUME KInv, [Next]_vars PROVE KInv'
  OBVIOUS
<1>1. IInv'
  BY StepKeeps DEF KInv
<1>2. ASSUME NEW c \in Calls, BeginWrite(c) PROVE KInv'
  <2>1. PICK k \in Keys : \/ \E opt \in Options : Begin(c, "set", {k}, Signers, opt)
                         \/ Begin(c, "delete", {k}, Signers, "plain")
    BY <1>2 DEF BeginWrite
  <2> QED
    BY <1>1, <2>1, BeginSees
<1>3. ASSUME NEW c \in Calls, BeginRead(c) PROVE KInv'
  <2>1. ASSUME NEW k \in Keys, NEW kind \in {"get", "history"},
               Begin(c, kind, {k}, Signers, "plain")
        PROVE  KInv'
    BY <1>1, <2>1, BeginSees
  <2>2. ASSUME NEW by \in Filters, Begin(c, "query", Keys, by, "plain") PROVE KInv'
    BY <1>1, <2>2, BeginSees
  <2> QED
    BY <1>3, <2>1, <2>2 DEF BeginRead
<1>4. ASSUME NEW c \in Calls, QueryIndex(c) PROVE KInv'
  BY <1>1, <1>4, QuerySees
<1>5. ASSUME NEW c \in Calls, VerifyNext(c) PROVE KInv'
  BY <1>1, <1>5, VerifySees
<1>6. ASSUME NEW c \in Calls, RefuseWrite(c) \/ Reject(c) PROVE KInv'
  BY <1>1, <1>6, Rejects DEF RefuseWrite, Reject
<1>7. ASSUME NEW c \in Calls, Sign(c) PROVE KInv'
  BY <1>1, <1>7, SignSees
<1>8. ASSUME NEW c \in Calls, Send(c) PROVE KInv'
  BY <1>1, <1>8, SendSees
<1>9. ASSUME NEW c \in Calls, Confirm(c) PROVE KInv'
  BY <1>1, <1>9, ConfirmSees
<1>10. ASSUME NEW c \in Calls,
              CheckWrite(c) \/ ReturnGet(c) \/ ReturnHistory(c) \/ ReturnQuery(c)
       PROVE  KInv'
  BY <1>1, <1>10, ReturnSees
<1>11. ASSUME NEW u \in Uids, Mine(u) \/ Revoke(u) \/ Expire(u) PROVE KInv'
  <2>1. Grows
    BY <1>11 DEF Mine, Revoke, Expire, Grows, Uids
  <2> QED
    BY <1>1, <1>11, <2>1, EnvironmentSees DEF Mine, Revoke, Expire
<1>12. ASSUME NEW i \in Indexers, NEW u \in Uids, Discover(i, u) PROVE KInv'
  <2>1. \A j \in Indexers : index[j] \subseteq index'[j]
    BY <1>12, Sets DEF Discover, KInv
  <2>2. Grows
    BY <1>12, <2>1 DEF Discover, Grows, Uids
  <2> QED
    BY <1>1, <1>12, <2>2, EnvironmentSees DEF Discover
<1>13. ASSUME NEW U \in SUBSET Findable, Timestamp(U) PROVE KInv'
  <2>1. Grows
    BY <1>13 DEF Timestamp, Grows, Uids
  <2> QED
    BY <1>1, <1>13, <2>1, EnvironmentSees DEF Timestamp
<1>14. ASSUME NEW s \in Stores, Restart(s) PROVE KInv'
  BY <1>1, <1>14, RestartSees
<1>15. CASE UNCHANGED vars
  BY <1>1, <1>15, SameGrows, EnvironmentSees DEF vars
<1> QED
  BY <1>2, <1>3, <1>4, <1>5, <1>6, <1>7, <1>8, <1>9, <1>10, <1>11, <1>12,
     <1>13, <1>14, <1>15 DEF Next, Progress

LEMMA InitSees == Init => KInv
<1> SUFFICES ASSUME Init PROVE KInv
  OBVIOUS
<1>1. IInv
  BY InitGood
<1>2. Uids = {}
  BY DEF Init, Uids
<1>3. \A c \in Calls : CallSees(c)
  BY DEF Init, CallSees, IdleCall
<1>4. \A s \in Stores : KnownIn(s)
  BY DEF Init, KnownIn
<1> QED
  BY <1>1, <1>2, <1>3, <1>4 DEF KInv, WritesExtendKnown, ForkedHistoryIsRefused

THEOREM KInvHolds ==
    ASSUME "storage" \notin Faults
    PROVE  Spec => []KInv
<1>1. Init => KInv
  BY InitSees
<1>2. KInv /\ [Next]_vars => KInv'
  BY StepSees
<1> QED
  BY <1>1, <1>2, PTL DEF Spec

(* No lost update: whatever sessions race, transactions linger and indexes *)
(* lag, a write supersedes all that its session was told before it wrote.  *)
THEOREM NoLostUpdate ==
    ASSUME "storage" \notin Faults
    PROVE  Spec => []WritesExtendKnown
<1>1. KInv => WritesExtendKnown
  BY DEF KInv
<1> QED
  BY <1>1, KInvHolds, PTL

(* A fork that a session could know of is never continued. *)
THEOREM ForksAreNotContinued ==
    ASSUME "storage" \notin Faults
    PROVE  Spec => []ForkedHistoryIsRefused
<1>1. KInv => ForkedHistoryIsRefused
  BY DEF KInv
<1> QED
  BY <1>1, KInvHolds, PTL

(* get() and history() do not go back. *)
THEOREM ReadsDoNotGoBack ==
    ASSUME "storage" \notin Faults
    PROVE  Spec => []ReadsFresh
<1>1. KInv => ReadsFresh
  <2> SUFFICES ASSUME KInv, NEW c \in Calls, NEW a \in call[c].floor, ~Lapsed(a)
               PROVE  /\ Resolved(c, {"get"}) => \A h \in GetResult(c) : Supersedes(h, a)
                      /\ Resolved(c, {"history"}) => RefusesHistory(c) \/ a \in call[c].ok
    BY DEF ReadsFresh
  <2>1. ASSUME Resolved(c, {"get"}) \/ Resolved(c, {"history"})
        PROVE  a \in call[c].ok /\ call[c].ok \in SUBSET Uids
    BY <2>1, FloorVerified DEF Resolved
  <2>2. ASSUME Resolved(c, {"get"}), NEW h \in GetResult(c) PROVE Supersedes(h, a)
    <3>1. Resolution(c) = "canonical" /\ h = LatestOf(c)
      BY <2>2 DEF GetResult
    <3> QED
      BY <2>1, <2>2, <3>1, LatestIsNewest DEF Resolution, LatestOf, KInv
  <2> QED
    BY <2>1, <2>2
<1> QED
  BY <1>1, KInvHolds, PTL

(* Without an attester filter, query() and scan() return canonical heads.  *)
(* (With one they do not: the run "filter" shows it.)                      *)
THEOREM ScansAreCanonical ==
    ASSUME "storage" \notin Faults, Filters \subseteq {Signers}
    PROVE  Spec => []ScanReturnsCanonicalHeads
<1>1. KInv => ScanReturnsCanonicalHeads
  <2> SUFFICES ASSUME KInv, NEW c \in Calls, Resolved(c, {"query"}),
                      NEW h \in QueryResult(c), NEW a \in call[c].floor,
                      att[a].key = att[h].key, ~Lapsed(a)
               PROVE  Supersedes(h, a)
    BY DEF ScanReturnsCanonicalHeads
  <2>1. call[c].by = Signers
    BY DEF KInv, CallSees, Resolved
  <2>2. a \in call[c].ok /\ call[c].ok \in SUBSET Uids
    BY <2>1, FloorVerified
  <2> DEFINE bucket(k) == {u \in call[c].ok : att[u].key = k}
  <2>3. PICK k \in Keys : Status(bucket(k), Prev) = "canonical"
                          /\ h = ChainHead(bucket(k), Prev)
    BY DEF QueryResult
  <2>4. bucket(k) \in SUBSET Uids
    BY <2>2
  <2>5. h \in bucket(k) /\ \A b \in bucket(k) : Supersedes(h, b)
    BY <2>3, <2>4, LatestIsNewest DEF KInv
  <2>6. a \in bucket(k)
    BY <2>2, <2>5
  <2> QED
    BY <2>5, <2>6
<1> QED
  BY <1>1, KInvHolds, PTL

-----------------------------------------------------------------------------
(* Durability *)

(* With a local indexer that never throws, write() leaves the cache and    *)
(* the index in step.                                                      *)
CacheIndexed == \A s \in Stores : cache[s] \subseteq index[IndexerOf[s]]

LEMMA StoreIndexes ==
    ASSUME IInv, CacheIndexed, Scope = "local", "index" \notin Faults,
           NEW c \in Calls, NEW u, Store(c, u)
    PROVE  CacheIndexed'
<1> DEFINE s == StoreOf[c]
<1>1. /\ cache' = [cache EXCEPT ![s] = @ \cup {u}]
      /\ index' = [index EXCEPT ![IndexerOf[s]] = @ \cup {u}]
  BY DEF Store, Cached, Indexed, IndexMayThrow
<1>2. \A p \in Stores : cache'[p] \subseteq cache[p] \cup (IF p = s THEN {u} ELSE {})
  BY <1>1, Sets
<1>3. \A i \in Indexers : index[i] \subseteq index'[i]
  BY <1>1, Sets
<1>4. u \in index'[IndexerOf[s]] /\ \A p \in Stores : IndexerOf[p] \in Indexers
  BY <1>1, Sets
<1> QED
  BY <1>2, <1>3, <1>4 DEF CacheIndexed

LEMMA StepIndexes ==
    ASSUME IInv, CacheIndexed, Scope = "local", "index" \notin Faults, [Next]_vars
    PROVE  CacheIndexed'
<1>1. ASSUME UNCHANGED <<cache, index>> PROVE CacheIndexed'
  BY <1>1 DEF CacheIndexed
<1>2. ASSUME NEW c \in Calls, BeginWrite(c) \/ BeginRead(c) PROVE CacheIndexed'
  BY <1>1, <1>2 DEF BeginWrite, BeginRead, Begin
<1>3. ASSUME NEW c \in Calls, Progress(c) \/ Reject(c) PROVE CacheIndexed'
  <2>1. CASE Sign(c)
    BY <2>1, StoreIndexes DEF Sign
  <2>2. CASE Confirm(c)
    BY <2>2, StoreIndexes DEF Confirm
  <2>3. CASE Send(c)
    BY <2>3, <1>1 DEF Send
  <2>4. CASE QueryIndex(c)
    BY <2>4, <1>1 DEF QueryIndex
  <2>5. CASE VerifyNext(c)
    BY <2>5, <1>1 DEF VerifyNext
  <2>6. CASE RefuseWrite(c) \/ Reject(c)
    BY <2>6, <1>1 DEF RefuseWrite, Reject
  <2>7. CASE CheckWrite(c) \/ ReturnGet(c) \/ ReturnHistory(c) \/ ReturnQuery(c)
    BY <2>7, <1>1 DEF CheckWrite, ReturnGet, ReturnHistory, ReturnQuery
  <2> QED
    BY <1>3, <2>1, <2>2, <2>3, <2>4, <2>5, <2>6, <2>7 DEF Progress
<1>4. ASSUME NEW u \in Uids, Mine(u) \/ Revoke(u) \/ Expire(u) PROVE CacheIndexed'
  BY <1>1, <1>4 DEF Mine, Revoke, Expire
<1>5. ASSUME NEW i \in Indexers, NEW u \in Uids PROVE ~Discover(i, u)
  BY DEF Discover
<1>6. ASSUME NEW U, Timestamp(U) PROVE CacheIndexed'
  BY <1>1, <1>6 DEF Timestamp
<1>7. ASSUME NEW s \in Stores, Restart(s) PROVE CacheIndexed'
  <2>1. index' = index /\ \A p \in Stores : cache'[p] \subseteq cache[p]
    BY <1>7, Sets DEF Restart
  <2> QED
    BY <2>1 DEF CacheIndexed
<1>8. CASE UNCHANGED vars
  BY <1>1, <1>8 DEF vars
<1> QED
  BY <1>2, <1>3, <1>4, <1>5, <1>6, <1>7, <1>8 DEF Next

(* A local indexer holds whatever a session was acknowledged or given, so  *)
(* a restart of the session, or another one that shares the indexer, finds *)
(* it.  With "index" among the faults a record can be cached and returned  *)
(* by a later read without ever being indexed.                             *)
THEOREM AcknowledgedIsIndexed ==
    ASSUME Scope = "local", "index" \notin Faults, "storage" \notin Faults
    PROVE  Spec => []AcknowledgedIsDurable
<1>1. Init => CacheIndexed
  BY DEF Init, CacheIndexed
<1>2. IInv /\ CacheIndexed /\ [Next]_vars => CacheIndexed'
  BY StepIndexes
<1>3. Spec => []CacheIndexed
  BY <1>1, <1>2, Inductive, PTL DEF Spec
<1>4. KInv /\ CacheIndexed => AcknowledgedIsDurable
  BY DEF KInv, KnownIn, Reach, CacheIndexed, AcknowledgedIsDurable
<1> QED
  BY <1>3, <1>4, KInvHolds, PTL

-----------------------------------------------------------------------------
(* What is published *)

(* Whatever a session can load has been published, and so has every record *)
(* that another one continues.                                             *)
PubInv ==
    /\ IInv
    /\ Mode = "offchain" => mined = {}
    /\ \A s \in Stores : cache[s] \subseteq Public
    /\ \A i \in Indexers : index[i] \subseteq Public
    /\ \A c \in Calls : call[c].raw \subseteq Public
    /\ \A u \in Uids : Prev[u] \in Public \cup {ZERO_UID}

PublishedLinked ==
    \A k \in Keys :
        /\ Published(k) \in SUBSET Uids
        /\ Issued(Published(k), Prev, Versions)
        /\ Linked(Published(k), Prev)

LEMMA PublishedIsLinked == PubInv => PublishedLinked
<1> SUFFICES ASSUME PubInv, NEW k \in Keys
             PROVE  /\ Published(k) \in SUBSET Uids
                    /\ Issued(Published(k), Prev, Versions)
                    /\ Linked(Published(k), Prev)
  BY DEF PublishedLinked
<1>1. Published(k) = {u \in Public : att[u].key = k}
  BY DEF Published, Public
<1>2. Public \subseteq Uids
  BY Sets DEF PubInv, Public, Findable
<1>3. Published(k) \in SUBSET Uids
  BY <1>1, <1>2
<1>4. Issued(Published(k), Prev, Versions)
  BY <1>3, StoreIssues DEF PubInv
<1>5. ASSUME NEW u \in Published(k), Prev[u] # ZERO_UID PROVE Prev[u] \in Published(k)
  <2>1. u \in Uids /\ att[u].key = k /\ Prev[u] = att[u].prev
    BY <1>1, <1>2 DEF Prev
  <2>2. att[att[u].prev].key = k
    BY <1>5, <2>1 DEF PubInv, IInv, LinkedVersions
  <2>3. Prev[u] \in Public
    BY <1>5, <2>1 DEF PubInv
  <2> QED
    BY <1>1, <2>1, <2>2, <2>3
<1> QED
  BY <1>3, <1>4, <1>5 DEF Linked

LEMMA InitPub == Init => PubInv
<1> SUFFICES ASSUME Init PROVE PubInv
  OBVIOUS
<1>1. Uids = {} /\ \A c \in Calls : call[c].raw = {}
  BY DEF Init, Uids, IdleCall
<1> QED
  BY <1>1, InitGood DEF Init, PubInv

(* A step of calls alone publishes nothing.                                *)
LEMMA SamePublic ==
    ASSUME PubInv, IInv', UNCHANGED <<att, mined, index>>,
           \A s \in Stores : cache'[s] \subseteq Public,
           \A c \in Calls : call'[c].raw \subseteq Public
    PROVE  PubInv' /\ Public' = Public
<1>1. Public' = Public /\ Uids' = Uids /\ Prev' = Prev
  BY DEF Public, Findable, Uids, Prev
<1> QED
  BY <1>1 DEF PubInv

(* One call moves and loads nothing new.                                   *)
LEMMA CallKeepsPublic ==
    ASSUME PubInv, IInv', NEW c \in Calls, NEW r, call' = [call EXCEPT ![c] = r],
           r.raw \subseteq Public, UNCHANGED <<att, mined, index, cache>>
    PROVE  PubInv' /\ Public' = Public
<1>1. \A d \in Calls : call'[d].raw \subseteq Public
  BY Sets DEF PubInv
<1>2. \A s \in Stores : cache'[s] \subseteq Public
  BY DEF PubInv
<1> QED
  BY <1>1, <1>2, SamePublic

LEMMA EndKeepsPublic ==
    ASSUME PubInv, IInv', NEW c \in Calls, Finish(c),
           UNCHANGED <<att, mined, index, cache>>
    PROVE  PubInv' /\ Public' = Public
<1>1. call' = [call EXCEPT ![c] = IdleCall] /\ IdleCall.raw = {}
  BY DEF Finish, IdleCall
<1> QED
  BY <1>1, CallKeepsPublic

LEMMA BeginKeepsPublic ==
    ASSUME PubInv, IInv', NEW c \in Calls, NEW kind, NEW keys, NEW by, NEW opt,
           Begin(c, kind, keys, by, opt)
    PROVE  PubInv' /\ Public' = Public
<1> DEFINE s == StoreOf[c]
           found == Matching(Loads(s), keys, by)
           r == [IdleCall EXCEPT
                   !.pc = IF Scope = "local" THEN "verify" ELSE "query",
                   !.kind = kind, !.keys = keys, !.by = by, !.opt = opt,
                   !.raw = found, !.todo = found, !.floor = Floor(s, keys)]
<1>1. cache[s] \subseteq Public /\ index[IndexerOf[s]] \subseteq Public
  BY Sets DEF PubInv
<1>2. found \subseteq Public
  BY <1>1 DEF Matching, Loads
<1>3. call' = [call EXCEPT ![c] = r] /\ UNCHANGED <<att, mined, index, cache>>
  BY DEF Begin
<1> HIDE DEF found
<1>4. r.raw = found
  BY DEF IdleCall
<1> HIDE DEF r
<1> QED
  BY <1>2, <1>3, <1>4, CallKeepsPublic

(* The predecessor that a write picks has been published.                  *)
LEMMA PreparedPublic ==
    ASSUME PubInv, NEW c \in Calls, MayWrite(c)
    PROVE  Prepared(c).prev \in Public \cup {ZERO_UID}
<1>1. call[c].ok \subseteq call[c].raw /\ call[c].raw \subseteq Public
      /\ call[c].ok \in SUBSET Uids
  BY Sets DEF PubInv, CallGood, Uids
<1>2. CASE call[c].ok = {}
  BY <1>2 DEF Prepared
<1>3. CASE call[c].ok # {}
  <2>1. Status(call[c].ok, Prev) = "canonical"
    BY <1>3 DEF MayWrite, Resolution, Status
  <2>2. LatestOf(c) \in call[c].ok
    BY <1>1, <2>1, LatestIsNewest DEF PubInv, LatestOf
  <2>3. Prepared(c).prev = LatestOf(c)
    BY <1>3 DEF Prepared
  <2> QED
    BY <1>1, <2>2, <2>3
<1> QED
  BY <1>2, <1>3

(* How the published records may change in a step.                         *)
PublishesOne ==
    \E u \in Uids' \ Public :
        Public' = Public \cup {u} /\ Prev'[u] \in Public \cup {ZERO_UID}

LEMMA SendPublishes ==
    ASSUME PubInv, IInv', NEW c \in Calls, Send(c)
    PROVE  PubInv' /\ Public' = Public
<1> DEFINE n == Len(att) + 1
<1>1. Prepared(c) \in Attestation /\ Prepared(c).prev \in Public \cup {ZERO_UID}
  BY PreparedLinks, PreparedPublic DEF Send, PubInv
<1>2. att \in Seq(Attestation) /\ att' = Append(att, Prepared(c))
  BY DEF PubInv, IInv, TypeOK, Send
<1>3. /\ Uids' = Uids \cup {n}
      /\ \A u \in Uids : att'[u] = att[u]
      /\ att'[n] = Prepared(c)
  BY <1>1, <1>2, AttGrows
<1>4. Mode = "onchain" /\ Public' = Public /\ mined' = mined
      /\ index' = index /\ cache' = cache
  BY DEF Send, Public
<1>5. \A u \in Uids' : Prev'[u] \in Public \cup {ZERO_UID}
  <2>1. \A u \in Uids' : Prev'[u] = att'[u].prev
    BY DEF Prev
  <2>2. \A u \in Uids : att[u].prev \in Public \cup {ZERO_UID}
    BY DEF PubInv, Prev
  <2> QED
    BY <1>1, <1>3, <2>1, <2>2
<1>6. \A d \in Calls : call'[d].raw = call[d].raw
  <2>1. call' = [call EXCEPT ![c] = [call[c] EXCEPT !.pc = "wait", !.uid = n]]
    BY DEF Send
  <2>2. call \in [Calls -> CallState]
    BY Sets DEF PubInv
  <2>3. [call[c] EXCEPT !.pc = "wait", !.uid = n].raw = call[c].raw
    BY <2>2 DEF CallState
  <2> QED
    BY <2>1, <2>2, <2>3
<1> QED
  BY <1>4, <1>5, <1>6 DEF PubInv

LEMMA SignPublishes ==
    ASSUME PubInv, IInv', NEW c \in Calls, Sign(c),
           Mode = "offchain" => "index" \notin Faults
    PROVE  PubInv' /\ PublishesOne
<1> DEFINE n == Len(att) + 1
           s == StoreOf[c]
           i == IndexerOf[s]
<1>1. Prepared(c) \in Attestation /\ Prepared(c).prev \in Public \cup {ZERO_UID}
  BY PreparedLinks, PreparedPublic DEF Sign, PubInv
<1>2. att \in Seq(Attestation) /\ att' = Append(att, Prepared(c))
  BY DEF PubInv, IInv, TypeOK, Sign
<1>3. /\ Uids' = Uids \cup {n} /\ n \notin Uids
      /\ \A u \in Uids : att'[u] = att[u]
      /\ att'[n] = Prepared(c)
  BY <1>1, <1>2, AttGrows DEF Uids
<1>4. Mode = "offchain" /\ Scope = "local" /\ Mode # "onchain"
  BY VerifiedReadSupport DEF Sign
<1>5. /\ cache' = [cache EXCEPT ![s] = @ \cup {n}]
      /\ index' = [index EXCEPT ![i] = @ \cup {n}]
      /\ call' = [call EXCEPT ![c] = [call[c] EXCEPT !.pc = "check", !.uid = n]]
      /\ mined' = mined
  BY <1>4 DEF Sign, Store, Cached, Indexed, IndexMayThrow
<1>6. /\ index \in [Indexers -> SUBSET Uids] /\ cache \in [Stores -> SUBSET Uids]
      /\ call \in [Calls -> CallState] /\ s \in Stores /\ i \in Indexers
  BY Sets DEF PubInv
<1>7. /\ \A j \in Indexers : index'[j] = index[j] \cup (IF j = i THEN {n} ELSE {})
      /\ \A p \in Stores : cache'[p] \subseteq cache[p] \cup {n}
  BY <1>5, <1>6
<1>8. Public = UNION {index[j] : j \in Indexers}
      /\ Public' = UNION {index'[j] : j \in Indexers}
  BY <1>4 DEF Public, Findable
<1>9. Public' = Public \cup {n} /\ n \notin Public
  BY <1>3, <1>6, <1>7, <1>8
<1>10. \A u \in Uids' : Prev'[u] \in Public \cup {ZERO_UID}
  <2>1. \A u \in Uids' : Prev'[u] = att'[u].prev
    BY DEF Prev
  <2>2. \A u \in Uids : att[u].prev \in Public \cup {ZERO_UID}
    BY DEF PubInv, Prev
  <2> QED
    BY <1>1, <1>3, <2>1, <2>2
<1>11. \A d \in Calls : call'[d].raw = call[d].raw
  <2>1. [call[c] EXCEPT !.pc = "check", !.uid = n].raw = call[c].raw
    BY <1>6 DEF CallState
  <2> QED
    BY <1>5, <1>6, <2>1
<1>12. \A j \in Indexers : index'[j] \subseteq Public'
  BY <1>8
<1>13. \A p \in Stores : cache'[p] \subseteq Public'
  BY <1>7, <1>9 DEF PubInv
<1>14. PubInv'
  BY <1>4, <1>5, <1>9, <1>10, <1>11, <1>12, <1>13 DEF PubInv
<1> QED
  BY <1>3, <1>9, <1>10, <1>14 DEF PublishesOne

LEMMA ConfirmPublishes ==
    ASSUME PubInv, IInv', NEW c \in Calls, Confirm(c)
    PROVE  PubInv' /\ Public' = Public
<1> DEFINE u == call[c].uid
           s == StoreOf[c]
           i == IndexerOf[s]
<1>1. u \in mined /\ Mode = "onchain" /\ mined' = mined /\ att' = att
  BY VerifiedReadSupport DEF Confirm, PubInv
<1>2. Public = mined /\ Public' = Public
  BY <1>1 DEF Public
<1>3. /\ cache' = [cache EXCEPT ![s] = @ \cup {u}]
      /\ index' = index \/ index' = [index EXCEPT ![i] = @ \cup {u}]
      /\ \/ call' = [call EXCEPT ![c] = [call[c] EXCEPT !.pc = "check", !.uid = u]]
         \/ call' = [call EXCEPT ![c] = IdleCall]
  BY DEF Confirm, Store, Cached, Indexed, Finish
<1>4. /\ index \in [Indexers -> SUBSET Uids] /\ cache \in [Stores -> SUBSET Uids]
      /\ call \in [Calls -> CallState]
  BY Sets DEF PubInv
<1>5. /\ \A j \in Indexers : index'[j] \subseteq index[j] \cup {u}
      /\ \A p \in Stores : cache'[p] \subseteq cache[p] \cup {u}
  BY <1>3, <1>4
<1>6. \A d \in Calls : call'[d].raw \subseteq call[d].raw
  <2>1. [call[c] EXCEPT !.pc = "check", !.uid = u].raw = call[c].raw /\ IdleCall.raw = {}
    BY <1>4 DEF CallState, IdleCall
  <2> QED
    BY <1>3, <1>4, <2>1
<1>7. Uids' = Uids /\ Prev' = Prev
  BY <1>1 DEF Uids, Prev
<1> QED
  BY <1>1, <1>2, <1>5, <1>6, <1>7 DEF PubInv

LEMMA MinePublishes ==
    ASSUME PubInv, IInv', NEW u \in Uids, Mine(u)
    PROVE  PubInv' /\ PublishesOne
<1>1. Mode = "onchain" /\ u \notin mined /\ mined' = mined \cup {u}
      /\ att' = att /\ index' = index /\ cache' = cache /\ call' = call
  BY DEF Mine
<1>2. Public = mined /\ Public' = Public \cup {u}
  BY <1>1 DEF Public
<1>3. Uids' = Uids /\ Prev' = Prev
  BY <1>1 DEF Uids, Prev
<1>4. PubInv'
  BY <1>1, <1>2, <1>3 DEF PubInv
<1> QED
  BY <1>1, <1>2, <1>3, <1>4 DEF PubInv, PublishesOne

LEMMA DiscoverPublishes ==
    ASSUME PubInv, IInv', NEW i \in Indexers, NEW u \in Uids, Discover(i, u)
    PROVE  PubInv' /\ Public' = Public
<1>1. Mode = "onchain" /\ u \in mined /\ mined' = mined
      /\ index' = [index EXCEPT ![i] = @ \cup {u}]
      /\ att' = att /\ cache' = cache /\ call' = call
  BY VerifiedReadSupport DEF Discover
<1>2. Public = mined /\ Public' = Public
  BY <1>1 DEF Public
<1>3. Uids' = Uids /\ Prev' = Prev
  BY <1>1 DEF Uids, Prev
<1>4. \A j \in Indexers : index'[j] \subseteq index[j] \cup {u}
  BY <1>1, Sets DEF PubInv
<1> QED
  BY <1>1, <1>2, <1>3, <1>4 DEF PubInv

(* Only Mine and Sign publish, one record at a time.                       *)
PublishesAtMostOne == PubInv' /\ (Public' = Public \/ PublishesOne)

LEMMA StepPublishes ==
    ASSUME PubInv, [Next]_vars, Mode = "offchain" => "index" \notin Faults
    PROVE  PublishesAtMostOne
<1>1. IInv'
  BY StepKeeps DEF PubInv
<1>2. ASSUME NEW c \in Calls, BeginWrite(c) \/ BeginRead(c) PROVE PublishesAtMostOne
  <2>1. \E kind, keys, by, opt : Begin(c, kind, keys, by, opt)
    BY <1>2 DEF BeginWrite, BeginRead
  <2> QED
    BY <1>1, <2>1, BeginKeepsPublic DEF PublishesAtMostOne
<1>3. ASSUME NEW c \in Calls, QueryIndex(c) PROVE PublishesAtMostOne
  <2> DEFINE more == Matching(index[IndexerOf[StoreOf[c]]], call[c].keys, call[c].by)
             r == [call[c] EXCEPT !.pc = "verify", !.raw = call[c].raw \cup more,
                                  !.todo = call[c].todo \cup more]
  <2>1. more \subseteq Public /\ call[c].raw \subseteq Public
    BY Sets DEF PubInv, Matching
  <2>2. call' = [call EXCEPT ![c] = r] /\ UNCHANGED <<att, mined, index, cache>>
    BY <1>3 DEF QueryIndex
  <2> HIDE DEF more
  <2>3. r.raw = call[c].raw \cup more
    BY Sets DEF PubInv, CallState
  <2> HIDE DEF r
  <2> QED
    BY <1>1, <2>1, <2>2, <2>3, CallKeepsPublic DEF PublishesAtMostOne
<1>4. ASSUME NEW c \in Calls, VerifyNext(c) PROVE PublishesAtMostOne
  <2>1. PICK u \in call[c].todo : \E fetched \in Fetches(u) :
             call' = [call EXCEPT ![c] =
                 [call[c] EXCEPT !.todo = call[c].todo \ {u},
                                 !.ok = IF Verifies(StoreOf[c], u) /\ fetched
                                        THEN call[c].ok \cup {u} ELSE call[c].ok]]
    BY <1>4 DEF VerifyNext
  <2>0. PICK fetched \in Fetches(u) :
             call' = [call EXCEPT ![c] =
                 [call[c] EXCEPT !.todo = call[c].todo \ {u},
                                 !.ok = IF Verifies(StoreOf[c], u) /\ fetched
                                        THEN call[c].ok \cup {u} ELSE call[c].ok]]
    BY <2>1
  <2> DEFINE r == [call[c] EXCEPT !.todo = call[c].todo \ {u},
                                  !.ok = IF Verifies(StoreOf[c], u) /\ fetched
                                         THEN call[c].ok \cup {u} ELSE call[c].ok]
  <2>2. call' = [call EXCEPT ![c] = r] /\ r.raw = call[c].raw
    BY <2>0, Sets DEF PubInv, CallState
  <2> HIDE DEF r
  <2>3. call[c].raw \subseteq Public
    BY DEF PubInv
  <2>4. UNCHANGED <<att, mined, index, cache>>
    BY <1>4 DEF VerifyNext
  <2> QED
    BY <1>1, <2>2, <2>3, <2>4, CallKeepsPublic DEF PublishesAtMostOne
<1>5. ASSUME NEW c \in Calls, RefuseWrite(c) \/ Reject(c) PROVE PublishesAtMostOne
  BY <1>1, <1>5, EndKeepsPublic DEF PublishesAtMostOne, RefuseWrite, Reject
<1>6. ASSUME NEW c \in Calls,
             CheckWrite(c) \/ ReturnGet(c) \/ ReturnHistory(c) \/ ReturnQuery(c)
      PROVE  PublishesAtMostOne
  <2>1. Finish(c) /\ UNCHANGED <<att, mined, index, cache>>
    BY <1>6 DEF CheckWrite, ReturnGet, ReturnHistory, ReturnQuery, Return
  <2> QED
    BY <1>1, <2>1, EndKeepsPublic DEF PublishesAtMostOne
<1>7. ASSUME NEW c \in Calls, Sign(c) PROVE PublishesAtMostOne
  BY <1>1, <1>7, SignPublishes DEF PublishesAtMostOne
<1>8. ASSUME NEW c \in Calls, Send(c) PROVE PublishesAtMostOne
  BY <1>1, <1>8, SendPublishes DEF PublishesAtMostOne
<1>9. ASSUME NEW c \in Calls, Confirm(c) PROVE PublishesAtMostOne
  BY <1>1, <1>9, ConfirmPublishes DEF PublishesAtMostOne
<1>10. ASSUME NEW u \in Uids, Mine(u) PROVE PublishesAtMostOne
  BY <1>1, <1>10, MinePublishes DEF PublishesAtMostOne
<1>11. ASSUME NEW i \in Indexers, NEW u \in Uids, Discover(i, u) PROVE PublishesAtMostOne
  BY <1>1, <1>11, DiscoverPublishes DEF PublishesAtMostOne
<1>12. ASSUME UNCHANGED <<att, mined, index, cache, call>> PROVE PublishesAtMostOne
  BY <1>1, <1>12, SamePublic DEF PublishesAtMostOne, PubInv
<1>13. ASSUME NEW u \in Uids, Revoke(u) \/ Expire(u) PROVE PublishesAtMostOne
  BY <1>12, <1>13 DEF Revoke, Expire
<1>14. ASSUME NEW U, Timestamp(U) PROVE PublishesAtMostOne
  BY <1>12, <1>14 DEF Timestamp
<1>15. ASSUME NEW s \in Stores, Restart(s) PROVE PublishesAtMostOne
  <2>1. \A p \in Stores : cache'[p] \subseteq cache[p]
    BY <1>15, Sets DEF Restart, PubInv
  <2>2. \A c \in Calls : call'[c].raw \subseteq call[c].raw
    BY <1>15 DEF Restart, IdleCall
  <2>3. UNCHANGED <<att, mined, index>>
    BY <1>15 DEF Restart
  <2>4. /\ \A p \in Stores : cache'[p] \subseteq Public
        /\ \A c \in Calls : call'[c].raw \subseteq Public
    BY <2>1, <2>2 DEF PubInv
  <2> QED
    BY <1>1, <2>3, <2>4, SamePublic DEF PublishesAtMostOne
<1>16. CASE UNCHANGED vars
  BY <1>12, <1>16 DEF vars
<1>17. ASSUME NEW c \in Calls, Progress(c) PROVE PublishesAtMostOne
  BY <1>3, <1>4, <1>5, <1>6, <1>7, <1>8, <1>9, <1>17 DEF Progress
<1>18. CASE \E c \in Calls : BeginWrite(c) \/ BeginRead(c) \/ Progress(c) \/ Reject(c)
  BY <1>2, <1>5, <1>17, <1>18
<1>19. CASE \E u \in Uids : Mine(u) \/ Revoke(u) \/ Expire(u)
  BY <1>10, <1>13, <1>19
<1>20. CASE \E i \in Indexers, u \in Uids : Discover(i, u)
  BY <1>11, <1>20
<1>21. CASE \E U \in SUBSET Findable : Timestamp(U)
  BY <1>14, <1>21
<1>22. CASE \E s \in Stores : Restart(s)
  BY <1>15, <1>22
<1> QED
  BY <1>16, <1>18, <1>19, <1>20, <1>21, <1>22 DEF Next

-----------------------------------------------------------------------------
(* How many records there can be *)

(* The guard of BeginWrite counts the writes that are yet to be signed.    *)
Bounded == Len(att) + Cardinality(Unsigned) <= MaxAtt

(* What a step does to the records and to the writes that will add one.    *)
Waits == att' = att /\ Unsigned' \subseteq Unsigned

Begins ==
    /\ att' = att
    /\ Len(att) + Cardinality(Unsigned) < MaxAtt
    /\ \E c \in Calls : Unsigned' \subseteq Unsigned \cup {c}

Issues ==
    \E c \in Unsigned :
        /\ MayWrite(c)
        /\ att' = Append(att, Prepared(c))
        /\ Unsigned' \subseteq Unsigned \ {c}

LEMMA LeavesUnsigned ==
    ASSUME IInv, NEW c \in Calls, NEW r, call' = [call EXCEPT ![c] = r],
           r.pc \in {"idle", "wait", "check"} \/ r.kind \notin WriteKinds
    PROVE  Unsigned' \subseteq Unsigned \ {c}
<1>1. call'[c] = r /\ \A d \in Calls \ {c} : call'[d] = call[d]
  BY Sets
<1> QED
  BY <1>1 DEF Unsigned

LEMMA StaysUnsigned ==
    ASSUME IInv, NEW c \in Calls, NEW r, call' = [call EXCEPT ![c] = r],
           r.kind = call[c].kind, call[c].pc \in {"query", "verify"}
    PROVE  Unsigned' \subseteq Unsigned
<1>1. call'[c] = r /\ \A d \in Calls \ {c} : call'[d] = call[d]
  BY Sets
<1> QED
  BY <1>1 DEF Unsigned

LEMMA EndWaits ==
    ASSUME IInv, NEW c \in Calls, Finish(c), att' = att
    PROVE  Waits
<1>1. call' = [call EXCEPT ![c] = IdleCall] /\ IdleCall.pc = "idle"
  BY DEF Finish, IdleCall
<1> QED
  BY <1>1, LeavesUnsigned DEF Waits

LEMMA StoreLeaves ==
    ASSUME IInv, NEW c \in Calls, NEW u, Store(c, u)
    PROVE  Unsigned' \subseteq Unsigned \ {c}
<1>1. CASE Finish(c)
  <2>1. call' = [call EXCEPT ![c] = IdleCall] /\ IdleCall.pc = "idle"
    BY <1>1 DEF Finish, IdleCall
  <2> QED
    BY <2>1, LeavesUnsigned
<1>2. CASE call' = [call EXCEPT ![c] = [call[c] EXCEPT !.pc = "check", !.uid = u]]
  <2>1. [call[c] EXCEPT !.pc = "check", !.uid = u].pc = "check"
    BY Sets DEF CallState
  <2> QED
    BY <1>2, <2>1, LeavesUnsigned
<1> QED
  BY <1>1, <1>2 DEF Store

(* A write is signed or sent once, by a call that BeginWrite counted.      *)
LEMMA WriterIssues ==
    ASSUME IInv, NEW c \in Calls, Sign(c) \/ Send(c)
    PROVE  Issues
<1>1. MayWrite(c) /\ att' = Append(att, Prepared(c))
  BY DEF Sign, Send
<1>2. c \in Unsigned
  BY <1>1 DEF MayWrite, Resolved, Unsigned
<1>3. CASE Sign(c)
  <2>1. Store(c, Len(att) + 1)
    BY <1>3 DEF Sign
  <2> QED
    BY <1>1, <1>2, <2>1, StoreLeaves DEF Issues
<1>4. CASE Send(c)
  <2>1. call' = [call EXCEPT ![c] = [call[c] EXCEPT !.pc = "wait", !.uid = Len(att) + 1]]
    BY <1>4 DEF Send
  <2>2. [call[c] EXCEPT !.pc = "wait", !.uid = Len(att) + 1].pc = "wait"
    BY Sets DEF CallState
  <2> QED
    BY <1>1, <1>2, <2>1, <2>2, LeavesUnsigned DEF Issues
<1> QED
  BY <1>3, <1>4

LEMMA BeginCounts ==
    ASSUME IInv, NEW c \in Calls, BeginWrite(c) \/ BeginRead(c)
    PROVE  Waits \/ Begins
<1>1. ASSUME NEW kind, NEW keys, NEW by, NEW opt, Begin(c, kind, keys, by, opt)
      PROVE  /\ att' = att
             /\ Unsigned' \subseteq Unsigned \cup {c}
             /\ kind \notin WriteKinds => Unsigned' \subseteq Unsigned
  <2> DEFINE found == Matching(Loads(StoreOf[c]), keys, by)
             r == [IdleCall EXCEPT
                     !.pc = IF Scope = "local" THEN "verify" ELSE "query",
                     !.kind = kind, !.keys = keys, !.by = by, !.opt = opt,
                     !.raw = found, !.todo = found, !.floor = Floor(StoreOf[c], keys)]
  <2>1. call' = [call EXCEPT ![c] = r] /\ r.kind = kind
    BY <1>1 DEF Begin, IdleCall
  <2> HIDE DEF found, r
  <2>2. call'[c] = r /\ \A d \in Calls \ {c} : call'[d] = call[d]
    BY <2>1, Sets
  <2> QED
    BY <1>1, <2>1, <2>2 DEF Unsigned, Begin
<1>2. CASE BeginWrite(c)
  <2>1. \E kind, keys, by, opt : Begin(c, kind, keys, by, opt)
    BY <1>2 DEF BeginWrite
  <2>2. Len(att) + Cardinality(Unsigned) < MaxAtt
    BY <1>2 DEF BeginWrite
  <2> QED
    BY <1>1, <2>1, <2>2 DEF Begins
<1>3. CASE BeginRead(c)
  <2>1. \E kind \in ReadKinds : \E keys, by, opt : Begin(c, kind, keys, by, opt)
    BY <1>3 DEF BeginRead, ReadKinds
  <2>2. \A kind \in ReadKinds : kind \notin WriteKinds
    BY DEF ReadKinds, WriteKinds
  <2> QED
    BY <1>1, <2>1, <2>2 DEF Waits
<1> QED
  BY <1>2, <1>3

LEMMA StepCounts ==
    ASSUME IInv, [Next]_vars
    PROVE  Waits \/ Begins \/ Issues
<1>1. ASSUME UNCHANGED <<att, call>> PROVE Waits
  BY <1>1 DEF Waits, Unsigned
<1>2. ASSUME NEW c \in Calls, QueryIndex(c) PROVE Waits
  <2> DEFINE more == Matching(index[IndexerOf[StoreOf[c]]], call[c].keys, call[c].by)
             r == [call[c] EXCEPT !.pc = "verify", !.raw = call[c].raw \cup more,
                                  !.todo = call[c].todo \cup more]
  <2>1. call' = [call EXCEPT ![c] = r]
    BY <1>2 DEF QueryIndex
  <2> HIDE DEF more
  <2>2. r.kind = call[c].kind
    BY Sets DEF CallState
  <2> HIDE DEF r
  <2> QED
    BY <1>2, <2>2, <2>1, StaysUnsigned DEF Waits, QueryIndex
<1>3. ASSUME NEW c \in Calls, VerifyNext(c) PROVE Waits
  <2>1. PICK u \in call[c].todo : \E fetched \in Fetches(u) :
             call' = [call EXCEPT ![c] =
                 [call[c] EXCEPT !.todo = call[c].todo \ {u},
                                 !.ok = IF Verifies(StoreOf[c], u) /\ fetched
                                        THEN call[c].ok \cup {u} ELSE call[c].ok]]
    BY <1>3 DEF VerifyNext
  <2>0. PICK fetched \in Fetches(u) :
             call' = [call EXCEPT ![c] =
                 [call[c] EXCEPT !.todo = call[c].todo \ {u},
                                 !.ok = IF Verifies(StoreOf[c], u) /\ fetched
                                        THEN call[c].ok \cup {u} ELSE call[c].ok]]
    BY <2>1
  <2> DEFINE r == [call[c] EXCEPT !.todo = call[c].todo \ {u},
                                  !.ok = IF Verifies(StoreOf[c], u) /\ fetched
                                         THEN call[c].ok \cup {u} ELSE call[c].ok]
  <2>2. call' = [call EXCEPT ![c] = r] /\ r.kind = call[c].kind
    BY <2>0, Sets DEF CallState
  <2> HIDE DEF r
  <2> QED
    BY <1>3, <2>2, StaysUnsigned DEF Waits, VerifyNext
<1>4. ASSUME NEW c \in Calls, Confirm(c) PROVE Waits
  BY <1>4, StoreLeaves DEF Confirm, Waits
<1>5. ASSUME NEW c \in Calls,
             \/ RefuseWrite(c) \/ Reject(c) \/ CheckWrite(c)
             \/ ReturnGet(c) \/ ReturnHistory(c) \/ ReturnQuery(c)
      PROVE  Waits
  <2>1. Finish(c) /\ att' = att
    BY <1>5 DEF RefuseWrite, Reject, CheckWrite, ReturnGet, ReturnHistory,
                ReturnQuery, Return
  <2> QED
    BY <2>1, EndWaits
<1>6. ASSUME NEW c \in Calls, Progress(c) PROVE Waits \/ Issues
  BY <1>2, <1>3, <1>4, <1>5, <1>6, WriterIssues DEF Progress
<1>7. ASSUME NEW s \in Stores, Restart(s) PROVE Waits
  BY <1>7 DEF Restart, Waits, Unsigned, IdleCall
<1>8. CASE \E c \in Calls : BeginWrite(c) \/ BeginRead(c) \/ Progress(c) \/ Reject(c)
  BY <1>5, <1>6, <1>8, BeginCounts
<1>9. CASE \E u \in Uids : Mine(u) \/ Revoke(u) \/ Expire(u)
  BY <1>1, <1>9 DEF Mine, Revoke, Expire
<1>10. CASE \E i \in Indexers, u \in Uids : Discover(i, u)
  BY <1>1, <1>10 DEF Discover
<1>11. CASE \E U \in SUBSET Findable : Timestamp(U)
  BY <1>1, <1>11 DEF Timestamp
<1>12. CASE \E s \in Stores : Restart(s)
  BY <1>7, <1>12
<1>13. CASE UNCHANGED vars
  BY <1>1, <1>13 DEF vars
<1> QED
  BY <1>8, <1>9, <1>10, <1>11, <1>12, <1>13 DEF Next

(* Records stay what they are.                                             *)
RecordsKept == \A u \in Uids : u \in Uids' /\ att'[u] = att[u]

LEMMA StepKeepsRecords == IInv /\ [Next]_vars => RecordsKept
<1> SUFFICES ASSUME IInv, [Next]_vars PROVE RecordsKept
  OBVIOUS
<1>1. CASE Waits \/ Begins
  BY <1>1 DEF Waits, Begins, RecordsKept, Uids
<1>2. CASE Issues
  <2>1. PICK c \in Unsigned : MayWrite(c) /\ att' = Append(att, Prepared(c))
    BY <1>2 DEF Issues
  <2>2. Prepared(c) \in Attestation /\ att \in Seq(Attestation)
    BY <2>1, PreparedLinks DEF IInv, TypeOK, Unsigned
  <2> QED
    BY <2>1, <2>2, AttGrows DEF RecordsKept
<1> QED
  BY <1>1, <1>2, StepCounts

LEMMA StepBounded ==
    ASSUME IInv, [Next]_vars, Bounded, IsFiniteSet(Calls)
    PROVE  Bounded' /\ RecordsKept
<1>1. IsFiniteSet(Unsigned) /\ IsFiniteSet(Unsigned')
  <2>1. Unsigned \in SUBSET Calls /\ Unsigned' \in SUBSET Calls
    BY DEF Unsigned
  <2> QED
    BY <2>1, FS_Subset
<1>2. /\ Cardinality(Unsigned) \in Nat /\ Cardinality(Unsigned') \in Nat
      /\ Len(att) \in Nat /\ MaxAtt \in Nat
  BY <1>1, FS_CardinalityType, Parties DEF IInv, TypeOK
<1>3. CASE Waits
  <2>1. Cardinality(Unsigned') <= Cardinality(Unsigned)
    BY <1>1, <1>3, FS_Subset DEF Waits
  <2>2. att' = att
    BY <1>3 DEF Waits
  <2> QED
    BY <1>2, <2>1, <2>2 DEF Bounded, RecordsKept, Uids
<1>4. CASE Begins
  <2>1. PICK c \in Calls : Unsigned' \subseteq Unsigned \cup {c}
    BY <1>4 DEF Begins
  <2>0. /\ IsFiniteSet(Unsigned \cup {c})
        /\ Cardinality(Unsigned \cup {c}) =
              IF c \in Unsigned THEN Cardinality(Unsigned) ELSE Cardinality(Unsigned) + 1
    BY <1>1, FS_AddElement
  <2>2. /\ IsFiniteSet(Unsigned \cup {c})
        /\ Cardinality(Unsigned \cup {c}) <= Cardinality(Unsigned) + 1
    BY <1>2, <2>0
  <2>3. /\ Cardinality(Unsigned \cup {c}) \in Nat
        /\ Cardinality(Unsigned') <= Cardinality(Unsigned \cup {c})
    BY <2>1, <2>2, FS_Subset, FS_CardinalityType
  <2>4. att' = att /\ Len(att) + Cardinality(Unsigned) < MaxAtt
    BY <1>4 DEF Begins
  <2> QED
    BY <1>2, <2>2, <2>3, <2>4 DEF Bounded, RecordsKept, Uids
<1>5. CASE Issues
  <2>1. PICK c \in Unsigned : /\ MayWrite(c)
                              /\ att' = Append(att, Prepared(c))
                              /\ Unsigned' \subseteq Unsigned \ {c}
    BY <1>5 DEF Issues
  <2>2. /\ IsFiniteSet(Unsigned \ {c})
        /\ Cardinality(Unsigned \ {c}) = Cardinality(Unsigned) - 1
    BY <1>1, FS_RemoveElement
  <2>3. /\ Cardinality(Unsigned \ {c}) \in Nat
        /\ Cardinality(Unsigned') <= Cardinality(Unsigned \ {c})
    BY <2>1, <2>2, FS_Subset, FS_CardinalityType
  <2>4. Prepared(c) \in Attestation /\ att \in Seq(Attestation)
    BY <2>1, PreparedLinks DEF IInv, TypeOK, Unsigned
  <2>5. /\ Len(att') = Len(att) + 1
        /\ Uids \subseteq Uids' /\ \A u \in Uids : att'[u] = att[u]
    BY <2>1, <2>4, AttGrows
  <2> QED
    BY <1>2, <2>2, <2>3, <2>5 DEF Bounded, RecordsKept
<1> QED
  BY <1>3, <1>4, <1>5, StepCounts

LEMMA InitBounded == Init => Bounded
<1> SUFFICES ASSUME Init PROVE Bounded
  OBVIOUS
<1>1. Unsigned = {} /\ Len(att) = 0
  BY DEF Init, Unsigned, IdleCall
<1> QED
  BY <1>1, FS_EmptySet, Parties DEF Bounded

-----------------------------------------------------------------------------
(* Every step extends one published history, forks it, or changes none *)

RefInv == PubInv /\ Bounded

LogsAreLogAt ==
    \A k \in Keys : /\ Log[k] = LogAt(Published(k), Prev, att)
                    /\ Forked[k] = (Status(Published(k), Prev) = "ambiguous")

LEMMA LogIsLogAt == LogsAreLogAt
  BY DEF Log, LogAt, Forked, LogsAreLogAt

LEMMA Kept ==
    ASSUME PubInv, RecordsKept, NEW R \in SUBSET Uids
    PROVE  /\ Len(att) \in Nat /\ R \in SUBSET (1..Len(att))
           /\ Issued(R, Prev, Versions)
           /\ Agree(R, Prev, Prev', att, att', Versions)
<1>1. Len(att) \in Nat
  BY DEF PubInv, IInv, TypeOK
<1>2. Issued(R, Prev, Versions)
  BY StoreIssues DEF PubInv
<1>3. \A u \in R : u \in Uids /\ u \in Uids' /\ att'[u] = att[u]
  BY DEF RecordsKept
<1>4. \A u \in R : /\ Prev[u] = Prev'[u]
                   /\ Versions[u] = att[u].version
                   /\ Versions[u] = att'[u].version
  BY <1>3 DEF Prev, Versions
<1> QED
  BY <1>1, <1>2, <1>4 DEF Uids, Agree

LEMMA KeySame ==
    ASSUME PubInv, RecordsKept, NEW k \in Keys, Published(k)' = Published(k)
    PROVE  Log'[k] = Log[k] /\ Forked'[k] = Forked[k]
<1>1. PICK R, n, p, q, a, b, ver :
          /\ R = Published(k) /\ n = Len(att) /\ p = Prev /\ q = Prev'
          /\ a = att /\ b = att' /\ ver = Versions
  OBVIOUS
<1>2. R \in SUBSET Uids
  BY <1>1, PublishedIsLinked DEF PublishedLinked
<1>3. n \in Nat /\ R \in SUBSET (1..n) /\ Issued(R, p, ver) /\ Agree(R, p, q, a, b, ver)
  BY <1>1, <1>2, Kept
<1>4. Status(R, p) = Status(R, q) /\ LogAt(R, p, a) = LogAt(R, q, b)
  BY <1>3, SameLog
<1>5. Log[k] = LogAt(R, p, a) /\ Forked[k] = (Status(R, p) = "ambiguous")
  BY <1>1, LogIsLogAt DEF LogsAreLogAt
<1>6. LogsAreLogAt'
  BY LogIsLogAt, PTL
<1>7. Log'[k] = LogAt(R, q, b) /\ Forked'[k] = (Status(R, q) = "ambiguous")
  BY <1>1, <1>6 DEF LogsAreLogAt
<1> QED
  BY <1>4, <1>5, <1>7

LEMMA KeyGrows ==
    ASSUME PubInv, PubInv', RecordsKept, NEW k \in Keys,
           NEW u, u \notin Published(k), Published(k)' = Published(k) \cup {u}
    PROVE  \/ /\ Forked[k] = FALSE /\ Forked'[k] = FALSE
              /\ Log'[k] = Append(Log[k], u)
              /\ att'[u].version = Len(Log[k]) + 1
           \/ /\ Forked[k] = FALSE /\ Forked'[k] = TRUE
              /\ Log[k] # <<>> /\ Log'[k] = <<>>
              /\ att'[u].version # Len(Log[k]) + 1
           \/ /\ Forked[k] = TRUE /\ Forked'[k] = TRUE
              /\ Log'[k] = Log[k]
<1>0. PublishedLinked' /\ LogsAreLogAt'
  <2>1. PublishedLinked'
    BY PublishedIsLinked, PTL
  <2>2. LogsAreLogAt'
    BY LogIsLogAt, PTL
  <2> QED
    BY <2>1, <2>2
<1>1. PICK R, n, p, q, a, b, ver :
          /\ R = Published(k) /\ n = Len(att) /\ p = Prev /\ q = Prev'
          /\ a = att /\ b = att' /\ ver = Versions
  OBVIOUS
<1>2. PICK S, m, next :
          S = Published(k)' /\ m = Len(att') /\ next = Versions'
  OBVIOUS
<1>3. R \in SUBSET Uids /\ Linked(R, p)
  BY <1>1, PublishedIsLinked DEF PublishedLinked
<1>4. n \in Nat /\ R \in SUBSET (1..n) /\ Issued(R, p, ver) /\ Agree(R, p, q, a, b, ver)
  BY <1>1, <1>3, Kept
<1>5. /\ Status(R, p) = Status(R, q) /\ LogAt(R, p, a) = LogAt(R, q, b)
      /\ Linked(R, q)
  BY <1>3, <1>4, SameLog
<1>6. S \in SUBSET Uids' /\ Issued(S, q, next) /\ Linked(S, q)
  BY <1>0, <1>1, <1>2 DEF PublishedLinked
<1>7. m \in Nat /\ S \in SUBSET (1..m)
  BY <1>2, <1>6 DEF PubInv, IInv, TypeOK, Uids
<1>8. Agree(S, q, q, b, b, next)
  BY <1>1, <1>2, <1>6 DEF Versions, Agree
<1>9. u \in S /\ S \ {u} = R
  BY <1>1, <1>2
<1>10. Linked(S \ {u}, q)
  BY <1>5, <1>9
<1>11. Follows(u, S \ {u}, S, q, b)
  BY <1>6, <1>7, <1>8, <1>9, <1>10, NextLog
<1>12. Follows(u, R, S, q, b)
  BY <1>9, <1>11
<1>13. Log[k] = LogAt(R, q, b) /\ Forked[k] = (Status(R, q) = "ambiguous")
  BY <1>1, <1>5, LogIsLogAt DEF LogsAreLogAt
<1>14. Log'[k] = LogAt(S, q, b) /\ Forked'[k] = (Status(S, q) = "ambiguous")
  BY <1>0, <1>1, <1>2 DEF LogsAreLogAt
<1>15. att'[u].version = b[u].version
  BY <1>1
<1>16. CASE Status(S, q) = "canonical"
  <2>1. /\ Status(R, q) # "ambiguous"
        /\ LogAt(S, q, b) = Append(LogAt(R, q, b), u)
        /\ b[u].version = Len(LogAt(R, q, b)) + 1
    BY <1>12, <1>16 DEF Follows
  <2>2. Forked[k] = FALSE /\ Forked'[k] = FALSE
    BY <1>13, <1>14, <1>16, <2>1
  <2>3. Log'[k] = Append(Log[k], u)
    BY <1>13, <1>14, <2>1
  <2>4. att'[u].version = Len(Log[k]) + 1
    BY <1>13, <1>15, <2>1
  <2> QED
    BY <2>2, <2>3, <2>4
<1>17. CASE Status(S, q) # "canonical" /\ Status(R, q) # "ambiguous"
  <2>1. /\ Status(S, q) = "ambiguous" /\ LogAt(S, q, b) = <<>>
        /\ LogAt(R, q, b) # <<>> /\ b[u].version # Len(LogAt(R, q, b)) + 1
    BY <1>12, <1>17 DEF Follows
  <2>2. Forked[k] = FALSE /\ Forked'[k] = TRUE
    BY <1>13, <1>14, <1>17, <2>1
  <2>3. Log[k] # <<>> /\ Log'[k] = <<>>
    BY <1>13, <1>14, <2>1
  <2>4. att'[u].version # Len(Log[k]) + 1
    BY <1>13, <1>15, <2>1
  <2> QED
    BY <2>2, <2>3, <2>4
<1>18. CASE Status(S, q) # "canonical" /\ Status(R, q) = "ambiguous"
  <2>1. /\ Status(S, q) = "ambiguous" /\ LogAt(S, q, b) = <<>>
        /\ LogAt(R, q, b) = <<>>
    BY <1>12, <1>18 DEF Follows
  <2>2. Forked[k] = TRUE /\ Forked'[k] = TRUE
    BY <1>13, <1>14, <1>18, <2>1
  <2>3. Log'[k] = Log[k]
    BY <1>13, <1>14, <2>1
  <2> QED
    BY <2>2, <2>3
<1> QED
  BY <1>16, <1>17, <1>18

LEMMA LogLength ==
    ASSUME PubInv, NEW k \in Keys
    PROVE  Len(Log[k]) \in Nat
<1>1. PICK R, n, p, a, ver : /\ R = Published(k) /\ n = Len(att) /\ p = Prev
                             /\ a = att /\ ver = Versions
  OBVIOUS
<1>2. /\ n \in Nat /\ R \in SUBSET (1..n) /\ Issued(R, p, ver)
      /\ \A u \in R : ver[u] = a[u].version
  BY <1>1, PublishedIsLinked DEF PublishedLinked, PubInv, IInv, TypeOK, Uids, Versions
<1>3. PICK f : f = LogAt(R, p, a)
  OBVIOUS
<1>4. Log[k] = f
  BY <1>1, <1>3, LogIsLogAt DEF LogsAreLogAt
<1>5. CASE Status(R, p) # "canonical"
  BY <1>3, <1>4, <1>5 DEF LogAt
<1>6. CASE Status(R, p) = "canonical"
  <2>1. Lists(f, R, a)
    BY <1>2, <1>3, <1>6, LogIs
  <2>2. Cardinality(R) \in Nat /\ f \in [1..Cardinality(R) -> R]
    BY <2>1 DEF Lists
  <2>3. Len(f) = Cardinality(R)
    BY <2>2, SeqDef
  <2> QED
    BY <1>4, <2>2, <2>3
<1> QED
  BY <1>5, <1>6

(* A published record is published under the key it was written for.       *)
LEMMA KeyOfNew ==
    ASSUME PubInv, PubInv', RecordsKept, NEW u \in Uids' \ Public,
           Public' = Public \cup {u}, NEW k, k = att'[u].key
    PROVE  /\ k \in Keys
           /\ u \notin Published(k)
           /\ Published(k)' = Published(k) \cup {u}
           /\ \A j \in Keys \ {k} : Published(j)' = Published(j)
<1>1. \A j : Published(j) = {w \in Public : att[w].key = j}
  BY DEF Published, Public
<1>2. \A j : Published(j)' = {w \in Public' : att'[w].key = j}
  BY DEF Published, Public
<1>3. \A w \in Public : att'[w] = att[w]
  BY Sets DEF RecordsKept, PubInv, Public, Findable
<1>4. k \in Keys
  <2>1. att' \in Seq(Attestation) /\ u \in 1..Len(att')
    BY DEF PubInv, IInv, TypeOK, Uids
  <2>2. att'[u] \in Attestation
    BY <2>1
  <2> QED
    BY <2>2 DEF Attestation
<1>5. u \notin Published(k)
  BY <1>1
<1>6. Published(k)' = Published(k) \cup {u}
  BY <1>1, <1>2, <1>3
<1>7. ASSUME NEW j \in Keys \ {k} PROVE Published(j)' = Published(j)
  BY <1>1, <1>2, <1>3
<1> QED
  BY <1>4, <1>5, <1>6, <1>7

(* The record that a step publishes is a write of the log, which read the  *)
(* versions before the record's own.                                       *)
LEMMA PublishedIsWrite ==
    ASSUME PubInv, PubInv', RecordsKept, NEW u \in Uids' \ Public,
           Public' = Public \cup {u}
    PROVE  att'[u].key \in Keys /\ VLog!Write(att'[u].key, att'[u].version - 1, u)
<1>1. PICK k, v : k = att'[u].key /\ v = att'[u].version
  OBVIOUS
<1>2. /\ k \in Keys /\ u \notin Published(k)
      /\ Published(k)' = Published(k) \cup {u}
      /\ \A j \in Keys \ {k} : Published(j)' = Published(j)
  BY <1>1, KeyOfNew
<1>3. \A j \in Keys \ {k} : Log'[j] = Log[j] /\ Forked'[j] = Forked[j]
  BY <1>2, KeySame
<1>4. /\ Log = [j \in Keys |-> Log[j]] /\ Log' = [j \in Keys |-> Log'[j]]
      /\ Forked = [j \in Keys |-> Forked[j]] /\ Forked' = [j \in Keys |-> Forked'[j]]
  BY DEF Log, Forked
<1>5. v \in Nat
  <2>1. att' \in Seq(Attestation) /\ u \in 1..Len(att')
    BY DEF PubInv, IInv, TypeOK, Uids
  <2>2. att'[u] \in Attestation
    BY <2>1
  <2> QED
    BY <1>1, <2>2 DEF Attestation
<1>6. Len(Log[k]) \in Nat
  BY <1>2, LogLength
<1>7. CASE /\ Forked[k] = FALSE /\ Forked'[k] = FALSE
           /\ Log'[k] = Append(Log[k], u)
           /\ v = Len(Log[k]) + 1
  <2>1. Forked' = Forked
    BY <1>3, <1>4, <1>7
  <2>2. Log' = [Log EXCEPT ![k] = Append(Log[k], u)]
    BY <1>2, <1>3, <1>4, <1>7
  <2>3. VLog!Extend(k, u)
    BY <1>7, <2>1, <2>2 DEF VLog!Extend
  <2>4. Len(Log[k]) = v - 1
    BY <1>6, <1>7
  <2> QED
    BY <1>1, <1>2, <1>7, <2>3, <2>4 DEF VLog!Write
<1>8. CASE /\ Forked[k] = FALSE /\ Forked'[k] = TRUE
           /\ Log[k] # <<>> /\ Log'[k] = <<>>
           /\ v # Len(Log[k]) + 1
  <2>1. Forked' = [Forked EXCEPT ![k] = TRUE]
    BY <1>2, <1>3, <1>4, <1>8
  <2>2. Log' = [Log EXCEPT ![k] = <<>>]
    BY <1>2, <1>3, <1>4, <1>8
  <2>3. VLog!Fork(k)
    BY <1>8, <2>1, <2>2 DEF VLog!Fork
  <2>4. Len(Log[k]) # v - 1
    BY <1>5, <1>6, <1>8
  <2> QED
    BY <1>1, <1>2, <1>8, <2>3, <2>4 DEF VLog!Write
<1>9. CASE Forked[k] = TRUE /\ Forked'[k] = TRUE /\ Log'[k] = Log[k]
  <2>1. Log' = Log /\ Forked' = Forked
    BY <1>3, <1>4, <1>9
  <2> QED
    BY <1>1, <1>2, <1>9, <2>1 DEF VLog!Write, VLog!vars
<1> QED
  BY <1>1, <1>2, <1>7, <1>8, <1>9, KeyGrows

LEMMA StepExtends ==
    ASSUME RefInv, RefInv', RecordsKept, PublishesAtMostOne, IsFiniteSet(Calls)
    PROVE  [VLog!Next]_(VLog!vars)
<1>0. PubInv /\ PubInv'
  BY DEF RefInv
<1>1. /\ Log = [k \in Keys |-> Log[k]] /\ Log' = [k \in Keys |-> Log'[k]]
      /\ Forked = [k \in Keys |-> Forked[k]] /\ Forked' = [k \in Keys |-> Forked'[k]]
  BY DEF Log, Forked
<1>2. CASE Public' = Public
  <2>1. \A w \in Public : att'[w] = att[w]
    BY <1>0, Sets DEF RecordsKept, PubInv, Public, Findable
  <2>2. ASSUME NEW k \in Keys PROVE Published(k)' = Published(k)
    <3>1. Published(k) = {w \in Public : att[w].key = k}
      BY DEF Published, Public
    <3>2. Published(k)' = {w \in Public' : att'[w].key = k}
      BY DEF Published, Public
    <3> QED
      BY <1>2, <2>1, <3>1, <3>2
  <2>3. \A k \in Keys : Log'[k] = Log[k] /\ Forked'[k] = Forked[k]
    BY <1>0, <2>2, KeySame
  <2>4. Log' = Log /\ Forked' = Forked
    BY <1>1, <2>3
  <2> QED
    BY <2>4 DEF VLog!vars
<1>3. CASE PublishesOne
  <2>1. PICK u \in Uids' \ Public : Public' = Public \cup {u}
    BY <1>3 DEF PublishesOne
  <2>2. PICK k, b : k = att'[u].key /\ b = att'[u].version - 1
    OBVIOUS
  <2>3. k \in Keys /\ VLog!Write(k, b, u)
    BY <1>0, <2>1, <2>2, PublishedIsWrite
  <2>4. u \in 1..MaxAtt
    <3>1. IsFiniteSet(Unsigned')
      <4>1. Unsigned' \in SUBSET Calls
        BY DEF Unsigned
      <4> QED
        BY <4>1, FS_Subset
    <3>2. Cardinality(Unsigned') \in Nat /\ Len(att') \in Nat /\ MaxAtt \in Nat
      BY <1>0, <3>1, FS_CardinalityType, Parties DEF PubInv, IInv, TypeOK
    <3>3. Len(att') <= MaxAtt
      BY <3>2 DEF RefInv, Bounded
    <3> QED
      BY <2>1, <3>2, <3>3 DEF Uids
  <2> QED
    BY <2>3, <2>4 DEF VLog!Write, VLog!Next
<1> QED
  BY <1>2, <1>3 DEF PublishesAtMostOne

LEMMA InitIsLog == Init => RefInv /\ VLog!Init
<1> SUFFICES ASSUME Init PROVE RefInv /\ VLog!Init
  OBVIOUS
<1>1. RefInv
  BY InitPub, InitBounded DEF RefInv
<1>2. \A k : Published(k) = {}
  <2>1. mined = {} /\ Findable = {}
    BY DEF Init, Findable
  <2> QED
    BY <2>1 DEF Published, Public
<1>3. \A k \in Keys : Status(Published(k), Prev) = "empty"
  BY <1>2 DEF Status
<1>4. Log = [k \in Keys |-> <<>>] /\ Forked = [k \in Keys |-> FALSE]
  BY <1>3 DEF Log, Forked
<1> QED
  BY <1>1, <1>4 DEF VLog!Init

(* EASKeyStore implements VersionLog: whatever races, faults, late indexes *)
(* and restarts happened, the published history of a key is only extended  *)
(* at its end, until it forks, and a forked key has no history ever after. *)
(* In offchain mode this needs an index() that does not throw: a record    *)
(* that is cached and not indexed leaves its successors without it.        *)
THEOREM StoreImplementsLog ==
    ASSUME IsFiniteSet(Calls), Mode = "offchain" => "index" \notin Faults
    PROVE  Spec => ImplementsVersionLog
<1>1. Init => RefInv /\ VLog!Init
  BY InitIsLog
<1>2. RefInv /\ [Next]_vars => RefInv' /\ [VLog!Next]_(VLog!vars)
  <2> SUFFICES ASSUME RefInv, [Next]_vars PROVE RefInv' /\ [VLog!Next]_(VLog!vars)
    OBVIOUS
  <2>1. PubInv /\ Bounded /\ IInv
    BY DEF RefInv, PubInv
  <2>2. PublishesAtMostOne
    BY <2>1, StepPublishes
  <2>3. Bounded' /\ RecordsKept
    BY <2>1, StepBounded
  <2>4. RefInv'
    BY <2>2, <2>3 DEF RefInv, PublishesAtMostOne
  <2> QED
    BY <2>2, <2>3, <2>4, StepExtends
<1> QED
  BY <1>1, <1>2, PTL DEF Spec, ImplementsVersionLog, VLog!Spec

(* Every publication is a VersionLog!Write after the version that the      *)
(* record continues: this is the interface on which the private store and  *)
(* the key registry are modelled.                                          *)
THEOREM PublicationsAreWrites ==
    ASSUME Mode = "offchain" => "index" \notin Faults
    PROVE  Spec => WritesContinueTheirRead
<1>1. PubInv /\ [Next]_vars => PubInv' /\ PublishesAsRead
  <2> SUFFICES ASSUME PubInv, [Next]_vars PROVE PubInv' /\ PublishesAsRead
    OBVIOUS
  <2>1. PublishesAtMostOne
    BY StepPublishes
  <2>2. RecordsKept
    BY StepKeepsRecords DEF PubInv
  <2>3. ASSUME NEW u \in Public' \ Public
        PROVE  VLog!Write(att'[u].key, att'[u].version - 1, u)
    <3>1. u \in Uids' \ Public /\ Public' = Public \cup {u}
      BY <2>1, <2>3 DEF PublishesAtMostOne, PublishesOne
    <3> QED
      BY <2>1, <2>2, <3>1, PublishedIsWrite DEF PublishesAtMostOne
  <2> QED
    BY <2>1, <2>3 DEF PublishesAtMostOne, PublishesAsRead
<1> QED
  BY <1>1, InitPub, PTL DEF Spec, WritesContinueTheirRead

(* However late the index, whichever records lapsed and whatever filter    *)
(* was passed: the history that a call accepts for a key is a beginning of *)
(* the published one, unless that one is forked.                           *)
THEOREM ReadsAreBeginnings ==
    ASSUME Mode = "offchain" => "index" \notin Faults
    PROVE  Spec => []ReadsArePrefixes
<1>1. PubInv /\ [Next]_vars => PubInv'
  BY StepPublishes DEF PublishesAtMostOne
<1>2. PubInv => ReadsArePrefixes
  <2> SUFFICES ASSUME PubInv, NEW c \in Calls, NEW k \in Keys,
                      Status(Seen(c, k), Prev) = "canonical", ~Forked[k]
               PROVE  LET m == Cardinality(Seen(c, k)) IN
                      /\ Seen(c, k) = {Log[k][v] : v \in 1..m}
                      /\ ChainHead(Seen(c, k), Prev) = Log[k][m]
    BY DEF ReadsArePrefixes
  <2>1. PICK R, P, n, p, a, ver :
            /\ R = Seen(c, k) /\ P = Published(k) /\ n = Len(att)
            /\ p = Prev /\ a = att /\ ver = Versions
    OBVIOUS
  <2>2. R \subseteq P
    <3>1. call[c].ok \subseteq Public
      BY Sets DEF PubInv, CallGood
    <3> QED
      BY <2>1, <3>1 DEF Seen, Published
  <2>3. /\ n \in Nat /\ P \in SUBSET (1..n) /\ Issued(P, p, ver) /\ Linked(P, p)
        /\ \A u \in P : ver[u] = a[u].version
    BY <2>1, PublishedIsLinked DEF PublishedLinked, PubInv, IInv, TypeOK, Uids, Versions
  <2>4. Log[k] = LogAt(P, p, a) /\ Status(P, p) # "ambiguous"
    BY <2>1, LogIsLogAt DEF LogsAreLogAt
  <2>5. Status(R, p) = "canonical"
    BY <2>1
  <2>6. Status(P, p) = "canonical"
    BY <2>2, <2>4, <2>5 DEF Status
  <2>7. BeginsHistory(R, P, p, a)
    BY <2>2, <2>3, <2>5, <2>6, PartIsBeginning
  <2> QED
    BY <2>1, <2>4, <2>7 DEF BeginsHistory
<1> QED
  BY <1>1, <1>2, InitPub, PTL DEF Spec

-----------------------------------------------------------------------------
(* Forks *)

(* A fork is a race or a lagging index: of two records that follow the     *)
(* same one, neither was known to the session of the other when its write  *)
(* was called, unless it lapsed.                                           *)
THEOREM ForksAreRaces ==
    ASSUME "storage" \notin Faults
    PROVE  Spec => [](\A u, w \in Uids : Siblings(u, w, Prev) =>
                         u \notin att[w].floor \/ Lapsed(u))
<1>1. IInv /\ KInv => \A u, w \in Uids : Siblings(u, w, Prev) =>
                         u \notin att[w].floor \/ Lapsed(u)
  <2> SUFFICES ASSUME IInv, KInv, NEW u \in Uids, NEW w \in Uids, Siblings(u, w, Prev),
                      u \in att[w].floor, ~Lapsed(u)
               PROVE  FALSE
    OBVIOUS
  <2>1. att[u].version < att[w].version
    BY DEF KInv, WritesExtendKnown
  <2>2. att[u].prev = att[w].prev
    BY DEF Siblings, Prev
  <2>3. att[u].version = att[w].version
    BY <2>2 DEF IInv, LinkedVersions
  <2>4. att[u].version \in Nat
    BY Typed
  <2> QED
    BY <2>1, <2>3, <2>4
<1> QED
  BY <1>1, Inductive, KInvHolds, PTL

(* Sessions take turns when one call at a time is in flight.  They then    *)
(* need one place where each finds what the others wrote: the cache of a   *)
(* single session, or a local index that all share.  (Two sessions that    *)
(* take turns over EASScan do fork: the second may ask too early.)  What   *)
(* they write must verify, and a broadcast must not be lost sight of.      *)
OneInFlight == \A c, d \in Calls : call[c].pc # "idle" /\ call[d].pc # "idle" => c = d

TakeTurns ==
    /\ \A c, d \in Calls :
          \/ StoreOf[c] = StoreOf[d]
          \/ Scope = "local" /\ IndexerOf[StoreOf[c]] = IndexerOf[StoreOf[d]]
    /\ \A s, p \in Stores : SignerOf[s] \in Trusts[p]
    /\ "misaddressed" \notin Options
    /\ RequireTimestamp => Mode = "onchain"
    /\ Faults \subseteq IF Mode = "offchain" THEN {"io", "crash"} ELSE {}

NoForks ==
    \A u, w \in Uids : att[u].key = att[w].key => ~Siblings(u, w, Prev)

(* Where the store of a call finds all records, but one that is pending.   *)
Home(c) == IF Scope = "local" THEN index[IndexerOf[StoreOf[c]]] ELSE cache[StoreOf[c]]

Pending(u) == \E c \in Calls : call[c].pc = "wait" /\ call[c].uid = u

(* A write that is loading or verifying has found the whole history.       *)
Whole(r, a) ==
    r.pc \in {"query", "verify"} /\ r.kind \in WriteKinds =>
        \A u \in 1..Len(a) : a[u].key \in r.keys => u \in r.todo \cup r.ok

Verified == \A u \in Uids : /\ att[u].opt # "misaddressed"
                            /\ \A p \in Stores : att[u].by \in Trusts[p]

CallTurns(r, a) ==
    /\ r.opt # "misaddressed"
    /\ Mode = "offchain" => r.pc # "wait"
    /\ Whole(r, a)

SerialInv ==
    /\ IInv
    /\ expired = {} /\ revoked = {}
    /\ Verified
    /\ \A c \in Calls : CallTurns(call[c], att)
    /\ \A c \in Calls, u \in Uids : u \in Home(c) \/ Pending(u)
    /\ NoForks

(* A call moves on or ends; what it waited for is found from now on.       *)
LEMMA TurnGoesOn ==
    ASSUME SerialInv, IInv', UNCHANGED <<att, expired, revoked>>,
           NEW c \in Calls, NEW r, call' = [call EXCEPT ![c] = r],
           CallTurns(r, att), r.pc # "wait",
           \A d \in Calls : Home(d) \subseteq Home(d)',
           call[c].pc = "wait" => \A d \in Calls : call[c].uid \in Home(d)'
    PROVE  SerialInv'
<1>1. call'[c] = r /\ \A d \in Calls \ {c} : call'[d] = call[d]
  BY Sets DEF SerialInv
<1>2. Uids' = Uids /\ Prev' = Prev
  BY DEF Uids, Prev
<1>3. \A d \in Calls : CallTurns(call'[d], att')
  BY <1>1 DEF SerialInv
<1>4. ASSUME NEW d \in Calls, NEW u \in Uids PROVE u \in Home(d)' \/ Pending(u)'
  <2>1. CASE u \in Home(d)
    BY <2>1
  <2>2. CASE Pending(u)
    <3>1. PICK b \in Calls : call[b].pc = "wait" /\ call[b].uid = u
      BY <2>2 DEF Pending
    <3>2. CASE b = c
      BY <3>1, <3>2
    <3>3. CASE b # c
      BY <1>1, <3>1, <3>3 DEF Pending
    <3> QED
      BY <3>2, <3>3
  <2> QED
    BY <2>1, <2>2 DEF SerialInv
<1>5. NoForks' /\ Verified' /\ expired' = {} /\ revoked' = {}
  BY <1>2 DEF SerialInv, NoForks, Verified
<1> QED
  BY <1>2, <1>3, <1>4, <1>5 DEF SerialInv

LEMMA TurnEnds ==
    ASSUME SerialInv, IInv', UNCHANGED <<att, expired, revoked, index, cache>>,
           NEW c \in Calls, Finish(c), call[c].pc # "wait"
    PROVE  SerialInv'
<1>1. call' = [call EXCEPT ![c] = IdleCall]
  BY DEF Finish
<1>2. CallTurns(IdleCall, att) /\ IdleCall.pc # "wait"
  BY DEF CallTurns, Whole, IdleCall
<1>3. \A d \in Calls : Home(d)' = Home(d)
  BY DEF Home
<1> QED
  BY <1>1, <1>2, <1>3, TurnGoesOn

LEMMA TurnWaits ==
    ASSUME SerialInv, IInv', UNCHANGED <<att, expired, revoked, call>>,
           \A d \in Calls : Home(d) \subseteq Home(d)'
    PROVE  SerialInv'
<1>1. Uids' = Uids /\ Prev' = Prev
  BY DEF Uids, Prev
<1>2. \A u : Pending(u)' = Pending(u)
  BY DEF Pending
<1>3. NoForks' /\ Verified' /\ expired' = {} /\ revoked' = {}
  BY <1>1 DEF SerialInv, NoForks, Verified
<1>4. \A d \in Calls : CallTurns(call'[d], att')
  BY DEF SerialInv
<1>5. \A d \in Calls, u \in Uids' : u \in Home(d)' \/ Pending(u)'
  BY <1>1, <1>2 DEF SerialInv
<1> QED
  BY <1>3, <1>4, <1>5 DEF SerialInv

(* A call that begins finds every record: no other call is in flight.      *)
LEMMA TurnBegins ==
    ASSUME TakeTurns, SerialInv, OneInFlight', IInv', NEW c \in Calls,
           NEW kind, NEW keys, NEW by, NEW opt,
           kind \in WriteKinds => by = Signers, opt # "misaddressed",
           Begin(c, kind, keys, by, opt)
    PROVE  SerialInv'
<1> DEFINE s == StoreOf[c]
           found == Matching(Loads(s), keys, by)
           r == [IdleCall EXCEPT
                   !.pc = IF Scope = "local" THEN "verify" ELSE "query",
                   !.kind = kind, !.keys = keys, !.by = by, !.opt = opt,
                   !.raw = found, !.todo = found, !.floor = Floor(s, keys)]
<1>1. call' = [call EXCEPT ![c] = r] /\ call[c].pc = "idle"
  BY DEF Begin
<1>2. UNCHANGED <<att, expired, revoked, index, cache>>
  BY DEF Begin
<1>3. Home(c) \subseteq Loads(s)
  BY DEF Home, Loads
<1>4. \A u \in Uids : ~Pending(u)
  <2>1. r.pc # "idle"
    BY DEF IdleCall
  <2> HIDE DEF r
  <2>2. call'[c] = r /\ \A d \in Calls \ {c} : call'[d] = call[d]
    BY <1>1, Sets DEF SerialInv
  <2>3. \A d \in Calls \ {c} : call[d].pc = "idle"
    BY <2>1, <2>2 DEF OneInFlight
  <2> QED
    BY <1>1, <2>3 DEF Pending
<1>5. ASSUME kind \in WriteKinds, NEW u \in Uids, att[u].key \in keys PROVE u \in found
  <2>1. u \in Loads(s)
    BY <1>3, <1>4 DEF SerialInv
  <2>2. att[u].by \in Signers
    BY Typed DEF SerialInv, Attestation
  <2> QED
    BY <1>5, <2>1, <2>2 DEF Matching
<1> HIDE DEF found
<1>6. /\ r.kind = kind /\ r.keys = keys /\ r.opt = opt /\ r.todo = found
      /\ r.pc \in {"query", "verify"}
  BY DEF IdleCall
<1> HIDE DEF r
<1>7. CallTurns(r, att) /\ r.pc # "wait"
  BY <1>5, <1>6 DEF CallTurns, Whole, Uids
<1>8. \A d \in Calls : Home(d)' = Home(d)
  BY <1>2 DEF Home
<1> QED
  BY <1>1, <1>2, <1>7, <1>8, TurnGoesOn

(* What a writer stores, every later call finds.                           *)
LEMMA TurnStores ==
    ASSUME TakeTurns, IInv, NEW c \in Calls, NEW u, Store(c, u)
    PROVE  /\ \A d \in Calls : Home(d) \subseteq Home(d)' /\ u \in Home(d)'
           /\ call' = [call EXCEPT ![c] = [call[c] EXCEPT !.pc = "check", !.uid = u]]
<1>1. "index" \notin Faults
  BY DEF TakeTurns
<1>2. /\ cache' = [cache EXCEPT ![StoreOf[c]] = @ \cup {u}]
      /\ index' = Indexed(StoreOf[c], u)
      /\ call' = [call EXCEPT ![c] = [call[c] EXCEPT !.pc = "check", !.uid = u]]
  BY <1>1 DEF Store, Cached, IndexMayThrow
<1>3. ASSUME NEW d \in Calls PROVE Home(d) \subseteq Home(d)' /\ u \in Home(d)'
  <2>1. CASE Scope = "local"
    <3>1. PICK i, j : i = IndexerOf[StoreOf[c]] /\ j = IndexerOf[StoreOf[d]]
      OBVIOUS
    <3>2. i = j /\ i \in Indexers
      BY <3>1, Sets DEF TakeTurns
    <3>3. index' = [index EXCEPT ![i] = @ \cup {u}]
      BY <1>2, <2>1, <3>1 DEF Indexed
    <3>4. Home(d) = index[j] /\ Home(d)' = index'[j]
      BY <2>1, <3>1 DEF Home
    <3> QED
      BY <3>2, <3>3, <3>4, Sets
  <2>2. CASE Scope # "local"
    <3>1. StoreOf[c] = StoreOf[d] /\ StoreOf[c] \in Stores
      BY <2>2, Sets DEF TakeTurns
    <3>2. Home(d) = cache[StoreOf[d]] /\ Home(d)' = cache'[StoreOf[d]]
      BY <2>2 DEF Home
    <3> QED
      BY <1>2, <3>1, <3>2, Sets
  <2> QED
    BY <2>1, <2>2
<1> QED
  BY <1>2, <1>3

(* The record that a writer adds follows the last one of its key.          *)
LEMMA TurnExtends ==
    ASSUME TakeTurns, SerialInv, NEW c \in Calls, MayWrite(c),
           att' = Append(att, Prepared(c))
    PROVE  /\ Verified' /\ NoForks'
           /\ Uids' = Uids \cup {Len(att) + 1}
<1> DEFINE n == Len(att) + 1
           e == Prepared(c)
<1>0. IInv
  BY DEF SerialInv
<1>1. /\ e \in Attestation /\ call[c].keys = {e.key}
      /\ IF e.prev = ZERO_UID THEN call[c].ok = {} /\ e.version = 1
         ELSE e.prev \in Uids /\ e.version = att[e.prev].version + 1
      /\ \A a \in call[c].ok : att[a].version < e.version
  BY <1>0, PreparedLinks
<1>2. att \in Seq(Attestation)
  BY <1>0 DEF IInv, TypeOK
<1>3. /\ Uids' = Uids \cup {n} /\ n \notin Uids
      /\ \A u \in Uids : att'[u] = att[u]
      /\ att'[n] = e
  BY <1>1, <1>2, AttGrows DEF Uids
<1>4. e.opt # "misaddressed" /\ \A p \in Stores : e.by \in Trusts[p]
  <2>1. e.opt = call[c].opt /\ e.by = SignerOf[StoreOf[c]]
    BY DEF Prepared
  <2> QED
    BY <1>0, <2>1, Sets DEF SerialInv, CallTurns, TakeTurns
<1> HIDE DEF e
<1>5. ASSUME NEW w \in Uids, att[w].key = e.key PROVE att[w].prev # e.prev
  <2>1. w \in call[c].ok
    <3>1. call[c].pc = "verify" /\ call[c].todo = {} /\ call[c].kind \in WriteKinds
      BY DEF MayWrite, Resolved
    <3>2. Whole(call[c], att)
      BY DEF SerialInv, CallTurns
    <3> QED
      BY <1>1, <1>5, <3>1, <3>2 DEF Whole, Uids
  <2>2. SUFFICES ASSUME att[w].prev = e.prev PROVE FALSE
    OBVIOUS
  <2>3. e.prev # ZERO_UID
    BY <1>1, <2>1
  <2>4. att[w].version = e.version
    BY <1>0, <1>1, <2>2, <2>3 DEF IInv, LinkedVersions
  <2>5. att[w].version \in Nat
    BY <1>0, Typed
  <2> QED
    BY <1>1, <2>1, <2>4, <2>5
<1>6. Verified'
  BY <1>3, <1>4 DEF SerialInv, Verified
<1>7. NoForks'
  <2> SUFFICES ASSUME NEW u \in Uids', NEW w \in Uids', u # w,
                      att'[u].key = att'[w].key, att'[u].prev = att'[w].prev
               PROVE  FALSE
    BY DEF NoForks, Siblings, Prev
  <2>1. CASE u \in Uids /\ w \in Uids
    <3>1. ~Siblings(u, w, Prev)
      <4>1. att[u].key = att[w].key
        BY <1>3, <2>1
      <4> QED
        BY <2>1, <4>1 DEF SerialInv, NoForks
    <3>2. att[u].prev = att[w].prev
      BY <1>3, <2>1
    <3>3. Prev[u] = att[u].prev /\ Prev[w] = att[w].prev
      BY <2>1 DEF Prev
    <3> QED
      BY <3>1, <3>2, <3>3 DEF Siblings
  <2>2. CASE u = n /\ w \in Uids
    BY <1>3, <1>5, <2>2
  <2>3. CASE u \in Uids /\ w = n
    BY <1>3, <1>5, <2>3
  <2> QED
    BY <1>3, <2>1, <2>2, <2>3
<1> QED
  BY <1>3, <1>6, <1>7

(* Sign and Send: the new record is stored, or pending.                    *)
LEMMA TurnIssues ==
    ASSUME TakeTurns, SerialInv, OneInFlight, IInv', NEW c \in Calls, MayWrite(c),
           att' = Append(att, Prepared(c)), UNCHANGED <<expired, revoked>>,
           NEW pc, call' = [call EXCEPT ![c] =
                               [call[c] EXCEPT !.pc = pc, !.uid = Len(att) + 1]],
           \A d \in Calls : Home(d) \subseteq Home(d)',
           \/ pc = "check" /\ \A d \in Calls : Len(att) + 1 \in Home(d)'
           \/ pc = "wait" /\ Mode = "onchain"
    PROVE  SerialInv'
<1> DEFINE n == Len(att) + 1
           r == [call[c] EXCEPT !.pc = pc, !.uid = n]
<1>1. Verified' /\ NoForks' /\ Uids' = Uids \cup {n}
  BY TurnExtends
<1>2. IInv
  BY DEF SerialInv
<1>3. call[c] \in CallState /\ call[c].pc = "verify"
  BY <1>2, Sets DEF MayWrite, Resolved
<1>4. r.pc = pc /\ r.uid = n /\ r.opt = call[c].opt
  BY <1>3 DEF CallState
<1>5. call' = [call EXCEPT ![c] = r]
  OBVIOUS
<1> HIDE DEF r
<1>6. call'[c] = r /\ \A d \in Calls \ {c} : call'[d] = call[d]
  BY <1>2, <1>5, Sets
<1>7. \A d \in Calls \ {c} : call[d].pc = "idle"
  BY <1>3 DEF OneInFlight
<1>8. ASSUME NEW d \in Calls PROVE CallTurns(call'[d], att')
  <2>1. CASE d = c
    <3>1. r.opt # "misaddressed"
      BY <1>4 DEF SerialInv, CallTurns
    <3>2. r.pc \notin {"query", "verify"} /\ (Mode = "offchain" => r.pc # "wait")
      BY <1>4
    <3> QED
      BY <1>6, <2>1, <3>1, <3>2 DEF CallTurns, Whole
  <2>2. CASE d # c
    <3>1. call'[d] = call[d] /\ call[d].pc = "idle" /\ call[d].opt # "misaddressed"
      BY <1>6, <1>7, <2>2 DEF SerialInv, CallTurns
    <3> QED
      BY <3>1 DEF CallTurns, Whole
  <2> QED
    BY <2>1, <2>2
<1>9. ASSUME NEW d \in Calls, NEW u \in Uids' PROVE u \in Home(d)' \/ Pending(u)'
  <2>1. CASE u \in Uids
    <3>1. ~Pending(u)
      BY <1>3, <1>7 DEF Pending
    <3> QED
      BY <2>1, <3>1 DEF SerialInv
  <2>2. CASE u = n /\ pc = "check"
    BY <2>2
  <2>3. CASE u = n /\ pc = "wait"
    BY <1>4, <1>6, <2>3 DEF Pending
  <2> QED
    BY <1>1, <2>1, <2>2, <2>3
<1>10. expired' = {} /\ revoked' = {}
  BY DEF SerialInv
<1> QED
  BY <1>1, <1>8, <1>9, <1>10 DEF SerialInv

THEOREM StepTakesTurns ==
    ASSUME TakeTurns, SerialInv, OneInFlight, OneInFlight', [Next]_vars
    PROVE  SerialInv'
<1>0. IInv /\ IInv'
  BY StepKeeps DEF SerialInv
<1>1. ASSUME NEW c \in Calls, BeginWrite(c) PROVE SerialInv'
  <2>1. PICK k \in Keys : \/ \E opt \in Options : Begin(c, "set", {k}, Signers, opt)
                         \/ Begin(c, "delete", {k}, Signers, "plain")
    BY <1>1 DEF BeginWrite
  <2>2. \A opt \in Options : opt # "misaddressed"
    BY DEF TakeTurns
  <2> QED
    BY <1>0, <2>1, <2>2, TurnBegins
<1>2. ASSUME NEW c \in Calls, BeginRead(c) PROVE SerialInv'
  <2>1. ASSUME NEW k \in Keys, NEW kind \in {"get", "history"},
               Begin(c, kind, {k}, Signers, "plain")
        PROVE  SerialInv'
    BY <1>0, <2>1, TurnBegins
  <2>2. ASSUME NEW by \in Filters, Begin(c, "query", Keys, by, "plain") PROVE SerialInv'
    <3>1. "query" \notin WriteKinds
      BY DEF WriteKinds
    <3> QED
      BY <1>0, <2>2, <3>1, TurnBegins
  <2> QED
    BY <1>2, <2>1, <2>2 DEF BeginRead
<1>3. ASSUME NEW c \in Calls, QueryIndex(c) PROVE SerialInv'
  <2> DEFINE more == Matching(index[IndexerOf[StoreOf[c]]], call[c].keys, call[c].by)
             r == [call[c] EXCEPT !.pc = "verify", !.raw = call[c].raw \cup more,
                                  !.todo = call[c].todo \cup more]
  <2>1. call' = [call EXCEPT ![c] = r] /\ call[c].pc = "query"
    BY <1>3 DEF QueryIndex
  <2>2. UNCHANGED <<att, expired, revoked, index, cache>>
    BY <1>3 DEF QueryIndex
  <2> HIDE DEF more
  <2>3. /\ r.pc = "verify" /\ r.kind = call[c].kind /\ r.keys = call[c].keys
        /\ r.opt = call[c].opt /\ r.ok = call[c].ok /\ r.todo = call[c].todo \cup more
    BY <1>0, Sets DEF CallState
  <2> HIDE DEF r
  <2>4. CallTurns(call[c], att)
    BY DEF SerialInv
  <2>5. CallTurns(r, att) /\ r.pc # "wait"
    BY <2>1, <2>3, <2>4 DEF CallTurns, Whole
  <2>6. \A d \in Calls : Home(d)' = Home(d)
    BY <2>2 DEF Home
  <2> QED
    BY <1>0, <2>1, <2>2, <2>5, <2>6, TurnGoesOn
<1>4. ASSUME NEW c \in Calls, VerifyNext(c) PROVE SerialInv'
  <2>1. PICK u \in call[c].todo : \E fetched \in Fetches(u) :
             call' = [call EXCEPT ![c] =
                 [call[c] EXCEPT !.todo = call[c].todo \ {u},
                                 !.ok = IF Verifies(StoreOf[c], u) /\ fetched
                                        THEN call[c].ok \cup {u} ELSE call[c].ok]]
    BY <1>4 DEF VerifyNext
  <2>2. u \in Uids /\ StoreOf[c] \in Stores
    BY <1>0, Sets DEF CallGood, Uids
  <2>3. Verifies(StoreOf[c], u)
    <3>1. ~Lapsed(u)
      BY DEF Lapsed, SerialInv
    <3>2. ~(RequireTimestamp /\ Mode = "offchain")
      BY DEF TakeTurns
    <3> QED
      BY <2>2, <3>1, <3>2 DEF Verifies, SerialInv, Verified
  <2>4. Fetches(u) = {TRUE}
    <3>1. "storage" \notin Faults
      BY DEF TakeTurns
    <3> QED
      BY <3>1 DEF Fetches
  <2> DEFINE r == [call[c] EXCEPT !.todo = call[c].todo \ {u}, !.ok = call[c].ok \cup {u}]
  <2>5. call' = [call EXCEPT ![c] = r]
    BY <2>1, <2>3, <2>4
  <2>6. /\ r.pc = call[c].pc /\ r.kind = call[c].kind /\ r.keys = call[c].keys
        /\ r.opt = call[c].opt
        /\ r.ok = call[c].ok \cup {u} /\ r.todo = call[c].todo \ {u}
    BY <1>0, Sets DEF CallState
  <2> HIDE DEF r
  <2>7. UNCHANGED <<att, expired, revoked, index, cache>> /\ call[c].pc = "verify"
    BY <1>4 DEF VerifyNext
  <2>8. CallTurns(call[c], att)
    BY DEF SerialInv
  <2>9. CallTurns(r, att) /\ r.pc # "wait"
    BY <2>6, <2>7, <2>8 DEF CallTurns, Whole
  <2>10. \A d \in Calls : Home(d)' = Home(d)
    BY <2>7 DEF Home
  <2> QED
    BY <1>0, <2>5, <2>7, <2>9, <2>10, TurnGoesOn
<1>5. ASSUME NEW c \in Calls,
             \/ RefuseWrite(c) \/ CheckWrite(c)
             \/ ReturnGet(c) \/ ReturnHistory(c) \/ ReturnQuery(c)
      PROVE  SerialInv'
  <2>1. Finish(c) /\ UNCHANGED <<att, expired, revoked, index, cache>>
    BY <1>5 DEF RefuseWrite, CheckWrite, ReturnGet, ReturnHistory, ReturnQuery, Return
  <2>2. call[c].pc # "wait"
    BY <1>5 DEF RefuseWrite, CheckWrite, ReturnGet, ReturnHistory, ReturnQuery, Resolved
  <2> QED
    BY <1>0, <2>1, <2>2, TurnEnds
<1>6. ASSUME NEW c \in Calls, Reject(c) PROVE SerialInv'
  <2>1. Mode = "offchain"
    BY <1>6, VerifiedReadSupport DEF Reject, TakeTurns
  <2>2. call[c].pc # "wait"
    BY <2>1 DEF SerialInv, CallTurns
  <2>3. Finish(c) /\ UNCHANGED <<att, expired, revoked, index, cache>>
    BY <1>6 DEF Reject
  <2> QED
    BY <1>0, <2>2, <2>3, TurnEnds
<1>7. ASSUME NEW c \in Calls, Sign(c) PROVE SerialInv'
  <2>1. /\ MayWrite(c) /\ att' = Append(att, Prepared(c))
        /\ UNCHANGED <<expired, revoked>> /\ Store(c, Len(att) + 1)
    BY <1>7 DEF Sign
  <2>2. /\ \A d \in Calls : Home(d) \subseteq Home(d)' /\ Len(att) + 1 \in Home(d)'
        /\ call' = [call EXCEPT ![c] = [call[c] EXCEPT !.pc = "check", !.uid = Len(att) + 1]]
    BY <1>0, <2>1, TurnStores
  <2> QED
    BY <1>0, <2>1, <2>2, TurnIssues
<1>8. ASSUME NEW c \in Calls, Send(c) PROVE SerialInv'
  <2>1. /\ MayWrite(c) /\ att' = Append(att, Prepared(c)) /\ Mode = "onchain"
        /\ UNCHANGED <<expired, revoked, index, cache>>
        /\ call' = [call EXCEPT ![c] = [call[c] EXCEPT !.pc = "wait", !.uid = Len(att) + 1]]
    BY <1>8 DEF Send
  <2>2. \A d \in Calls : Home(d)' = Home(d)
    BY <2>1 DEF Home
  <2> QED
    BY <1>0, <2>1, <2>2, TurnIssues
<1>9. ASSUME NEW c \in Calls, Confirm(c) PROVE SerialInv'
  <2> DEFINE u == call[c].uid
             r == [call[c] EXCEPT !.pc = "check", !.uid = u]
  <2>1. Store(c, u) /\ UNCHANGED <<att, expired, revoked>>
    BY <1>9 DEF Confirm
  <2>2. /\ \A d \in Calls : Home(d) \subseteq Home(d)' /\ u \in Home(d)'
        /\ call' = [call EXCEPT ![c] = r]
    BY <1>0, <2>1, TurnStores
  <2>3. r.pc = "check" /\ r.opt = call[c].opt
    BY <1>0, Sets DEF CallState
  <2> HIDE DEF r
  <2>4. CallTurns(r, att)
    BY <2>3 DEF SerialInv, CallTurns, Whole
  <2> QED
    BY <1>0, <2>1, <2>2, <2>3, <2>4, TurnGoesOn
<1>10. ASSUME NEW u \in Uids, Mine(u) PROVE SerialInv'
  <2>1. UNCHANGED <<att, expired, revoked, call, index, cache>>
    BY <1>10 DEF Mine
  <2>2. \A d \in Calls : Home(d)' = Home(d)
    BY <2>1 DEF Home
  <2> QED
    BY <1>0, <2>1, <2>2, TurnWaits
<1>11. ASSUME NEW u \in Uids PROVE ~Revoke(u) /\ ~Expire(u)
  BY DEF Revoke, Expire, TakeTurns
<1>12. ASSUME NEW i \in Indexers, NEW u \in Uids, Discover(i, u) PROVE SerialInv'
  <2>1. UNCHANGED <<att, expired, revoked, call, cache>> /\ Scope # "local"
    BY <1>12 DEF Discover
  <2>2. \A d \in Calls : Home(d)' = Home(d)
    BY <2>1 DEF Home
  <2> QED
    BY <1>0, <2>1, <2>2, TurnWaits
<1>13. ASSUME NEW U \in SUBSET Findable, Timestamp(U) PROVE SerialInv'
  BY <1>13 DEF Timestamp, TakeTurns
<1>14. ASSUME NEW s \in Stores, Restart(s) PROVE SerialInv'
  <2>1. Mode = "offchain" /\ Scope = "local"
    BY <1>14, VerifiedReadSupport DEF Restart, TakeTurns
  <2>2. /\ UNCHANGED <<att, expired, revoked, index>>
        /\ call' = [d \in Calls |-> IF StoreOf[d] = s THEN IdleCall ELSE call[d]]
    BY <1>14 DEF Restart
  <2>3. Uids' = Uids /\ Prev' = Prev
    BY <2>2 DEF Uids, Prev
  <2>4. NoForks' /\ Verified' /\ expired' = {} /\ revoked' = {}
    BY <2>2, <2>3 DEF SerialInv, NoForks, Verified
  <2>5. ASSUME NEW d \in Calls PROVE CallTurns(call'[d], att')
    <3>1. CallTurns(IdleCall, att)
      BY DEF CallTurns, Whole, IdleCall
    <3>2. CallTurns(call[d], att)
      BY DEF SerialInv
    <3> QED
      BY <2>2, <3>1, <3>2
  <2>6. ASSUME NEW d \in Calls, NEW u \in Uids PROVE u \in Home(d)'
    <3>1. \A b \in Calls : call[b].pc # "wait"
      BY <2>1 DEF SerialInv, CallTurns
    <3>2. u \in Home(d)
      BY <3>1 DEF SerialInv, Pending
    <3> QED
      BY <2>1, <2>2, <3>2 DEF Home
  <2> QED
    BY <1>0, <2>3, <2>4, <2>5, <2>6 DEF SerialInv
<1>15. CASE UNCHANGED vars
  <2>1. UNCHANGED <<att, expired, revoked, call, index, cache>>
    BY <1>15 DEF vars
  <2>2. \A d \in Calls : Home(d)' = Home(d)
    BY <2>1 DEF Home
  <2> QED
    BY <1>0, <2>1, <2>2, TurnWaits
<1> QED
  BY <1>1, <1>2, <1>3, <1>4, <1>5, <1>6, <1>7, <1>8, <1>9, <1>10, <1>11, <1>12,
     <1>13, <1>14, <1>15 DEF Next, Progress

(* Sessions that take turns never fork a history: onchain, a session alone *)
(* over an index that lags, because its cache makes up for the lag, and    *)
(* any number over a shared local index; offchain, any number over a       *)
(* shared local index, whatever call is rejected or session restarted.     *)
THEOREM TurnsNeverFork ==
    ASSUME TakeTurns
    PROVE  Spec /\ []OneInFlight => []NoForks
<1>1. Init => SerialInv
  <2> SUFFICES ASSUME Init PROVE SerialInv
    OBVIOUS
  <2>1. IInv
    BY InitGood
  <2>2. Uids = {} /\ expired = {} /\ revoked = {} /\ \A c \in Calls : call[c] = IdleCall
    BY DEF Init, Uids
  <2>3. CallTurns(IdleCall, att)
    BY DEF CallTurns, Whole, IdleCall
  <2> QED
    BY <2>1, <2>2, <2>3 DEF SerialInv, Verified, NoForks
<1>2. SerialInv /\ OneInFlight /\ OneInFlight' /\ [Next]_vars => SerialInv'
  BY StepTakesTurns
<1>3. SerialInv => NoForks
  BY DEF SerialInv
<1> QED
  BY <1>1, <1>2, <1>3, PTL DEF Spec
=============================================================================
