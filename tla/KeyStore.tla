------------------------------ MODULE KeyStore ------------------------------
(***************************************************************************)
(* EASKeyStore (src/src/store.ts) with what it calls: the onchain and      *)
(* offchain writers, the record verifier, a local or remote indexer, and   *)
(* the EAS contract as the library uses it.                                *)
(*                                                                         *)
(* Several store instances (sessions) serve concurrent client calls.  A    *)
(* call is a sequence of awaits, and between two of them any other call,   *)
(* the chain, the indexer or the clock may move.                           *)
(*                                                                         *)
(* An attestation is named by its uid, the position at which it was signed *)
(* (offchain) or sent (onchain) in "att".  Values, hashes and signatures   *)
(* are abstracted: a record is its key, operation, version, predecessor,   *)
(* attester and the option that decides whether it may lapse.              *)
(***************************************************************************)
EXTENDS Naturals, FiniteSets, Sequences, Chain

CONSTANTS
    Stores,          \* EASKeyStore instances, each with its own cache
    Calls, StoreOf,  \* client calls that may be in flight, and their store
    Signers, SignerOf,
    Indexers, IndexerOf,
    Keys,
    Kinds,           \* the operations that clients use
    Filters,         \* the attester filters that clients pass to query()
    Trusts,          \* Trusts[s]: the attesters store s trusts
    Mode,            \* config.mode
    Scope,           \* "local": Memory/LocalStorageIndexer, "remote": EASScan
    Options,         \* the options that clients pass to set()
    AllowExpired, AllowRevoked, RequireTimestamp,   \* config.verification
    Faults,          \* the failures of the environment that may happen
    MaxAtt           \* bound: attestations ever issued

WriteKinds == {"set", "delete"}
ReadKinds  == {"get", "history", "query"}

ASSUME Parties ==
    /\ StoreOf \in [Calls -> Stores]
    /\ SignerOf \in [Stores -> Signers]
    /\ IndexerOf \in [Stores -> Indexers]
    /\ Trusts \in [Stores -> SUBSET Signers]
    /\ Filters \subseteq SUBSET Signers
    /\ Kinds \subseteq WriteKinds \cup ReadKinds
    /\ Options \subseteq {"plain", "expiring", "misaddressed"}
    /\ Faults \subseteq {"io", "index", "storage", "crash", "revoke", "expire"}
    /\ {AllowExpired, AllowRevoked, RequireTimestamp} \subseteq BOOLEAN
    /\ MaxAtt \in Nat

(* EASKeyStore refuses at construction an indexer that drops the signed    *)
(* package: offchain mode needs a local indexer.                           *)
ASSUME VerifiedReadSupport ==
    /\ Mode \in {"onchain", "offchain"}
    /\ Scope \in {"local", "remote"}
    /\ Scope = "remote" => Mode = "onchain"

VARIABLES
    att,       \* the attestations issued so far
    mined,     \* onchain: those whose transaction is in the chain
    revoked, expired, stamped,
    index,     \* index[i]: the records indexer i knows
    cache,     \* cache[s]: writeThroughCache of store s
    call,      \* the state of each client call
    known      \* known[s]: uids this session acknowledged or returned

vars == <<att, mined, revoked, expired, stamped, index, cache, call, known>>

Uids == 1..Len(att)
Prev == [u \in Uids |-> att[u].prev]

Attestation == [key: Keys, op: WriteKinds, version: Nat, prev: Nat,
                by: Signers, opt: {"plain", "expiring", "misaddressed"},
                floor: SUBSET Nat]

IdleCall == [pc |-> "idle", kind |-> "none", keys |-> {}, by |-> {},
             opt |-> "plain", raw |-> {}, todo |-> {}, ok |-> {}, uid |-> 0,
             floor |-> {}]

-----------------------------------------------------------------------------
(* What a load selects and what the verifier accepts. *)

Matching(S, keys, by) == {u \in S : att[u].key \in keys /\ att[u].by \in by}

Lapsed(u) ==
    \/ u \in expired /\ ~AllowExpired
    \/ u \in revoked /\ ~AllowRevoked

Verifies(s, u) ==
    /\ att[u].by \in Trusts[s]
    /\ att[u].opt # "misaddressed"
    /\ ~Lapsed(u)
    /\ RequireTimestamp /\ Mode = "offchain" => u \in stamped

(* The outcomes of fetching the value of u from storage: a tombstone has   *)
(* none to fetch, and an exception of storage.get is a failed verification. *)
Fetches(u) ==
    IF "storage" \in Faults /\ att[u].op = "set" THEN BOOLEAN ELSE {TRUE}

Resolution(c) == Status(call[c].ok, Prev)
LatestOf(c)   == ChainHead(call[c].ok, Prev)

(* What a call of s may not contradict: the verified records its own       *)
(* session acknowledged or returned, and those of any session sharing the  *)
(* indexer once the indexer has them.                                      *)
Floor(s, keys) ==
    {u \in known[s] \cup
           (index[IndexerOf[s]] \cap UNION {known[p] : p \in
                {q \in Stores : IndexerOf[q] = IndexerOf[s]}}) :
        att[u].key \in keys /\ att[u].by \in Trusts[s]}

(* The call c resolves or rejects.  A session then knows the records that  *)
(* it was given.                                                           *)
Finish(c) == call' = [call EXCEPT ![c] = IdleCall]

Return(c, result) ==
    /\ Finish(c)
    /\ known' = [known EXCEPT ![StoreOf[c]] = @ \cup result]

-----------------------------------------------------------------------------
Init ==
    /\ att = <<>>
    /\ mined = {} /\ revoked = {} /\ expired = {} /\ stamped = {}
    /\ index = [i \in Indexers |-> {}]
    /\ cache = [s \in Stores |-> {}]
    /\ call = [c \in Calls |-> IdleCall]
    /\ known = [s \in Stores |-> {}]

(* Mutants: a load that skips the session's cache, or the local index. *)
LoadsNoCache(s) == IF Scope = "local" THEN index[IndexerOf[s]] ELSE {}
LoadsCacheOnly(s) == cache[s]

(* loadRecords: the cache is read when the call starts, and so is a local  *)
(* index; a remote one answers later (QueryIndex).                         *)
Loads(s) == cache[s] \cup IF Scope = "local" THEN index[IndexerOf[s]] ELSE {}

Begin(c, kind, keys, by, opt) ==
    LET s   == StoreOf[c]
        raw == Matching(Loads(s), keys, by)
    IN  /\ call[c].pc = "idle"
        /\ kind \in Kinds
        /\ call' = [call EXCEPT ![c] =
               [IdleCall EXCEPT
                   !.pc = IF Scope = "local" THEN "verify" ELSE "query",
                   !.kind = kind, !.keys = keys, !.by = by, !.opt = opt,
                   !.raw = raw, !.todo = raw, !.floor = Floor(s, keys)]]
        /\ UNCHANGED <<att, mined, revoked, expired, stamped, index, cache, known>>

Unsigned == {c \in Calls : call[c].pc \in {"query", "verify"} /\ call[c].kind \in WriteKinds}

BeginWrite(c) ==
    /\ Len(att) + Cardinality(Unsigned) < MaxAtt
    /\ \E k \in Keys :
          \/ \E opt \in Options : Begin(c, "set", {k}, Signers, opt)
          \/ Begin(c, "delete", {k}, Signers, "plain")

BeginRead(c) ==
    \/ \E k \in Keys, kind \in {"get", "history"} : Begin(c, kind, {k}, Signers, "plain")
    \/ \E by \in Filters : Begin(c, "query", Keys, by, "plain")

(* Mutant: only what the indexer answers counts as found. *)
QueryIndexCountsIndexed(c) ==
    LET r    == call[c]
        more == Matching(index[IndexerOf[StoreOf[c]]], r.keys, r.by)
    IN  /\ r.pc = "query"
        /\ call' = [call EXCEPT ![c] =
               [r EXCEPT !.pc = "verify", !.raw = more, !.todo = r.todo \cup more]]
        /\ UNCHANGED <<att, mined, revoked, expired, stamped, index, cache, known>>

QueryIndex(c) ==
    LET r    == call[c]
        more == Matching(index[IndexerOf[StoreOf[c]]], r.keys, r.by)
    IN  /\ r.pc = "query"
        /\ call' = [call EXCEPT ![c] =
               [r EXCEPT !.pc = "verify", !.raw = r.raw \cup more,
                          !.todo = r.todo \cup more]]
        /\ UNCHANGED <<att, mined, revoked, expired, stamped, index, cache, known>>

(* verifyRecords: one record at a time, higher versions first. *)
VerifyNext(c) ==
    LET r == call[c] IN
    /\ r.pc = "verify"
    /\ \E u \in r.todo : \E fetched \in Fetches(u) :
          /\ \A w \in r.todo : att[w].version <= att[u].version
          /\ call' = [call EXCEPT ![c] =
                 [r EXCEPT !.todo = r.todo \ {u},
                           !.ok = IF Verifies(StoreOf[c], u) /\ fetched
                                  THEN r.ok \cup {u} ELSE r.ok]]
    /\ UNCHANGED <<att, mined, revoked, expired, stamped, index, cache, known>>

Resolved(c, kinds) ==
    call[c].pc = "verify" /\ call[c].todo = {} /\ call[c].kind \in kinds

-----------------------------------------------------------------------------
(* set() and delete() *)

Unverifiable(c) == Resolution(c) = "empty" /\ call[c].raw # {}

(* Mutant: an ambiguous history is neither refused nor continued. *)
RefuseUnverifiable(c) ==
    /\ Resolved(c, WriteKinds)
    /\ Unverifiable(c)
    /\ Finish(c)
    /\ UNCHANGED <<att, mined, revoked, expired, stamped, index, cache, known>>

RefuseWrite(c) ==
    /\ Resolved(c, WriteKinds)
    /\ Resolution(c) = "ambiguous" \/ Unverifiable(c)
    /\ Finish(c)
    /\ UNCHANGED <<att, mined, revoked, expired, stamped, index, cache, known>>

(* Mutant: the version counts the records found, verified or not. *)
CountedVersion(c) == Cardinality(call[c].raw) + 1

NextVersion(c) ==
    IF call[c].ok = {} THEN 1 ELSE att[LatestOf(c)].version + 1

(* prepareWrite: continue the canonical head, or start the history. *)
Prepared(c) ==
    LET r == call[c]
    IN  [key |-> CHOOSE k \in r.keys : TRUE,
         op |-> r.kind,
         version |-> NextVersion(c),
         prev |-> IF r.ok = {} THEN ZERO_UID ELSE LatestOf(c),
         by |-> SignerOf[StoreOf[c]],
         opt |-> r.opt,
         floor |-> r.floor]

MayWrite(c) ==
    /\ Resolved(c, WriteKinds)
    /\ Resolution(c) # "ambiguous" /\ ~Unverifiable(c)

(* Mutants: the record is not cached, or a local indexer not told. *)
NotCached(s, u) == cache
NotIndexed(s, u) == index

Cached(s, u) == [cache EXCEPT ![s] = @ \cup {u}]

(* EASScan's index() does nothing. *)
Indexed(s, u) ==
    IF Scope = "local" THEN [index EXCEPT ![IndexerOf[s]] = @ \cup {u}] ELSE index

(* LocalStorageIndexer rewrites the whole map, and setItem throws when     *)
(* localStorage is full.                                                   *)
IndexMayThrow == "index" \in Faults /\ Scope = "local"

(* What write() does once the writer has returned: the record enters the   *)
(* cache, then the index.                                                  *)
Store(c, u) ==
    LET s == StoreOf[c] IN
    /\ cache' = Cached(s, u)
    /\ \/ /\ index' = Indexed(s, u)
          /\ call' = [call EXCEPT ![c] = [@ EXCEPT !.pc = "check", !.uid = u]]
       \/ /\ IndexMayThrow
          /\ index' = index
          /\ Finish(c)

Sign(c) ==
    /\ Mode = "offchain" /\ MayWrite(c)
    /\ att' = Append(att, Prepared(c))
    /\ Store(c, Len(att) + 1)
    /\ UNCHANGED <<mined, revoked, expired, stamped, known>>

Send(c) ==
    /\ Mode = "onchain" /\ MayWrite(c)
    /\ att' = Append(att, Prepared(c))
    /\ call' = [call EXCEPT ![c] = [@ EXCEPT !.pc = "wait", !.uid = Len(att) + 1]]
    /\ UNCHANGED <<mined, revoked, expired, stamped, index, cache, known>>

(* Mutant: write() goes on without awaiting the transaction. *)
ConfirmUnmined(c) ==
    /\ call[c].pc = "wait"
    /\ Store(c, call[c].uid)
    /\ UNCHANGED <<att, mined, revoked, expired, stamped, known>>

(* tx.wait() and the refetch of the attestation succeed. *)
Confirm(c) ==
    /\ call[c].pc = "wait"
    /\ call[c].uid \in mined
    /\ Store(c, call[c].uid)
    /\ UNCHANGED <<att, mined, revoked, expired, stamped, known>>

(* The verification that ends write(): the record is returned, or it is    *)
(* "written but failed local verification" and the call throws.            *)
CheckWrite(c) ==
    LET u == call[c].uid IN
    /\ call[c].pc = "check"
    /\ \E fetched \in Fetches(u) :
          Return(c, IF Verifies(StoreOf[c], u) /\ fetched THEN {u} ELSE {})
    /\ UNCHANGED <<att, mined, revoked, expired, stamped, index, cache>>

-----------------------------------------------------------------------------
(* get(), history() and query() *)

GetResult(c) ==
    IF Resolution(c) = "canonical" /\ att[LatestOf(c)].op # "delete"
    THEN {LatestOf(c)} ELSE {}

ReturnGet(c) ==
    /\ Resolved(c, {"get"})
    /\ Return(c, GetResult(c))
    /\ UNCHANGED <<att, mined, revoked, expired, stamped, index, cache>>

RefusesHistory(c) == Resolution(c) = "ambiguous" \/ Unverifiable(c)

ReturnHistory(c) ==
    /\ Resolved(c, {"history"})
    /\ Return(c, IF RefusesHistory(c) THEN {} ELSE call[c].ok)
    /\ UNCHANGED <<att, mined, revoked, expired, stamped, index, cache>>

(* One resolution per key of what the filter let through; keys without a   *)
(* canonical head, and by default tombstones, are left out.                *)
QueryResult(c) ==
    LET bucket(k) == {u \in call[c].ok : att[u].key = k}
        clear == {k \in Keys : Status(bucket(k), Prev) = "canonical"}
    IN  {h \in {ChainHead(bucket(k), Prev) : k \in clear} : att[h].op # "delete"}

ReturnQuery(c) ==
    /\ Resolved(c, {"query"})
    /\ Return(c, QueryResult(c))
    /\ UNCHANGED <<att, mined, revoked, expired, stamped, index, cache>>

-----------------------------------------------------------------------------
(* The environment *)

(* An await rejects: indexer or RPC request, storage.put, signer, wait().  *)
(* What was sent stays sent.                                               *)
Reject(c) ==
    /\ "io" \in Faults
    /\ call[c].pc # "idle"
    /\ Finish(c)
    /\ UNCHANGED <<att, mined, revoked, expired, stamped, index, cache, known>>

Mine(u) ==
    /\ Mode = "onchain"
    /\ u \in Uids \ mined
    /\ mined' = mined \cup {u}
    /\ UNCHANGED <<att, revoked, expired, stamped, index, cache, call, known>>

(* EASScan sees an attestation some time after the chain, in any order. *)
Discover(i, u) ==
    /\ Scope = "remote"
    /\ u \in mined \ index[i]
    /\ index' = [index EXCEPT ![i] = @ \cup {u}]
    /\ UNCHANGED <<att, mined, revoked, expired, stamped, cache, call, known>>

Revoke(u) ==
    /\ "revoke" \in Faults
    /\ u \in mined \ revoked
    /\ revoked' = revoked \cup {u}
    /\ UNCHANGED <<att, mined, expired, stamped, index, cache, call, known>>

(* A pending transaction does not expire: EAS would refuse to mine it.     *)
Expire(u) ==
    /\ "expire" \in Faults
    /\ u \in (IF Mode = "onchain" THEN mined ELSE Uids) \ expired
    /\ att[u].opt = "expiring"
    /\ expired' = expired \cup {u}
    /\ UNCHANGED <<att, mined, revoked, stamped, index, cache, call, known>>

(* timestamp() and batchTimestamp(), for uids a client can find. *)
Timestamp(U) ==
    /\ RequireTimestamp /\ Mode = "offchain"
    /\ U # {} /\ U \cap stamped = {}
    /\ stamped' = stamped \cup U
    /\ UNCHANGED <<att, mined, revoked, expired, index, cache, call, known>>

Findable == UNION {index[i] : i \in Indexers}

(* A session ends and starts again: only what an indexer holds survives. *)
Restart(s) ==
    /\ "crash" \in Faults
    /\ cache' = [cache EXCEPT ![s] = {}]
    /\ known' = [known EXCEPT ![s] = @ \cap index[IndexerOf[s]]]
    /\ call' = [c \in Calls |-> IF StoreOf[c] = s THEN IdleCall ELSE call[c]]
    /\ UNCHANGED <<att, mined, revoked, expired, stamped, index>>

-----------------------------------------------------------------------------
Progress(c) ==
    \/ QueryIndex(c) \/ VerifyNext(c)
    \/ RefuseWrite(c) \/ Sign(c) \/ Send(c) \/ Confirm(c) \/ CheckWrite(c)
    \/ ReturnGet(c) \/ ReturnHistory(c) \/ ReturnQuery(c)

Next ==
    \/ \E c \in Calls : BeginWrite(c) \/ BeginRead(c) \/ Progress(c) \/ Reject(c)
    \/ \E u \in Uids : Mine(u) \/ Revoke(u) \/ Expire(u)
    \/ \E i \in Indexers, u \in Uids : Discover(i, u)
    \/ \E U \in SUBSET Findable : Timestamp(U)
    \/ \E s \in Stores : Restart(s)

Spec == Init /\ [][Next]_vars

(* Every await settles, every sent transaction is mined and EASScan        *)
(* eventually indexes it.                                                  *)
Fairness ==
    /\ \A c \in Calls : WF_vars(Progress(c))
    /\ \A u \in 1..MaxAtt : WF_vars(u \in Uids /\ Mine(u))
    /\ \A i \in Indexers, u \in 1..MaxAtt : WF_vars(u \in Uids /\ Discover(i, u))

FairSpec == Spec /\ Fairness

-----------------------------------------------------------------------------
(* Properties *)

CallState == [pc: {"idle", "query", "verify", "wait", "check"},
              kind: WriteKinds \cup ReadKinds \cup {"none"},
              keys: SUBSET Keys, by: SUBSET Signers,
              opt: {"plain", "expiring", "misaddressed"},
              raw: SUBSET Nat, todo: SUBSET Nat, ok: SUBSET Nat, uid: Nat,
              floor: SUBSET Nat]

(* The type of the state: whatever a cache, an index, a load, a result or  *)
(* a session's knowledge names has been issued.                            *)
TypeOK ==
    /\ att \in Seq(Attestation)
    /\ \A S \in {mined, revoked, expired, stamped} : S \subseteq Uids
    /\ index \in [Indexers -> SUBSET Uids]
    /\ cache \in [Stores -> SUBSET Uids]
    /\ known \in [Stores -> SUBSET Uids]
    /\ call \in [Calls -> CallState]
    /\ \A c \in Calls :
          /\ call[c].raw \cup call[c].floor \subseteq Uids
          /\ call[c].todo \cup call[c].ok \subseteq call[c].raw
          /\ call[c].uid \in Uids \cup {0}
    /\ \A u \in Uids : att[u].floor \subseteq Uids

(* Whatever races, faults and restarts happened, a record either starts a  *)
(* history at version 1 or continues an earlier record of the same key     *)
(* with the next version (prepareWrite).                                   *)
LinkedVersions ==
    \A u \in Uids :
        IF att[u].prev = ZERO_UID THEN att[u].version = 1
        ELSE /\ att[u].prev \in 1..(u - 1)
             /\ att[att[u].prev].key = att[u].key
             /\ att[u].version = att[att[u].prev].version + 1

(* No lost update: a write supersedes every record that its session, or    *)
(* another one through the shared index, acknowledged or returned before   *)
(* the write was called, unless that record has since lapsed.              *)
WritesExtendKnown ==
    \A u \in Uids : \A a \in att[u].floor :
        Lapsed(a) \/ att[a].version < att[u].version

(* A write never continues a history that its session could know to be     *)
(* forked: it is refused instead of picking a branch.                      *)
ForkedHistoryIsRefused ==
    \A u \in Uids : \A a, b \in att[u].floor :
        Siblings(a, b, Prev) => Lapsed(a) \/ Lapsed(b)

Supersedes(h, a) == h = a \/ att[a].version < att[h].version

(* Reads do not go back: get() returns nothing older than what the session *)
(* knew when it was called (its own writes, earlier reads, and what others *)
(* published), so no deleted value reappears; history() leaves no such     *)
(* record out.                                                             *)
ReadsFresh ==
    \A c \in Calls : \A a \in call[c].floor :
        \/ Lapsed(a)
        \/ /\ Resolved(c, {"get"}) => \A h \in GetResult(c) : Supersedes(h, a)
           /\ Resolved(c, {"history"}) => RefusesHistory(c) \/ a \in call[c].ok

(* query() and scan() return canonical heads: no record of the result was  *)
(* known to be superseded, deleted or forked when the call was made.       *)
ScanReturnsCanonicalHeads ==
    \A c \in Calls : Resolved(c, {"query"}) =>
        \A h \in QueryResult(c) : \A a \in call[c].floor :
            att[a].key = att[h].key => Lapsed(a) \/ Supersedes(h, a)

(* A local indexer has every record that a session acknowledged or         *)
(* returned, so a restart, or another session, finds it.                   *)
AcknowledgedIsDurable ==
    \A s \in Stores : known[s] \subseteq index[IndexerOf[s]]

(* No record is written past an existing record of its key that did not    *)
(* pass verification: such a write is refused.                             *)
NeverContinuesPastUnverified ==
    [][\A c \in Calls : Len(att') > Len(att) /\ call'[c] # call[c]
          => call[c].raw = call[c].ok]_vars

(* Every call returns or rejects. *)
CallsReturn == \A c \in Calls : call[c].pc # "idle" ~> call[c].pc = "idle"

-----------------------------------------------------------------------------
(* The published history of a key, as VersionLog sees it. *)

Public == IF Mode = "onchain" THEN mined ELSE Findable

Published(k) == {u \in Public : att[u].key = k}

Log == [k \in Keys |->
    LET R == Published(k) IN
    IF Status(R, Prev) = "canonical"
    THEN [v \in 1..Cardinality(R) |-> CHOOSE u \in R : att[u].version = v]
    ELSE <<>>]

Forked == [k \in Keys |-> Status(Published(k), Prev) = "ambiguous"]

VLog == INSTANCE VersionLog WITH log <- Log, forked <- Forked, Entries <- 1..MaxAtt

(* Sessions that race, restart and read stale indexes still implement the  *)
(* log: published histories only grow, and a fork is never undone.         *)
ImplementsVersionLog == VLog!Spec

(* What a call accepts as the history of a key is a beginning of the       *)
(* published one, and its head the last entry of that beginning: an index  *)
(* that lags, verdicts that change and filters may shorten what is read,   *)
(* and never leave a gap in it or reorder it.                              *)
Seen(c, k) == {u \in call[c].ok : att[u].key = k}

ReadsArePrefixes ==
    \A c \in Calls : Resolved(c, WriteKinds \cup ReadKinds) =>
        \A k \in Keys : Status(Seen(c, k), Prev) = "canonical" /\ ~Forked[k] =>
            LET n == Cardinality(Seen(c, k)) IN
            /\ Seen(c, k) = {Log[k][v] : v \in 1..n}
            /\ ChainHead(Seen(c, k), Prev) = Log[k][n]

(* A record is published as a write that read the versions before its own: *)
(* it becomes the next entry if the log still ends there, and otherwise    *)
(* forks it.  PrivateStore and PrivateIdentity use the store as this.      *)
PublishesAsRead ==
    \A u \in Public' \ Public : VLog!Write(att'[u].key, att'[u].version - 1, u)

WritesContinueTheirRead == [][PublishesAsRead]_vars
=============================================================================
