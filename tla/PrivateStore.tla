----------------------------- MODULE PrivateStore -----------------------------
(***************************************************************************)
(* EASPrivateStore (src/src/private/store.ts): encrypted records over the  *)
(* versioned store, with the envelopes and wrapped keys of crypto.ts.      *)
(*                                                                         *)
(* The backing store is VersionLog, which KeyStore implements: a write     *)
(* continues the history it read, or forks it, and a forked key reads as   *)
(* null and refuses writes.  A read returns a beginning of the history: a  *)
(* local index answers with all of it, EASScan, the default                *)
(* (eas-store.ts:280-286), with what it has by then.  Every operation here *)
(* is a longer sequence of awaits around one such write: it reads the      *)
(* record and the registry first and only the last read is checked.        *)
(*                                                                         *)
(* Cryptography is symbolic.  An encryption is named by the position its   *)
(* record is first written to; a wrap is readable with one key pair and    *)
(* under the context it was made for, and with nothing else.               *)
(***************************************************************************)
EXTENDS PrivateIdentity, FiniteSets

CONSTANTS
    Names,               \* the keys of the records
    ReaderLists,         \* the options.readers that clients pass
    Calls,               \* client calls that may be in flight
    Lagging,             \* the sessions that read through EASScan
    MaxLog               \* bound: versions of a record

RecordOperations == {"set", "grant", "revoke", "delete"}

ASSUME Clients ==
    /\ Sessions # {} /\ Names # {}
    /\ Operations \in [Sessions -> SUBSET (IdentityOperations \cup RecordOperations)]
    /\ ReaderLists \subseteq SUBSET Wallets
    /\ Lagging \subseteq Sessions
    /\ MaxLog \in Nat

VARIABLES
    log, forked,   \* the history of each record
    call           \* the state of each client call

recordVars == <<log, forked, call>>
vars == <<identityVars, recordVars>>

Data == INSTANCE VersionLog WITH Keys <- Names, Entries <- Nat

-----------------------------------------------------------------------------
(* Envelopes *)

Context == [version: Nat, owner: Wallets, key: Nat, dapp: Dapps]
Wrap == [key: Nat, data: Nat, context: Context]   \* key 0: no wrap

(* A record: a PrivateEnvelope or a tombstone.  "basis", "checked",        *)
(* "named" and "drops" are history, read by no action: the version the     *)
(* reader list was taken from, the one whose owner was checked, and the    *)
(* wallets that the call admitted and revoked.                             *)
Entry == [kind: RecordOperations, owner: Wallets, key: Nat, dapp: Dapps,
          version: Nat, data: Nat, value: Nat, wraps: [Wallets -> Wrap],
          basis: Nat, checked: Nat, named: SUBSET Wallets, drops: SUBSET Wallets]

(* contextFor: what a wrap of envelope e is bound to, for a caller in dapp d. *)
ContextOf(e, d) ==
    [version |-> e.version, owner |-> e.owner, key |-> e.key, dapp |-> d]

Readers(e) == {w \in Wallets : e.wraps[w].key # 0}

(* unwrapDataKey succeeds with key pair k under context x. *)
Unwraps(wrap, k, x) == wrap.key = k /\ wrap.context = x

(* decryptValue: the envelope's dapp, the wrap of this wallet and key, the *)
(* unwrapping and the decryption of the value. *)
Opens(e, k, d) ==
    LET wrap == e.wraps[keys[k].wallet] IN
    /\ e.dapp = d
    /\ k # 0 /\ Unwraps(wrap, k, ContextOf(e, d))
    /\ wrap.data = e.data

(* The version that store.getRecord(n) returns when m versions are read: 0 *)
(* for null, which a tombstone and a forked history read as.               *)
Visible(n, m) == IF m # 0 /\ log[n][m].kind # "delete" THEN m ELSE 0

-----------------------------------------------------------------------------
(* Calls *)

NoKeys == [w \in Wallets |-> 0]
IdleCall == [pc |-> "idle", kind |-> "set", name |-> CHOOSE n \in Names : TRUE,
             session |-> CHOOSE s \in Sessions : TRUE,
             me |-> 0, basis |-> 0, checked |-> 0, version |-> 0, value |-> 0,
             todo |-> {}, want |-> NoKeys, got |-> NoKeys,
             named |-> {}, drops |-> {}, base |-> 0]

DappOfCall(c) == DappOf[call[c].session]
Me(c) == identity[call[c].session]

(* The numbers of versions of n that a read of session s may return, when  *)
(* it has m0 of them already (ReadsArePrefixes and ReadsFresh of KeyStore). *)
Readable(s, n, m0) ==
    IF s \in Lagging THEN m0..Len(log[n]) ELSE {Len(log[n])}

(* The first read of a call, and a later one: what the session had before  *)
(* the call may be lost with its cache, when the page reloads.             *)
FirstReads(s, n) == Readable(s, n, 0)
NextReads(c) == Readable(call[c].session, call[c].name, call[c].checked)

(* Mutant: no owner check. *)
AnyoneModifies(n, v, k) == k # 0

(* requireIdentity and assertOwnerCanModify, of version v *)
OwnerCanModify(n, v, k) ==
    /\ k # 0
    /\ v # 0 => log[n][v].owner = keys[k].wallet

CanBegin(c, s, kind) == call[c].pc = "idle" /\ kind \in Operations[s]

Begin(c, s, kind, n, r) ==
    /\ CanBegin(c, s, kind)
    /\ call' = [call EXCEPT ![c] = [r EXCEPT !.session = s, !.kind = kind, !.name = n]]
    /\ UNCHANGED <<identityVars, log, forked>>

(* set(), up to the first resolution of a reader; rotate() is set() with   *)
(* readers.  Without readers and inheritReaders there is nobody to resolve. *)
BeginSet(c, s, n, m) ==
    LET v == Visible(n, m)
        inherited == IF v = 0 THEN {} ELSE Readers(log[n][v]) \ {log[n][v].owner}
        start(R, named) ==
            [IdleCall EXCEPT !.pc = "resolve", !.me = identity[s], !.basis = m,
                !.checked = m, !.version = v + 1, !.todo = R, !.named = named]
    IN  /\ CanBegin(c, s, "set")
        /\ OwnerCanModify(n, v, identity[s])
        /\ \/ \E R \in ReaderLists : Begin(c, s, "set", n, start(R, R))
           \/ Begin(c, s, "set", n, start(inherited, {}))

(* grant() resolves its reader before it reads the record. *)
BeginGrant(c, s, n, w) ==
    Begin(c, s, "grant", n, [IdleCall EXCEPT !.pc = "reader", !.todo = {w}, !.named = {w}])

(* revokeFuture() reads the record first, then resolves the reader. *)
BeginRevoke(c, s, n, m, w) ==
    /\ Begin(c, s, "revoke", n, [IdleCall EXCEPT !.pc = "reader", !.todo = {w},
                                 !.drops = {w}, !.basis = m, !.checked = m])
    /\ Visible(n, m) # 0

(* EASStore.delete() on the backing store: no identity, no owner check. *)
BeginDelete(c, s, n, m) ==
    /\ ~forked[n] /\ Len(log[n]) < MaxLog
    /\ Begin(c, s, "delete", n, [IdleCall EXCEPT !.pc = "commit", !.basis = m,
                                 !.checked = m, !.base = m])

(* resolveReader, and for a PrivateReader that the caller passed (want)    *)
(* also verifyReader: the registry must still name that key.               *)
ResolveNext(c) ==
    /\ call[c].pc \in {"reader", "others", "resolve"}
    /\ \E w \in call[c].todo :
          LET k == ResolvedKey(w, DappOfCall(c)) IN
          /\ k # 0
          /\ call[c].want[w] \in {0, k}
          /\ call' = [call EXCEPT ![c].todo = @ \ {w}, ![c].got[w] = k]
    /\ UNCHANGED <<identityVars, log, forked>>

At(c, kind, pc) == call[c].kind = kind /\ call[c].pc = pc /\ call[c].todo = {}

(* grant(): the record is read, its owner checked and the caller's wrap,   *)
(* found by wallet, unwrapped.                                             *)
Rewrap(c, m) ==
    LET n == call[c].name
        e == log[n][m]
        k == Me(c)
    IN  /\ At(c, "grant", "reader")
        /\ Visible(n, m) # 0
        /\ OwnerCanModify(n, m, k)
        /\ Unwraps(e.wraps[keys[k].wallet], k, ContextOf(e, DappOfCall(c)))
        /\ call' = [call EXCEPT ![c].pc = "resolve", ![c].me = k,
                                ![c].basis = m, ![c].checked = m]
        /\ UNCHANGED <<identityVars, log, forked>>

(* Mutant: the revoked reader is not excluded. *)
AllReaders(c) ==
    LET e == log[call[c].name][call[c].basis] IN Readers(e) \ {e.owner}

RemainingReaders(c) ==
    LET e == log[call[c].name][call[c].basis]
    IN  Readers(e) \ (call[c].drops \cup {e.owner})

(* Mutant: the decrypted value is dropped. *)
RevokeReadNothing(c, m) ==
    LET n == call[c].name
        v == Visible(n, m)
    IN  /\ At(c, "revoke", "reader")
        /\ ~forked[n]
        /\ Me(c) # 0
        /\ v # 0 => Opens(log[n][v], Me(c), DappOfCall(c))
        /\ call' = [call EXCEPT
               ![c].pc = "others", ![c].checked = m,
               ![c].todo = RemainingReaders(c), ![c].got = NoKeys]
        /\ UNCHANGED <<identityVars, log, forked>>

(* revokeFuture(): get() reads the record a second time and decrypts it;   *)
(* null if it is gone.  The readers still come from the first read, the    *)
(* log's entry "basis" (if the key forked meanwhile the call is about to   *)
(* fail at its last step anyway).                                          *)
RevokeRead(c, m) ==
    LET n == call[c].name
        v == Visible(n, m)
    IN  /\ At(c, "revoke", "reader")
        /\ ~forked[n]
        /\ Me(c) # 0
        /\ v # 0 => Opens(log[n][v], Me(c), DappOfCall(c))
        /\ call' = [call EXCEPT
               ![c].pc = "others", ![c].checked = m,
               ![c].todo = RemainingReaders(c), ![c].got = NoKeys,
               ![c].value = IF v = 0 THEN 0 ELSE log[n][v].value]
        /\ UNCHANGED <<identityVars, log, forked>>

(* revokeFuture(): the inner set() with the readers just resolved. *)
RevokeSet(c, m) ==
    LET v == Visible(call[c].name, m) IN
    /\ At(c, "revoke", "others")
    /\ OwnerCanModify(call[c].name, v, Me(c))
    /\ call' = [call EXCEPT
           ![c].pc = "resolve", ![c].me = Me(c), ![c].checked = m,
           ![c].version = v + 1, ![c].want = call[c].got,
           ![c].todo = {w \in Wallets : call[c].got[w] # 0}, ![c].got = NoKeys]
    /\ UNCHANGED <<identityVars, log, forked>>

(* Mutant: versions are counted from the first one loaded. *)
LoadOneBehind(c, m) ==
    LET n == call[c].name IN
    /\ call[c].pc = "resolve" /\ call[c].todo = {}
    /\ ~forked[n] /\ Len(log[n]) < MaxLog
    /\ call' = [call EXCEPT ![c].pc = "commit", ![c].base = m - 1]
    /\ UNCHANGED <<identityVars, log, forked>>

(* store.set(): the backing store loads the record once more. *)
Load(c, m) ==
    LET n == call[c].name IN
    /\ call[c].pc = "resolve" /\ call[c].todo = {}
    /\ ~forked[n] /\ Len(log[n]) < MaxLog
    /\ call' = [call EXCEPT ![c].pc = "commit", ![c].base = m]
    /\ UNCHANGED <<identityVars, log, forked>>

(* Mutant: only the resolved readers get a wrap. *)
KeysWithoutOwner(c, owner) == call[c].got

(* The readers of a new envelope: the writer, then those resolved; one     *)
(* with the writer's own wallet replaces it.                               *)
KeysFor(c, owner) ==
    [w \in Wallets |-> IF call[c].got[w] # 0 THEN call[c].got[w]
                       ELSE IF w = owner THEN call[c].me ELSE 0]

(* encryptValue: a fresh data key and ciphertext, and a wrap per reader. *)
Encrypted(c) ==
    LET r == call[c]
        owner == keys[r.me].wallet
        x == [version |-> r.version, owner |-> owner, key |-> r.me, dapp |-> DappOfCall(c)]
    IN  [kind |-> r.kind, owner |-> owner, key |-> r.me, dapp |-> DappOfCall(c),
         version |-> r.version, data |-> r.base + 1,
         value |-> IF r.kind = "set" THEN r.base + 1 ELSE r.value,
         wraps |-> [w \in Wallets |->
             [key |-> KeysFor(c, owner)[w], data |-> r.base + 1, context |-> x]],
         basis |-> r.basis, checked |-> r.checked, named |-> r.named, drops |-> r.drops]

(* Mutant: the new wrap is bound to the version of the record it is read   *)
(* from, not to the one in the envelope.                                   *)
RewrappedAtRecordVersion(c) ==
    LET r == call[c]
        e == log[r.name][r.basis]
        x == [ContextOf(e, DappOfCall(c)) EXCEPT !.version = r.basis]
    IN  [e EXCEPT !.kind = "grant",
             !.wraps = [w \in Wallets |-> IF r.got[w] = 0 THEN e.wraps[w]
                 ELSE [key |-> r.got[w], data |-> e.data, context |-> x]],
             !.basis = r.basis, !.checked = r.checked, !.named = r.named, !.drops = {}]

(* grant(): the envelope as it was read, with one wrap more or replaced.   *)
Rewrapped(c) ==
    LET r == call[c]
        e == log[r.name][r.basis]
        x == ContextOf(e, DappOfCall(c))
    IN  [e EXCEPT !.kind = "grant",
             !.wraps = [w \in Wallets |-> IF r.got[w] = 0 THEN e.wraps[w]
                 ELSE [key |-> r.got[w], data |-> e.data, context |-> x]],
             !.basis = r.basis, !.checked = r.checked, !.named = r.named, !.drops = {}]

Tombstone(c) ==
    [kind |-> "delete", owner |-> WalletOf[call[c].session], key |-> 0,
     dapp |-> DappOfCall(c), version |-> 0, data |-> 0, value |-> 0,
     wraps |-> [w \in Wallets |->
         [key |-> 0, data |-> 0,
          context |-> [version |-> 0, owner |-> w, key |-> 0, dapp |-> DappOfCall(c)]]],
     basis |-> call[c].basis, checked |-> call[c].checked, named |-> {}, drops |-> {}]

Written(c) ==
    CASE call[c].kind = "delete" -> Tombstone(c)
      [] call[c].kind = "grant"  -> Rewrapped(c)
      [] OTHER                   -> Encrypted(c)

(* The end of store.set() or delete(): the record continues the one loaded. *)
Commit(c) ==
    LET n == call[c].name IN
    /\ call[c].pc = "commit"
    /\ Data!Write(n, call[c].base, Written(c))
    /\ call' = [call EXCEPT ![c] = IdleCall]
    /\ UNCHANGED identityVars

(* A check or an await of the call fails: it throws, having written nothing. *)
Throw(c) ==
    /\ call[c].pc # "idle"
    /\ call' = [call EXCEPT ![c] = IdleCall]
    /\ UNCHANGED <<identityVars, log, forked>>

-----------------------------------------------------------------------------
Init ==
    /\ IdentityInit
    /\ Data!Init
    /\ call = [c \in Calls |-> IdleCall]

Next ==
    \/ IdentityNext /\ UNCHANGED recordVars
    \/ \E c \in Calls :
          \/ \E s \in Sessions, n \in Names :
                \/ \E w \in Wallets : BeginGrant(c, s, n, w)
                \/ \E m \in FirstReads(s, n) :
                      \/ BeginSet(c, s, n, m) \/ BeginDelete(c, s, n, m)
                      \/ \E w \in Wallets : BeginRevoke(c, s, n, m, w)
          \/ \E m \in NextReads(c) :
                Rewrap(c, m) \/ RevokeRead(c, m) \/ RevokeSet(c, m) \/ Load(c, m)
          \/ ResolveNext(c) \/ Commit(c) \/ Throw(c)

Spec == Init /\ [][Next]_vars

-----------------------------------------------------------------------------
(* Properties *)

CallState == [pc: {"idle", "reader", "others", "resolve", "commit"},
              session: Sessions, kind: RecordOperations, name: Names, me: Nat, basis: Nat, checked: Nat,
              version: Nat, value: Nat, todo: SUBSET Wallets,
              want: [Wallets -> Nat], got: [Wallets -> Nat],
              named: SUBSET Wallets, drops: SUBSET Wallets, base: Nat]

TypeOK ==
    /\ IdentityTypeOK
    /\ log \in [Names -> Seq(Entry)]
    /\ forked \in [Names -> BOOLEAN]
    /\ call \in [Calls -> CallState]

Envelopes(n) == {i \in DOMAIN log[n] : log[n][i].kind # "delete"}

(* However sets, grants, revocations and new identities interleave, every  *)
(* wrap of every envelope opens for the key it names: the pair is its      *)
(* reader's, the context is the envelope's and the data key decrypts the   *)
(* ciphertext beside it (decryptValue, wrapDataKey).                       *)
EveryWrapOpens ==
    \A n \in Names : \A i \in Envelopes(n) : \A w \in Readers(log[n][i]) :
        LET e == log[n][i]
            k == e.wraps[w].key
        IN  Issued(k) /\ keys[k].wallet = w /\ Opens(e, k, e.dapp)

(* The owner of an envelope can open it with the pair that made it, unless *)
(* the owner was named as a reader and another pair of that wallet was in  *)
(* the registry.                                                           *)
OwnerKeepsAccess ==
    \A n \in Names : \A i \in Envelopes(n) :
        LET e == log[n][i] IN
        \/ e.wraps[e.owner].key = e.key
        \/ \E j \in 1..i : e.owner \in log[n][j].named

(* A revoked reader comes back only when a later call names it, or by a    *)
(* call that had taken its reader list before the revocation was written,  *)
(* or as the owner of a new record.                                        *)
RevocationHolds ==
    \A n \in Names : \A i, m \in Envelopes(n) : i < m =>
        \A w \in log[n][i].drops \cap Readers(log[n][m]) :
            \/ w = log[n][i].owner
            \/ \E j \in (i + 1)..m :
                  \/ w \in log[n][j].named \cup {log[n][j].owner}
                  \/ log[n][j].basis < i

(* An envelope changes owner only after a deletion, or by a call whose     *)
(* owner check did not see the envelope it replaces.                       *)
OwnerIsStable ==
    \A n \in Names : \A i \in Envelopes(n) : i > 1 =>
        LET e == log[n][i]
            f == log[n][i - 1]
        IN  e.owner = f.owner \/ f.kind = "delete" \/ e.checked < i - 1

ValueAt(n, j) == IF j \in Envelopes(n) THEN log[n][j].value ELSE 0

(* grant() and revokeFuture() invent no value: what they write is the      *)
(* value of a version they could read during the call, null only if the    *)
(* record was deleted then.                                                *)
RewritesKeepValue ==
    \A n \in Names : \A i \in DOMAIN log[n] : log[n][i].kind \in {"grant", "revoke"} =>
        \E j \in log[n][i].basis..log[n][i].checked : log[n][i].value = ValueAt(n, j)

(* The readme's grant gives access to "latest-version", so the version it     *)
(* writes has the value of the one before it.                              *)
GrantLeavesLatestValue ==
    \A n \in Names : \A i \in DOMAIN log[n] :
        log[n][i].kind = "grant" => log[n][i].value = ValueAt(n, i - 1)
=============================================================================
