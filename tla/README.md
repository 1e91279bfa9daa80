# A verification of eas-store

`eas-store` is a TypeScript library that keeps versioned key-value records as
EAS attestations, onchain or as signed offchain packages. A record names the
previous record of its key, so the history of a key is a linked chain; readers
verify every record and accept a key only if its verified records form one
chain. There is no server and no lock: sessions in different processes write
the same keys through an indexer that may lag, and the library's promises rest
on what each session loads, verifies and resolves between two awaits. A private
store keeps encrypted envelopes in such records, with a key registry and
recovery backups; a demo page drives all of it from one React component.

This directory holds TLA+ modules of that system, the TLC runs that check them,
and theorems checked by TLAPS. `PROJECT.json` lists the runs, maps every
definition to its source lines, gives each property a mutant of the code that
breaks it, and lists hazards and findings.

## Inventory

Paths are under `src/src/` unless they say otherwise.

| component | state | operations | what is hard | what must hold |
|---|---|---|---|---|
| EASKeyStore (`store.ts`) | write-through cache; everything else is in the indexer and on the chain | `set` `delete` `get` `history` `query` `verify` `timestamp` `batchTimestamp` | every operation is several awaits over shared state: races, stale loads, half-done writes | versions link; no lost update; a known fork is never continued; reads do not go back |
| chain resolution (`store.ts:60`) | none | `resolveCanonicalChain` | incomplete, forked, cyclic input in any order | accepts exactly the linear histories |
| verifier (`eas/verifier.ts`, `policies/`) | none | `verifyRecord` | verdicts change with time, revocation, timestamps and storage failures | a lapsed record is not trusted; a verdict does not corrupt a history |
| writers (`eas/onchain-writer.ts`, `eas/offchain-writer.ts`) | a pending transaction | `attest` | failure after the broadcast | what was sent is accounted for |
| indexers (`indexers/`) | memory map, localStorage item, EASScan | `index` `query` | lag, reordering, paging, read-modify-write of one item, a full store | acknowledged records can be found; paging misses nothing |
| storage (`storage/`) | content-addressed values | `put` `get` | a read that fails | |
| EAS contract and clock | attestations, timestamps, revocations | used through `eas/client.ts` | delay, revocation by others, expiry | |
| schema and codecs (`eas/schema.ts`, `codecs/`, `crypto/`) | none | encode, decode, hash | | pure conversions |
| schema registry (`eas/schema-registry.ts`, `private/schemas.ts`) | onchain registry | `ensureSchema` `registerSchema` `ensureAllPrivateSchemas` | check-then-act, any error taken for "missing", `Promise.all` | registered once; resolved means registered |
| EASStore facade, presets (`eas-store.ts`, `eas/networks.ts`) | none | forwards to EASKeyStore | | |
| EASPrivateStore (`private/store.ts`) | current identity | `set` `get` `grant` `revokeFuture` `rotate`, identity `create` `backup` `restore` `publishKey` | read-modify-write of an envelope over a store that only serialises the last step | envelopes stay readable; a revocation stays; an owner stays; a value is not invented |
| envelope encryption (`private/crypto.ts`) | none | `encryptValue` `decryptValue` `wrapDataKey` `unwrapDataKey` | a wrap is bound to owner, key, dapp and version | every wrap opens |
| key registry (`private/registry.ts`) | claims: records of an EASStore | `publish` `resolve` | racing publications, keys of another dapp | a claim names a key of its wallet and dapp |
| backups (`private/backup.ts`, `indexeddb-backup.ts`) | one backup per wallet and dapp | `backup` `restore` | overwritten backups, a backup of another dapp | the stored key is the slot's |
| mock provider (`testing.ts`) | storage and indexer it hands out | `store` `advancedStore` `reset` | a reset while a store is being made | a store's index and storage belong together |
| demo (`src/examples/vite-demo`) | React state, three refs, wallet, IndexedDB | boot, reset, connect, activate, records, schema publication, private actions | stale closures, two boots under StrictMode, reload, fields that are never disabled | the page uses what it shows; buttons come back; no published key without a backup |

Components interact by calls only: the store calls writer, indexer, storage and
verifier; the verifier calls the contract and storage; the private store and
the key registry call EASStore; the demo calls the stores and the schema
registry. Sessions interact only through the indexer, the storage and the chain.

## Modules

| module | models | used by |
|---|---|---|
| `VersionLog` | what EASStore promises: one append-only log per key until it forks for good | refined by KeyStore, used by PrivateIdentity, PrivateStore |
| `Chain` | the result of `resolveCanonicalChain` as operators on a set of records (`Status`, `ChainHead`) | KeyStore, ChainWalk |
| `ChainWalk` | the same function as the code runs it: grouping loop, root, walk, final count | run `chain_walk` |
| `KeyStore` | EASKeyStore with writers, verifier, indexer and contract | `MCKeyStore` |
| `PrivateIdentity` | key pairs, identities, registry claims (a `VersionLog`), backups | PrivateStore, Demo |
| `PrivateStore` | encrypted records (a `VersionLog`), envelopes and wraps | `MCPrivateStore` |
| `SchemaRegistry` | `ensureSchema` of many clients, `Promise.all` over several, and what it leaves running when it rejects | Demo |
| `Demo` | the page, composing PrivateIdentity and SchemaRegistry | `MCDemo` |
| `Paging` | the page loop of the EASScan indexer while attestations arrive | `MCAdapters` |
| `MockProvider` | the mock provider and the stores it makes | `MCAdapters` |
| `ChainProofs`, `WalkProofs`, `KeyStoreProofs` | theorems about Chain, ChainWalk and KeyStore | |
| `AdapterProofs`, `SchemaRegistryProofs` | theorems about Paging, MockProvider, SchemaRegistry | |
| `IdentityProofs`, `PrivateProofs` | lemmas about PrivateIdentity, theorems about PrivateStore | |
| `DemoProofs` | theorems about Demo, from those on its two parts | |

`KeyStore` implements `VersionLog` (property `ImplementsVersionLog`), and the
private modules are built on `VersionLog` alone, without carrying its state.
Two properties say how far that goes. `WritesContinueTheirRead`: what the private
modules call a write, `Write(k, base, e)` after a read of `base` versions, is
what the store does when it publishes. `ReadsArePrefixes`: what they take for
their read is some beginning of the history. So `PrivateStore` reads records in
two ways: a session over a memory or localStorage index sees the whole history of
that moment; one over EASScan, which `EASStore.private` uses by default (the
constant `Lagging`), sees any beginning of it that is not shorter than what its
call has read before. Across calls nothing is assumed, since a page reload
loses the cache. Two things stay simpler than the store: a key that forked reads
as null at once for everybody, and registry claims are read whole. Neither hides
a violation of the properties below: they say nothing of a forked key, and every
claim that a wallet ever published is of one of its own keys
(`KeysStayWithTheirWallet`).

### KeyStore and the code

A record is named by its uid, here its position in `att`, the sequence of all
attestations signed (offchain) or broadcast (onchain). `cache[s]` is
`writeThroughCache`, `index[i]` what indexer `i` knows, `call[c]` the local
variables of a client call. `known[s]` (what a session was told: records its
calls returned) and the `floor` of a call or record (what it may not contradict,
taken when the call starts) are history variables that no action reads.

| action | code |
|---|---|
| `BeginWrite`, `BeginRead` | entry of `set`, `delete`, `get`, `history`, `query` up to the first await; the cache is read here, and a memory or localStorage index too, because its `query` has no await before it reads |
| `QueryIndex` | the answer of a remote indexer |
| `VerifyNext` | one turn of the loop of `verifyRecords`, in `sortRecords` order |
| `RefuseWrite` | the two refusals of `prepareWrite` |
| `Sign` | `OffchainWriter.attest`, then cache and index, up to the final verification |
| `Send`, `Confirm` | `OnchainWriter.attest` up to the broadcast; `tx.wait()` to the index |
| `CheckWrite` | the verification that ends `write`, and its throw |
| `ReturnGet`, `ReturnHistory`, `ReturnQuery` | resolution and result |
| `Timestamp` | `timestamp`, `batchTimestamp` |
| `Reject` | any await that rejects; what was sent stays sent |
| `Restart` | a process ends, its calls, cache and knowledge of unindexed records are gone |
| `Mine`, `Discover`, `Revoke`, `Expire` | contract, EASScan, attesters and clock |

`Sign` is one step although it awaits the signer: nothing that happens between
`prepareWrite`'s decision and the signature changes the record, and nobody sees
the record before the cache and index are updated. The signer and storage awaits
of `prepareWrite` are before it and can reject (`Reject`).

Abstractions: genuine records only (signature, schema, namespace and payload
checks hold); one namespace; values by the fact that a fetch succeeds or not;
`limit`, `includeDeleted` and the order of results left out.

`ChainWalk` makes no assumption on predecessors. One remark from it: the
`visited` test at `store.ts:111` can never fire, since each record has a single
predecessor and the walk starts at a root, so a cycle is unreachable from it;
cycles are rejected by the final count at `store.ts:135`. The count would also
catch a fork without the test at `store.ts:124`: a walk that takes any child
passes the run too. So the mutants of the walk target the count, the grouping,
and the bound of that test. Another: a key whose first record has expired is
refused "because multiple verified heads exist", although it has one head, whose
predecessor is missing; the wording is not one that a property can be about.

### PrivateIdentity, PrivateStore and the code

A key pair is named by its position in `keys`, the sequence of all pairs
generated; `identity[s]` is `identityValue` of session `s`. `claims` and `lost`
are the registry's records as a `VersionLog` whose keys are the pairs of wallet
and dapp; `stored` is `KeyBackupStorage`, `backups` every backup that `backup()`
returned (its caller may keep it and pass it to `restore`). `log` and `forked`
are the records' histories, `call[c]` the locals of a client call.

| action | code |
|---|---|
| `CreateIdentity` | `identity.create` |
| `BeginBackup`, `PutBackup` | `identity.backup` up to the encryption; the storage's `put` |
| `Restore` | `identity.restore` of a given or stored backup |
| `BeginPublish`, `CommitPublish` | `publishKey`: the identity captured and the slot's last claim read; the claim written after it |
| `Readable`, `FirstReads`, `NextReads` | `loadKeyResolution`: how many versions a read returns |
| `BeginSet` | `set` up to the first reader; `rotate` is `set` with readers |
| `BeginGrant`, `Rewrap` | `grant`: the reader is resolved first; then the record is read, its owner checked and the caller's wrap unwrapped |
| `BeginRevoke`, `RevokeRead`, `RevokeSet` | `revokeFuture`: first read and readers; second read, with decryption; the inner `set` |
| `BeginDelete` | `EASStore.delete` of the backing store |
| `ResolveNext` | `resolveReader`, and `verifyReader` where the caller passed a reader |
| `Load`, `Commit` | the backing store's read before a write, and the write |
| `Throw` | any check or await that fails |

Cryptography is symbolic: an encryption is named by the position its record is
first written to, and `Opens` says which key pair under which context gets to
it. The `basis`, `checked`, `named` and `drops` of an entry are history.
Expiring keys are left out, and so is `get`, which changes nothing (what it can
read is `Opens`).

### SchemaRegistry, Paging, MockProvider and the code

| action | code |
|---|---|
| `Ensure` | the call of `ensureSchema`, or of `ensureAllPrivateSchemas` for several schemas |
| `QueryFound`, `QueryThrows` | `getSchema` answers; it throws, as it does for a schema that is missing and for a request that failed |
| `Register`, `RegisterFails` | `registerSchema`: mined, its wait failing or not; reverted or never sent |
| `Resolve`, `RejectAll` | `Promise.all`: resolved when all are, rejected with the first failure, the rest still running |
| `LateRegister` | a registration that nobody awaits any more, of a rejected call or a reloaded page, is mined beside retries |
| `BeginQuery`, `FetchPage`, `RequestFails` | `query` of the EASScan indexer, page by page |
| `Arrive` | external: EASScan learns an attestation, of any age |
| `ResetProvider`, `BeginStore`, `MakeStore` | `reset`; `store` before and after it awaits the signer's address |
| `PutValue`, `IndexRecord` | the two halves of a write of such a store |

### Demo and the code

`ui` is the React state, `refs` the three refs, `tasks` the handlers in
progress with what their closures captured (`seen`), `chain` the wallet's
network. An effect runs in the step of the change that triggers it.
`clearOutputs` resets the table in a transition (`startTransition`), which React
commits after the urgent updates of the same handler: `rows` is what the table
shows, `later` what it will show when a pending transition (`clearing`) is
rendered, and a row written meanwhile enters both.

| action | code (`App.tsx`) |
|---|---|
| `Click` | an enabled button: `setBusy(true)`, and the handler starts |
| `Boot`, `LocalMode` | `bootOffchainMode`, from the mount effect (twice under StrictMode, the first one cancelled) or from the mode |
| `Reset`, `Connect`, `Record` | `handleReset`, `handleConnectWallet` and `handleActivateOnchainMode`, `runAction` |
| `EnsureOnWalletChain`, `SchemaPublished` | `handlePublishSchema` before and after `ensureSchema` |
| `OpenPrivate` | `runPrivateAction`: the private store in use, or a new one |
| `Create`, `Encrypt`, `BackedUp`, `SignKey`, `KeyPublished` | the awaits of `handleSetupPrivateMode`, `handleCreatePrivateIdentity`, `handlePublishPrivateKey`, each with the matching action of PrivateIdentity |
| `PrivateSet`, `RestoreIdentity` | `handlePrivateSet`, `handlePrivateRestore` |
| `Fail` | the catch and finally blocks; activation falls back to local mode |
| `Type`, `TogglePrivate` | the fields that are never disabled; the private toggle |
| `CommitTransition` | React renders the pending transition of `clearOutputs`; other actions may come before it |
| `SwitchWallet`, `Reload`, `OtherClients` | the wallet's network, a page reload, other clients of the schema registry |

Abstractions: an effect is atomic with its trigger, which hides the short window
between a commit and its passive effects; making a local store cannot
fail; the selected network is not kept (aligning the configuration to the
wallet's network overrides it, and "custom" may `Fail`); claims of all networks
are taken together; one injected account; a transaction of `publishKey` in flight
at a reload counts as mined before it (one that registers a schema may be mined
after it, by `LateRegister`).

## Properties

KeyStore and the walk:

* `LinkedVersions`: every record starts at version 1 or continues an older
  record of its key with the next version.
* `WritesExtendKnown` (no lost update): a write has a higher version than
  everything its session knew when the write was called, lapsed records apart.
* `ForkedHistoryIsRefused`: no write follows when its session knew two siblings.
* `ReadsFresh`: `get` and `history` never go behind what the session knew.
* `ReadsArePrefixes`: what a call accepts of an unforked key is a beginning of its
  published history. Lag, lapses and filters shorten what is read, possibly to
  nothing, and never leave a gap in it.
* `WritesContinueTheirRead`: a record becomes public as a write that follows the
  beginning its call read: the next version if nothing came between, else a fork.
* `ScanReturnsCanonicalHeads`: the same for `query` and `scan`.
* `AcknowledgedIsDurable`: a local indexer has all that was acknowledged.
* `CallsReturn`: every call resolves or rejects.
* `ImplementsVersionLog`: the published records implement `VersionLog`.
* `FindsTheHistory`, `AgreesWithChain`: the walk accepts exactly the sets of
  records that can be listed root to head, and agrees with `Chain`.

"Knew" includes the session's acknowledged writes, its earlier results, and the
results of other sessions that the shared index already has. Two writers that
race without knowing of each other do fork a key; that is a behaviour of the
code and of the model (`VersionLog!Fork`), and the properties say what remains
true around it. A property that forbade forks would be false.

Private store. Each operation is a long read-modify-write of which only the last
read is checked, so each property names the read that may have been too early:

* `EveryWrapOpens`: every wrap of every envelope is of a key of its reader and
  opens the ciphertext beside it. `grant` binds its wrap to the context of the
  envelope it read; a wrap bound to anything else would lock the reader out.
* `OwnerKeepsAccess`: the owner opens an envelope with the pair that made it,
  unless somebody named the owner as a reader: then the registry's key of that
  wallet has the wrap.
* `RevocationHolds`: a revoked reader comes back only if a later call names it,
  as the owner of a new record, or by a call that read its reader list before
  the revocation.
* `OwnerIsStable`: an envelope changes owner only after a deletion, or by a call
  whose owner check did not see the envelope it replaces.
* `RewritesKeepValue`: `grant` and `revokeFuture` write a value that the record
  had during the call. Which one, is finding 3.
* `KeysStayWithTheirWallet`: sessions hold keys of their wallet only; registry
  and backup slots list keys generated for exactly that wallet and dapp, though
  a backup of one dapp may be restored into a session of another.

Schema registry, adapters and demo:

* `CreatedOnce`, `ResolvedMeansRegistered`: one client at most is told that it
  created a schema; a resolved call left all its schemas registered. Both with
  retries beside the registrations that a rejected call has left running.
* `PagingComplete`, `QueryEnds`: shifted pages miss no match that the index had
  when the query started; the query ends.
* `IndexedValuesAreStored`: no store finds a record whose value it lacks.
* `BusyMeansRunning`, `BusyEnds`: exactly one handler runs while the buttons are
  disabled, none while they are not, and the buttons come back.
* `StoresMatchTheView`: an idle page uses the store and private store of the mode
  and namespace it shows.
* `RowsAreOfTheStoreInUse`: an idle page that has a store shows rows of a replaced
  one only while the transition that clears the table is pending, and that
  transition takes away these rows and no other.
* `PrivateModeHasIdentity`: private mode is on only over a private store that
  holds an identity of its wallet.
* `PublishedWasBackedUp`: a published key was backed up, or the user saw the
  backup fail.

## Runs

| run | instance | distinct states | shows |
|---|---|---|---|
| `shared` | offchain, local index, 2 sessions, all operations | 306 thousand | races of every two operations keep the safety properties; durability |
| `lag` | onchain, remote index, 2 sessions, `set` and `get`, revocations | 1.4 million | the cache covers the lag of the index; heads and middle records are revoked at any moment; reads are beginnings of the history that writes continue |
| `retry` | onchain, remote, 1 session with 2 calls, `set` and `get`, rejections, restarts | 596 thousand | a session that races itself; a rejected call whose transaction is mined later, then a retry; a restart loses only what no one was promised |
| `lapse` | offchain, local, 1 session, timestamps required, expiring and misaddressed records, throwing index | 201 thousand | records that exist and do not verify |
| `live` | onchain, remote, 2 sessions, `set` and `query`, fair | 48 thousand | termination of calls and the refinement |
| `chain_walk` | any 4 records, any predecessors (cycles, missing ones) | 28 thousand | the walk |
| `private` | Alice on two devices, Bob on two, one of each reading late, one record, 2 calls | 543 thousand | every operation on an envelope races every other and a change of Bob's key, over fresh and stale reads |
| `demo` | 2 namespaces, 2 networks, 6 kinds of visitor, one reload, one other client | 282 thousand | the page with its identities, backups, registry and schemas |
| `adapters` | 4 attestations in pages of 2, 2 stores of a provider reset once | 217 thousand | paging and the mock provider |
| `filter` `past` `grant` | small | violations | the findings below |

Bounds. Every run of MCKeyStore has one key (histories of different keys do not
interact except through `query`, which resolves each on its own), at most two
calls in flight, of two sessions or of one, and `MaxAtt = 3` attestations: enough
for a fork and a write after it, a lost update of a second version, a middle
record that lapses, and a retry after a retry. `SessionSymmetry` swaps the two
sessions with their calls and signers, `CallSymmetry` the two calls of one
session; neither is used under fairness.

`MCPrivateStore` has one record of at most `MaxLog = 3` versions (a revocation,
a call that started before it, and one after), `MaxKeys = 3` pairs and
`MaxClaims = 2` claims of a wallet (Bob's key and its replacement), and two calls
in flight. Alice writes, revokes and deletes on one device and grants on another,
which reads late (`Lagging`); Bob writes on one, which reads late too, and changes
his key on the other. (Revocations over late reads, with their three reads of the
record, are covered by the theorems only: the instance with them has more than
twice the states.) Both start with published keys, in one of two
states: the record has one version, Alice's envelope for Bob or her tombstone,
and Bob's second device has lost the pair it generated, so that the record gets
the other versions while keys stand still; or the record has two versions for Bob
and the device may generate and publish a pair while the record gets its last
one. Both at once only multiply. Backups and restoring run in `demo`.

`MCDemo` starts with no schema registered and the wallet on `n1` (the other
network is symmetric up to the schema it lacks). The six visitors use different
parts of the page: the workspace; schema publication beside another client; the
same with a wallet that changes its network, and records; private mode while the
namespace changes and the page reloads; private records while the namespace
changes; private mode while the mode changes. The pending transition may commit
between any two steps of any of them. `Workers = {1, 2}` handlers are enough by
`BusyMeansRunning`, which counts them: only a cancelled boot runs beside one.
One reload (`MaxReloads`), two pairs (`MaxKeys`) and one claim per slot
(`MaxClaims`) let a second identity replace one that a first page had published
or only backed up.

In `adapters` pages have `Take = 2` of four attestations, two of which match:
three pages when the count is even, and arrivals in front of, within and behind
the offset. One reset (`MaxResets`) falls between any two steps of two stores.

The theorems below have none of these bounds.

Fairness. Run `live`: weak fairness of each call's next step, since the
JavaScript runtime resumes a settled await and the awaited services answer; of
`Mine`, since a broadcast transaction is eventually mined; and of `Discover`,
since EASScan indexes what is mined. Nothing forces clients to call. Rejections
are switched off there: they would only end calls earlier. Run `demo`: weak
fairness of `Settles`, the promises that the page awaits, which resolve or reject
(also by `Fail`); the visitor, the wallet and other clients are not forced to do
anything. Run `adapters`: weak fairness of `FetchPage`, since a request is
answered, or ends the query by failing; a query ends because only finitely many
attestations arrive meanwhile.

Deadlock is checked except in `demo` and `adapters`. There the system really
stops: a visitor who uses a few controls of the page leaves an idle page with
nothing left to do, and the attestations, stores and records of the instance can
all have arrived. In the KeyStore runs reads can always be called, in `private`
calls can always begin, and the walk stutters when it is done.

## Findings

1. `filter`: `query({ attester })` filters records before it resolves chains, so
   it returns a record that another attester has superseded, although
   `README.md:268` promises canonical heads. The run lets one call run at a time
   (`TurnsSpec`), so the history it shows is not a fork: Alice writes version 1,
   Bob version 2, and a query for Alice's records returns version 1.
2. `past`: a write is refused for unverifiable records only when none of the
   key's records verify. If the newest fails and an older one verifies, for
   instance because one storage read failed, the write forks the history, which
   no later write can repair.
3. `grant`: `grant()` writes back the envelope it has read several awaits
   before, as a new version after whatever is the last one by then. A `set()` in
   between is undone: the newest version has the older value, although
   `README.md:397-400` passes `scope: "latest-version"`. In the run Alice writes
   with one device and grants with another, and every read sees the whole history:
   the grant reads version 1, version 2 is committed, and the grant's version 3
   has the value of version 1. (Over EASScan a late read has the same effect.) `RewritesKeepValue` is
   what remains true.

## What is proved

TLAPS checks, for all values of the constants (any number of sessions, calls,
keys, wallets, records, stores, visitors; any mode, policy and fault set; every
bound any number):

* `HeadIsNewest` (ChainProofs): in a canonical set the record without successors
  is unique and newest. This is where the walk's meaning enters the proofs; it
  needs that a least element of a set of naturals exists, and that a version
  determines its record in a fork-free set. `NextLog`, which the refinement rests
  on, adds that the versions of a canonical set are 1 to its size, so that one
  more record is the log's next entry or forks it.
* `WalkTypes`, `WalkFindsTheHistory`, `WalkIsStatus` (WalkProofs): from `WalkInv`,
  for any number of records with any predecessors, cycles included. It says that
  the chain so far runs from the only root without repetition (`Trail`), that the
  current record is its only successor (`Front`), and that every order of the
  records that is a history begins like it (`Forced`), so that each early return
  refuses records without such an order. The final count is right because a
  record left over would have an oldest one, which forks from the chain
  (`NothingIsLeft`); this is where `AgreesWithChain` needs that a predecessor is
  older. `KeyStore` satisfies that by `LinkedVersions`.
* `TypeCorrect`, `RecordsAreLinked` (KeyStoreProofs): from the inductive
  invariant `IInv`, which is `TypeOK`, `LinkedVersions` and, for each call, that
  all its records are of its keys (`CallGood`). Neither half is inductive alone:
  a version is a number because the head it follows was issued, and a head
  exists because issued records are linked.
* `NoLostUpdate`, `ForksAreNotContinued`, `ReadsDoNotGoBack`,
  `ScansAreCanonical` (KeyStoreProofs): from `KInv`, under the assumption that
  storage reads do not fail (finding 2 is what happens otherwise), the last one
  also without attester filters (finding 1). `KInv` says where knowledge lives:
  what a session knows is in its cache or its index, and a record of a call's
  floor is, while the call runs, in what it loaded or in the index it has yet to
  ask, and later waiting for verification, verified, or lapsed. It is inductive
  because records, timestamps, expirations, revocations and indexes only grow
  (`Grows`), and a restart ends the calls whose cache it clears.
* `AcknowledgedIsIndexed` (KeyStoreProofs): what a session knows is in its cache
  or its index (`KInv`, so storage reads are assumed not to fail here too), and
  with a local index and without faults of it the cache is within the
  index (`CacheIndexed`): only the end of a write fills the cache, and it fills
  both.
* `StoreImplementsLog` (KeyStoreProofs): `Spec => ImplementsVersionLog`, for
  finitely many calls and, offchain, an `index()` that does not throw. `PubInv`
  says that a session only loads what is published and that the predecessor of a
  record was published before it, so a published set is always linked. Then a
  step publishes at most one record (`StepPublishes`: `Mine` onchain, `Sign`
  offchain), which by `NextLog` is `Extend`, `Fork` or, after a fork, no step of
  the log. `Bounded` says that the guard of `BeginWrite` keeps the records within
  `MaxAtt`, the entries of the log.
* `PublicationsAreWrites` (KeyStoreProofs): from `PubInv` too. That a record of
  version `v` is published when its key has at least `v - 1` entries is
  `NextVersionFits`: its predecessor is public, and the versions of a canonical
  set leave no gap (`HistoryFills`).
* `ReadsAreBeginnings` (KeyStoreProofs): a session loads only what is published
  (`PubInv`), so what it accepts is a canonical part of the history, and a
  canonical part begins it (`PartIsBeginning`): it contains the root, and with
  each record its predecessor, which in an unforked set is the previous version.
* `ForksAreRaces` (KeyStoreProofs): from `NoLostUpdate`. Siblings have one
  version, so neither can be among what the other one's write had to supersede.
* `TurnsNeverFork` (KeyStoreProofs): when at most one call is in flight, from
  `SerialInv`, which says that a record is in every store's home (its cache, or
  the index they share) unless the call that wrote it is still waiting for it,
  and that a write that loads or verifies has found all records of its key
  (`Whole`). `TakeTurns` names the configurations for which that is so: one
  session, or a local index for all; records that their readers trust and whose
  verdicts stand; rejections and restarts only offchain. Each exclusion is a way
  to fork: over EASScan the second session may ask too early, and a broadcast
  whose call was rejected is mined unseen.
* `PagingTypes`, `PagesMissNothing` (AdapterProofs): from `PagingInv`. Every match
  known at the first request is either kept or still at or behind the offset: an
  arrival can only move it further back. The answer may mix arrivals of several
  moments.
* `MockStoresAreWhole` (AdapterProofs): from `MockInv`, which adds that a made
  store's storage and index are of one generation and that a record being
  written has its value there.
* `SchemasCreatedOnce`, `ResolvedCallsRegistered` (SchemaRegistryProofs): from
  `SchemaInv`: found or created means registered, two clients never both have
  "created", a call that has resolved has found or created each schema it asked
  for, and what earlier calls left running can only register schemas that are
  not registered, which nobody has found or created.
* `KeysStay` (PrivateProofs): from `IdentityInv` (IdentityProofs), which adds to
  the property that backups and jobs hold issued keys of the right wallet. The
  same lemmas serve Demo.
* `PrivateTypes`, `OwnersAreStable` (PrivateProofs): from `RecordInv`: a call
  past its owner check is of the owner of the version it checked
  (`Current`), as long as the history has not forked. `Current` holds of a call
  whose reads lag because they do not go back within it (`NextReadVersions`): the
  version it checked is there, and not newer than the one it loads at last. For
  any `Lagging`, so the theorems are about local indexes, EASScan and both at once.
* `EnvelopesOpen`, `OwnersKeepAccess`, `RevocationsHold`, `RewritesInventNothing`
  (PrivateProofs): from `EnvelopeInv`, which adds to `RecordInv` that every
  history is good (`HistoryGood`) and what each call knows of the record it is
  about to write (`Knows`): the keys it resolved are of its readers, and its
  readers were named or are those of the version it read. `Continues` says what a
  record must be to follow a history, and `GoodHistoryContinues`, a fact about
  sequences alone, that a good history then stays good. `HistoryGood` is stronger
  than the four properties: a revoked reader is absent from the revoking envelope
  (`DropsLeave`), and a reader was named up to the version it reads
  (`ReadersNamed`), which is what a later call inherits.
* `PageTypes`, `OneHandlerAtATime`, `ViewAndStoresAgree`, `RowsAreCurrent`,
  `PrivateModeIsUsable`, `KeysAreBackedUpFirst` (DemoProofs): from `PageInv`, whose
  parts are the types, the invariants of the two composed modules, that one
  handler runs while busy and has the shape its kind needs (`OneHandler`,
  `TaskShapes`), that stores and rows follow the view (`StoresFollow`,
  `RowsFollow`: a transition changes no row but stale ones, without one there is
  nothing to change (`Tidy`), and a stale row would outlast it only while there
  is no store or a boot is under way), that identities live only in the private store in use
  (`IdentityFollows`), and that a backup or publication in progress is that
  handler's (`JobsFollow`, `BackupsFollow`: a key reaches the publishing step, or
  an idle page, only backed up or with its backup seen to fail).

The assumptions are on the constants only: `Parties` and `VerifiedReadSupport`
(the constructor's check) of KeyStore, `SomeRecords` of ChainWalk, `Identities`,
`Clients`, `EnsureLists`, `Pages` of Paging and of Demo, and `ResetBound`. TLC
evaluates them in the runs. Some theorems of KeyStoreProofs state what they add:
no failing storage reads (`NoLostUpdate`, `ForksAreNotContinued`,
`ReadsDoNotGoBack`, `ScansAreCanonical`, `ForksAreRaces`); a local index, no
failing storage reads and an `index()` that does not throw
(`AcknowledgedIsIndexed`); queries without attester filters (`ScansAreCanonical`);
offchain, an `index()`
that does not throw (`PublicationsAreWrites`, `ReadsAreBeginnings`,
`StoreImplementsLog`), because a record that is not indexed is not published;
finitely many calls (`StoreImplementsLog`); `TakeTurns`, and one call at a time
(`TurnsNeverFork`).

Only model-checked: liveness (`CallsReturn`, `BusyEnds`, `QueryEnds`), which is
outside the prover's reach. Every safety property of a passing run is proved.

## Plan

Done: the store and the walk; the private store over `VersionLog`; the schema
registry; paging and the mock provider; the demo; an inductive invariant for
each; the refinement of `VersionLog`. Next: expiring keys and `expiresAt` of
claims in PrivateIdentity.

## Not modelled

* Record schema, codecs, hashes, network presets: pure conversions and
  constants. Distinct records have distinct uids, and that is all a model needs.
* The facade's configurations (`eas-store.ts`): it keeps no state and forwards.
* The primitives of WebCrypto: external, symbolic in PrivateStore.
* Processes of one origin that rewrite the localStorage item at once: the code
  has no await between its read and its write, so the answer is the browser's
  storage mutex and not this repository's.
* EASScan's order among attestations of one second, and `limit`, which no code
  in `src/src/` passes down.
* Layout, labels and the raw schema editor of the demo. `App.tsx:915` puts the
  uid of a schema published on the wallet's network into the configuration then
  on screen, which may be of another network: the model has it, and since no
  document says that the two agree, no property does.
