--------------------------- MODULE PrivateIdentity ---------------------------
(***************************************************************************)
(* The encryption identities of the private store: identity.create,        *)
(* backup, restore and publishKey of EASPrivateStore                       *)
(* (src/src/private/store.ts), the key registry (registry.ts) and the      *)
(* recovery phrase backups (backup.ts, indexeddb-backup.ts).               *)
(*                                                                         *)
(* A key pair is named by its position in "keys", the sequence of pairs    *)
(* ever generated; its keyId is a hash of the pair with wallet and dapp.   *)
(* A registry claim is a record of the backing store, so the claims of a   *)
(* wallet for a dapp are a history that VersionLog describes: appended to  *)
(* by a publication that saw the last claim, forked by one that did not.   *)
(***************************************************************************)
EXTENDS Naturals, Sequences

CONSTANTS
    Sessions,            \* EASPrivateStore instances
    Wallets, WalletOf,   \* the wallet of a session's signer
    Dapps, DappOf,       \* options.dappId ?? options.namespace
    Phrases,
    Operations,          \* Operations[s]: those that the client of s uses
    MaxKeys, MaxClaims   \* bounds: pairs generated, claims of a slot

IdentityOperations == {"create", "backup", "restore", "publish"}

ASSUME Identities ==
    /\ WalletOf \in [Sessions -> Wallets]
    /\ DappOf \in [Sessions -> Dapps]
    /\ MaxKeys \in Nat /\ MaxClaims \in Nat

VARIABLES
    keys,          \* the key pairs generated so far
    identity,      \* identity[s]: identityValue, 0 for null
    stored,        \* stored[<<w, d>>]: the backup in KeyBackupStorage
    backups,       \* every backup that backup() returned
    claims, lost,  \* the registry: claims[<<w, d>>], and whether it forked
    job            \* job[s]: the backup or publication in progress

identityVars == <<keys, identity, stored, backups, claims, lost, job>>

Slots == Wallets \X Dapps
Uses == [wallet: Wallets, dapp: Dapps]
Backup == [key: Nat, phrase: Phrases]
NoBackup == [key |-> 0]
NoJob == [pc |-> "idle", key |-> 0, base |-> 0]

SlotOf(k) == <<keys[k].wallet, keys[k].dapp>>

Registry == INSTANCE VersionLog
    WITH Keys <- Slots, Entries <- Nat, log <- claims, forked <- lost

IdentityInit ==
    /\ keys = <<>>
    /\ identity = [s \in Sessions |-> 0]
    /\ stored = [x \in Slots |-> NoBackup]
    /\ backups = {}
    /\ Registry!Init
    /\ job = [s \in Sessions |-> NoJob]

(* registry.resolve, then assertReaderDappScope: the key that the last     *)
(* claim of w for d names, 0 when the call throws: no claim, a forked      *)
(* history, or a claim that is not w's for d.                              *)
ResolvedKey(w, d) ==
    LET c == claims[<<w, d>>]
        k == c[Len(c)]
    IN  IF c # <<>> /\ keys[k] = [wallet |-> w, dapp |-> d] THEN k ELSE 0

-----------------------------------------------------------------------------
(* Mutant: the session has its identity before the pair is generated. *)
CreateIdentityEarly(s) ==
    /\ "create" \in Operations[s]
    /\ Len(keys) < MaxKeys
    /\ identity' = [identity EXCEPT ![s] = Len(keys) + 1]
    /\ UNCHANGED <<keys, stored, backups, claims, lost, job>>

(* identity.create: a new pair replaces the session's identity. *)
CreateIdentity(s) ==
    /\ "create" \in Operations[s]
    /\ Len(keys) < MaxKeys
    /\ keys' = Append(keys, [wallet |-> WalletOf[s], dapp |-> DappOf[s]])
    /\ identity' = [identity EXCEPT ![s] = Len(keys) + 1]
    /\ UNCHANGED <<stored, backups, claims, lost, job>>

(* identity.backup captures the identity, derives the phrase's key and     *)
(* encrypts, and then puts the result in the slot of wallet and dapp.      *)
BeginBackup(s) ==
    /\ "backup" \in Operations[s]
    /\ identity[s] # 0
    /\ job[s] = NoJob
    /\ job' = [job EXCEPT ![s] = [pc |-> "backup", key |-> identity[s], base |-> 0]]
    /\ UNCHANGED <<keys, identity, stored, backups, claims, lost>>

PutBackup(s, phrase) ==
    LET b == [key |-> job[s].key, phrase |-> phrase] IN
    /\ job[s].pc = "backup"
    /\ stored' = [stored EXCEPT ![SlotOf(b.key)] = b]
    /\ backups' = backups \cup {b}
    /\ job' = [job EXCEPT ![s] = NoJob]
    /\ UNCHANGED <<keys, identity, claims, lost>>

(* Mutant: restore does not compare the backup's wallet. *)
RestoreOfAnyone(s, b, phrase) ==
    /\ "restore" \in Operations[s]
    /\ b.phrase = phrase
    /\ identity' = [identity EXCEPT ![s] = b.key]
    /\ UNCHANGED <<keys, stored, backups, claims, lost, job>>

(* identity.restore: the given backup, or else the stored one, which is    *)
(* one of "backups" too.  The wallet must match and the phrase must        *)
(* decrypt; the dapp is not compared.  Nothing that changes is read after  *)
(* the first await, so the call is one step.                               *)
Restore(s, b, phrase) ==
    /\ "restore" \in Operations[s]
    /\ keys[b.key].wallet = WalletOf[s]
    /\ b.phrase = phrase
    /\ identity' = [identity EXCEPT ![s] = b.key]
    /\ UNCHANGED <<keys, stored, backups, claims, lost, job>>

(* publishKey captures the identity; the store's set() reads the slot's    *)
(* last claim and refuses a forked history.                                *)
BeginPublish(s) ==
    LET k == identity[s] IN
    /\ "publish" \in Operations[s]
    /\ k # 0
    /\ job[s] = NoJob
    /\ ~lost[SlotOf(k)]
    /\ Len(claims[SlotOf(k)]) < MaxClaims
    /\ job' = [job EXCEPT ![s] =
           [pc |-> "publish", key |-> k, base |-> Len(claims[SlotOf(k)])]]
    /\ UNCHANGED <<keys, identity, stored, backups, claims, lost>>

(* The claim is written after the last one read; if that is no longer the  *)
(* last, the slot's history is forked.                                     *)
CommitPublish(s) ==
    LET x == SlotOf(job[s].key) IN
    /\ job[s].pc = "publish"
    /\ Registry!Write(x, job[s].base, job[s].key)
    /\ job' = [job EXCEPT ![s] = NoJob]
    /\ UNCHANGED <<keys, identity, stored, backups>>

IdentityNext ==
    \E s \in Sessions :
        \/ CreateIdentity(s) \/ BeginBackup(s)
        \/ BeginPublish(s) \/ CommitPublish(s)
        \/ \E phrase \in Phrases :
              PutBackup(s, phrase) \/ \E b \in backups : Restore(s, b, phrase)

-----------------------------------------------------------------------------
Issued(k) == k \in 1..Len(keys)

IdentityTypeOK ==
    /\ keys \in Seq(Uses)
    /\ identity \in [Sessions -> Nat]
    /\ stored \in [Slots -> Backup \cup {NoBackup}]
    /\ backups \subseteq Backup
    /\ claims \in [Slots -> Seq(Nat)]
    /\ lost \in [Slots -> BOOLEAN]
    /\ job \in [Sessions -> [pc: {"idle", "backup", "publish"}, key: Nat, base: Nat]]
    /\ \A s \in Sessions :
          /\ identity[s] # 0 => Issued(identity[s])
          /\ job[s].pc # "idle" => Issued(job[s].key)
    /\ \A b \in backups : Issued(b.key)

(* Whatever is created, restored from another dapp's backup, backed up and *)
(* published, by sessions that race: a session only ever holds keys of its *)
(* own wallet, and the registry and the backup storage list a key only     *)
(* under the wallet and dapp it was generated for (backup.ts:150,          *)
(* registry.ts:95).                                                        *)
KeysStayWithTheirWallet ==
    /\ \A s \in Sessions : identity[s] # 0 => keys[identity[s]].wallet = WalletOf[s]
    /\ \A x \in Slots :
          /\ \A i \in DOMAIN claims[x] : Issued(claims[x][i]) /\ SlotOf(claims[x][i]) = x
          /\ stored[x] # NoBackup => SlotOf(stored[x].key) = x
=============================================================================
