---------------------------- MODULE IdentityProofs ----------------------------
(***************************************************************************)
(* Proofs about the encryption identities, for any sessions, wallets and   *)
(* dapps: keys stay with their wallet.  PrivateStore and Demo both run     *)
(* these actions, so the facts are stated of the actions.                  *)
(***************************************************************************)
EXTENDS PrivateIdentity, SequenceTheorems, TLAPS

StoredIsIssued == \A x \in Slots : stored[x] # NoBackup => Issued(stored[x].key)

(* The inductive invariant of the identities.  Pairs are never dropped, so *)
(* a pair that somebody holds keeps its wallet and dapp.                   *)
IdentityInv == IdentityTypeOK /\ StoredIsIssued /\ KeysStayWithTheirWallet

(* Nobody has a key yet. *)
LEMMA InitIdentityInv == IdentityInit => IdentityInv
<1> SUFFICES ASSUME IdentityInit PROVE IdentityInv
  OBVIOUS
<1>1. <<>> \in Seq(Uses) /\ <<>> \in Seq(Nat)
  OBVIOUS
<1>2. claims = [x \in Slots |-> <<>>] /\ lost = [x \in Slots |-> FALSE]
  BY DEF IdentityInit, Registry!Init
<1>3. IdentityTypeOK
  BY <1>1, <1>2 DEF IdentityInit, IdentityTypeOK, Backup, NoJob
<1>4. StoredIsIssued
  BY DEF IdentityInit, StoredIsIssued
<1>5. KeysStayWithTheirWallet
  <2>1. \A x \in Slots : DOMAIN claims[x] = {}
    BY <1>2
  <2> QED
    BY <2>1 DEF IdentityInit, KeysStayWithTheirWallet
<1> QED
  BY <1>3, <1>4, <1>5 DEF IdentityInv

(* An issued pair has the use it was generated for. *)
LEMMA IssuedUse ==
    ASSUME NEW k, keys \in Seq(Uses), Issued(k)
    PROVE  keys[k].wallet \in Wallets /\ keys[k].dapp \in Dapps /\ SlotOf(k) \in Slots
<1>1. keys[k] \in Uses
  BY ElementOfSeq DEF Issued
<1> QED
  BY <1>1 DEF Uses, SlotOf, Slots

(* A new pair takes the next number; the pairs before it are untouched. *)
LEMMA CreateKeepsInv ==
    ASSUME NEW s \in Sessions, IdentityInv, CreateIdentity(s)
    PROVE  IdentityInv'
<1> USE DEF IdentityInv
<1> DEFINE use == [wallet |-> WalletOf[s], dapp |-> DappOf[s]]
<1>1. use \in Uses
  BY Identities DEF Uses
<1>2. /\ keys' \in Seq(Uses)
      /\ Len(keys') = Len(keys) + 1
      /\ \A i \in 1..Len(keys) : keys'[i] = keys[i]
      /\ keys'[Len(keys) + 1] = use
  BY <1>1, AppendProperties DEF CreateIdentity, IdentityTypeOK
<1>3. Len(keys) \in Nat
  BY LenProperties DEF IdentityTypeOK
<1>4. /\ \A k : Issued(k) => k \in 1..Len(keys') /\ keys'[k] = keys[k]
      /\ Len(keys) + 1 \in 1..Len(keys') /\ Len(keys) + 1 \in Nat
  BY <1>2, <1>3 DEF Issued
<1>5. /\ identity' = [identity EXCEPT ![s] = Len(keys) + 1]
      /\ UNCHANGED <<stored, backups, claims, lost, job>>
  BY DEF CreateIdentity
<1>6. IdentityTypeOK'
  <2>1. \A t \in Sessions : identity'[t] = IF t = s THEN Len(keys) + 1 ELSE identity[t]
    BY <1>5 DEF IdentityTypeOK
  <2>2. identity' \in [Sessions -> Nat]
    BY <1>4, <1>5 DEF IdentityTypeOK
  <2>3. \A t \in Sessions :
            /\ identity'[t] # 0 => identity'[t] \in 1..Len(keys')
            /\ job'[t].pc # "idle" => job'[t].key \in 1..Len(keys')
    BY <1>4, <1>5, <2>1 DEF IdentityTypeOK
  <2>4. \A b \in backups' : b.key \in 1..Len(keys')
    BY <1>4, <1>5 DEF IdentityTypeOK
  <2> QED
    BY <1>2, <1>5, <2>2, <2>3, <2>4 DEF IdentityTypeOK, Issued
<1>7. StoredIsIssued'
  BY <1>4, <1>5 DEF StoredIsIssued, Issued
<1>8. KeysStayWithTheirWallet'
  <2>1. \A t \in Sessions : identity'[t] = IF t = s THEN Len(keys) + 1 ELSE identity[t]
    BY <1>5 DEF IdentityTypeOK
  <2>2. \A t \in Sessions : identity'[t] # 0 => keys'[identity'[t]].wallet = WalletOf[t]
    BY <1>2, <1>4, <2>1 DEF IdentityTypeOK, KeysStayWithTheirWallet
  <2>3. \A x \in Slots : \A i \in DOMAIN claims'[x] :
            /\ claims'[x][i] \in 1..Len(keys')
            /\ <<keys'[claims'[x][i]].wallet, keys'[claims'[x][i]].dapp>> = x
    BY <1>4, <1>5 DEF KeysStayWithTheirWallet, SlotOf
  <2>4. \A x \in Slots : stored'[x] # NoBackup =>
            <<keys'[stored'[x].key].wallet, keys'[stored'[x].key].dapp>> = x
    BY <1>4, <1>5 DEF KeysStayWithTheirWallet, StoredIsIssued, SlotOf
  <2> QED
    BY <2>2, <2>3, <2>4 DEF KeysStayWithTheirWallet, Issued, SlotOf
<1> QED
  BY <1>6, <1>7, <1>8

(* A backup or a publication begins with the identity that the session has. *)
LEMMA BeginJobKeepsInv ==
    ASSUME NEW s \in Sessions, IdentityInv, BeginBackup(s) \/ BeginPublish(s)
    PROVE  IdentityInv'
<1> USE DEF IdentityInv
<1>1. PICK pc \in {"backup", "publish"}, base \in Nat :
          /\ identity[s] # 0
          /\ job' = [job EXCEPT ![s] = [pc |-> pc, key |-> identity[s], base |-> base]]
          /\ UNCHANGED <<keys, identity, stored, backups, claims, lost>>
  <2>1. CASE BeginBackup(s)
    BY <2>1 DEF BeginBackup
  <2>2. CASE BeginPublish(s)
    <3>1. Issued(identity[s])
      BY <2>2 DEF BeginPublish, IdentityTypeOK
    <3>2. SlotOf(identity[s]) \in Slots
      BY <3>1, IssuedUse DEF IdentityTypeOK
    <3>3. Len(claims[SlotOf(identity[s])]) \in Nat
      BY <3>2, LenProperties DEF IdentityTypeOK
    <3> QED
      BY <2>2, <3>3 DEF BeginPublish
  <2> QED
    BY <2>1, <2>2
<1>2. IdentityTypeOK'
  BY <1>1 DEF IdentityTypeOK, Issued
<1>3. StoredIsIssued' /\ KeysStayWithTheirWallet'
  BY <1>1 DEF StoredIsIssued, KeysStayWithTheirWallet, Issued, SlotOf
<1> QED
  BY <1>2, <1>3

(* The storage has one slot for the wallet and dapp of each pair. *)
LEMMA PutBackupKeepsInv ==
    ASSUME NEW s \in Sessions, NEW phrase \in Phrases, IdentityInv, PutBackup(s, phrase)
    PROVE  IdentityInv'
<1> USE DEF IdentityInv
<1> DEFINE b == [key |-> job[s].key, phrase |-> phrase]
<1>1. Issued(b.key) /\ b \in Backup
  BY DEF PutBackup, IdentityTypeOK, Backup
<1>2. SlotOf(b.key) \in Slots
  BY <1>1, IssuedUse DEF IdentityTypeOK
<1>3. /\ stored' = [stored EXCEPT ![SlotOf(b.key)] = b]
      /\ backups' = backups \cup {b}
      /\ job' = [job EXCEPT ![s] = NoJob]
      /\ UNCHANGED <<keys, identity, claims, lost>>
  BY DEF PutBackup
<1> HIDE DEF b
<1>4. IdentityTypeOK'
  BY <1>1, <1>2, <1>3 DEF IdentityTypeOK, NoJob, Issued
<1>5. \A x \in Slots : stored'[x] = IF x = SlotOf(b.key) THEN b ELSE stored[x]
  BY <1>2, <1>3 DEF IdentityTypeOK
<1>6. StoredIsIssued'
  BY <1>1, <1>3, <1>5 DEF StoredIsIssued, Issued
<1>7. KeysStayWithTheirWallet'
  BY <1>3, <1>5 DEF KeysStayWithTheirWallet, Issued, SlotOf
<1> QED
  BY <1>4, <1>6, <1>7

(* restore compares the wallet. *)
LEMMA RestoreKeepsInv ==
    ASSUME NEW s \in Sessions, NEW phrase \in Phrases, NEW b \in backups,
           IdentityInv, Restore(s, b, phrase)
    PROVE  IdentityInv'
<1> USE DEF IdentityInv
<1>1. /\ Issued(b.key) /\ b.key \in Nat
      /\ keys[b.key].wallet = WalletOf[s]
      /\ identity' = [identity EXCEPT ![s] = b.key]
      /\ UNCHANGED <<keys, stored, backups, claims, lost, job>>
  BY DEF Restore, IdentityTypeOK, Backup
<1>2. IdentityTypeOK'
  BY <1>1 DEF IdentityTypeOK, Issued
<1>3. StoredIsIssued'
  BY <1>1 DEF StoredIsIssued, Issued
<1>4. KeysStayWithTheirWallet'
  BY <1>1 DEF KeysStayWithTheirWallet, IdentityTypeOK, Issued, SlotOf
<1> QED
  BY <1>2, <1>3, <1>4

(* A claim goes to the history of the pair's own slot, or costs it. *)
LEMMA CommitPublishKeepsInv ==
    ASSUME NEW s \in Sessions, IdentityInv, CommitPublish(s)
    PROVE  IdentityInv'
<1> USE DEF IdentityInv
<1> DEFINE k == job[s].key
           x == SlotOf(k)
<1>1. /\ Issued(k) /\ k \in Nat
      /\ job' = [job EXCEPT ![s] = NoJob]
      /\ UNCHANGED <<keys, identity, stored, backups>>
      /\ Registry!Write(x, job[s].base, k)
  BY DEF CommitPublish, IdentityTypeOK
<1>2. x \in Slots
  BY <1>1, IssuedUse DEF IdentityTypeOK
<1> HIDE DEF k, x
<1>3. /\ claims' \in [Slots -> Seq(Nat)] /\ lost' \in [Slots -> BOOLEAN]
      /\ \A y \in Slots : \A i \in DOMAIN claims'[y] :
            \/ i \in DOMAIN claims[y] /\ claims'[y][i] = claims[y][i]
            \/ y = x /\ claims'[y][i] = k
  <2>1. CASE UNCHANGED <<claims, lost>>
    BY <2>1 DEF IdentityTypeOK
  <2>2. CASE Registry!Extend(x, k)
    <3>1. claims' = [claims EXCEPT ![x] = Append(claims[x], k)] /\ lost' = lost
      BY <2>2 DEF Registry!Extend
    <3>2. claims[x] \in Seq(Nat)
      BY <1>2 DEF IdentityTypeOK
    <3>3. /\ Append(claims[x], k) \in Seq(Nat)
          /\ \A i \in DOMAIN Append(claims[x], k) :
                \/ i \in DOMAIN claims[x] /\ Append(claims[x], k)[i] = claims[x][i]
                \/ Append(claims[x], k)[i] = k
      BY <1>1, <3>2, AppendProperties, LenProperties
    <3> QED
      BY <1>2, <3>1, <3>3 DEF IdentityTypeOK
  <2>3. CASE Registry!Fork(x)
    BY <1>2, <2>3 DEF Registry!Fork, IdentityTypeOK
  <2> QED
    BY <1>1, <2>1, <2>2, <2>3 DEF Registry!Write, Registry!vars
<1>4. IdentityTypeOK'
  BY <1>1, <1>3 DEF IdentityTypeOK, NoJob, Issued
<1>5. StoredIsIssued'
  BY <1>1 DEF StoredIsIssued, Issued
<1>6. KeysStayWithTheirWallet'
  <2>1. SlotOf(k) = x
    BY DEF x
  <2>2. \A y \in Slots : \A i \in DOMAIN claims'[y] :
            claims'[y][i] \in 1..Len(keys) /\ SlotOf(claims'[y][i]) = y
    BY <1>1, <1>3, <2>1 DEF KeysStayWithTheirWallet, Issued
  <2>3. \A y \in Slots : \A i \in DOMAIN claims'[y] :
            /\ claims'[y][i] \in 1..Len(keys')
            /\ <<keys'[claims'[y][i]].wallet, keys'[claims'[y][i]].dapp>> = y
    BY <1>1, <2>2 DEF SlotOf
  <2>4. /\ \A t \in Sessions : identity'[t] # 0 => keys'[identity'[t]].wallet = WalletOf[t]
        /\ \A y \in Slots : stored'[y] # NoBackup =>
              <<keys'[stored'[y].key].wallet, keys'[stored'[y].key].dapp>> = y
    BY <1>1 DEF KeysStayWithTheirWallet, SlotOf
  <2> QED
    BY <2>3, <2>4 DEF KeysStayWithTheirWallet, Issued, SlotOf
<1> QED
  BY <1>4, <1>5, <1>6

(* Every identity operation keeps the invariant. *)
LEMMA StepIdentityInv == IdentityInv /\ IdentityNext => IdentityInv'
BY CreateKeepsInv, BeginJobKeepsInv, PutBackupKeepsInv, RestoreKeepsInv,
   CommitPublishKeepsInv DEF IdentityNext

LEMMA StutterIdentityInv == IdentityInv /\ UNCHANGED identityVars => IdentityInv'
BY DEF IdentityInv, identityVars, IdentityTypeOK, StoredIsIssued,
       KeysStayWithTheirWallet, Issued, SlotOf

(* A publication adds its key to the claims, and nothing else. *)
LEMMA PublishAdds ==
    ASSUME NEW s \in Sessions, IdentityInv, CommitPublish(s)
    PROVE  \A x \in Slots : \A i \in DOMAIN claims'[x] :
              \/ i \in DOMAIN claims[x] /\ claims'[x][i] = claims[x][i]
              \/ claims'[x][i] = job[s].key
<1> DEFINE k == job[s].key
           y == SlotOf(k)
<1>1. /\ y \in Slots /\ k \in Nat /\ claims \in [Slots -> Seq(Nat)]
      /\ Registry!Write(y, job[s].base, k)
  BY IssuedUse DEF CommitPublish, IdentityInv, IdentityTypeOK
<1> HIDE DEF k, y
<1>2. CASE UNCHANGED claims
  BY <1>2
<1>3. CASE claims' = [claims EXCEPT ![y] = Append(claims[y], k)]
  <2>1. claims[y] \in Seq(Nat)
    BY <1>1
  <2>2. \A i \in DOMAIN Append(claims[y], k) :
            \/ i \in DOMAIN claims[y] /\ Append(claims[y], k)[i] = claims[y][i]
            \/ Append(claims[y], k)[i] = k
    BY <1>1, <2>1, AppendProperties, LenProperties
  <2> QED
    BY <1>1, <1>3, <2>2 DEF k
<1>4. CASE claims' = [claims EXCEPT ![y] = <<>>]
  BY <1>1, <1>4
<1> QED
  BY <1>1, <1>2, <1>3, <1>4 DEF Registry!Write, Registry!vars, Registry!Extend, Registry!Fork

(* A pair that was generated is never replaced. *)
LEMMA IssuedStays ==
    ASSUME IdentityInv, IdentityNext \/ UNCHANGED identityVars
    PROVE  \A k : Issued(k) => k \in 1..Len(keys') /\ keys'[k] = keys[k]
<1>1. ASSUME NEW s \in Sessions, CreateIdentity(s)
      PROVE  \A k : Issued(k) => k \in 1..Len(keys') /\ keys'[k] = keys[k]
  <2> DEFINE use == [wallet |-> WalletOf[s], dapp |-> DappOf[s]]
  <2>1. use \in Uses
    BY Identities DEF Uses
  <2>2. /\ Len(keys') = Len(keys) + 1
        /\ \A i \in 1..Len(keys) : keys'[i] = keys[i]
    BY <1>1, <2>1, AppendProperties DEF CreateIdentity, IdentityInv, IdentityTypeOK
  <2>3. Len(keys) \in Nat
    BY LenProperties DEF IdentityInv, IdentityTypeOK
  <2> QED
    BY <2>2, <2>3 DEF Issued
<1>2. IdentityNext => keys' = keys \/ \E s \in Sessions : CreateIdentity(s)
  BY DEF IdentityNext, BeginBackup, BeginPublish, CommitPublish, PutBackup, Restore
<1> QED
  BY <1>1, <1>2 DEF Issued, identityVars
=============================================================================
