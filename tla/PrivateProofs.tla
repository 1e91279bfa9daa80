---------------------------- MODULE PrivateProofs ----------------------------
(***************************************************************************)
(* Proofs about the private store, for any sessions, wallets, dapps and    *)
(* records: keys stay with their wallet, an envelope keeps its owner,      *)
(* every wrap opens, revocations hold, and rewrites invent no value.       *)
(***************************************************************************)
EXTENDS PrivateStore, IdentityProofs

(* A step of the store is one of its identities or leaves them alone. *)
LEMMA NextIdentities == [Next]_vars => IdentityNext \/ UNCHANGED identityVars
<1>1. ASSUME NEW c \in Calls, NEW s \in Sessions, NEW n \in Names, NEW m, NEW w,
             \/ BeginSet(c, s, n, m) \/ BeginDelete(c, s, n, m)
             \/ BeginGrant(c, s, n, w) \/ BeginRevoke(c, s, n, m, w)
      PROVE  UNCHANGED identityVars
  BY <1>1 DEF BeginSet, BeginDelete, BeginGrant, BeginRevoke, Begin
<1>2. ASSUME NEW c \in Calls, NEW m,
             Rewrap(c, m) \/ RevokeRead(c, m) \/ RevokeSet(c, m) \/ Load(c, m)
      PROVE  UNCHANGED identityVars
  BY <1>2 DEF Rewrap, RevokeRead, RevokeSet, Load
<1>3. ASSUME NEW c \in Calls, ResolveNext(c) \/ Commit(c) \/ Throw(c)
      PROVE  UNCHANGED identityVars
  BY <1>3 DEF ResolveNext, Commit, Throw
<1>4. UNCHANGED vars => UNCHANGED identityVars
  BY DEF vars
<1> QED
  BY <1>1, <1>2, <1>3, <1>4 DEF Next

(* Sessions hold only keys of their own wallet, and registry and backup    *)
(* storage list a key only where it belongs (registry.ts:95, backup.ts:150). *)
THEOREM KeysStay == Spec => []KeysStayWithTheirWallet
<1>1. Init => IdentityInv
  BY InitIdentityInv DEF Init
<1>2. IdentityInv /\ [Next]_vars => IdentityInv'
  BY NextIdentities, StepIdentityInv, StutterIdentityInv
<1>3. IdentityInv => KeysStayWithTheirWallet
  BY DEF IdentityInv
<1> QED
  BY <1>1, <1>2, <1>3, PTL DEF Spec

-----------------------------------------------------------------------------
(* Records *)

(* What a call has read is there, and once it has passed its owner check   *)
(* the version it checked, if there is one to see, is its own wallet's.    *)
Current(r) ==
    /\ ~forked[r.name] => r.checked <= Len(log[r.name])
    /\ r.pc \in {"resolve", "commit"} /\ r.kind # "delete" =>
        /\ Issued(r.me)
        /\ ~forked[r.name] =>
              /\ r.checked > 0 /\ log[r.name][r.checked].kind # "delete" =>
                    log[r.name][r.checked].owner = keys[r.me].wallet
              /\ r.pc = "commit" => r.checked <= r.base
              /\ r.kind = "grant" =>
                    /\ r.basis = r.checked
                    /\ r.checked > 0
                    /\ log[r.name][r.checked].kind # "delete"

(* The inductive invariant.  The backing store appends what was written    *)
(* after the last version the call loaded, and its owner check was of that *)
(* version or an earlier one.                                              *)
RecordInv ==
    /\ IdentityInv
    /\ TypeOK
    /\ \A c \in Calls : Current(call[c])
    /\ OwnerIsStable

(* A call that is not in flight knows nothing. *)
LEMMA IdleCallType == /\ IdleCall \in CallState
                      /\ log \in [Names -> Seq(Entry)] => Current(IdleCall)
<1>1. (CHOOSE n \in Names : TRUE) \in Names /\ (CHOOSE s \in Sessions : TRUE) \in Sessions
  BY Clients
<1>2. IdleCall \in CallState
  BY <1>1 DEF IdleCall, CallState, NoKeys, RecordOperations
<1>3. /\ IdleCall.pc = "idle" /\ IdleCall.checked = 0 /\ IdleCall.name \in Names
  BY <1>1 DEF IdleCall
<1>4. ASSUME log \in [Names -> Seq(Entry)] PROVE Len(log[IdleCall.name]) \in Nat
  BY <1>3, <1>4, LenProperties
<1> QED
  BY <1>2, <1>3, <1>4 DEF Current

LEMMA IdleCallLater ==
    ASSUME NEW c, log' \in [Names -> Seq(Entry)], call'[c] = IdleCall
    PROVE  Current(call[c])'
<1>1. IdleCall.name \in Names /\ IdleCall.checked = 0 /\ IdleCall.pc = "idle"
  BY Clients DEF IdleCall
<1>2. Len(log'[IdleCall.name]) \in Nat
  BY <1>1, LenProperties
<1> QED
  BY <1>1, <1>2 DEF Current

(* There are no records at first. *)
LEMMA InitRecordInv == Init => RecordInv
<1> SUFFICES ASSUME Init PROVE RecordInv
  OBVIOUS
<1>1. IdentityInv
  BY InitIdentityInv DEF Init
<1>2. /\ log = [n \in Names |-> <<>>] /\ forked = [n \in Names |-> FALSE]
      /\ call = [c \in Calls |-> IdleCall]
  BY DEF Init, Data!Init
<1>3. <<>> \in Seq(Entry)
  OBVIOUS
<1>4. TypeOK
  BY <1>1, <1>2, <1>3, IdleCallType DEF TypeOK, IdentityInv
<1>5. \A c \in Calls : Current(call[c])
  BY <1>2, IdleCallType
<1>6. OwnerIsStable
  <2>1. \A n \in Names : DOMAIN log[n] = {}
    BY <1>2
  <2> QED
    BY <2>1 DEF OwnerIsStable, Envelopes
<1> QED
  BY <1>1, <1>4, <1>5, <1>6 DEF RecordInv

(* The versions that a read may return, and the entry of the last one. *)
LEMMA ReadVersions ==
    ASSUME NEW n \in Names, NEW s, NEW m0 \in Nat, NEW m \in Readable(s, n, m0),
           log \in [Names -> Seq(Entry)]
    PROVE  /\ m \in 0..Len(log[n])
           /\ m0 <= Len(log[n]) => m0 <= m
<1>1. Len(log[n]) \in Nat
  BY LenProperties
<1> QED
  BY <1>1 DEF Readable

LEMMA NextReadVersions ==
    ASSUME NEW c \in Calls, NEW m \in NextReads(c), RecordInv
    PROVE  LET n == call[c].name IN
           /\ n \in Names /\ m \in 0..Len(log[n])
           /\ ~forked[n] => call[c].checked <= m
<1>1. /\ call[c] \in CallState /\ log \in [Names -> Seq(Entry)]
      /\ Current(call[c])
  BY DEF RecordInv, TypeOK
<1>2. call[c].name \in Names /\ call[c].checked \in Nat
  BY <1>1 DEF CallState
<1> QED
  BY <1>1, <1>2, ReadVersions DEF NextReads, Current

LEMMA FirstReadVersions ==
    ASSUME NEW s, NEW n \in Names, NEW m \in FirstReads(s, n), RecordInv
    PROVE  m \in 0..Len(log[n])
  BY ReadVersions DEF FirstReads, RecordInv, TypeOK

LEMMA VisibleEntry ==
    ASSUME NEW n \in Names, NEW m \in 0..Len(log[n]), log \in [Names -> Seq(Entry)]
    PROVE  /\ Len(log[n]) \in Nat /\ m \in Nat /\ Visible(n, m) \in {0, m}
           /\ \A i \in 1..Len(log[n]) : log[n][i] \in Entry
           /\ Visible(n, m) # 0 =>
                 /\ m > 0 /\ Visible(n, m) = m
                 /\ log[n][m] \in Entry
                 /\ log[n][m].kind # "delete"
           /\ Visible(n, m) = 0 => m = 0 \/ log[n][m].kind = "delete"
<1>1. log[n] \in Seq(Entry)
  OBVIOUS
<1>2. Len(log[n]) \in Nat /\ \A i \in 1..Len(log[n]) : log[n][i] \in Entry
  BY <1>1, LenProperties, ElementOfSeq
<1> QED
  BY <1>2 DEF Visible

(* The lengths and entries of a history. *)
LEMMA LogEntries ==
    ASSUME NEW n \in Names, log \in [Names -> Seq(Entry)]
    PROVE  Len(log[n]) \in Nat /\ \A i \in 1..Len(log[n]) : log[n][i] \in Entry
<1>1. log[n] \in Seq(Entry)
  OBVIOUS
<1> QED
  BY <1>1, LenProperties, ElementOfSeq

(* A step of one call that writes nothing. *)
LEMMA CallStep ==
    ASSUME RecordInv, NEW c \in Calls, NEW r \in CallState, Current(r),
           call' = [call EXCEPT ![c] = r], UNCHANGED <<identityVars, log, forked>>
    PROVE  RecordInv'
<1> USE DEF RecordInv
<1>1. IdentityInv'
  BY StutterIdentityInv
<1>2. TypeOK'
  BY <1>1 DEF TypeOK, IdentityInv
<1>3. \A d \in Calls : call'[d] = IF d = c THEN r ELSE call[d]
  BY DEF TypeOK
<1>4. UNCHANGED <<keys, log, forked>>
  BY DEF identityVars
<1>5. \A d \in Calls : Current(call'[d])
  BY <1>3
<1>6. (\A d \in Calls : Current(call[d]))'
  BY <1>4, <1>5 DEF Current, Issued
<1>7. OwnerIsStable'
  BY <1>4 DEF OwnerIsStable, Envelopes
<1> QED
  BY <1>1, <1>2, <1>6, <1>7

(* The owner check, for the version that was read. *)
LEMMA OwnerChecked ==
    ASSUME RecordInv, NEW n \in Names, NEW m \in 0..Len(log[n]), NEW s \in Sessions,
           OwnerCanModify(n, Visible(n, m), identity[s])
    PROVE  /\ Issued(identity[s]) /\ identity[s] \in Nat
           /\ m > 0 /\ log[n][m].kind # "delete" =>
                 log[n][m].owner = keys[identity[s]].wallet
<1>1. Issued(identity[s]) /\ identity[s] \in Nat
  BY DEF RecordInv, TypeOK, IdentityTypeOK, OwnerCanModify
<1>2. log \in [Names -> Seq(Entry)]
  BY DEF RecordInv, TypeOK
<1> QED
  BY <1>1, <1>2, VisibleEntry DEF OwnerCanModify

(* set() *)
LEMMA BeginSetKeepsInv ==
    ASSUME RecordInv, NEW c \in Calls, NEW s \in Sessions, NEW n \in Names,
           NEW m \in 0..Len(log[n]), BeginSet(c, s, n, m)
    PROVE  RecordInv'
<1>1. PICK R \in SUBSET Wallets, named \in SUBSET Wallets :
          call' = [call EXCEPT ![c] = [IdleCall EXCEPT
              !.pc = "resolve", !.me = identity[s], !.basis = m,
              !.checked = m, !.version = Visible(n, m) + 1, !.todo = R,
              !.named = named, !.session = s, !.kind = "set", !.name = n]]
  <2>1. \A v : (IF v = 0 THEN {} ELSE Readers(log[n][v]) \ {log[n][v].owner}) \subseteq Wallets
    BY DEF Readers
  <2>2. \A R \in ReaderLists : R \subseteq Wallets
    BY Clients
  <2> QED
    BY <2>1, <2>2 DEF BeginSet, Begin
<1> DEFINE r == [IdleCall EXCEPT
              !.pc = "resolve", !.me = identity[s], !.basis = m,
              !.checked = m, !.version = Visible(n, m) + 1, !.todo = R,
              !.named = named, !.session = s, !.kind = "set", !.name = n]
<1>2. /\ OwnerCanModify(n, Visible(n, m), identity[s])
      /\ UNCHANGED <<identityVars, log, forked>>
  BY DEF BeginSet, Begin
<1>3. log \in [Names -> Seq(Entry)]
  BY DEF RecordInv, TypeOK
<1>4. Visible(n, m) \in Nat /\ m \in Nat /\ Len(log[n]) \in Nat
  BY <1>3, VisibleEntry
<1>5. r \in CallState
  <2>1. identity[s] \in Nat
    BY <1>2, OwnerChecked
  <2>2. Visible(n, m) + 1 \in Nat
    BY <1>4
  <2> QED
    BY <2>1, <2>2, <1>4, IdleCallType DEF CallState, RecordOperations
<1>6. /\ r.pc = "resolve" /\ r.kind = "set" /\ r.name = n /\ r.me = identity[s]
      /\ r.checked = m
  BY IdleCallType DEF CallState
<1>7. Current(r)
  <2>1. /\ Issued(identity[s])
        /\ m > 0 /\ log[n][m].kind # "delete" => log[n][m].owner = keys[identity[s]].wallet
    BY <1>2, OwnerChecked
  <2> HIDE DEF r
  <2> QED
    BY <1>4, <1>6, <2>1 DEF Current
<1> QED
  BY <1>1, <1>2, <1>5, <1>7, CallStep

(* revokeFuture() and delete() check the owner later or not at all. *)
LEMMA BeginOtherKeepsInv ==
    ASSUME RecordInv, NEW c \in Calls, NEW s \in Sessions, NEW n \in Names,
           NEW m \in 0..Len(log[n]),
           \/ BeginDelete(c, s, n, m)
           \/ \E w \in Wallets : BeginRevoke(c, s, n, m, w)
    PROVE  RecordInv'
<1>1. log \in [Names -> Seq(Entry)]
  BY DEF RecordInv, TypeOK
<1>2. m \in Nat /\ m <= Len(log[n])
  BY <1>1, VisibleEntry
<1>3. CASE BeginDelete(c, s, n, m)
  <2> DEFINE r == [IdleCall EXCEPT !.pc = "commit", !.basis = m,
                      !.checked = m, !.base = m,
                      !.session = s, !.kind = "delete", !.name = n]
  <2>1. r \in CallState
    BY <1>2, IdleCallType DEF CallState, RecordOperations
  <2>2. r.kind = "delete" /\ r.checked = m /\ r.name = n
    BY IdleCallType DEF CallState
  <2> HIDE DEF r
  <2>3. Current(r)
    BY <1>2, <2>2 DEF Current
  <2> USE DEF r
  <2>4. call' = [call EXCEPT ![c] = r] /\ UNCHANGED <<identityVars, log, forked>>
    BY <1>3 DEF BeginDelete, Begin
  <2> QED
    BY <2>1, <2>3, <2>4, CallStep
<1>4. ASSUME NEW w \in Wallets, BeginRevoke(c, s, n, m, w) PROVE RecordInv'
  <2> DEFINE r == [IdleCall EXCEPT !.pc = "reader", !.todo = {w},
                      !.drops = {w}, !.basis = m, !.checked = m,
                      !.session = s, !.kind = "revoke", !.name = n]
  <2>1. r \in CallState
    BY <1>2, IdleCallType DEF CallState, RecordOperations
  <2>2. r.pc = "reader" /\ r.checked = m /\ r.name = n
    BY IdleCallType DEF CallState
  <2> HIDE DEF r
  <2>3. Current(r)
    BY <1>2, <2>2 DEF Current
  <2> USE DEF r
  <2>4. call' = [call EXCEPT ![c] = r] /\ UNCHANGED <<identityVars, log, forked>>
    BY <1>4 DEF BeginRevoke, Begin
  <2> QED
    BY <2>1, <2>3, <2>4, CallStep
<1> QED
  BY <1>3, <1>4

(* grant() reads nothing at first. *)
LEMMA BeginGrantKeepsInv ==
    ASSUME RecordInv, NEW c \in Calls, NEW s \in Sessions, NEW n \in Names,
           NEW w \in Wallets, BeginGrant(c, s, n, w)
    PROVE  RecordInv'
<1> DEFINE r == [IdleCall EXCEPT !.pc = "reader", !.todo = {w}, !.named = {w},
                    !.session = s, !.kind = "grant", !.name = n]
<1>1. r \in CallState
  BY IdleCallType DEF CallState, RecordOperations
<1>2. r.pc = "reader" /\ r.checked = 0 /\ r.name = n
  BY IdleCallType DEF CallState, IdleCall
<1>3. Len(log[n]) \in Nat
  BY LogEntries DEF RecordInv, TypeOK
<1> HIDE DEF r
<1>4. Current(r)
  BY <1>2, <1>3 DEF Current
<1> USE DEF r
<1>5. call' = [call EXCEPT ![c] = r] /\ UNCHANGED <<identityVars, log, forked>>
  BY DEF BeginGrant, Begin
<1> QED
  BY <1>1, <1>4, <1>5, CallStep

(* A resolution of a reader. *)
LEMMA ResolveNextKeepsInv ==
    ASSUME RecordInv, NEW c \in Calls, ResolveNext(c)
    PROVE  RecordInv'
<1>1. PICK w \in call[c].todo :
          call' = [call EXCEPT ![c].todo = call[c].todo \ {w},
                               ![c].got[w] = ResolvedKey(w, DappOfCall(c))]
  BY DEF ResolveNext
<1>2. call[c] \in CallState
  BY DEF RecordInv, TypeOK
<1>3. w \in Wallets /\ DappOfCall(c) \in Dapps
  BY <1>2, Identities DEF CallState, DappOfCall
<1>4. ResolvedKey(w, DappOfCall(c)) \in Nat
  <2> DEFINE x == <<w, DappOfCall(c)>>
  <2>1. claims[x] \in Seq(Nat)
    BY <1>3 DEF RecordInv, TypeOK, IdentityTypeOK, Slots
  <2>2. claims[x] # <<>> => Len(claims[x]) \in 1..Len(claims[x])
    BY <2>1, LenProperties, EmptySeq
  <2>3. claims[x] # <<>> => claims[x][Len(claims[x])] \in Nat
    BY <2>1, <2>2, ElementOfSeq
  <2> QED
    BY <2>3 DEF ResolvedKey
<1> DEFINE k == ResolvedKey(w, DappOfCall(c))
           r == [call[c] EXCEPT !.todo = call[c].todo \ {w},
                                !.got = [call[c].got EXCEPT ![w] = k]]
<1> HIDE DEF k
<1>5. r \in CallState
  BY <1>2, <1>4 DEF CallState, k
<1>6. /\ r.pc = call[c].pc /\ r.kind = call[c].kind /\ r.name = call[c].name
      /\ r.me = call[c].me /\ r.checked = call[c].checked /\ r.base = call[c].base
      /\ r.basis = call[c].basis
  BY <1>2 DEF CallState
<1> HIDE DEF r
<1>7. Current(r)
  BY <1>6 DEF Current, RecordInv
<1>8. call' = [call EXCEPT ![c] = r]
  BY <1>1 DEF r, k, RecordInv, TypeOK, CallState
<1>9. UNCHANGED <<identityVars, log, forked>>
  BY DEF ResolveNext
<1> QED
  BY <1>5, <1>7, <1>8, <1>9, CallStep

(* grant(): the record it has read is the caller's. *)
LEMMA RewrapKeepsInv ==
    ASSUME RecordInv, NEW c \in Calls, NEW m \in NextReads(c), Rewrap(c, m)
    PROVE  RecordInv'
<1> DEFINE n == call[c].name
           s == call[c].session
           k == identity[s]
           r == [call[c] EXCEPT !.pc = "resolve", !.me = k, !.basis = m, !.checked = m]
<1>1. call[c] \in CallState /\ log \in [Names -> Seq(Entry)]
  BY DEF RecordInv, TypeOK
<1>2. n \in Names /\ s \in Sessions /\ m \in 0..Len(log[n])
  BY <1>1, NextReadVersions DEF CallState
<1>3. /\ call[c].kind = "grant" /\ Visible(n, m) # 0
      /\ OwnerCanModify(n, m, k)
      /\ call' = [call EXCEPT ![c].pc = "resolve", ![c].me = k,
                              ![c].basis = m, ![c].checked = m]
      /\ UNCHANGED <<identityVars, log, forked>>
  BY DEF Rewrap, At, Me
<1>4. /\ Visible(n, m) = m /\ m \in Nat /\ m > 0 /\ m <= Len(log[n])
      /\ log[n][m].kind # "delete"
  BY <1>1, <1>2, <1>3, VisibleEntry
<1>5. Issued(k) /\ k \in Nat /\ log[n][m].owner = keys[k].wallet
  BY <1>2, <1>3, <1>4, OwnerChecked
<1> HIDE DEF k
<1>6. r \in CallState
  BY <1>1, <1>4, <1>5 DEF CallState
<1>7. /\ r.pc = "resolve" /\ r.kind = "grant" /\ r.name = n /\ r.me = k
      /\ r.checked = m /\ r.basis = m
  BY <1>1, <1>3 DEF CallState
<1>8. call' = [call EXCEPT ![c] = r]
  BY <1>1, <1>3 DEF RecordInv, TypeOK, CallState
<1> HIDE DEF r, n
<1>9. Current(r)
  BY <1>4, <1>5, <1>7 DEF Current
<1> QED
  BY <1>3, <1>6, <1>8, <1>9, CallStep

(* revokeFuture(): the second read. *)
LEMMA RevokeReadKeepsInv ==
    ASSUME RecordInv, NEW c \in Calls, NEW m \in NextReads(c), RevokeRead(c, m)
    PROVE  RecordInv'
<1> DEFINE n == call[c].name
           value == IF Visible(n, m) = 0 THEN 0 ELSE log[n][Visible(n, m)].value
           others == RemainingReaders(c)
           r == [call[c] EXCEPT !.pc = "others", !.checked = m, !.todo = others,
                                !.got = NoKeys, !.value = value]
<1>1. call[c] \in CallState /\ log \in [Names -> Seq(Entry)]
  BY DEF RecordInv, TypeOK
<1>2. n \in Names /\ m \in 0..Len(log[n])
  BY NextReadVersions
<1>3. value \in Nat /\ m \in Nat /\ m <= Len(log[n])
  <2>1. \A e \in Entry : e.value \in Nat
    BY DEF Entry
  <2>2. Visible(n, m) # 0 => log[n][Visible(n, m)] \in Entry
    BY <1>1, <1>2, VisibleEntry
  <2>3. m \in Nat /\ m <= Len(log[n])
    BY <1>1, <1>2, VisibleEntry
  <2> QED
    BY <2>1, <2>2, <2>3
<1>4. others \subseteq Wallets /\ NoKeys \in [Wallets -> Nat]
  BY DEF RemainingReaders, Readers, NoKeys
<1>5. /\ call' = [call EXCEPT ![c].pc = "others", ![c].checked = m, ![c].todo = others,
                              ![c].got = NoKeys, ![c].value = value]
      /\ UNCHANGED <<identityVars, log, forked>>
  BY DEF RevokeRead
<1> HIDE DEF value, others
<1>6. r \in CallState /\ r.pc = "others" /\ r.checked = m /\ r.name = n
  BY <1>1, <1>3, <1>4 DEF CallState
<1>7. call' = [call EXCEPT ![c] = r]
  BY <1>1, <1>5 DEF RecordInv, TypeOK, CallState
<1> HIDE DEF r, n
<1>8. Current(r)
  BY <1>3, <1>6 DEF Current
<1> QED
  BY <1>5, <1>6, <1>7, <1>8, CallStep

(* revokeFuture(): the inner set(). *)
LEMMA RevokeSetKeepsInv ==
    ASSUME RecordInv, NEW c \in Calls, NEW m \in NextReads(c), RevokeSet(c, m)
    PROVE  RecordInv'
<1> DEFINE n == call[c].name
           s == call[c].session
           k == identity[s]
           again == {w \in Wallets : call[c].got[w] # 0}
           r == [call[c] EXCEPT !.pc = "resolve", !.me = k, !.checked = m,
                     !.version = Visible(n, m) + 1, !.want = call[c].got,
                     !.todo = again, !.got = NoKeys]
<1>1. call[c] \in CallState /\ log \in [Names -> Seq(Entry)]
  BY DEF RecordInv, TypeOK
<1>2. n \in Names /\ s \in Sessions /\ m \in 0..Len(log[n])
  BY <1>1, NextReadVersions DEF CallState
<1>3. /\ call[c].kind = "revoke"
      /\ OwnerCanModify(n, Visible(n, m), k)
      /\ call' = [call EXCEPT ![c].pc = "resolve", ![c].me = k, ![c].checked = m,
                     ![c].version = Visible(n, m) + 1, ![c].want = call[c].got,
                     ![c].todo = again, ![c].got = NoKeys]
      /\ UNCHANGED <<identityVars, log, forked>>
  BY DEF RevokeSet, At, Me
<1>4. m \in Nat /\ m <= Len(log[n]) /\ Visible(n, m) + 1 \in Nat
  BY <1>1, <1>2, VisibleEntry
<1>5. /\ Issued(k) /\ k \in Nat
      /\ m > 0 /\ log[n][m].kind # "delete" => log[n][m].owner = keys[k].wallet
  BY <1>2, <1>3, OwnerChecked
<1>6. again \subseteq Wallets /\ NoKeys \in [Wallets -> Nat]
  BY DEF NoKeys
<1> HIDE DEF k, again
<1>7. r \in CallState
  BY <1>1, <1>4, <1>5, <1>6 DEF CallState
<1>8. /\ r.pc = "resolve" /\ r.kind = "revoke" /\ r.name = n /\ r.me = k
      /\ r.checked = m
  BY <1>1, <1>3 DEF CallState
<1>9. call' = [call EXCEPT ![c] = r]
  BY <1>1, <1>3 DEF RecordInv, TypeOK, CallState
<1> HIDE DEF r, n
<1>10. Current(r)
  BY <1>4, <1>5, <1>8 DEF Current
<1> QED
  BY <1>3, <1>7, <1>9, <1>10, CallStep

(* The load before the write comes after the owner check. *)
LEMMA LoadKeepsInv ==
    ASSUME RecordInv, NEW c \in Calls, NEW m \in NextReads(c), Load(c, m)
    PROVE  RecordInv'
<1> DEFINE n == call[c].name
           r == [call[c] EXCEPT !.pc = "commit", !.base = m]
<1>1. call[c] \in CallState /\ log \in [Names -> Seq(Entry)]
  BY DEF RecordInv, TypeOK
<1>2. n \in Names /\ m \in 0..Len(log[n]) /\ (~forked[n] => call[c].checked <= m)
  BY NextReadVersions
<1>3. m \in Nat
  BY <1>1, <1>2, VisibleEntry
<1>4. /\ call[c].pc = "resolve"
      /\ call' = [call EXCEPT ![c].pc = "commit", ![c].base = m]
      /\ UNCHANGED <<identityVars, log, forked>>
  BY DEF Load
<1>5. r \in CallState
  BY <1>1, <1>3 DEF CallState
<1>6. /\ r.pc = "commit" /\ r.base = m
      /\ r.kind = call[c].kind /\ r.name = call[c].name
      /\ r.me = call[c].me /\ r.checked = call[c].checked /\ r.basis = call[c].basis
  BY <1>1 DEF CallState
<1>7. call' = [call EXCEPT ![c] = r]
  BY <1>1, <1>4 DEF RecordInv, TypeOK, CallState
<1> HIDE DEF r
<1>8. Current(r)
  BY <1>2, <1>4, <1>6 DEF Current, RecordInv
<1> QED
  BY <1>4, <1>5, <1>7, <1>8, CallStep

(* What a call writes is well formed and belongs to the wallet whose       *)
(* identity it captured. *)
LEMMA WrittenFacts ==
    ASSUME RecordInv, NEW c \in Calls, call[c].pc = "commit", ~forked[call[c].name]
    PROVE  /\ Written(c) \in Entry /\ Written(c).kind = call[c].kind
           /\ call[c].kind # "delete" =>
                 /\ Written(c).owner = keys[call[c].me].wallet
                 /\ Written(c).checked = call[c].checked
<1> DEFINE r == call[c]
<1>1. /\ r \in CallState /\ log \in [Names -> Seq(Entry)] /\ keys \in Seq(Uses)
      /\ r.name \in Names /\ r.session \in Sessions
  BY DEF RecordInv, TypeOK, IdentityTypeOK, CallState
<1>2. DappOfCall(c) \in Dapps /\ WalletOf[r.session] \in Wallets
  BY <1>1, Identities DEF DappOfCall
<1>3. CASE r.kind = "delete"
  <2>1. Written(c) = Tombstone(c)
    BY <1>3 DEF Written
  <2>2. Tombstone(c) \in Entry /\ Tombstone(c).kind = "delete"
    BY <1>1, <1>2 DEF Tombstone, Entry, RecordOperations, CallState, Wrap, Context
  <2> QED
    BY <1>3, <2>1, <2>2
<1>4. CASE r.kind = "grant"
  <2> DEFINE e == log[r.name][r.basis]
             x == ContextOf(e, DappOfCall(c))
             wraps == [w \in Wallets |-> IF r.got[w] = 0 THEN e.wraps[w]
                          ELSE [key |-> r.got[w], data |-> e.data, context |-> x]]
  <2>1. Written(c) = Rewrapped(c)
    BY <1>4 DEF Written
  <2>2. /\ r.basis = r.checked /\ r.checked \in 1..Len(log[r.name])
        /\ e.owner = keys[r.me].wallet
    <3>1. Current(r)
      BY DEF RecordInv
    <3>2. Len(log[r.name]) \in Nat /\ r.checked \in Nat
      BY <1>1, LogEntries DEF CallState
    <3> QED
      BY <1>4, <3>1, <3>2 DEF Current
  <2>3. e \in Entry
    BY <1>1, <2>2, LogEntries
  <2>4. x \in Context
    BY <1>2, <2>3 DEF ContextOf, Context, Entry
  <2>5. wraps \in [Wallets -> Wrap]
    <3> HIDE DEF e, x
    <3>1. /\ e.wraps \in [Wallets -> Wrap] /\ e.data \in Nat
          /\ r.got \in [Wallets -> Nat]
      BY <1>1, <2>3 DEF Entry, CallState
    <3> QED
      BY <2>4, <3>1 DEF Wrap
  <2>6. /\ r.basis \in Nat /\ r.checked \in Nat /\ r.named \subseteq Wallets
    BY <1>1 DEF CallState
  <2>7. Rewrapped(c) = [e EXCEPT !.kind = "grant", !.wraps = wraps, !.basis = r.basis,
                            !.checked = r.checked, !.named = r.named, !.drops = {}]
    BY DEF Rewrapped
  <2> HIDE DEF e, x, wraps
  <2>8. /\ Rewrapped(c) \in Entry /\ Rewrapped(c).kind = "grant"
        /\ Rewrapped(c).owner = e.owner /\ Rewrapped(c).checked = r.checked
    BY <2>3, <2>5, <2>6, <2>7 DEF Entry, RecordOperations
  <2> QED
    BY <1>4, <2>1, <2>2, <2>8
<1>5. CASE r.kind \in {"set", "revoke"}
  <2> DEFINE owner == keys[r.me].wallet
             x == [version |-> r.version, owner |-> owner, key |-> r.me,
                   dapp |-> DappOfCall(c)]
             wraps == [w \in Wallets |->
                          [key |-> KeysFor(c, owner)[w], data |-> r.base + 1, context |-> x]]
  <2>1. Written(c) = Encrypted(c)
    BY <1>5 DEF Written
  <2>2. owner \in Wallets
    <3>1. Current(r)
      BY DEF RecordInv
    <3>2. Issued(r.me)
      BY <1>5, <3>1 DEF Current
    <3> QED
      BY <1>1, <3>2, IssuedUse
  <2> HIDE DEF owner
  <2>3. /\ r.me \in Nat /\ r.version \in Nat /\ r.base + 1 \in Nat /\ r.value \in Nat
        /\ r.basis \in Nat /\ r.checked \in Nat
        /\ r.named \subseteq Wallets /\ r.drops \subseteq Wallets
        /\ r.got \in [Wallets -> Nat]
    BY <1>1 DEF CallState
  <2>4. \A w \in Wallets : KeysFor(c, owner)[w] \in Nat
    BY <2>3 DEF KeysFor
  <2>5. x \in Context
    BY <1>2, <2>2, <2>3 DEF Context
  <2> HIDE DEF x
  <2>6. wraps \in [Wallets -> Wrap]
    BY <2>3, <2>4, <2>5 DEF Wrap
  <2>7. Encrypted(c) =
          [kind |-> r.kind, owner |-> owner, key |-> r.me, dapp |-> DappOfCall(c),
           version |-> r.version, data |-> r.base + 1,
           value |-> IF r.kind = "set" THEN r.base + 1 ELSE r.value, wraps |-> wraps,
           basis |-> r.basis, checked |-> r.checked, named |-> r.named, drops |-> r.drops]
    BY DEF Encrypted, owner, x
  <2> HIDE DEF wraps
  <2>8. /\ Encrypted(c) \in Entry /\ Encrypted(c).kind = r.kind
        /\ Encrypted(c).owner = owner /\ Encrypted(c).checked = r.checked
    BY <1>2, <1>5, <2>2, <2>3, <2>6, <2>7 DEF Entry, RecordOperations
  <2> QED
    BY <2>1, <2>8 DEF owner
<1> QED
  BY <1>1, <1>3, <1>4, <1>5 DEF CallState, RecordOperations

(* A write after the version that was loaded: its owner was checked        *)
(* against that version, or against an earlier one.  Any other write costs *)
(* the record its history. *)
LEMMA CommitKeepsInv ==
    ASSUME RecordInv, NEW c \in Calls, Commit(c)
    PROVE  RecordInv'
<1> DEFINE n == call[c].name
           e == Written(c)
<1>1. /\ call[c] \in CallState /\ log \in [Names -> Seq(Entry)] /\ n \in Names
      /\ call \in [Calls -> CallState] /\ forked \in [Names -> BOOLEAN]
  BY DEF RecordInv, TypeOK, CallState
<1>2. /\ call[c].pc = "commit" /\ Data!Write(n, call[c].base, e)
      /\ call' = [call EXCEPT ![c] = IdleCall]
      /\ UNCHANGED identityVars
  BY DEF Commit
<1>3. \A d \in Calls : call'[d] = IF d = c THEN IdleCall ELSE call[d]
  BY <1>1, <1>2
<1>4. IdentityInv' /\ keys' = keys
  BY <1>2, StutterIdentityInv DEF RecordInv, identityVars
<1>5. call' \in [Calls -> CallState]
  BY <1>1, <1>2, IdleCallType
<1>6. CASE UNCHANGED <<log, forked>>
  BY <1>1, <1>2, <1>6, IdleCallType, CallStep
<1>7. CASE ~forked[n] /\ Len(log[n]) = call[c].base /\ Data!Extend(n, e)
  <2>1. /\ e \in Entry /\ e.kind = call[c].kind
        /\ call[c].kind # "delete" =>
              e.owner = keys[call[c].me].wallet /\ e.checked = call[c].checked
    BY <1>2, <1>7, WrittenFacts
  <2> HIDE DEF e
  <2>2. log' = [log EXCEPT ![n] = Append(log[n], e)] /\ forked' = forked
    BY <1>7 DEF Data!Extend
  <2>3. /\ Len(log[n]) \in Nat
        /\ Append(log[n], e) \in Seq(Entry)
        /\ Len(Append(log[n], e)) = Len(log[n]) + 1
        /\ \A i \in 1..Len(log[n]) : Append(log[n], e)[i] = log[n][i]
        /\ Append(log[n], e)[Len(log[n]) + 1] = e
    BY <1>1, <2>1, AppendProperties, LenProperties
  <2>4. \A m \in Names :
            /\ Len(log[m]) \in Nat
            /\ Len(log'[m]) = IF m = n THEN Len(log[m]) + 1 ELSE Len(log[m])
            /\ \A i \in 1..Len(log[m]) : log'[m][i] = log[m][i]
    BY <1>1, <2>2, <2>3, LogEntries
  <2>5. log' \in [Names -> Seq(Entry)]
    BY <1>1, <2>2, <2>3
  <2>6. TypeOK'
    BY <1>1, <1>4, <1>5, <2>2, <2>5 DEF TypeOK, IdentityInv
  <2>7. ASSUME NEW d \in Calls PROVE Current(call[d])'
    <3>1. CASE d = c
      BY <1>3, <2>5, <3>1, IdleCallLater
    <3>2. CASE d # c
      <4> DEFINE r == call[d]
      <4>1. r \in CallState /\ call'[d] = r /\ Current(r)
        BY <1>1, <1>3, <3>2 DEF RecordInv
      <4>2. r.name \in Names /\ r.checked \in Nat
        BY <4>1 DEF CallState
      <4>3. ~forked[r.name] /\ r.checked <= Len(log[r.name]) /\ r.checked > 0 =>
                /\ r.checked <= Len(log'[r.name])
                /\ log'[r.name][r.checked] = log[r.name][r.checked]
        BY <2>4, <4>2
      <4>4. Len(log[r.name]) <= Len(log'[r.name]) /\ Len(log[r.name]) \in Nat
        BY <2>4, <4>2
      <4> HIDE DEF r
      <4>5. ~forked'[r.name] => r.checked <= Len(log'[r.name])
        BY <2>2, <4>1, <4>2, <4>4 DEF Current
      <4>6. r.pc \in {"resolve", "commit"} /\ r.kind # "delete" =>
              /\ r.me \in 1..Len(keys')
              /\ ~forked'[r.name] =>
                    /\ r.checked > 0 /\ log'[r.name][r.checked].kind # "delete" =>
                          log'[r.name][r.checked].owner = keys'[r.me].wallet
                    /\ r.pc = "commit" => r.checked <= r.base
                    /\ r.kind = "grant" =>
                          /\ r.basis = r.checked
                          /\ r.checked > 0
                          /\ log'[r.name][r.checked].kind # "delete"
        BY <1>4, <2>2, <4>1, <4>2, <4>3, <4>4 DEF Current, Issued
      <4> QED
        BY <4>1, <4>5, <4>6 DEF Current, Issued
    <3> QED
      BY <3>1, <3>2
  <2>8. OwnerIsStable'
    <3> SUFFICES ASSUME NEW m \in Names, NEW i \in DOMAIN log'[m], i > 1,
                        log'[m][i].kind # "delete"
                 PROVE  \/ log'[m][i].owner = log'[m][i - 1].owner
                        \/ log'[m][i - 1].kind = "delete"
                        \/ log'[m][i].checked < i - 1
      BY DEF OwnerIsStable, Envelopes
    <3>1. i \in 1..Len(log'[m])
      BY <2>5, LenProperties
    <3>2. CASE i \in 1..Len(log[m])
      <4>1. i \in DOMAIN log[m] /\ i - 1 \in 1..Len(log[m])
        BY <1>1, <3>2, LenProperties
      <4>2. log'[m][i] = log[m][i] /\ log'[m][i - 1] = log[m][i - 1]
        BY <2>4, <3>2, <4>1
      <4> QED
        BY <4>1, <4>2 DEF RecordInv, OwnerIsStable, Envelopes
    <3>3. CASE i \notin 1..Len(log[m])
      <4>1. m = n /\ i = Len(log[n]) + 1 /\ i - 1 = call[c].base
        BY <1>7, <2>4, <3>1, <3>3
      <4>2. log'[m][i] = e
        BY <1>1, <2>2, <2>3, <4>1
      <4>3. i - 1 \in 1..Len(log[n]) /\ log'[m][i - 1] = log[n][i - 1]
        BY <2>3, <2>4, <4>1
      <4>4. call[c].kind # "delete" /\ Current(call[c])
        BY <2>1, <4>2 DEF RecordInv
      <4>5. /\ call[c].checked <= i - 1 /\ call[c].checked \in Nat
            /\ call[c].checked > 0 /\ log[n][call[c].checked].kind # "delete" =>
                  log[n][call[c].checked].owner = keys[call[c].me].wallet
        BY <1>1, <1>2, <1>7, <4>1, <4>4 DEF Current, CallState
      <4> QED
        BY <2>1, <4>2, <4>3, <4>4, <4>5
    <3> QED
      BY <3>2, <3>3
  <2> QED
    BY <1>4, <2>6, <2>7, <2>8 DEF RecordInv
<1>8. CASE Data!Fork(n)
  <2>1. /\ log' = [log EXCEPT ![n] = <<>>] /\ forked' = [forked EXCEPT ![n] = TRUE]
    BY <1>8 DEF Data!Fork
  <2>2. <<>> \in Seq(Entry) /\ DOMAIN (<<>>) = {}
    OBVIOUS
  <2>3. TypeOK'
    BY <1>1, <1>4, <1>5, <2>1, <2>2 DEF TypeOK, IdentityInv
  <2>4. \A m \in Names : m # n => log'[m] = log[m] /\ forked'[m] = forked[m]
    BY <1>1, <2>1
  <2>5. log'[n] = <<>> /\ forked'[n]
    BY <1>1, <2>1
  <2>6. ASSUME NEW d \in Calls PROVE Current(call[d])'
    <3>1. CASE d = c
      BY <1>3, <2>3, <3>1, IdleCallLater DEF TypeOK
    <3>2. CASE d # c
      <4> DEFINE r == call[d]
      <4>1. r \in CallState /\ call'[d] = r /\ Current(r)
        BY <1>1, <1>3, <3>2 DEF RecordInv
      <4>2. r.name \in Names
        BY <4>1 DEF CallState
      <4> HIDE DEF r
      <4>3. CASE r.name = n
        BY <1>4, <2>5, <4>1, <4>3 DEF Current, Issued
      <4>4. CASE r.name # n
        BY <1>4, <2>4, <4>1, <4>2, <4>4 DEF Current, Issued
      <4> QED
        BY <4>3, <4>4
    <3> QED
      BY <3>1, <3>2
  <2>7. OwnerIsStable'
    <3>1. \A m \in Names : m # n => log'[m] = log[m]
      BY <2>4
    <3> QED
      BY <2>2, <2>5, <3>1 DEF RecordInv, OwnerIsStable, Envelopes
  <2> QED
    BY <1>4, <2>3, <2>6, <2>7 DEF RecordInv
<1> QED
  BY <1>2, <1>6, <1>7, <1>8 DEF Data!Write, Data!vars

(* New pairs and claims change nothing that a call has checked. *)
LEMMA IdentityStepKeepsInv ==
    ASSUME RecordInv, IdentityNext \/ UNCHANGED identityVars, UNCHANGED recordVars
    PROVE  RecordInv'
<1>1. IdentityInv'
  BY StepIdentityInv, StutterIdentityInv DEF RecordInv
<1>2. \A k : Issued(k) => k \in 1..Len(keys') /\ keys'[k] = keys[k]
  BY IssuedStays DEF RecordInv
<1>3. UNCHANGED <<log, forked, call>>
  BY DEF recordVars
<1>4. TypeOK'
  BY <1>1, <1>3 DEF RecordInv, TypeOK, IdentityInv
<1>5. ASSUME NEW d \in Calls PROVE Current(call[d])'
  <2> DEFINE r == call[d]
  <2>1. Current(r)
    BY DEF RecordInv
  <2>2. call'[d] = r
    BY <1>3
  <2> HIDE DEF r
  <2> QED
    BY <1>2, <1>3, <2>1, <2>2 DEF Current, Issued
<1>6. OwnerIsStable'
  BY <1>3 DEF RecordInv, OwnerIsStable, Envelopes
<1> QED
  BY <1>1, <1>4, <1>5, <1>6 DEF RecordInv

(* One step. *)
LEMMA StepRecordInv == RecordInv /\ [Next]_vars => RecordInv'
<1>1. ASSUME RecordInv, NEW c \in Calls, ResolveNext(c) \/ Commit(c)
      PROVE  RecordInv'
  BY <1>1, ResolveNextKeepsInv, CommitKeepsInv
<1>2. ASSUME RecordInv, NEW c \in Calls, Throw(c) PROVE RecordInv'
  BY <1>2, IdleCallType, CallStep DEF Throw, RecordInv, TypeOK
<1>3. ASSUME RecordInv, UNCHANGED vars PROVE RecordInv'
  BY <1>3, IdentityStepKeepsInv DEF vars
<1>4. ASSUME RecordInv, NEW c \in Calls, NEW m \in NextReads(c),
             Rewrap(c, m) \/ RevokeRead(c, m) \/ RevokeSet(c, m) \/ Load(c, m)
      PROVE  RecordInv'
  BY <1>4, RewrapKeepsInv, RevokeReadKeepsInv, RevokeSetKeepsInv, LoadKeepsInv
<1>5. ASSUME RecordInv, NEW c \in Calls, NEW s \in Sessions, NEW n \in Names,
             NEW m \in FirstReads(s, n),
             \/ BeginSet(c, s, n, m) \/ BeginDelete(c, s, n, m)
             \/ \E w \in Wallets : BeginRevoke(c, s, n, m, w)
      PROVE  RecordInv'
  <2>1. m \in 0..Len(log[n])
    BY <1>5, FirstReadVersions
  <2> QED
    BY <1>5, <2>1, BeginSetKeepsInv, BeginOtherKeepsInv
<1>6. ASSUME RecordInv, NEW c \in Calls, NEW s \in Sessions, NEW n \in Names,
             NEW w \in Wallets, BeginGrant(c, s, n, w)
      PROVE  RecordInv'
  BY <1>6, BeginGrantKeepsInv
<1> QED
  BY <1>1, <1>2, <1>3, <1>4, <1>5, <1>6, IdentityStepKeepsInv DEF Next

(* Records, registry, backups and calls are well formed for every client. *)
THEOREM PrivateTypes == Spec => []TypeOK
<1>1. RecordInv => TypeOK
  BY DEF RecordInv
<1> QED
  BY <1>1, InitRecordInv, StepRecordInv, PTL DEF Spec

(* assertOwnerCanModify is enough to keep an envelope's owner, except for  *)
(* what was written between that check and the load before the write       *)
(* (store.ts:187, 269). *)
THEOREM OwnersAreStable == Spec => []OwnerIsStable
<1>1. RecordInv => OwnerIsStable
  BY DEF RecordInv
<1> QED
  BY <1>1, InitRecordInv, StepRecordInv, PTL DEF Spec
-----------------------------------------------------------------------------
(* Envelopes.  What must hold of a history l, for the pairs K generated so *)
(* far, is stated of any sequences: an appended record is then a fact      *)
(* about sequences alone.                                                  *)

WrapsFit(e, K) ==
    \A w \in Readers(e) :
        /\ e.wraps[w].key \in 1..Len(K) /\ K[e.wraps[w].key].wallet = w
        /\ e.wraps[w].context = ContextOf(e, e.dapp)
        /\ e.wraps[w].data = e.data

(* Whoever reads a version owns it or was named by the call that wrote it, *)
(* or one before it.                                                       *)
ReadersNamed(l, i) ==
    \A w \in Readers(l[i]) : w = l[i].owner \/ \E j \in 1..i : w \in l[j].named

OwnerOpens(l, i) ==
    \/ l[i].wraps[l[i].owner].key = l[i].key
    \/ \E j \in 1..i : l[i].owner \in l[j].named

DropsLeave(e) == e.drops \cap Readers(e) \subseteq {e.owner}

StayRevoked(l, i, m) ==
    \A w \in l[i].drops \cap Readers(l[m]) :
        \/ w = l[i].owner
        \/ \E j \in (i + 1)..m :
              w \in l[j].named \cup {l[j].owner} \/ l[j].basis < i

IsEnvelope(l, i) == i \in 1..Len(l) /\ l[i].kind # "delete"

ValueIn(l, j) == IF IsEnvelope(l, j) THEN l[j].value ELSE 0

ValueKept(l, i) ==
    l[i].kind \in {"grant", "revoke"} =>
        \E j \in l[i].basis..l[i].checked : j < i /\ l[i].value = ValueIn(l, j)

(* What the history's versions are to be. *)
HistoryGood(l, K) ==
    /\ \A i \in 1..Len(l) : IsEnvelope(l, i) =>
          /\ WrapsFit(l[i], K) /\ ReadersNamed(l, i)
          /\ OwnerOpens(l, i) /\ DropsLeave(l[i])
    /\ \A i, m \in 1..Len(l) : IsEnvelope(l, i) /\ IsEnvelope(l, m) /\ i < m =>
          StayRevoked(l, i, m)
    /\ \A i \in 1..Len(l) : ValueKept(l, i)

(* A reader that e inherited from the version its reader list is of. *)
Inherits(l, b, w) == IsEnvelope(l, b) /\ w \in Readers(l[b]) /\ w # l[b].owner

(* What a record that is about to continue l must be. *)
Continues(l, e, K) ==
    /\ e.kind # "delete" =>
          /\ WrapsFit(e, K)
          /\ \A w \in Readers(e) :
                w = e.owner \/ w \in e.named \/ Inherits(l, e.basis, w)
          /\ \/ e.wraps[e.owner].key = e.key
             \/ e.owner \in e.named
             \/ Inherits(l, e.basis, e.owner)
             \/ /\ IsEnvelope(l, e.basis) /\ l[e.basis].owner = e.owner
                /\ l[e.basis].key = e.key
                /\ l[e.basis].wraps[e.owner].key = e.wraps[e.owner].key
          /\ DropsLeave(e)
    /\ e.kind \in {"grant", "revoke"} =>
          \E j \in e.basis..e.checked : j <= Len(l) /\ e.value = ValueIn(l, j)

(* The numbers of an entry. *)
LEMMA EntryNumbers ==
    \A e \in Entry : e.basis \in Nat /\ e.checked \in Nat
BY DEF Entry

(* A longer history has the same versions at its start. *)
LEMMA Longer ==
    ASSUME NEW l \in Seq(Entry), NEW e \in Entry
    PROVE  LET h == Append(l, e) IN
           /\ h \in Seq(Entry) /\ Len(l) \in Nat /\ Len(h) = Len(l) + 1
           /\ h[Len(l) + 1] = e
           /\ \A i \in 1..Len(l) : h[i] = l[i] /\ l[i] \in Entry
           /\ \A i \in 1..Len(l) : IsEnvelope(h, i) <=> IsEnvelope(l, i)
           /\ IsEnvelope(h, Len(l) + 1) <=> e.kind # "delete"
           /\ \A j \in Int : j <= Len(l) => ValueIn(h, j) = ValueIn(l, j)
<1> DEFINE h == Append(l, e)
<1>1. /\ h \in Seq(Entry) /\ Len(l) \in Nat /\ Len(h) = Len(l) + 1
      /\ h[Len(l) + 1] = e
      /\ \A i \in 1..Len(l) : h[i] = l[i] /\ l[i] \in Entry
  BY AppendProperties, LenProperties, ElementOfSeq
<1> HIDE DEF h
<1>2. /\ \A i \in 1..Len(l) : IsEnvelope(h, i) <=> IsEnvelope(l, i)
      /\ IsEnvelope(h, Len(l) + 1) <=> e.kind # "delete"
  BY <1>1 DEF IsEnvelope
<1>3. \A j \in Int : j <= Len(l) => ValueIn(h, j) = ValueIn(l, j)
  BY <1>1 DEF ValueIn, IsEnvelope
<1> QED
  BY <1>1, <1>2, <1>3 DEF h

(* A good history continues as one. *)
LEMMA GoodHistoryContinues ==
    ASSUME NEW l \in Seq(Entry), NEW e \in Entry, NEW K, HistoryGood(l, K), Continues(l, e, K)
    PROVE  HistoryGood(Append(l, e), K)
<1> DEFINE h == Append(l, e)
           z == Len(l) + 1
<1>1. /\ Len(l) \in Nat /\ Len(h) = z /\ h[z] = e
      /\ \A i \in 1..Len(l) : h[i] = l[i]
      /\ \A i \in 1..Len(l) : IsEnvelope(h, i) <=> IsEnvelope(l, i)
      /\ IsEnvelope(h, z) <=> e.kind # "delete"
      /\ \A j \in Int : j <= Len(l) => ValueIn(h, j) = ValueIn(l, j)
  BY Longer
<1> HIDE DEF h
<1>2. \A i \in 1..Len(h) : i \in 1..Len(l) \/ i = z
  BY <1>1
<1>3. \A i \in 1..Len(h) : IsEnvelope(h, i) =>
          /\ WrapsFit(h[i], K) /\ ReadersNamed(h, i)
          /\ OwnerOpens(h, i) /\ DropsLeave(h[i])
  <2>1. ASSUME NEW i \in 1..Len(l), IsEnvelope(h, i)
        PROVE  /\ WrapsFit(h[i], K) /\ ReadersNamed(h, i)
               /\ OwnerOpens(h, i) /\ DropsLeave(h[i])
    <3>1. IsEnvelope(l, i) /\ h[i] = l[i] /\ \A j \in 1..i : h[j] = l[j]
      BY <1>1, <2>1
    <3>2. /\ WrapsFit(l[i], K) /\ ReadersNamed(l, i)
          /\ OwnerOpens(l, i) /\ DropsLeave(l[i])
      BY <3>1 DEF HistoryGood
    <3> QED
      BY <3>1, <3>2 DEF ReadersNamed, OwnerOpens
  <2>2. ASSUME e.kind # "delete"
        PROVE  /\ WrapsFit(e, K) /\ ReadersNamed(h, z)
               /\ OwnerOpens(h, z) /\ DropsLeave(e)
    <3>1. \A w : Inherits(l, e.basis, w) => \E j \in 1..z : w \in h[j].named
      <4> SUFFICES ASSUME NEW w, Inherits(l, e.basis, w)
                   PROVE  \E j \in 1..z : w \in h[j].named
        OBVIOUS
      <4>1. e.basis \in 1..Len(l) /\ ReadersNamed(l, e.basis)
        BY DEF Inherits, HistoryGood, IsEnvelope
      <4>2. PICK j \in 1..e.basis : w \in l[j].named
        BY <4>1 DEF Inherits, ReadersNamed
      <4>3. j \in 1..Len(l) /\ j \in 1..z
        BY <1>1, <4>1
      <4> QED
        BY <1>1, <4>2, <4>3
    <3>2. z \in 1..z
      BY <1>1
    <3>3. ReadersNamed(h, z)
      BY <1>1, <2>2, <3>1, <3>2 DEF Continues, ReadersNamed
    <3>4. OwnerOpens(h, z)
      <4>1. CASE /\ IsEnvelope(l, e.basis) /\ l[e.basis].owner = e.owner
                 /\ l[e.basis].key = e.key
                 /\ l[e.basis].wraps[e.owner].key = e.wraps[e.owner].key
        <5>1. OwnerOpens(l, e.basis) /\ e.basis \in 1..Len(l)
          BY <4>1 DEF HistoryGood, IsEnvelope
        <5>2. ASSUME NEW j \in 1..e.basis, e.owner \in l[j].named
              PROVE  \E i \in 1..z : e.owner \in h[i].named
          <6>1. j \in 1..Len(l) /\ j \in 1..z
            BY <1>1, <5>1
          <6> QED
            BY <1>1, <5>2, <6>1
        <5> QED
          BY <1>1, <4>1, <5>1, <5>2 DEF OwnerOpens
      <4> QED
        BY <1>1, <2>2, <3>1, <3>2, <4>1 DEF Continues, OwnerOpens
    <3> QED
      BY <2>2, <3>3, <3>4 DEF Continues
  <2> QED
    BY <1>1, <1>2, <2>1, <2>2
<1>4. \A i, m \in 1..Len(h) : IsEnvelope(h, i) /\ IsEnvelope(h, m) /\ i < m =>
          StayRevoked(h, i, m)
  <2> SUFFICES ASSUME NEW i \in 1..Len(h), NEW m \in 1..Len(h),
                      IsEnvelope(h, i), IsEnvelope(h, m), i < m
               PROVE  StayRevoked(h, i, m)
    OBVIOUS
  <2>1. i \in 1..Len(l) /\ h[i] = l[i] /\ IsEnvelope(l, i)
    BY <1>1, <1>2
  <2>2. CASE m \in 1..Len(l)
    <3>1. IsEnvelope(l, m) /\ h[m] = l[m] /\ \A j \in (i + 1)..m : h[j] = l[j]
      BY <1>1, <2>1, <2>2
    <3>2. StayRevoked(l, i, m)
      BY <2>1, <2>2, <3>1 DEF HistoryGood
    <3> QED
      BY <2>1, <3>1, <3>2 DEF StayRevoked
  <2>3. CASE m = z
    <3> SUFFICES ASSUME NEW w \in l[i].drops \cap Readers(e), w # l[i].owner
                 PROVE  \E j \in (i + 1)..z :
                            w \in h[j].named \cup {h[j].owner} \/ h[j].basis < i
      BY <1>1, <2>1, <2>3 DEF StayRevoked
    <3>1. z \in (i + 1)..z /\ h[z] = e
      BY <1>1, <2>1
    <3>2. CASE w = e.owner \/ w \in e.named \/ e.basis < i
      BY <3>1, <3>2
    <3>3. CASE ~(w = e.owner \/ w \in e.named \/ e.basis < i)
      <4>1. Inherits(l, e.basis, w)
        BY <1>1, <2>3, <3>3 DEF Continues
      <4>2. e.basis \in 1..Len(l) /\ IsEnvelope(l, e.basis) /\ w \in Readers(l[e.basis])
        BY <4>1 DEF Inherits, IsEnvelope
      <4>3. e.basis # i
        <5>1. DropsLeave(l[i])
          BY <2>1 DEF HistoryGood
        <5> QED
          BY <4>2, <5>1 DEF DropsLeave
      <4>4. i < e.basis
        BY <2>1, <3>3, <4>2, <4>3
      <4>5. StayRevoked(l, i, e.basis)
        BY <2>1, <4>2, <4>4 DEF HistoryGood
      <4>6. PICK j \in (i + 1)..e.basis :
                w \in l[j].named \cup {l[j].owner} \/ l[j].basis < i
        BY <4>2, <4>5 DEF StayRevoked
      <4>7. j \in 1..Len(l) /\ j \in (i + 1)..z
        BY <1>1, <2>1, <4>2
      <4> QED
        BY <1>1, <4>6, <4>7
    <3> QED
      BY <3>2, <3>3
  <2> QED
    BY <1>2, <2>2, <2>3
<1>5. \A i \in 1..Len(h) : ValueKept(h, i)
  <2>1. ASSUME NEW i \in 1..Len(l) PROVE ValueKept(h, i)
    <3>1. ValueKept(l, i) /\ h[i] = l[i] /\ l[i].basis \in Nat /\ l[i].checked \in Nat
      BY <1>1, ElementOfSeq, EntryNumbers DEF HistoryGood
    <3>2. \A j \in l[i].basis..l[i].checked : j < i => ValueIn(h, j) = ValueIn(l, j)
      BY <1>1, <3>1
    <3> QED
      BY <3>1, <3>2 DEF ValueKept
  <2>2. ValueKept(h, z)
    <3>1. e.basis \in Nat /\ e.checked \in Nat
      BY EntryNumbers
    <3>2. \A j \in e.basis..e.checked : j <= Len(l) => j < z /\ ValueIn(h, j) = ValueIn(l, j)
      BY <1>1, <3>1
    <3> QED
      BY <1>1, <3>2 DEF Continues, ValueKept
  <2> QED
    BY <1>2, <2>1, <2>2
<1> QED
  BY <1>3, <1>4, <1>5 DEF HistoryGood, h


-----------------------------------------------------------------------------
(* What a call knows of the record it is about to write, from its own      *)
(* locals r and the history l that it read. *)

GotIn(r, K) ==
    \A w \in Wallets : r.got[w] # 0 => r.got[w] \in 1..Len(K) /\ K[r.got[w]].wallet = w

(* The readers that the call has resolved or is going to. *)
Sought(r) == r.todo \cup {w \in Wallets : r.got[w] # 0}

Informed(r, l) ==
    /\ r.kind \in {"set", "grant"} => r.drops = {}
    /\ r.kind = "grant" =>
          /\ Sought(r) \subseteq r.named
          /\ r.pc \in {"resolve", "commit"} =>
                IsEnvelope(l, r.basis) /\ l[r.basis].dapp = DappOf[r.session]
    /\ r.kind = "revoke" =>
          /\ r.named = {} /\ IsEnvelope(l, r.basis) /\ r.basis <= r.checked
          /\ r.pc \in {"others", "resolve", "commit"} =>
                \E j \in r.basis..r.checked : j <= Len(l) /\ r.value = ValueIn(l, j)
    /\ r.kind \in {"set", "revoke"} /\ r.pc \in {"others", "resolve", "commit"} =>
          \A w \in Sought(r) : w \in r.named \/ (Inherits(l, r.basis, w) /\ w \notin r.drops)

Knows(r) == GotIn(r, keys) /\ (~forked[r.name] => Informed(r, log[r.name]))

(* The inductive invariant of the envelopes. *)
EnvelopeInv ==
    /\ RecordInv
    /\ \A n \in Names : HistoryGood(log[n], keys)
    /\ \A c \in Calls : Knows(call[c])

(* An empty history, and one under more pairs. *)
LEMMA NoHistory == \A K : HistoryGood(<<>>, K)
<1>1. Len(<<>>) = 0
  OBVIOUS
<1> QED
  BY <1>1 DEF HistoryGood

LEMMA MorePairs ==
    ASSUME NEW l, NEW K, NEW M, HistoryGood(l, K),
           \A k : k \in 1..Len(K) => k \in 1..Len(M) /\ M[k] = K[k]
    PROVE  HistoryGood(l, M)
<1>1. \A i \in 1..Len(l) : WrapsFit(l[i], K) => WrapsFit(l[i], M)
  BY DEF WrapsFit
<1> QED
  BY <1>1 DEF HistoryGood

(* What a call knows stays true when the history grows. *)
LEMMA StaysInformed ==
    ASSUME NEW l \in Seq(Entry), NEW e \in Entry, NEW r \in CallState, Informed(r, l)
    PROVE  Informed(r, Append(l, e))
<1> DEFINE h == Append(l, e)
<1>1. /\ Len(l) \in Nat /\ Len(h) = Len(l) + 1
      /\ \A i \in 1..Len(l) : h[i] = l[i]
      /\ \A i \in 1..Len(l) : IsEnvelope(h, i) <=> IsEnvelope(l, i)
      /\ \A j \in Int : j <= Len(l) => ValueIn(h, j) = ValueIn(l, j)
  BY Longer
<1>2. r.basis \in Nat /\ r.checked \in Nat
  BY DEF CallState
<1> HIDE DEF h
<1>3. IsEnvelope(l, r.basis) => IsEnvelope(h, r.basis) /\ h[r.basis] = l[r.basis]
  BY <1>1 DEF IsEnvelope
<1>4. \A w : Inherits(l, r.basis, w) => Inherits(h, r.basis, w)
  BY <1>3 DEF Inherits
<1>5. \A j \in r.basis..r.checked : j <= Len(l) =>
          j <= Len(h) /\ ValueIn(h, j) = ValueIn(l, j)
  BY <1>1, <1>2
<1> QED
  BY <1>3, <1>4, <1>5 DEF Informed, h

(* A call that is not in flight, and one that begins without readers. *)
LEMMA IdleKnows == Knows(IdleCall)
<1>1. /\ IdleCall.kind = "set" /\ IdleCall.pc = "idle" /\ IdleCall.drops = {}
      /\ \A w \in Wallets : IdleCall.got[w] = 0
  BY DEF IdleCall, NoKeys
<1> QED
  BY <1>1 DEF Knows, GotIn, Informed

(* There are no records at first. *)
LEMMA InitEnvelopeInv == Init => EnvelopeInv
<1> SUFFICES ASSUME Init PROVE EnvelopeInv
  OBVIOUS
<1>1. RecordInv
  BY InitRecordInv
<1>2. log = [n \in Names |-> <<>>] /\ call = [c \in Calls |-> IdleCall]
  BY DEF Init, Data!Init
<1> QED
  BY <1>1, <1>2, NoHistory, IdleKnows DEF EnvelopeInv

(* A step of one call that writes nothing. *)
LEMMA KnowStep ==
    ASSUME EnvelopeInv, RecordInv', NEW c \in Calls, Knows(call'[c]),
           \A d \in Calls : d # c => call'[d] = call[d],
           UNCHANGED <<identityVars, log, forked>>
    PROVE  EnvelopeInv'
<1>1. UNCHANGED <<keys, log, forked>>
  BY DEF identityVars
<1>2. \A d \in Calls : Knows(call'[d])
  BY DEF EnvelopeInv
<1>3. (\A d \in Calls : Knows(call[d]))'
  BY <1>1, <1>2 DEF Knows
<1>4. (\A n \in Names : HistoryGood(log[n], keys))'
  BY <1>1 DEF EnvelopeInv
<1> QED
  BY <1>3, <1>4 DEF EnvelopeInv

(* The version that a call reads. *)
LEMMA VisibleEnvelope ==
    ASSUME RecordInv, NEW n \in Names, NEW m \in 0..Len(log[n])
    PROVE  /\ Len(log[n]) \in Nat /\ m \in Nat /\ m <= Len(log[n])
           /\ Visible(n, m) # 0 =>
                 /\ Visible(n, m) = m /\ IsEnvelope(log[n], m)
                 /\ ValueIn(log[n], m) = log[n][m].value
           /\ Visible(n, m) = 0 => ValueIn(log[n], m) = 0
<1>1. log \in [Names -> Seq(Entry)]
  BY DEF RecordInv, TypeOK
<1>2. /\ Len(log[n]) \in Nat /\ m \in Nat /\ Visible(n, m) \in {0, m}
      /\ Visible(n, m) # 0 => m > 0 /\ Visible(n, m) = m /\ log[n][m].kind # "delete"
      /\ Visible(n, m) = 0 => m = 0 \/ log[n][m].kind = "delete"
  BY <1>1, VisibleEntry
<1> QED
  BY <1>2 DEF IsEnvelope, ValueIn

(* The key that the registry has for a wallet is one of its pairs. *)
LEMMA ResolvedIsIssued ==
    ASSUME RecordInv, NEW w \in Wallets, NEW d \in Dapps, ResolvedKey(w, d) # 0
    PROVE  ResolvedKey(w, d) \in 1..Len(keys) /\ keys[ResolvedKey(w, d)].wallet = w
<1> DEFINE x == <<w, d>>
           i == Len(claims[x])
<1>1. x \in Slots /\ claims[x] \in Seq(Nat)
  BY DEF RecordInv, TypeOK, IdentityTypeOK, Slots
<1>2. claims[x] # <<>> => i \in DOMAIN claims[x]
  BY <1>1, LenProperties, EmptySeq
<1>3. claims[x] # <<>> => Issued(claims[x][i])
  BY <1>1, <1>2 DEF RecordInv, IdentityInv, KeysStayWithTheirWallet
<1> QED
  BY <1>3 DEF ResolvedKey, Issued

(* set() *)
LEMMA BeginSetKnows ==
    ASSUME EnvelopeInv, RecordInv', NEW c \in Calls, NEW s \in Sessions, NEW n \in Names,
           NEW m \in 0..Len(log[n]), BeginSet(c, s, n, m)
    PROVE  EnvelopeInv'
<1> DEFINE v == Visible(n, m)
           inherited == IF v = 0 THEN {} ELSE Readers(log[n][v]) \ {log[n][v].owner}
<1>1. PICK R, named :
          /\ R = named \/ R = inherited
          /\ call' = [call EXCEPT ![c] = [IdleCall EXCEPT
              !.pc = "resolve", !.me = identity[s], !.basis = m,
              !.checked = m, !.version = v + 1, !.todo = R,
              !.named = named, !.session = s, !.kind = "set", !.name = n]]
  BY DEF BeginSet, Begin
<1>2. RecordInv /\ call \in [Calls -> CallState] /\ UNCHANGED <<identityVars, log, forked>>
  BY DEF EnvelopeInv, RecordInv, TypeOK, BeginSet, Begin
<1> DEFINE r == call'[c]
<1>3. /\ r.pc = "resolve" /\ r.kind = "set" /\ r.name = n /\ r.basis = m
      /\ r.todo = R /\ r.named = named /\ r.drops = {} /\ r.got = NoKeys
  BY <1>1, <1>2 DEF IdleCall
<1>4. \A w \in inherited : Inherits(log[n], m, w)
  BY <1>2, VisibleEnvelope DEF Inherits
<1> HIDE DEF r, inherited
<1>5. \A w \in Sought(r) : w \in r.named \/ Inherits(log[n], r.basis, w)
  BY <1>1, <1>3, <1>4 DEF Sought, NoKeys
<1>6. Knows(r)
  BY <1>3, <1>5 DEF Knows, GotIn, Informed, NoKeys
<1>7. \A d \in Calls : d # c => call'[d] = call[d]
  BY <1>1, <1>2
<1> QED
  BY <1>2, <1>6, <1>7, KnowStep DEF r

(* revokeFuture() and delete() *)
LEMMA BeginOtherKnows ==
    ASSUME EnvelopeInv, RecordInv', NEW c \in Calls, NEW s \in Sessions, NEW n \in Names,
           NEW m \in 0..Len(log[n]),
           \/ BeginDelete(c, s, n, m)
           \/ \E w \in Wallets : BeginRevoke(c, s, n, m, w)
    PROVE  EnvelopeInv'
<1> DEFINE r == call'[c]
<1>1. RecordInv /\ call \in [Calls -> CallState]
  BY DEF EnvelopeInv, RecordInv, TypeOK
<1>2. CASE BeginDelete(c, s, n, m)
  <2>1. /\ call' = [call EXCEPT ![c] = [IdleCall EXCEPT !.pc = "commit", !.basis = m,
                      !.checked = m, !.base = m,
                      !.session = s, !.kind = "delete", !.name = n]]
        /\ UNCHANGED <<identityVars, log, forked>>
    BY <1>2 DEF BeginDelete, Begin
  <2>2. r.kind = "delete" /\ r.got = NoKeys
    BY <1>1, <2>1 DEF IdleCall
  <2>3. Knows(r)
    BY <2>2 DEF Knows, GotIn, Informed, NoKeys
  <2> QED
    BY <1>1, <2>1, <2>3, KnowStep
<1>3. ASSUME NEW w \in Wallets, BeginRevoke(c, s, n, m, w) PROVE EnvelopeInv'
  <2>1. /\ call' = [call EXCEPT ![c] = [IdleCall EXCEPT !.pc = "reader", !.todo = {w},
                      !.drops = {w}, !.basis = m, !.checked = m,
                      !.session = s, !.kind = "revoke", !.name = n]]
        /\ UNCHANGED <<identityVars, log, forked>> /\ Visible(n, m) # 0
    BY <1>3 DEF BeginRevoke, Begin
  <2>2. /\ r.kind = "revoke" /\ r.pc = "reader" /\ r.name = n /\ r.got = NoKeys
        /\ r.named = {} /\ r.basis = m /\ r.checked = m
    BY <1>1, <2>1 DEF IdleCall
  <2>3. IsEnvelope(log[n], m) /\ m \in Nat
    BY <1>1, <2>1, VisibleEnvelope
  <2>4. Knows(r)
    BY <2>2, <2>3 DEF Knows, GotIn, Informed, NoKeys
  <2> QED
    BY <1>1, <2>1, <2>4, KnowStep
<1> QED
  BY <1>2, <1>3

(* grant() *)
LEMMA BeginGrantKnows ==
    ASSUME EnvelopeInv, RecordInv', NEW c \in Calls, NEW s \in Sessions, NEW n \in Names,
           NEW w \in Wallets, BeginGrant(c, s, n, w)
    PROVE  EnvelopeInv'
<1> DEFINE r == call'[c]
<1>1. call \in [Calls -> CallState]
  BY DEF EnvelopeInv, RecordInv, TypeOK
<1>2. /\ call' = [call EXCEPT ![c] = [IdleCall EXCEPT !.pc = "reader", !.todo = {w},
                    !.named = {w}, !.session = s, !.kind = "grant", !.name = n]]
      /\ UNCHANGED <<identityVars, log, forked>>
  BY DEF BeginGrant, Begin
<1>3. /\ r.kind = "grant" /\ r.pc = "reader" /\ r.got = NoKeys
      /\ r.todo = {w} /\ r.named = {w} /\ r.drops = {}
  BY <1>1, <1>2 DEF IdleCall
<1>4. Knows(r)
  BY <1>3 DEF Knows, GotIn, Informed, NoKeys, Sought
<1> QED
  BY <1>1, <1>2, <1>4, KnowStep

(* A resolution of a reader. *)
LEMMA ResolveNextKnows ==
    ASSUME EnvelopeInv, RecordInv', NEW c \in Calls, ResolveNext(c)
    PROVE  EnvelopeInv'
<1> DEFINE o == call[c]
           r == call'[c]
<1>1. PICK w \in o.todo :
          /\ ResolvedKey(w, DappOfCall(c)) # 0
          /\ call' = [call EXCEPT ![c].todo = @ \ {w},
                                  ![c].got[w] = ResolvedKey(w, DappOfCall(c))]
  BY DEF ResolveNext
<1>2. RecordInv /\ call \in [Calls -> CallState] /\ UNCHANGED <<identityVars, log, forked>>
  BY DEF EnvelopeInv, RecordInv, TypeOK, ResolveNext
<1>3. o \in CallState /\ w \in Wallets /\ DappOfCall(c) \in Dapps
  BY <1>2, Identities DEF CallState, DappOfCall
<1> DEFINE k == ResolvedKey(w, DappOfCall(c))
<1>4. k \in 1..Len(keys) /\ keys[k].wallet = w
  BY <1>1, <1>2, <1>3, ResolvedIsIssued
<1> HIDE DEF k
<1>5. /\ r.todo = o.todo \ {w} /\ r.got = [o.got EXCEPT ![w] = k]
      /\ r.pc = o.pc /\ r.kind = o.kind /\ r.name = o.name /\ r.session = o.session
      /\ r.basis = o.basis /\ r.checked = o.checked /\ r.value = o.value
      /\ r.named = o.named /\ r.drops = o.drops
  BY <1>1, <1>2, <1>3 DEF CallState, k
<1>6. \A d \in Calls : d # c => call'[d] = call[d]
  BY <1>1, <1>2
<1>7. o.got \in [Wallets -> Nat] /\ Knows(o)
  BY <1>3 DEF CallState, EnvelopeInv
<1> HIDE DEF o, r
<1>8. GotIn(r, keys)
  BY <1>4, <1>5, <1>7 DEF Knows, GotIn
<1>9. Sought(r) \subseteq Sought(o)
  BY <1>5, <1>7 DEF Sought
<1>10. ~forked[r.name] => Informed(r, log[r.name])
  BY <1>5, <1>7, <1>9 DEF Knows, Informed
<1> QED
  BY <1>2, <1>6, <1>8, <1>10, KnowStep DEF Knows, r

(* grant(): the caller's wrap opened, so the record is of the caller's dapp. *)
LEMMA RewrapKnows ==
    ASSUME EnvelopeInv, RecordInv', NEW c \in Calls,
           NEW m \in NextReads(c), Rewrap(c, m)
    PROVE  EnvelopeInv'
<1> DEFINE o == call[c]
           r == call'[c]
           n == o.name
           k == Me(c)
           e == log[n][m]
<1>1. RecordInv /\ call \in [Calls -> CallState]
  BY DEF EnvelopeInv, RecordInv, TypeOK
<1>2. /\ o.kind = "grant" /\ Visible(n, m) # 0 /\ OwnerCanModify(n, m, k)
      /\ Unwraps(e.wraps[keys[k].wallet], k, ContextOf(e, DappOfCall(c)))
      /\ call' = [call EXCEPT ![c].pc = "resolve", ![c].me = k,
                              ![c].basis = m, ![c].checked = m]
      /\ UNCHANGED <<identityVars, log, forked>>
  BY DEF Rewrap, At
<1>3. /\ o \in CallState /\ n \in Names /\ o.session \in Sessions /\ Knows(o)
      /\ m \in 0..Len(log[n])
  BY <1>1, NextReadVersions DEF CallState, EnvelopeInv
<1>4. /\ r.pc = "resolve" /\ r.kind = "grant" /\ r.name = n /\ r.session = o.session
      /\ r.basis = m /\ r.todo = o.todo /\ r.got = o.got
      /\ r.named = o.named /\ r.drops = o.drops
  BY <1>1, <1>2, <1>3 DEF CallState
<1>5. IsEnvelope(log[n], m) /\ Visible(n, m) = m
  BY <1>1, <1>2, <1>3, VisibleEnvelope
<1>6. e.dapp = DappOf[o.session]
  <2>1. WrapsFit(e, keys)
    BY <1>3, <1>5 DEF EnvelopeInv, HistoryGood, IsEnvelope
  <2>2. Issued(k) /\ k # 0 /\ keys[k].wallet \in Wallets
    <3>1. Issued(k)
      BY <1>1, <1>2, <1>3, <1>5, OwnerChecked DEF Me
    <3>2. keys \in Seq(Uses)
      BY <1>1 DEF RecordInv, TypeOK, IdentityTypeOK
    <3> QED
      BY <1>2, <3>1, <3>2, IssuedUse DEF OwnerCanModify
  <2>3. keys[k].wallet \in Readers(e)
    BY <1>2, <2>2 DEF Readers, Unwraps
  <2>4. ContextOf(e, e.dapp) = ContextOf(e, DappOfCall(c))
    BY <1>2, <2>1, <2>3 DEF WrapsFit, Unwraps
  <2> QED
    BY <2>4 DEF ContextOf, DappOfCall
<1>7. \A d \in Calls : d # c => call'[d] = call[d]
  BY <1>1, <1>2
<1> HIDE DEF o, r, n, k
<1>8. Sought(r) = Sought(o)
  BY <1>4 DEF Sought
<1>9. GotIn(r, keys)
  BY <1>3, <1>4 DEF Knows, GotIn
<1>10. ~forked[r.name] => Informed(r, log[r.name])
  BY <1>2, <1>3, <1>4, <1>5, <1>6, <1>8 DEF Knows, Informed, n
<1> QED
  BY <1>1, <1>2, <1>7, <1>9, <1>10, KnowStep DEF Knows, r

(* revokeFuture(): the second read. *)
LEMMA RevokeReadKnows ==
    ASSUME EnvelopeInv, RecordInv', NEW c \in Calls,
           NEW m \in NextReads(c), RevokeRead(c, m)
    PROVE  EnvelopeInv'
<1> DEFINE o == call[c]
           r == call'[c]
           n == o.name
           l == log[n]
           value == IF Visible(n, m) = 0 THEN 0 ELSE l[Visible(n, m)].value
<1>1. RecordInv /\ call \in [Calls -> CallState]
  BY DEF EnvelopeInv, RecordInv, TypeOK
<1>2. /\ o.kind = "revoke" /\ ~forked[n]
      /\ call' = [call EXCEPT ![c].pc = "others", ![c].checked = m,
                              ![c].todo = RemainingReaders(c), ![c].got = NoKeys, ![c].value = value]
      /\ UNCHANGED <<identityVars, log, forked>>
  BY DEF RevokeRead, At
<1>3. /\ o \in CallState /\ n \in Names /\ o.basis \in Nat /\ o.checked \in Nat
      /\ Knows(o) /\ m \in 0..Len(l) /\ (~forked[n] => o.checked <= m)
  BY <1>1, NextReadVersions DEF CallState, EnvelopeInv
<1>4. /\ r.pc = "others" /\ r.kind = "revoke" /\ r.name = n /\ r.basis = o.basis
      /\ r.checked = m /\ r.todo = RemainingReaders(c) /\ r.got = NoKeys /\ r.value = value
      /\ r.named = o.named /\ r.drops = o.drops
  BY <1>1, <1>2, <1>3 DEF CallState
<1>5. /\ m \in Nat /\ m <= Len(l) /\ value = ValueIn(l, m)
  BY <1>1, <1>3, VisibleEnvelope
<1>6. RemainingReaders(c) = Readers(l[o.basis]) \ (o.drops \cup {l[o.basis].owner})
  BY DEF RemainingReaders
<1>7. \A d \in Calls : d # c => call'[d] = call[d]
  BY <1>1, <1>2
<1> HIDE DEF o, r, n, l, value
<1>8. o.named = {} /\ IsEnvelope(l, o.basis) /\ o.basis <= o.checked
  BY <1>2, <1>3 DEF Knows, Informed, n, l
<1>9. o.basis <= m /\ m \in o.basis..m
  BY <1>2, <1>3, <1>5, <1>8
<1>10. \A w \in Sought(r) : Inherits(l, r.basis, w) /\ w \notin r.drops
  BY <1>4, <1>6, <1>8 DEF Sought, NoKeys, Inherits
<1>11. Informed(r, l)
  BY <1>4, <1>5, <1>8, <1>9, <1>10 DEF Informed
<1>12. GotIn(r, keys)
  BY <1>4 DEF GotIn, NoKeys
<1> QED
  BY <1>1, <1>2, <1>4, <1>7, <1>11, <1>12, KnowStep DEF Knows, r, l

(* revokeFuture(): the inner set(). *)
LEMMA RevokeSetKnows ==
    ASSUME EnvelopeInv, RecordInv', NEW c \in Calls,
           NEW m \in NextReads(c), RevokeSet(c, m)
    PROVE  EnvelopeInv'
<1> DEFINE o == call[c]
           r == call'[c]
           n == o.name
           again == {w \in Wallets : o.got[w] # 0}
<1>1. RecordInv /\ call \in [Calls -> CallState]
  BY DEF EnvelopeInv, RecordInv, TypeOK
<1>2. /\ o.kind = "revoke" /\ o.pc = "others"
      /\ call' = [call EXCEPT ![c].pc = "resolve", ![c].me = Me(c),
                     ![c].checked = m,
                     ![c].version = Visible(n, m) + 1, ![c].want = o.got,
                     ![c].todo = again, ![c].got = NoKeys]
      /\ UNCHANGED <<identityVars, log, forked>>
  BY DEF RevokeSet, At
<1>3. /\ o \in CallState /\ n \in Names /\ o.basis \in Nat /\ o.checked \in Nat
      /\ Knows(o) /\ m \in 0..Len(log[n]) /\ (~forked[n] => o.checked <= m)
  BY <1>1, NextReadVersions DEF CallState, EnvelopeInv
<1>4. /\ r.pc = "resolve" /\ r.kind = "revoke" /\ r.name = n /\ r.basis = o.basis
      /\ r.checked = m /\ r.todo = again /\ r.got = NoKeys /\ r.value = o.value
      /\ r.named = o.named /\ r.drops = o.drops
  BY <1>1, <1>2, <1>3 DEF CallState
<1>5. m \in Nat
  BY <1>1, <1>3, VisibleEnvelope
<1>6. \A d \in Calls : d # c => call'[d] = call[d]
  BY <1>1, <1>2
<1>7. again \subseteq Sought(o)
  BY DEF Sought
<1> HIDE DEF o, r, n, again
<1>8. Sought(r) \subseteq Sought(o)
  BY <1>4, <1>7 DEF Sought, NoKeys
<1>9. ASSUME ~forked[n] PROVE Informed(r, log[n])
  <2>1. Informed(o, log[n])
    BY <1>3, <1>9 DEF Knows, n
  <2>2. /\ \A j \in o.basis..o.checked : j \in o.basis..m
        /\ o.basis <= o.checked => o.basis <= m
    BY <1>3, <1>5, <1>9
  <2> QED
    BY <1>2, <1>4, <1>8, <2>1, <2>2 DEF Informed
<1>10. GotIn(r, keys)
  BY <1>4 DEF GotIn, NoKeys
<1>11. Knows(r)
  BY <1>4, <1>9, <1>10 DEF Knows
<1>12. UNCHANGED <<identityVars, log, forked>>
  BY <1>2
<1> QED
  BY <1>6, <1>11, <1>12, KnowStep DEF r

(* The load before the write. *)
LEMMA LoadKnows ==
    ASSUME EnvelopeInv, RecordInv', NEW c \in Calls,
           NEW m \in NextReads(c), Load(c, m)
    PROVE  EnvelopeInv'
<1> DEFINE o == call[c]
           r == call'[c]
<1>1. RecordInv /\ call \in [Calls -> CallState]
  BY DEF EnvelopeInv, RecordInv, TypeOK
<1>2. /\ o.pc = "resolve"
      /\ call' = [call EXCEPT ![c].pc = "commit", ![c].base = m]
      /\ UNCHANGED <<identityVars, log, forked>>
  BY DEF Load
<1>3. o \in CallState /\ Knows(o)
  BY <1>1 DEF EnvelopeInv
<1>4. /\ r.pc = "commit" /\ r.kind = o.kind /\ r.name = o.name /\ r.session = o.session
      /\ r.basis = o.basis /\ r.checked = o.checked /\ r.value = o.value
      /\ r.todo = o.todo /\ r.got = o.got /\ r.named = o.named /\ r.drops = o.drops
  BY <1>1, <1>2, <1>3 DEF CallState
<1>5. \A d \in Calls : d # c => call'[d] = call[d]
  BY <1>1, <1>2
<1> HIDE DEF o, r
<1>6. Sought(r) = Sought(o)
  BY <1>4 DEF Sought
<1>7. GotIn(r, keys)
  BY <1>3, <1>4 DEF Knows, GotIn
<1>8. ~forked[r.name] => Informed(r, log[r.name])
  BY <1>2, <1>3, <1>4, <1>6 DEF Knows, Informed
<1> QED
  BY <1>1, <1>2, <1>5, <1>7, <1>8, KnowStep DEF Knows, r

(* What a call writes continues the history that it loaded. *)
LEMMA DeleteContinues ==
    ASSUME NEW c \in Calls, call[c].kind = "delete"
    PROVE  Continues(log[call[c].name], Written(c), keys)
<1>1. Written(c).kind = "delete"
  BY DEF Written, Tombstone
<1> QED
  BY <1>1 DEF Continues

(* grant(): the envelope of the version it read, and a wrap for the reader. *)
LEMMA GrantContinues ==
    ASSUME EnvelopeInv, NEW c \in Calls, call[c].kind = "grant", call[c].pc = "commit",
           ~forked[call[c].name]
    PROVE  Continues(log[call[c].name], Written(c), keys)
<1> DEFINE r == call[c]
           l == log[r.name]
           b == l[r.basis]
           e == Written(c)
           x == ContextOf(b, DappOfCall(c))
<1>1. /\ r \in CallState /\ r.name \in Names /\ l \in Seq(Entry) /\ Len(l) \in Nat
      /\ r.basis \in Nat /\ r.checked \in Nat /\ r.got \in [Wallets -> Nat]
  BY LenProperties DEF EnvelopeInv, RecordInv, TypeOK, CallState
<1>2. /\ GotIn(r, keys) /\ Informed(r, l)
      /\ HistoryGood(l, keys)
      /\ Current(r)
  BY <1>1 DEF EnvelopeInv, RecordInv, Knows
<1>3. /\ IsEnvelope(l, r.basis) /\ b.dapp = DappOfCall(c) /\ r.drops = {}
      /\ \A w \in Wallets : r.got[w] # 0 => w \in r.named
      /\ r.basis = r.checked
  BY <1>2 DEF Informed, DappOfCall, Sought, Current
<1>4. b \in Entry
  BY <1>1, <1>3, ElementOfSeq DEF IsEnvelope
<1>5. e = [b EXCEPT !.kind = "grant",
             !.wraps = [w \in Wallets |-> IF r.got[w] = 0 THEN b.wraps[w]
                 ELSE [key |-> r.got[w], data |-> b.data, context |-> x]],
             !.basis = r.basis, !.checked = r.checked, !.named = r.named, !.drops = {}]
  BY DEF Written, Rewrapped
<1>6. /\ e.kind = "grant" /\ e.owner = b.owner /\ e.key = b.key /\ e.dapp = b.dapp
      /\ e.version = b.version /\ e.data = b.data /\ e.value = b.value
      /\ e.basis = r.basis /\ e.checked = r.checked /\ e.named = r.named /\ e.drops = {}
      /\ e.wraps = [w \in Wallets |-> IF r.got[w] = 0 THEN b.wraps[w]
                       ELSE [key |-> r.got[w], data |-> b.data, context |-> x]]
  <2> HIDE DEF b, e, x
  <2> QED
    BY <1>4, <1>5 DEF Entry
<1>7. b.owner \in Wallets
  <2> HIDE DEF b
  <2> QED
    BY <1>4 DEF Entry
<1>8. WrapsFit(b, keys)
  BY <1>2, <1>3 DEF HistoryGood, IsEnvelope
<1>9. x = ContextOf(b, b.dapp) /\ x = ContextOf(e, e.dapp)
  BY <1>3, <1>6 DEF ContextOf
<1> HIDE DEF b, e, x
<1>10. \A w \in Wallets :
          IF r.got[w] = 0 THEN e.wraps[w] = b.wraps[w]
          ELSE e.wraps[w] = [key |-> r.got[w], data |-> b.data, context |-> x]
  BY <1>6
<1>11. WrapsFit(e, keys)
  BY <1>2, <1>6, <1>8, <1>9, <1>10 DEF WrapsFit, GotIn, Readers
<1>12. \A w \in Readers(e) : w = e.owner \/ w \in e.named \/ Inherits(l, e.basis, w)
  BY <1>3, <1>6, <1>10 DEF Readers, Inherits, b
<1>13. e.owner \in e.named \/ e.wraps[e.owner].key = b.wraps[e.owner].key
  BY <1>3, <1>6, <1>7, <1>10
<1>14. e.value = ValueIn(l, r.basis) /\ r.basis <= Len(l)
  <2>1. ValueIn(l, r.basis) = b.value
    BY <1>3 DEF ValueIn, b
  <2>2. r.basis \in 1..Len(l)
    BY <1>3 DEF IsEnvelope
  <2> QED
    BY <1>1, <1>6, <2>1, <2>2
<1>15. r.basis \in e.basis..e.checked
  BY <1>1, <1>3, <1>6
<1> HIDE DEF l, r
<1>16. Continues(l, e, keys)
  BY <1>3, <1>6, <1>11, <1>12, <1>13, <1>14, <1>15 DEF Continues, DropsLeave, b
<1> QED
  BY <1>16 DEF e, l, r

(* set() and revokeFuture(): a new envelope for the writer and the readers *)
(* resolved. *)
LEMMA SetContinues ==
    ASSUME EnvelopeInv, NEW c \in Calls, call[c].kind \in {"set", "revoke"},
           call[c].pc = "commit", ~forked[call[c].name]
    PROVE  Continues(log[call[c].name], Written(c), keys)
<1> DEFINE r == call[c]
           l == log[r.name]
           e == Written(c)
           owner == keys[r.me].wallet
<1>1. /\ r \in CallState /\ r.name \in Names /\ r.got \in [Wallets -> Nat]
      /\ keys \in Seq(Uses)
  BY DEF EnvelopeInv, RecordInv, TypeOK, CallState, IdentityTypeOK
<1>2. /\ GotIn(r, keys) /\ Informed(r, l) /\ Current(r)
  BY <1>1 DEF EnvelopeInv, RecordInv, Knows
<1>3. r.me \in 1..Len(keys) /\ owner \in Wallets
  BY <1>1, <1>2, IssuedUse DEF Current, Issued
<1>4. /\ e.kind = r.kind /\ e.owner = owner /\ e.key = r.me /\ e.dapp = DappOfCall(c)
      /\ e.version = r.version /\ e.data = r.base + 1
      /\ r.kind = "revoke" => e.value = r.value
      /\ e.basis = r.basis /\ e.checked = r.checked /\ e.named = r.named /\ e.drops = r.drops
      /\ \A w \in Wallets :
            /\ e.wraps[w].key = KeysFor(c, owner)[w]
            /\ e.wraps[w].data = e.data
            /\ e.wraps[w].context = ContextOf(e, e.dapp)
  BY DEF Written, Encrypted, ContextOf
<1>5. \A w \in Wallets : KeysFor(c, owner)[w] = IF r.got[w] # 0 THEN r.got[w]
                                                ELSE IF w = owner THEN r.me ELSE 0
  BY DEF KeysFor
<1>6. /\ r.kind = "set" => r.drops = {}
      /\ r.kind = "revoke" =>
            /\ r.named = {}
            /\ \E j \in r.basis..r.checked : j <= Len(l) /\ r.value = ValueIn(l, j)
      /\ \A w \in Wallets : r.got[w] # 0 =>
            w \in r.named \/ (Inherits(l, r.basis, w) /\ w \notin r.drops)
  BY <1>2 DEF Informed, Sought
<1>7. r.kind \in {"set", "revoke"}
  OBVIOUS
<1> HIDE DEF e, owner, r, l
<1>8. \A w \in Readers(e) : r.got[w] # 0 \/ w = owner
  BY <1>4, <1>5 DEF Readers
<1>9. WrapsFit(e, keys)
  BY <1>2, <1>3, <1>4, <1>5, <1>8 DEF WrapsFit, GotIn, Readers, owner
<1>10. \A w \in Readers(e) : w = e.owner \/ w \in e.named \/ Inherits(l, e.basis, w)
  BY <1>4, <1>6, <1>8 DEF Readers
<1>11. e.wraps[e.owner].key = e.key \/ e.owner \in e.named \/ Inherits(l, e.basis, e.owner)
  BY <1>3, <1>4, <1>5, <1>6
<1>12. DropsLeave(e)
  BY <1>4, <1>6, <1>8 DEF DropsLeave, Readers, r
<1>13. Continues(l, e, keys)
  BY <1>4, <1>6, <1>9, <1>10, <1>11, <1>12, <1>7 DEF Continues
<1> QED
  BY <1>13 DEF e, l, r

(* A write after the version that was loaded; any other one costs the      *)
(* record its history. *)
LEMMA CommitKnows ==
    ASSUME EnvelopeInv, RecordInv', NEW c \in Calls, Commit(c)
    PROVE  EnvelopeInv'
<1> DEFINE n == call[c].name
           e == Written(c)
<1>1. /\ log \in [Names -> Seq(Entry)] /\ n \in Names /\ RecordInv
      /\ call \in [Calls -> CallState] /\ forked \in [Names -> BOOLEAN]
  BY DEF EnvelopeInv, RecordInv, TypeOK, CallState
<1>2. /\ call[c].pc = "commit" /\ Data!Write(n, call[c].base, e)
      /\ call' = [call EXCEPT ![c] = IdleCall]
      /\ UNCHANGED identityVars
  BY DEF Commit
<1>3. /\ \A d \in Calls : call'[d] = IF d = c THEN IdleCall ELSE call[d]
      /\ keys' = keys
  BY <1>1, <1>2 DEF identityVars
<1>4. CASE UNCHANGED <<log, forked>>
  BY <1>2, <1>3, <1>4, IdleKnows, KnowStep
<1>5. CASE ~forked[n] /\ Data!Extend(n, e)
  <2>1. e \in Entry /\ Continues(log[n], e, keys)
    <3>1. call[c].kind \in {"set", "grant", "revoke", "delete"}
      BY <1>1 DEF CallState, RecordOperations
    <3> QED
      BY <1>1, <1>2, <1>5, <3>1, WrittenFacts, DeleteContinues, GrantContinues, SetContinues
  <2> HIDE DEF e
  <2>2. log' = [log EXCEPT ![n] = Append(log[n], e)] /\ forked' = forked
    BY <1>5 DEF Data!Extend
  <2>3. \A m \in Names : HistoryGood(log'[m], keys)
    <3>1. HistoryGood(Append(log[n], e), keys)
      BY <1>1, <2>1, GoodHistoryContinues DEF EnvelopeInv
    <3> QED
      BY <1>1, <2>2, <3>1 DEF EnvelopeInv
  <2>4. ASSUME NEW d \in Calls
        PROVE  /\ GotIn(call'[d], keys)
               /\ ~forked[call'[d].name] => Informed(call'[d], log'[call'[d].name])
    <3>1. CASE d = c
      <4>1. call'[d] = IdleCall
        BY <1>3, <3>1
      <4>2. GotIn(IdleCall, keys) /\ \A l : Informed(IdleCall, l)
        BY IdleKnows DEF Knows, Informed, IdleCall
      <4> QED
        BY <4>1, <4>2
    <3>2. CASE d # c
      <4> DEFINE r == call[d]
      <4>1. call'[d] = r /\ r \in CallState /\ r.name \in Names /\ Knows(r)
        BY <1>1, <1>3, <3>2 DEF EnvelopeInv, CallState
      <4> HIDE DEF r
      <4>2. log[r.name] \in Seq(Entry)
        BY <1>1, <4>1
      <4>3. CASE r.name = n
        BY <1>1, <2>1, <2>2, <4>1, <4>2, <4>3, StaysInformed DEF Knows
      <4>4. CASE r.name # n
        BY <1>1, <2>2, <4>1, <4>4 DEF Knows
      <4> QED
        BY <4>3, <4>4
    <3> QED
      BY <3>1, <3>2
  <2>5. (\A d \in Calls : Knows(call[d]))'
    BY <1>3, <2>2, <2>4 DEF Knows
  <2>6. (\A m \in Names : HistoryGood(log[m], keys))'
    BY <1>3, <2>3
  <2> QED
    BY <2>5, <2>6 DEF EnvelopeInv
<1>6. CASE Data!Fork(n)
  <2>1. log' = [log EXCEPT ![n] = <<>>] /\ forked' = [forked EXCEPT ![n] = TRUE]
    BY <1>6 DEF Data!Fork
  <2>2. \A m \in Names : HistoryGood(log'[m], keys)
    BY <1>1, <2>1, NoHistory DEF EnvelopeInv
  <2>3. \A m \in Names : IF m = n THEN forked'[m]
                         ELSE log'[m] = log[m] /\ forked'[m] = forked[m]
    BY <1>1, <2>1
  <2>4. ASSUME NEW d \in Calls
        PROVE  /\ GotIn(call'[d], keys)
               /\ ~forked'[call'[d].name] => Informed(call'[d], log'[call'[d].name])
    <3> DEFINE r == call'[d]
    <3>1. Knows(r) /\ r.name \in Names
      <4>1. IdleCall \in CallState
        BY IdleCallType
      <4> QED
        BY <1>1, <1>3, <4>1, IdleKnows DEF EnvelopeInv, CallState
    <3> HIDE DEF r
    <3>2. GotIn(r, keys) /\ (~forked'[r.name] => Informed(r, log'[r.name]))
      <4>1. CASE r.name = n
        BY <2>3, <3>1, <4>1 DEF Knows
      <4>2. CASE r.name # n
        BY <2>3, <3>1, <4>2 DEF Knows
      <4> QED
        BY <4>1, <4>2
    <3> QED
      BY <3>2 DEF r
  <2>5. (\A d \in Calls : Knows(call[d]))'
    BY <1>3, <2>4 DEF Knows
  <2>6. (\A m \in Names : HistoryGood(log[m], keys))'
    BY <1>3, <2>2
  <2> QED
    BY <2>5, <2>6 DEF EnvelopeInv
<1> QED
  BY <1>2, <1>4, <1>5, <1>6 DEF Data!Write, Data!vars

(* New pairs and claims change nothing that an envelope or a call is about. *)
LEMMA IdentityStepKnows ==
    ASSUME EnvelopeInv, RecordInv', IdentityNext \/ UNCHANGED identityVars,
           UNCHANGED recordVars
    PROVE  EnvelopeInv'
<1>1. \A k : k \in 1..Len(keys) => k \in 1..Len(keys') /\ keys'[k] = keys[k]
  BY IssuedStays DEF EnvelopeInv, RecordInv, Issued
<1>2. UNCHANGED <<log, forked, call>>
  BY DEF recordVars
<1>3. \A n \in Names : HistoryGood(log[n], keys')
  BY <1>1, MorePairs DEF EnvelopeInv
<1>4. \A c \in Calls : GotIn(call[c], keys')
  BY <1>1 DEF EnvelopeInv, Knows, GotIn
<1>5. (\A n \in Names : HistoryGood(log[n], keys))'
  BY <1>2, <1>3
<1>6. (\A c \in Calls : Knows(call[c]))'
  BY <1>2, <1>4 DEF EnvelopeInv, Knows
<1> QED
  BY <1>5, <1>6 DEF EnvelopeInv

(* One step. *)
LEMMA StepEnvelopeInv == EnvelopeInv /\ [Next]_vars => EnvelopeInv'
<1> SUFFICES ASSUME EnvelopeInv, [Next]_vars
             PROVE  EnvelopeInv'
  OBVIOUS
<1>1. RecordInv'
  BY StepRecordInv DEF EnvelopeInv
<1>2. ASSUME NEW c \in Calls, ResolveNext(c) \/ Commit(c)
      PROVE  EnvelopeInv'
  BY <1>1, <1>2, ResolveNextKnows, CommitKnows
<1>3. ASSUME NEW c \in Calls, Throw(c) PROVE EnvelopeInv'
  <2>1. call \in [Calls -> CallState]
    BY DEF EnvelopeInv, RecordInv, TypeOK
  <2>2. /\ call' = [call EXCEPT ![c] = IdleCall]
        /\ UNCHANGED <<identityVars, log, forked>>
    BY <1>3 DEF Throw
  <2> QED
    BY <1>1, <2>1, <2>2, IdleKnows, KnowStep
<1>4. CASE UNCHANGED vars
  BY <1>1, <1>4, IdentityStepKnows DEF vars
<1>5. ASSUME NEW c \in Calls, NEW m \in NextReads(c),
             Rewrap(c, m) \/ RevokeRead(c, m) \/ RevokeSet(c, m) \/ Load(c, m)
      PROVE  EnvelopeInv'
  BY <1>1, <1>5, RewrapKnows, RevokeReadKnows, RevokeSetKnows, LoadKnows
<1>6. ASSUME NEW c \in Calls, NEW s \in Sessions, NEW n \in Names,
             NEW m \in FirstReads(s, n),
             \/ BeginSet(c, s, n, m) \/ BeginDelete(c, s, n, m)
             \/ \E w \in Wallets : BeginRevoke(c, s, n, m, w)
      PROVE  EnvelopeInv'
  <2>1. m \in 0..Len(log[n])
    BY <1>6, FirstReadVersions DEF EnvelopeInv
  <2> QED
    BY <1>1, <1>6, <2>1, BeginSetKnows, BeginOtherKnows
<1>7. ASSUME NEW c \in Calls, NEW s \in Sessions, NEW n \in Names,
             NEW w \in Wallets, BeginGrant(c, s, n, w)
      PROVE  EnvelopeInv'
  BY <1>1, <1>7, BeginGrantKnows
<1> QED
  BY <1>1, <1>2, <1>3, <1>4, <1>5, <1>6, <1>7, IdentityStepKnows DEF Next

LEMMA EnvelopeInvHolds == Spec => []EnvelopeInv
  BY InitEnvelopeInv, StepEnvelopeInv, PTL DEF Spec

-----------------------------------------------------------------------------
(* An envelope of a record, as the properties say it. *)
LEMMA EnvelopeMeans ==
    ASSUME RecordInv, NEW n \in Names
    PROVE  /\ Len(log[n]) \in Nat /\ DOMAIN log[n] = 1..Len(log[n])
           /\ \A i : i \in Envelopes(n) <=> IsEnvelope(log[n], i)
           /\ \A j : ValueAt(n, j) = ValueIn(log[n], j)
<1>1. log[n] \in Seq(Entry)
  BY DEF RecordInv, TypeOK
<1>2. Len(log[n]) \in Nat /\ DOMAIN log[n] = 1..Len(log[n])
  BY <1>1, LenProperties
<1> QED
  BY <1>2 DEF Envelopes, IsEnvelope, ValueAt, ValueIn

(* However operations and new identities interleave, every wrap opens for  *)
(* the key that it names (crypto.ts, decryptValue). *)
THEOREM EnvelopesOpen == Spec => []EveryWrapOpens
<1>1. ASSUME EnvelopeInv, NEW n \in Names, NEW i \in Envelopes(n), NEW w \in Readers(log[n][i])
      PROVE  LET e == log[n][i]
                 k == e.wraps[w].key
             IN  Issued(k) /\ keys[k].wallet = w /\ Opens(e, k, e.dapp)
  <2> DEFINE e == log[n][i]
  <2>1. WrapsFit(e, keys)
    BY <1>1, EnvelopeMeans DEF EnvelopeInv, HistoryGood, IsEnvelope
  <2> HIDE DEF e
  <2>2. /\ e.wraps[w].key \in 1..Len(keys) /\ keys[e.wraps[w].key].wallet = w
        /\ e.wraps[w].context = ContextOf(e, e.dapp) /\ e.wraps[w].data = e.data
        /\ e.wraps[w].key # 0
    BY <1>1, <2>1 DEF WrapsFit, Readers, e
  <2> QED
    BY <2>2 DEF Issued, Opens, Unwraps, e
<1>2. EnvelopeInv => EveryWrapOpens
  BY <1>1 DEF EveryWrapOpens
<1> QED
  BY <1>2, EnvelopeInvHolds, PTL

(* An owner keeps its access unless somebody named it as a reader          *)
(* (crypto.ts:278). *)
THEOREM OwnersKeepAccess == Spec => []OwnerKeepsAccess
<1>1. EnvelopeInv => OwnerKeepsAccess
  BY EnvelopeMeans DEF EnvelopeInv, HistoryGood, IsEnvelope, OwnerOpens, OwnerKeepsAccess
<1> QED
  BY <1>1, EnvelopeInvHolds, PTL

(* A revoked reader comes back only by name, as an owner, or by a call     *)
(* that had its reader list before (store.ts:215-232). *)
THEOREM RevocationsHold == Spec => []RevocationHolds
<1>1. ASSUME EnvelopeInv, NEW n \in Names, NEW i \in Envelopes(n), NEW m \in Envelopes(n), i < m
      PROVE  StayRevoked(log[n], i, m)
  BY <1>1, EnvelopeMeans DEF EnvelopeInv, HistoryGood, IsEnvelope
<1>2. EnvelopeInv => RevocationHolds
  BY <1>1 DEF RevocationHolds, StayRevoked
<1> QED
  BY <1>2, EnvelopeInvHolds, PTL

(* grant() and revokeFuture() write a value that the record had during the *)
(* call (store.ts:202, 230). *)
THEOREM RewritesInventNothing == Spec => []RewritesKeepValue
<1>1. EnvelopeInv => RewritesKeepValue
  BY EnvelopeMeans DEF EnvelopeInv, HistoryGood, ValueKept, RewritesKeepValue
<1> QED
  BY <1>1, EnvelopeInvHolds, PTL
=============================================================================
