----------------------------- MODULE AdapterProofs -----------------------------
(***************************************************************************)
(* Proofs about the adapters, for any page length, any attestations and    *)
(* any number of stores and resets: EASScan's pages miss nothing that was  *)
(* there when the query began, and a mock store finds no record whose      *)
(* value it lacks.                                                         *)
(***************************************************************************)
EXTENDS Paging, MockProvider, SequenceTheorems, TLAPS

-----------------------------------------------------------------------------
(* Paging *)

(* What an insertion does to a sequence. *)
LEMMA InsertFacts ==
    ASSUME NEW S, NEW s \in Seq(S), NEW n \in 0..Len(s), NEW x \in S
    PROVE  /\ Insert(s, n, x) \in Seq(S)
           /\ Len(Insert(s, n, x)) = Len(s) + 1
           /\ \A i \in 1..(Len(s) + 1) : Insert(s, n, x)[i] =
                 IF i <= n THEN s[i] ELSE IF i = n + 1 THEN x ELSE s[i - 1]
<1> DEFINE t == Insert(s, n, x)
<1>1. Len(s) \in Nat /\ \A i \in 1..Len(s) : s[i] \in S
  BY ElementOfSeq, LenProperties
<1>2. t \in [1..(Len(s) + 1) -> S]
  BY <1>1 DEF Insert
<1>3. t \in Seq(S)
  BY <1>1, <1>2, SeqDef
<1>4. Len(t) = Len(s) + 1
  BY <1>1, <1>2, <1>3, LenProperties
<1> QED
  BY <1>1, <1>3, <1>4 DEF Insert

(* The pages so far, positions up to skip, have been kept. *)
PagesKept ==
    running => \A i \in 1..Len(index) :
        i <= skip /\ index[i] \in known \cap Matching => index[i] \in records

(* The inductive invariant.  An arrival moves what the index had away from *)
(* the newest end, so no known attestation gets from the pages to come     *)
(* into those that were taken.                                             *)
PagingInv ==
    /\ PagingTypeOK
    /\ known \subseteq Contents
    /\ PagesKept
    /\ PagingComplete
    /\ records \subseteq Contents

(* An empty index and no query. *)
LEMMA InitPagingInv == PagingInit => PagingInv
<1>1. ASSUME PagingInit PROVE PagingTypeOK
  <2>1. <<>> \in Seq(Attestations)
    OBVIOUS
  <2> QED
    BY <1>1, <2>1 DEF PagingInit, PagingTypeOK
<1>2. ASSUME PagingInit PROVE known \subseteq Contents /\ PagesKept /\ records \subseteq Contents
  BY <1>2 DEF PagingInit, PagesKept
<1> QED
  BY <1>1, <1>2 DEF PagingInit, PagingInv, PagingComplete

(* An attestation arrives: the others keep their order. *)
LEMMA ArriveKeepsInv ==
    ASSUME PagingInv, NEW a \in Attestations, NEW n \in 0..Len(index), Arrive(a, n)
    PROVE  PagingInv'
<1> USE DEF PagingInv, PagingTypeOK
<1>1. /\ index' \in Seq(Attestations)
      /\ Len(index') = Len(index) + 1
      /\ \A i \in 1..(Len(index) + 1) : index'[i] =
            IF i <= n THEN index[i] ELSE IF i = n + 1 THEN a ELSE index[i - 1]
  BY InsertFacts DEF Arrive
<1>2. UNCHANGED <<skip, records, running, known>> /\ a \notin Contents /\ Len(index) \in Nat
  BY LenProperties DEF Arrive, queryVars
<1>3. Contents \subseteq Contents'
  <2> SUFFICES ASSUME NEW i \in 1..Len(index)
               PROVE  \E j \in 1..Len(index') : index'[j] = index[i]
    BY DEF Contents
  <2>1. CASE i <= n
    BY <1>1, <1>2, <2>1
  <2>2. CASE i > n
    <3>1. i + 1 \in 1..Len(index') /\ index'[i + 1] = index[i]
      BY <1>1, <1>2, <2>2
    <3> QED
      BY <3>1
  <2> QED
    BY <2>1, <2>2
<1>4. PagesKept'
  <2> SUFFICES ASSUME running, NEW i \in 1..(Len(index) + 1), i <= skip,
                      index'[i] \in known \cap Matching
               PROVE  index'[i] \in records
    BY <1>1, <1>2 DEF PagesKept
  <2>1. CASE i <= n
    BY <1>1, <1>2, <2>1 DEF PagesKept
  <2>2. CASE i = n + 1
    BY <1>1, <1>2, <2>2
  <2>3. CASE i > n + 1
    <3>1. i - 1 \in 1..Len(index) /\ i - 1 <= skip /\ index'[i] = index[i - 1]
      BY <1>1, <1>2, <2>3
    <3> QED
      BY <3>1 DEF PagesKept
  <2> QED
    BY <2>1, <2>2, <2>3
<1>5. PagingComplete'
  BY <1>2, <1>3 DEF PagingComplete
<1> QED
  BY <1>1, <1>2, <1>3, <1>4, <1>5

(* A page is taken: the last one if it is short. *)
LEMMA FetchKeepsInv ==
    ASSUME PagingInv, FetchPage
    PROVE  PagingInv'
<1> USE DEF PagingInv
<1>1. /\ Len(index) \in Nat /\ skip \in Nat /\ Take \in Nat \ {0}
      /\ \A i \in 1..Len(index) : index[i] \in Attestations
  BY Pages, LenProperties, ElementOfSeq DEF PagingTypeOK
<1>2. /\ UNCHANGED index
      /\ records' = records \cup Kept
      /\ running' = ~ShortPage
      /\ skip' = IF ShortPage THEN skip ELSE skip + Take
      /\ known' = IF skip = 0 THEN Contents ELSE known
      /\ running
  BY DEF FetchPage, NextOffset
<1>3. Page \subseteq Contents
  BY <1>1 DEF Page, Contents
<1>4. known' \subseteq Contents' /\ records' \subseteq Contents' /\ Contents' = Contents
  BY <1>2, <1>3 DEF Contents, Kept
<1>5. PagingTypeOK'
  BY <1>1, <1>2, <1>4 DEF PagingTypeOK, Kept, Contents, ShortPage
<1>6. ASSUME NEW i \in 1..Len(index), index[i] \in known' \cap Matching,
             i <= skip + Take
      PROVE  index[i] \in records'
  <2>1. CASE i <= skip
    BY <1>1, <1>2, <1>6, <2>1 DEF PagesKept
  <2>2. CASE i > skip
    BY <1>1, <1>2, <1>6, <2>2 DEF Page, Kept
  <2> QED
    BY <1>1, <2>1, <2>2
<1>7. PagesKept'
  BY <1>1, <1>2, <1>6 DEF PagesKept
<1>8. PagingComplete'
  <2> SUFFICES ASSUME ~running', NEW x \in known' \cap Matching
               PROVE  x \in records'
    BY <1>4 DEF PagingComplete
  <2>1. PICK i \in 1..Len(index) : index[i] = x
    BY <1>4 DEF Contents
  <2>2. i <= skip + Take
    <3>1. skip + Take > Len(index)
      BY <1>2 DEF ShortPage
    <3> QED
      BY <1>1, <3>1
  <2> QED
    BY <1>6, <2>1, <2>2
<1> QED
  BY <1>4, <1>5, <1>7, <1>8

(* Every step keeps the invariant. *)
LEMMA NextPagingInv == PagingInv /\ [PagingNext]_pagingVars => PagingInv'
<1> SUFFICES ASSUME PagingInv, [PagingNext]_pagingVars
             PROVE  PagingInv'
  OBVIOUS
<1>1. CASE UNCHANGED pagingVars
  BY <1>1 DEF pagingVars, queryVars, PagingInv, PagingTypeOK, PagesKept, PagingComplete, Contents
<1>2. ASSUME NEW a \in Attestations, NEW n \in 0..Len(index), Arrive(a, n)
      PROVE  PagingInv'
  BY <1>2, ArriveKeepsInv
<1>3. CASE BeginQuery \/ RequestFails
  <2>1. /\ UNCHANGED index
        /\ skip' = 0 /\ records' = {} /\ known' = {} /\ running' \in BOOLEAN
    BY <1>3 DEF BeginQuery, RequestFails
  <2> QED
    BY <2>1 DEF PagingInv, PagingTypeOK, PagesKept, PagingComplete, Contents
<1>4. CASE FetchPage
  BY <1>4, FetchKeepsInv
<1> QED
  BY <1>1, <1>2, <1>3, <1>4 DEF PagingNext

(* A query returns every match that the index had when its first page was  *)
(* taken, whatever arrives while the pages are fetched.                    *)
THEOREM PagesMissNothing == PagingSpec => []PagingComplete
<1>1. PagingInv => PagingComplete
  BY DEF PagingInv
<1> QED
  BY <1>1, InitPagingInv, NextPagingInv, PTL DEF PagingSpec

(* The index, the offset and the records of a query are well typed.        *)
THEOREM PagingTypes == PagingSpec => []PagingTypeOK
<1>1. PagingInv => PagingTypeOK
  BY DEF PagingInv
<1> QED
  BY <1>1, InitPagingInv, NextPagingInv, PTL DEF PagingSpec

-----------------------------------------------------------------------------
(* MockProvider *)

MockTypeOK ==
    /\ generation \in Generations
    /\ made \in [Stores -> {"no", "begun", "yes"}]
    /\ storage \in [Stores -> Generations]
    /\ indexer \in [Stores -> Generations]
    /\ values \in [Generations -> SUBSET Records]
    /\ indexed \in [Generations -> SUBSET Records]
    /\ writing \in [Stores -> Records \cup {NoRecord}]

(* A store's storage and index are of one generation, so a record that is  *)
(* indexed has had its value put beside it.                                *)
MockInv ==
    /\ MockTypeOK
    /\ \A s \in Stores : made[s] = "yes" => storage[s] = indexer[s]
    /\ \A s \in Stores : writing[s] # NoRecord =>
          made[s] = "yes" /\ writing[s] \in values[storage[s]]
    /\ \A g \in Generations : indexed[g] \subseteq values[g]

(* No store, no record. *)
LEMMA InitMockInv == MockInit => MockInv
BY ResetBound DEF MockInit, MockInv, MockTypeOK, Generations

(* Every step keeps the invariant. *)
LEMMA NextMockInv == MockInv /\ [MockNext]_mockVars => MockInv'
<1> SUFFICES ASSUME MockInv, [MockNext]_mockVars
             PROVE  MockInv'
  OBVIOUS
<1> USE DEF MockInv, MockTypeOK
<1>1. CASE UNCHANGED mockVars
  BY <1>1 DEF mockVars
<1>2. CASE ResetProvider
  BY <1>2, ResetBound DEF ResetProvider, Generations
<1>3. ASSUME NEW s \in Stores, BeginStore(s)
      PROVE  MockInv'
  BY <1>3 DEF BeginStore
<1>4. ASSUME NEW s \in Stores, MakeStore(s)
      PROVE  MockInv'
  BY <1>4 DEF MakeStore, StorageAtEnd
<1>5. ASSUME NEW s \in Stores, NEW r \in Records, PutValue(s, r)
      PROVE  MockInv'
  BY <1>5 DEF PutValue
<1>6. ASSUME NEW s \in Stores, IndexRecord(s)
      PROVE  MockInv'
  BY <1>6 DEF IndexRecord
<1> QED
  BY <1>1, <1>2, <1>3, <1>4, <1>5, <1>6 DEF MockNext

(* A store can fetch the value of every record that it finds, however many *)
(* stores there are and whenever the provider is reset.                    *)
THEOREM MockStoresAreWhole == MockSpec => []IndexedValuesAreStored
<1>1. MockInv => IndexedValuesAreStored
  BY DEF MockInv, MockTypeOK, IndexedValuesAreStored
<1> QED
  BY <1>1, InitMockInv, NextMockInv, PTL DEF MockSpec
=============================================================================
