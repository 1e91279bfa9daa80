----------------------------- MODULE WalkProofs -----------------------------
(***************************************************************************)
(* The walk of resolveCanonicalChain, for any number of records with any   *)
(* predecessors: cycles, forks and missing ones included.                  *)
(***************************************************************************)
EXTENDS ChainWalk, ChainProofs, FiniteSetTheorems, SequenceTheorems

Orders == {p \in [1..Cardinality(records) -> records] : IsHistory(p, records)}

(* As AgreesWithChain assumes: no record precedes one that it follows.     *)
Older == \A u \in records : prev[u] \notin u..N

(* The chain so far runs from the root, without repetition.                *)
Trail ==
    /\ \A i \in 1..Len(chain) : prev[chain[i]] = IF i = 1 THEN ZERO_UID ELSE chain[i - 1]
    /\ \A i, j \in 1..Len(chain) : chain[i] = chain[j] => i = j
    /\ visited = {chain[i] : i \in 1..Len(chain)}

(* The walk has come to the successor of the chain's last record, or to    *)
(* the end.                                                                *)
Front ==
    IF current # ZERO_UID
    THEN prev[current] = IF Len(chain) = 0 THEN ZERO_UID ELSE chain[Len(chain)]
    ELSE Len(chain) > 0 /\ children[chain[Len(chain)]] = {}

(* Whoever orders the records has to begin as the walk did.                *)
Forced ==
    \A p \in Orders :
        /\ \A i \in 1..Len(chain) : i <= Len(p) /\ p[i] = chain[i]
        /\ IF current # ZERO_UID
           THEN Len(chain) < Len(p) /\ p[Len(chain) + 1] = current
           ELSE Len(chain) = Len(p)

(* The inductive invariant of the walk.                                    *)
WalkInv ==
    /\ TypeOK
    /\ \A u \in records \ todo : prev[u] = ZERO_UID \/ prev[u] \in records
    /\ \A u \in records : children[u] = {w \in records \ todo : prev[w] = u}
    /\ status = "empty" <=> records = {}
    /\ status = "group" => visited = {} /\ chain = <<>> /\ current = ZERO_UID
    /\ status \in {"walk", "canonical"} =>
          /\ todo = {}
          /\ \E r \in records : Roots(records, prev) = {r}
          /\ Trail /\ Front /\ Forced
    /\ status = "canonical" =>
          current = ZERO_UID /\ Cardinality(visited) = Cardinality(records)
    /\ status = "ambiguous" =>
          Orders = {} /\ (Older => Status(records, prev) # "canonical")

-----------------------------------------------------------------------------
(* What an order of the records looks like *)

(* The input is a finite set of records, and none of them is ZERO_UID.     *)
LEMMA FiniteInput ==
    ASSUME TypeOK
    PROVE  /\ IsFiniteSet(records) /\ Cardinality(records) \in Nat
           /\ ZERO_UID \notin records
           /\ \A S \in SUBSET records : IsFiniteSet(S) /\ Cardinality(S) \in Nat
<1>1. IsFiniteSet(1..N)
  BY SomeRecords, FS_Interval
<1>2. \A S \in SUBSET (1..N) : IsFiniteSet(S) /\ Cardinality(S) \in Nat
  BY <1>1, FS_Subset, FS_CardinalityType
<1>3. records \in SUBSET (1..N)
  BY DEF TypeOK
<1> QED
  BY <1>2, <1>3 DEF ZERO_UID

(* An order lists each record once.                                        *)
LEMMA OrderLists ==
    ASSUME TypeOK, NEW p \in Orders
    PROVE  /\ p \in Seq(records) /\ Len(p) = Cardinality(records) /\ Len(p) \in Nat
           /\ \A u \in records : \E i \in 1..Len(p) : p[i] = u
           /\ \A i \in 1..Len(p) : p[i] \in records
           /\ \A i, j \in 1..Len(p) : p[i] = p[j] => i = j
           /\ \A i \in 1..Len(p) : prev[p[i]] = IF i = 1 THEN ZERO_UID ELSE p[i - 1]
<1> DEFINE n == Cardinality(records)
<1>1. n \in Nat /\ IsFiniteSet(records)
  BY FiniteInput
<1>2. p \in [1..n -> records] /\ IsHistory(p, records)
  BY DEF Orders
<1>3. p \in Seq(records)
  BY <1>1, <1>2, SeqDef
<1>4. Len(p) = n
  BY <1>2 DEF IsHistory
<1>5. {p[i] : i \in 1..Len(p)} = records
      /\ \A i \in 1..Len(p) : prev[p[i]] = IF i = 1 THEN ZERO_UID ELSE p[i - 1]
  BY <1>2 DEF IsHistory
<1>6. p \in Surjection(1..n, records)
  BY <1>2, <1>4, <1>5 DEF Surjection
<1>7. IsFiniteSet(1..n) /\ Cardinality(1..n) = n
  BY <1>1, FS_Interval
<1>8. p \in Injection(1..n, records)
  BY <1>1, <1>6, <1>7, FS_SurjSameCardinalityImpliesInj
<1>9. \A i, j \in 1..n : p[i] = p[j] => i = j
  BY <1>2, <1>8 DEF Injection, IsInjective
<1> QED
  BY <1>1, <1>2, <1>3, <1>4, <1>5, <1>9

(* Records that can be ordered are linked from one root without forks.     *)
LEMMA OrderedIsCanonical ==
    ASSUME TypeOK, NEW p \in Orders, records # {}
    PROVE  /\ Linked(records, prev) /\ ForkFree(records, prev)
           /\ Roots(records, prev) = {p[1]} /\ p[1] \in records
           /\ Status(records, prev) = "canonical"
<1>1. /\ Len(p) \in Nat
      /\ \A u \in records : \E i \in 1..Len(p) : p[i] = u
      /\ \A i \in 1..Len(p) : p[i] \in records
      /\ \A i, j \in 1..Len(p) : p[i] = p[j] => i = j
      /\ \A i \in 1..Len(p) : prev[p[i]] = IF i = 1 THEN ZERO_UID ELSE p[i - 1]
  BY OrderLists
<1>2. ZERO_UID \notin records
  BY FiniteInput
<1>3. 1 \in 1..Len(p)
  BY <1>1
<1>4. Linked(records, prev)
  <2>1. ASSUME NEW u \in records PROVE prev[u] = ZERO_UID \/ prev[u] \in records
    <3>1. PICK i \in 1..Len(p) : p[i] = u
      BY <1>1
    <3>2. CASE i = 1
      BY <1>1, <3>1, <3>2
    <3>3. CASE i # 1
      <4>1. i - 1 \in 1..Len(p)
        BY <1>1, <3>3
      <4> QED
        BY <1>1, <3>1, <3>3, <4>1
    <3> QED
      BY <3>2, <3>3
  <2> QED
    BY <2>1 DEF Linked
<1>5. ASSUME NEW i \in 1..Len(p), NEW j \in 1..Len(p), prev[p[i]] = prev[p[j]]
      PROVE  i = j
  <2>1. i # 1 => i - 1 \in 1..Len(p) /\ p[i - 1] \in records /\ prev[p[i]] = p[i - 1]
    BY <1>1
  <2>2. j # 1 => j - 1 \in 1..Len(p) /\ p[j - 1] \in records /\ prev[p[j]] = p[j - 1]
    BY <1>1
  <2>3. i = 1 => prev[p[i]] = ZERO_UID
    BY <1>1
  <2>4. j = 1 => prev[p[j]] = ZERO_UID
    BY <1>1
  <2>5. i = 1 <=> j = 1
    BY <1>2, <1>5, <2>1, <2>2, <2>3, <2>4
  <2>6. ASSUME i # 1, j # 1 PROVE i = j
    <3>1. i - 1 = j - 1
      BY <1>1, <1>5, <2>1, <2>2, <2>6
    <3> QED
      BY <3>1
  <2> QED
    BY <2>5, <2>6
<1>6. ForkFree(records, prev)
  <2>1. SUFFICES ASSUME NEW u \in records, NEW w \in records, prev[u] = prev[w]
                 PROVE  u = w
    BY DEF ForkFree, Siblings
  <2>2. PICK i \in 1..Len(p), j \in 1..Len(p) : p[i] = u /\ p[j] = w
    BY <1>1
  <2> QED
    BY <1>5, <2>1, <2>2
<1>7. Roots(records, prev) = {p[1]} /\ p[1] \in records
  <2>1. p[1] \in records /\ prev[p[1]] = ZERO_UID
    BY <1>1, <1>3
  <2>2. \A u \in records : prev[u] = ZERO_UID => u = p[1]
    BY <1>6, <2>1 DEF ForkFree, Siblings
  <2> QED
    BY <2>1, <2>2 DEF Roots
<1> QED
  BY <1>4, <1>6, <1>7 DEF Status

(* The root that a canonical set has is its only one.                      *)
LEMMA OneRoot ==
    ASSUME TypeOK, Status(records, prev) = "canonical"
    PROVE  \E r \in records : Roots(records, prev) = {r}
<1>1. Roots(records, prev) # {} /\ ForkFree(records, prev)
  BY DEF Status
<1>2. PICK r \in records : prev[r] = ZERO_UID
  BY <1>1 DEF Roots
<1>3. \A u \in records : prev[u] = ZERO_UID => u = r
  BY <1>1, <1>2 DEF ForkFree, Siblings
<1> QED
  BY <1>2, <1>3 DEF Roots

(* A set of records has one member at most, or two that differ.            *)
LEMMA AtMostOne ==
    ASSUME TypeOK, NEW S \in SUBSET records
    PROVE  Cardinality(S) > 1 <=> \E a, b \in S : a # b
<1>1. IsFiniteSet(S) /\ Cardinality(S) \in Nat
  BY FiniteInput
<1>2. CASE S = {}
  BY <1>2, FS_EmptySet
<1>3. CASE \E a : S = {a}
  BY <1>3, FS_Singleton
<1>4. CASE S # {} /\ ~ \E a : S = {a}
  <2>1. Cardinality(S) # 0 /\ Cardinality(S) # 1
    BY <1>1, <1>4, FS_EmptySet, FS_Singleton
  <2>2. PICK a \in S : TRUE
    BY <1>4
  <2>3. \E b \in S : a # b
    BY <1>4, <2>2
  <2> QED
    BY <1>1, <2>1, <2>2, <2>3
<1> QED
  BY <1>2, <1>3, <1>4

-----------------------------------------------------------------------------
(* One lemma per action *)

(* The walk starts in the invariant.                                       *)
LEMMA InitWalk == Init => WalkInv
<1> SUFFICES ASSUME Init PROVE WalkInv
  OBVIOUS
<1>1. TypeOK
  BY DEF Init, TypeOK, ZERO_UID
<1>2. \A u \in records : children[u] = {w \in records \ todo : prev[w] = u}
  BY DEF Init
<1> QED
  BY <1>1, <1>2 DEF Init, WalkInv

(* The early returns: the input is not canonical.                          *)
LEMMA RefuseKeeps ==
    ASSUME WalkInv, records # {}, Ambiguous, UNCHANGED input, Orders = {},
           Older => Status(records, prev) # "canonical"
    PROVE  WalkInv'
<1>1. TypeOK'
  BY DEF WalkInv, TypeOK, Ambiguous, input
<1>2. Orders' = Orders /\ Older' = Older /\ Status(records, prev)' = Status(records, prev)
  BY DEF input, Orders, IsHistory, Older, Status, Linked, Roots, ForkFree, Siblings
<1> QED
  BY <1>1, <1>2 DEF WalkInv, Ambiguous, input

(* Refusing is right when the records are not one linked history.          *)
LEMMA NotCanonicalKeeps ==
    ASSUME WalkInv, records # {}, Ambiguous, UNCHANGED input,
           Status(records, prev) # "canonical"
    PROVE  WalkInv'
<1>1. Orders = {}
  BY OrderedIsCanonical DEF WalkInv
<1> QED
  BY <1>1, RefuseKeeps

(* Grouping the records by predecessor, one at a time.                     *)
LEMMA GroupKeeps ==
    ASSUME WalkInv, NEW u \in todo, Group(u)
    PROVE  WalkInv'
<1>1. TypeOK /\ u \in records /\ records # {} /\ status = "group"
  BY DEF WalkInv, TypeOK, Group
<1>2. CASE prev[u] # ZERO_UID /\ prev[u] \notin records
  <2>1. Status(records, prev) # "canonical"
    BY <1>1, <1>2 DEF Status, Linked
  <2>2. Ambiguous /\ UNCHANGED input
    BY <1>2 DEF Group
  <2> QED
    BY <1>1, <2>1, <2>2, NotCanonicalKeeps
<1>3. CASE ~(prev[u] # ZERO_UID /\ prev[u] \notin records)
  <2>1. /\ todo' = todo \ {u}
        /\ children' = IF prev[u] = ZERO_UID THEN children
                       ELSE [children EXCEPT ![prev[u]] = @ \cup {u}]
        /\ current' = current /\ visited' = visited /\ chain' = chain /\ status' = status
        /\ records' = records /\ prev' = prev
    BY <1>3 DEF Group, input
  <2>2. /\ children \in [records -> SUBSET records] /\ todo \subseteq records
        /\ \A p \in records : children[p] = {w \in records \ todo : prev[w] = p}
        /\ ZERO_UID \notin records
    BY <1>1, FiniteInput DEF WalkInv, TypeOK
  <2>3. children' \in [records -> SUBSET records]
    BY <1>1, <1>3, <2>1, <2>2
  <2>4. \A p \in records : children'[p] = children[p] \cup (IF prev[u] = p THEN {u} ELSE {})
    BY <1>3, <2>1, <2>2
  <2>5. \A p \in records : children'[p] = {w \in records \ todo' : prev[w] = p}
    BY <1>1, <2>1, <2>2, <2>4
  <2>6. TypeOK'
    BY <1>1, <2>1, <2>3 DEF TypeOK
  <2>7. \A w \in records \ todo' : prev[w] = ZERO_UID \/ prev[w] \in records
    BY <1>3, <2>1 DEF WalkInv
  <2> QED
    BY <1>1, <2>1, <2>5, <2>6, <2>7 DEF WalkInv
<1> QED
  BY <1>2, <1>3

(* The search for the only root.                                           *)
LEMMA FindRootKeeps ==
    ASSUME WalkInv, FindRoot
    PROVE  WalkInv'
<1>1. TypeOK /\ records # {} /\ status = "group" /\ todo = {}
      /\ visited = {} /\ chain = <<>> /\ Len(chain) = 0
  BY DEF WalkInv, FindRoot
<1>2. Roots(records, prev) \in SUBSET records
  BY DEF Roots
<1>3. CASE Cardinality(Roots(records, prev)) # 1
  <2>1. Status(records, prev) # "canonical"
    BY <1>1, <1>3, OneRoot, FS_Singleton
  <2>2. Ambiguous /\ UNCHANGED input
    BY <1>3 DEF FindRoot
  <2> QED
    BY <1>1, <2>1, <2>2, NotCanonicalKeeps
<1>4. CASE Cardinality(Roots(records, prev)) = 1
  <2>1. /\ current' \in Roots(records, prev) /\ status' = "walk"
        /\ todo' = todo /\ children' = children /\ visited' = visited /\ chain' = chain
        /\ records' = records /\ prev' = prev
    BY <1>4 DEF FindRoot, input
  <2>2. IsFiniteSet(Roots(records, prev)) /\ ZERO_UID \notin records
    BY <1>1, <1>2, FiniteInput
  <2>3. PICK r : Roots(records, prev) = {r}
    BY <1>4, <2>2, FS_Singleton
  <2>4. r \in records /\ prev[r] = ZERO_UID /\ current' = r /\ r # ZERO_UID
    BY <1>2, <2>1, <2>2, <2>3 DEF Roots
  <2>5. TypeOK'
    BY <1>1, <2>1, <2>4 DEF TypeOK
  <2>6. Trail' /\ Front'
    BY <1>1, <2>1, <2>4 DEF Trail, Front
  <2>7. Orders' = Orders
    BY <2>1 DEF Orders, IsHistory
  <2>8. Forced'
    <3>1. SUFFICES ASSUME NEW p \in Orders PROVE 0 < Len(p) /\ p[1] = r
      BY <1>1, <2>1, <2>4, <2>7 DEF Forced
    <3>2. Roots(records, prev) = {p[1]}
      BY <1>1, OrderedIsCanonical
    <3>3. Len(p) \in Nat /\ \A u \in records : \E i \in 1..Len(p) : p[i] = u
      BY <1>1, OrderLists
    <3>4. PICK i \in 1..Len(p) : p[i] = r
      BY <2>4, <3>3
    <3>5. 0 < Len(p)
      BY <3>3, <3>4
    <3>6. p[1] = r
      BY <2>3, <3>2
    <3> QED
      BY <3>5, <3>6
  <2>9. Roots(records', prev') = {r}
    BY <2>1, <2>3
  <2> QED
    BY <1>1, <2>1, <2>4, <2>5, <2>6, <2>8, <2>9 DEF WalkInv
<1> QED
  BY <1>3, <1>4

(* What the walk knows while it is in progress.                            *)
LEMMA Walking ==
    ASSUME WalkInv, status = "walk"
    PROVE  /\ TypeOK /\ Trail /\ Front /\ Forced /\ todo = {} /\ records # {}
           /\ chain \in Seq(records) /\ Len(chain) \in Nat
           /\ \A i \in 1..Len(chain) : chain[i] \in records
           /\ \A u \in records : children[u] = {w \in records : prev[w] = u}
           /\ Linked(records, prev)
           /\ \E r \in records : Roots(records, prev) = {r}
           /\ ZERO_UID \notin records
<1>1. TypeOK /\ Trail /\ Front /\ Forced /\ todo = {}
      /\ \E r \in records : Roots(records, prev) = {r}
  BY DEF WalkInv
<1>2. ZERO_UID \notin records
  BY <1>1, FiniteInput
<1>3. chain \in Seq(records)
  BY <1>1 DEF TypeOK
<1>4. Linked(records, prev) /\ \A u \in records : children[u] = {w \in records : prev[w] = u}
  BY <1>1 DEF WalkInv, Linked
<1>5. Len(chain) \in Nat /\ \A i \in 1..Len(chain) : chain[i] \in records
  BY <1>3
<1> QED
  BY <1>1, <1>2, <1>3, <1>4, <1>5

(* One record further along the chain, a fork, or a cycle.                 *)
LEMMA StepKeeps ==
    ASSUME WalkInv, Step
    PROVE  WalkInv'
<1> DEFINE n == Len(chain)
<1>1. status = "walk" /\ current # ZERO_UID
  BY DEF Step
<1>2. /\ TypeOK /\ Trail /\ Front /\ Forced /\ todo = {} /\ records # {}
      /\ chain \in Seq(records)
      /\ \A u \in records : children[u] = {w \in records : prev[w] = u}
      /\ \E r \in records : Roots(records, prev) = {r}
      /\ ZERO_UID \notin records
  BY <1>1, Walking
<1>3. n \in Nat /\ \A i \in 1..n : chain[i] \in records
  BY <1>1, Walking
<1>4. current \in records /\ children[current] = {w \in records : prev[w] = current}
  BY <1>1, <1>2 DEF TypeOK
<1>5. current \notin visited
  <2>1. SUFFICES ASSUME NEW i \in 1..n, chain[i] = current PROVE FALSE
    BY <1>2 DEF Trail
  <2>2. prev[current] = IF i = 1 THEN ZERO_UID ELSE chain[i - 1]
    BY <1>2, <2>1 DEF Trail
  <2>3. prev[current] = IF n = 0 THEN ZERO_UID ELSE chain[n]
    BY <1>1, <1>2 DEF Front
  <2>4. n \in 1..n /\ chain[n] \in records
    BY <1>3
  <2>5. i # 1 /\ prev[current] = chain[i - 1] /\ prev[current] = chain[n]
    BY <1>2, <2>2, <2>3, <2>4
  <2>6. i - 1 \in 1..n
    BY <1>3, <2>5
  <2>7. i - 1 = n
    BY <1>2, <2>4, <2>5, <2>6 DEF Trail
  <2> QED
    BY <1>3, <2>7
<1>6. CASE Cardinality(children[current]) > 1
  <2>1. \E a, b \in records : a # b /\ prev[a] = current /\ prev[b] = current
    BY <1>2, <1>4, <1>6, AtMostOne
  <2>2. Status(records, prev) # "canonical"
    BY <1>2, <2>1 DEF Status, ForkFree, Siblings
  <2>3. Ambiguous /\ UNCHANGED input
    BY <1>6 DEF Step
  <2> QED
    BY <1>2, <2>2, <2>3, NotCanonicalKeeps
<1>7. CASE ~(Cardinality(children[current]) > 1)
  <2>1. /\ visited' = visited \cup {current}
        /\ chain' = Append(chain, current)
        /\ current' \in IF children[current] = {} THEN {ZERO_UID} ELSE children[current]
        /\ todo' = todo /\ children' = children /\ status' = status
        /\ records' = records /\ prev' = prev
    BY <1>5, <1>7 DEF Step, input
  <2>2. \A a, b \in children[current] : a = b
    BY <1>2, <1>4, <1>7, AtMostOne
  <2>3. /\ Len(chain') = n + 1 /\ chain' \in Seq(records)
        /\ chain'[n + 1] = current
        /\ \A i \in 1..n : chain'[i] = chain[i]
    BY <1>2, <1>4, <2>1
  <2>4. \/ current' = ZERO_UID /\ children[current] = {}
        \/ current' \in records /\ children[current] = {current'}
           /\ prev[current'] = current
    BY <1>4, <2>1, <2>2
  <2>5. TypeOK'
    <3>1. visited' \subseteq records
      BY <1>2, <1>4, <2>1 DEF TypeOK
    <3> QED
      BY <1>2, <2>1, <2>3, <2>4, <3>1 DEF TypeOK
  <2>6. Trail'
    <3>1. ASSUME NEW i \in 1..(n + 1)
          PROVE  prev[chain'[i]] = IF i = 1 THEN ZERO_UID ELSE chain'[i - 1]
      <4>1. CASE i = n + 1
        <5>1. prev[current] = IF n = 0 THEN ZERO_UID ELSE chain[n]
          BY <1>1, <1>2 DEF Front
        <5>2. n # 0 => chain'[n] = chain[n]
          BY <1>3, <2>3
        <5> QED
          BY <1>3, <2>3, <4>1, <5>1, <5>2
      <4>2. CASE i # n + 1
        <5>1. i \in 1..n /\ (i # 1 => i - 1 \in 1..n)
          BY <1>3, <4>2
        <5>2. prev[chain[i]] = IF i = 1 THEN ZERO_UID ELSE chain[i - 1]
          BY <1>2, <5>1 DEF Trail
        <5> QED
          BY <2>3, <5>1, <5>2
      <4> QED
        BY <4>1, <4>2
    <3>2. ASSUME NEW i \in 1..(n + 1), NEW j \in 1..(n + 1), chain'[i] = chain'[j]
          PROVE  i = j
      <4>1. \A m \in 1..n : chain'[m] = chain[m] /\ chain[m] \in visited
        BY <1>2, <2>3 DEF Trail
      <4>2. i \in 1..n \/ i = n + 1
        BY <1>3
      <4>3. j \in 1..n \/ j = n + 1
        BY <1>3
      <4>4. ASSUME i \in 1..n, j \in 1..n PROVE i = j
        BY <1>2, <3>2, <4>1, <4>4 DEF Trail
      <4> QED
        BY <1>5, <2>3, <3>2, <4>1, <4>2, <4>3, <4>4
    <3>3. visited' = {chain'[i] : i \in 1..(n + 1)}
      <4>1. visited = {chain[i] : i \in 1..n}
        BY <1>2 DEF Trail
      <4>2. \A i \in 1..(n + 1) : i \in 1..n \/ i = n + 1
        BY <1>3
      <4>3. n + 1 \in 1..(n + 1) /\ \A i \in 1..n : i \in 1..(n + 1)
        BY <1>3
      <4> QED
        BY <2>1, <2>3, <4>1, <4>2, <4>3
    <3>4. prev' = prev /\ Len(chain)' = n + 1
      BY <2>1, <2>3
    <3> QED
      BY <3>1, <3>2, <3>3, <3>4 DEF Trail
  <2>7. Front'
    <3>1. Len(chain)' = n + 1 /\ n + 1 > 0 /\ chain'[n + 1] = current
          /\ prev' = prev /\ children' = children
      BY <1>3, <2>1, <2>3
    <3> QED
      BY <1>2, <2>4, <3>1 DEF Front
  <2>8. Forced'
    <3>1. Orders' = Orders
      BY <2>1 DEF Orders, IsHistory
    <3>2. ASSUME NEW p \in Orders
          PROVE  /\ \A i \in 1..(n + 1) : i <= Len(p) /\ p[i] = chain'[i]
                 /\ IF current' # ZERO_UID
                    THEN n + 1 < Len(p) /\ p[n + 1 + 1] = current'
                    ELSE n + 1 = Len(p)
      <4>1. /\ \A i \in 1..n : i <= Len(p) /\ p[i] = chain[i]
            /\ n < Len(p) /\ p[n + 1] = current
        BY <1>1, <1>2 DEF Forced
      <4>2. /\ Len(p) \in Nat
            /\ \A u \in records : \E i \in 1..Len(p) : p[i] = u
            /\ \A i \in 1..Len(p) : p[i] \in records
            /\ \A i, j \in 1..Len(p) : p[i] = p[j] => i = j
            /\ \A i \in 1..Len(p) : prev[p[i]] = IF i = 1 THEN ZERO_UID ELSE p[i - 1]
        BY <1>2, OrderLists
      <4>3. n + 1 \in 1..Len(p)
        BY <1>3, <4>1, <4>2
      <4>4. \A i \in 1..(n + 1) : i <= Len(p) /\ p[i] = chain'[i]
        <5>1. \A i \in 1..(n + 1) : i \in 1..n \/ i = n + 1
          BY <1>3
        <5> QED
          BY <2>3, <4>1, <4>3, <5>1
      <4>5. ASSUME children[current] = {} PROVE n + 1 = Len(p)
        <5>1. SUFFICES ASSUME n + 1 # Len(p) PROVE FALSE
          OBVIOUS
        <5>2. n + 2 \in 1..Len(p) /\ n + 2 # 1 /\ (n + 2) - 1 = n + 1
          BY <1>3, <4>3, <5>1
        <5>3. p[n + 2] \in records /\ prev[p[n + 2]] = current
          BY <4>1, <4>2, <5>2
        <5> QED
          BY <1>4, <4>5, <5>3
      <4>6. ASSUME NEW d \in records, prev[d] = current
            PROVE  n + 1 < Len(p) /\ p[n + 1 + 1] = d
        <5>1. PICK j \in 1..Len(p) : p[j] = d
          BY <4>2
        <5>2. prev[d] = IF j = 1 THEN ZERO_UID ELSE p[j - 1]
          BY <4>2, <5>1
        <5>3. j # 1 /\ p[j - 1] = current
          BY <1>1, <4>6, <5>2
        <5>4. j - 1 \in 1..Len(p)
          BY <4>2, <5>3
        <5>5. j - 1 = n + 1
          BY <4>1, <4>2, <4>3, <5>3, <5>4
        <5>6. j = n + 1 + 1
          BY <1>3, <5>5
        <5> QED
          BY <1>3, <4>2, <5>1, <5>6
      <4> QED
        BY <1>2, <2>4, <4>4, <4>5, <4>6
    <3>3. Len(chain)' = n + 1
      BY <2>3
    <3> QED
      BY <3>1, <3>2, <3>3 DEF Forced
  <2>9. /\ status' = "walk" /\ todo' = {} /\ records' # {}
        /\ \A u \in records' : prev'[u] = ZERO_UID \/ prev'[u] \in records'
        /\ \A u \in records' : children'[u] = {w \in records' \ todo' : prev'[w] = u}
        /\ \E r \in records' : Roots(records', prev') = {r}
    <3>1. \A u \in records : prev[u] = ZERO_UID \/ prev[u] \in records
      BY <1>1, Walking DEF Linked
    <3> QED
      BY <1>1, <1>2, <2>1, <3>1
  <2> QED
    BY <2>5, <2>6, <2>7, <2>8, <2>9 DEF WalkInv
<1> QED
  BY <1>6, <1>7

(* The chain has no repetition, so it is as long as visited is large.      *)
LEMMA ChainCounts ==
    ASSUME TypeOK, Trail
    PROVE  Len(chain) = Cardinality(visited)
<1> DEFINE n == Len(chain)
<1>1. chain \in Seq(records) /\ n \in Nat
  BY DEF TypeOK
<1>2. chain \in [1..n -> records]
  BY <1>1, LenProperties
<1>3. visited = {chain[i] : i \in 1..n}
  BY DEF Trail
<1>4. chain \in [1..n -> visited] /\ \A u \in visited : \E i \in 1..n : chain[i] = u
  BY <1>2, <1>3
<1>5. \A i, j \in 1..n : chain[i] = chain[j] => i = j
  BY DEF Trail
<1>6. chain \in Bijection(1..n, visited)
  BY <1>4, <1>5 DEF Bijection, Injection, Surjection, IsInjective
<1>7. ExistsBijection(1..n, visited)
  BY <1>6 DEF ExistsBijection
<1> QED
  BY <1>1, <1>7, FS_CountingElements

(* When no predecessor is newer, a walk that ended short of some records   *)
(* has left the oldest of them because it forks from one that it passed.   *)
LEMMA NothingIsLeft ==
    ASSUME WalkInv, status = "walk", current = ZERO_UID, Older,
           Status(records, prev) = "canonical"
    PROVE  visited = records
<1> DEFINE n == Len(chain)
<1>1. /\ TypeOK /\ Trail /\ Front /\ n \in Nat
      /\ \A i \in 1..n : chain[i] \in records
      /\ \A u \in records : children[u] = {w \in records : prev[w] = u}
      /\ Linked(records, prev)
  BY Walking
<1>2. ForkFree(records, prev)
  BY DEF Status
<1>3. n > 0 /\ children[chain[n]] = {}
  BY <1>1 DEF Front
<1>4. visited = {chain[i] : i \in 1..n}
      /\ \A i \in 1..n : prev[chain[i]] = IF i = 1 THEN ZERO_UID ELSE chain[i - 1]
  BY <1>1 DEF Trail
<1>5. SUFFICES ASSUME records \ visited # {} PROVE FALSE
  BY <1>1 DEF TypeOK
<1>6. records \ visited \in SUBSET Nat
  BY <1>1, SomeRecords DEF TypeOK
<1>7. PICK w \in records \ visited : \A u \in records \ visited : w <= u
  BY <1>5, <1>6, LeastNat
<1>8. \A u \in records : prev[u] = prev[w] => u = w
  BY <1>2, <1>7 DEF ForkFree, Siblings
<1>9. prev[w] # ZERO_UID
  <2>1. 1 \in 1..n
    BY <1>1, <1>3
  <2>2. chain[1] \in visited /\ chain[1] \in records /\ prev[chain[1]] = ZERO_UID
    BY <1>1, <1>4, <2>1
  <2> QED
    BY <1>7, <1>8, <2>2
<1>10. prev[w] \in records
  BY <1>1, <1>7, <1>9 DEF Linked
<1>11. prev[w] < w
  <2>1. prev[w] \in 1..N /\ w \in 1..N /\ prev[w] \notin w..N
    BY <1>1, <1>7, <1>10 DEF TypeOK, Older
  <2> QED
    BY <2>1, SomeRecords
<1>12. prev[w] \in visited
  <2>1. SUFFICES ASSUME prev[w] \notin visited PROVE FALSE
    OBVIOUS
  <2>2. w <= prev[w] /\ prev[w] \in Nat /\ w \in Nat
    BY <1>6, <1>7, <1>10, <2>1
  <2> QED
    BY <1>11, <2>2
<1>13. PICK i \in 1..n : chain[i] = prev[w]
  BY <1>4, <1>12
<1>14. CASE i = n
  BY <1>1, <1>3, <1>7, <1>13, <1>14
<1>15. CASE i # n
  <2>1. i + 1 \in 1..n /\ i + 1 # 1 /\ (i + 1) - 1 = i
    BY <1>1, <1>15
  <2>2. prev[chain[i + 1]] = prev[w] /\ chain[i + 1] \in records /\ chain[i + 1] \in visited
    BY <1>1, <1>4, <1>13, <2>1
  <2> QED
    BY <1>7, <1>8, <2>2
<1> QED
  BY <1>14, <1>15

(* The end of the chain: every record was passed, or some are apart.       *)
LEMMA FinishKeeps ==
    ASSUME WalkInv, Finish
    PROVE  WalkInv'
<1>1. status = "walk" /\ current = ZERO_UID
  BY DEF Finish
<1>2. TypeOK /\ Trail /\ Front /\ Forced /\ todo = {} /\ records # {}
      /\ \E r \in records : Roots(records, prev) = {r}
  BY <1>1, Walking
<1>3. CASE Cardinality(visited) # Cardinality(records)
  <2>1. Ambiguous /\ UNCHANGED input
    BY <1>3 DEF Finish
  <2>2. ASSUME NEW p \in Orders PROVE FALSE
    <3>1. Len(chain) = Len(p)
      BY <1>1, <1>2 DEF Forced
    <3> QED
      BY <1>2, <1>3, <3>1, ChainCounts, OrderLists
  <2>3. Older => Status(records, prev) # "canonical"
    BY <1>1, <1>3, NothingIsLeft
  <2> QED
    BY <1>2, <2>1, <2>2, <2>3, RefuseKeeps
<1>4. CASE Cardinality(visited) = Cardinality(records)
  <2>1. status' = "canonical" /\ UNCHANGED <<todo, children, current, visited, chain>>
        /\ records' = records /\ prev' = prev
    BY <1>4 DEF Finish, input
  <2>2. TypeOK' /\ Trail' /\ Front'
    BY <1>2, <2>1 DEF TypeOK, Trail, Front
  <2>3. Forced'
    <3>1. Orders' = Orders
      BY <2>1 DEF Orders, IsHistory
    <3> QED
      BY <1>2, <2>1, <3>1 DEF Forced
  <2>4. Roots(records, prev)' = Roots(records, prev)
    BY <2>1 DEF Roots
  <2> QED
    BY <1>1, <1>2, <1>4, <2>1, <2>2, <2>3, <2>4 DEF WalkInv
<1> QED
  BY <1>3, <1>4

(* A step that leaves the walk alone.                                      *)
LEMMA StutterKeeps ==
    ASSUME WalkInv, UNCHANGED vars
    PROVE  WalkInv'
<1>1. /\ records' = records /\ prev' = prev /\ todo' = todo /\ children' = children
      /\ current' = current /\ visited' = visited /\ chain' = chain /\ status' = status
  BY DEF vars
<1>2. TypeOK'
  BY <1>1 DEF WalkInv, TypeOK
<1>3. Orders' = Orders /\ Older' = Older /\ Status(records, prev)' = Status(records, prev)
  BY <1>1 DEF Orders, IsHistory, Older, Status, Linked, Roots, ForkFree, Siblings
<1>4. Trail' = Trail /\ Front' = Front
  BY <1>1 DEF Trail, Front
<1>5. Forced' = Forced
  BY <1>1, <1>3 DEF Forced
<1>6. Roots(records, prev)' = Roots(records, prev)
  BY <1>1 DEF Roots
<1> QED
  BY <1>1, <1>2, <1>3, <1>4, <1>5, <1>6 DEF WalkInv

(* The invariant above holds of every walk.                                *)
THEOREM WalkInvHolds == Spec => []WalkInv
<1>1. WalkInv /\ [Next]_vars => WalkInv'
  BY GroupKeeps, FindRootKeeps, StepKeeps, FinishKeeps, StutterKeeps DEF Next
<1> QED
  BY <1>1, InitWalk, PTL DEF Spec

-----------------------------------------------------------------------------
(* The walk is well typed. *)
THEOREM WalkTypes == Spec => []TypeOK
<1>1. WalkInv => TypeOK
  BY DEF WalkInv
<1> QED
  BY <1>1, WalkInvHolds, PTL

(* The walk answers "canonical" with the records in order, and "ambiguous" *)
(* only if they have no order.                                             *)
THEOREM WalkFindsTheHistory == Spec => []FindsTheHistory
<1>1. WalkInv => FindsTheHistory
  <2> SUFFICES ASSUME WalkInv PROVE FindsTheHistory
    OBVIOUS
  <2>1. ASSUME status = "canonical" PROVE IsHistory(chain, records)
    <3>1. TypeOK /\ Trail /\ Cardinality(visited) = Cardinality(records)
      BY <2>1 DEF WalkInv
    <3>2. Len(chain) = Cardinality(records)
      BY <3>1, ChainCounts
    <3>3. visited = records
      BY <3>1, FiniteInput, FS_Subset DEF TypeOK
    <3> QED
      BY <3>1, <3>2, <3>3 DEF Trail, IsHistory
  <2>2. ASSUME status = "ambiguous", NEW p \in [1..Cardinality(records) -> records]
        PROVE  ~IsHistory(p, records)
    BY <2>2 DEF WalkInv, Orders
  <2> QED
    BY <2>1, <2>2 DEF FindsTheHistory
<1> QED
  BY <1>1, WalkInvHolds, PTL

(* Where predecessors are older, the walk computes Status and ChainHead,   *)
(* which stand for it in KeyStore and PrivateStore.                        *)
THEOREM WalkIsStatus == Spec => []AgreesWithChain
<1>1. WalkInv => AgreesWithChain
  <2> SUFFICES ASSUME WalkInv, Older
               PROVE  /\ Done => status = Status(records, prev)
                      /\ status = "canonical" => chain[Len(chain)] = ChainHead(records, prev)
    BY DEF AgreesWithChain, Older
  <2> DEFINE n == Len(chain)
  <2>1. TypeOK
    BY DEF WalkInv
  <2>2. Status(records, prev) \in {"empty", "canonical", "ambiguous"}
        /\ (Status(records, prev) = "empty" <=> records = {})
    BY DEF Status
  <2>3. status = "empty" <=> records = {}
    BY DEF WalkInv
  <2>4. status = "ambiguous" => Status(records, prev) # "canonical"
    BY DEF WalkInv
  <2>5. ASSUME status = "canonical"
        PROVE  /\ Status(records, prev) = "canonical"
               /\ chain[n] = ChainHead(records, prev)
    <3>1. /\ Trail /\ Front /\ current = ZERO_UID /\ todo = {} /\ records # {}
          /\ Cardinality(visited) = Cardinality(records)
      BY <2>3, <2>5 DEF WalkInv
    <3>2. visited = records /\ n = Cardinality(records)
      BY <2>1, <3>1, ChainCounts, FiniteInput, FS_Subset DEF TypeOK
    <3>3. chain \in [1..n -> records] /\ n \in Nat
      BY <2>1, LenProperties DEF TypeOK
    <3>4. chain \in Orders
      BY <3>1, <3>2, <3>3 DEF Orders, IsHistory, Trail
    <3>5. Status(records, prev) = "canonical"
      BY <2>1, <3>1, <3>4, OrderedIsCanonical
    <3>6. n > 0 /\ children[chain[n]] = {}
      BY <3>1 DEF Front
    <3>7. n \in 1..n /\ chain[n] \in records
      BY <3>3, <3>6
    <3>8. Children(records, prev, chain[n]) = {}
      BY <3>1, <3>6, <3>7 DEF WalkInv, Children
    <3>9. ASSUME NEW h \in records, Children(records, prev, h) = {} PROVE h = chain[n]
      <4>1. PICK i \in 1..n : chain[i] = h
        BY <3>1, <3>2 DEF Trail
      <4>2. SUFFICES ASSUME i # n PROVE FALSE
        BY <4>1
      <4>3. i + 1 \in 1..n /\ i + 1 # 1 /\ (i + 1) - 1 = i
        <5>1. n \in Nat
          BY <3>3
        <5> QED
          BY <4>2, <5>1
      <4>4. chain[i + 1] \in records /\ prev[chain[i + 1]] = h
        BY <3>1, <3>3, <4>1, <4>3 DEF Trail
      <4> QED
        BY <3>9, <4>4 DEF Children
    <3> QED
      BY <3>5, <3>7, <3>8, <3>9 DEF ChainHead
  <2> QED
    BY <2>2, <2>3, <2>4, <2>5 DEF Done
<1> QED
  BY <1>1, WalkInvHolds, PTL
=============================================================================
