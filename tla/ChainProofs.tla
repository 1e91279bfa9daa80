---------------------------- MODULE ChainProofs ----------------------------
(***************************************************************************)
(* The facts about linked histories that the correctness of writes and     *)
(* reads rests on, for any number of records.                              *)
(***************************************************************************)
EXTENDS Chain, Sequences, FiniteSetTheorems, SequenceTheorems, WellFoundedInduction,
        TLAPS

(* A nonempty set of naturals has a least member. *)
LEMMA LeastNat ==
    ASSUME NEW T \in SUBSET Nat, T # {}
    PROVE  \E m \in T : \A n \in T : m <= n
<1> DEFINE Less == {ss \in Nat \X Nat : ss[1] < ss[2]}
<1>1. IsWellFoundedOn(Less, Nat)
  BY NatLessThanWellFounded DEF OpToRel
<1>2. \A n, m \in Nat : n < m => <<n, m>> \in Less
  OBVIOUS
<1> HIDE DEF Less
<1>3. PICK m \in T : \A n \in T : ~ (<<n, m>> \in Less)
  BY <1>1, WFMin
<1>4. \A n \in T : ~(n < m)
  BY <1>2, <1>3
<1>5. \A n \in T : m <= n
  BY <1>4
<1> QED
  BY <1>5

(***************************************************************************)
(* The shape of the records a store issues (KeyStore!LinkedVersions): ver  *)
(* is 1 at a root and grows by one from a record to its successor.         *)
(***************************************************************************)
Issued(R, prev, ver) ==
    \A u \in R :
        /\ u \in Nat /\ prev[u] \in Nat /\ ver[u] \in Nat
        /\ prev[u] = ZERO_UID => ver[u] = 1
        /\ prev[u] # ZERO_UID /\ prev[u] \in R =>
               prev[u] < u /\ ver[u] = ver[prev[u]] + 1
        /\ prev[u] # ZERO_UID => ver[u] > 1

(* In a canonical history no two records have the same version, so there   *)
(* is one latest value: from two of the same version, following the        *)
(* predecessors down, one would come to a fork.                            *)
LEMMA VersionsDiffer ==
    ASSUME NEW R, NEW prev, NEW ver,
           Issued(R, prev, ver), Linked(R, prev), ForkFree(R, prev)
    PROVE  \A a, b \in R : ver[a] = ver[b] => a = b
<1> DEFINE Twins == {v \in Nat : \E a, b \in R : a # b /\ ver[a] = v /\ ver[b] = v}
<1>1. SUFFICES ASSUME Twins # {} PROVE FALSE
  BY DEF Issued
<1>2. PICK v \in Twins : \A w \in Twins : v <= w
  BY <1>1, LeastNat
<1>3. PICK a \in R, b \in R : a # b /\ ver[a] = v /\ ver[b] = v
  OBVIOUS
<1>4. prev[a] # prev[b]
  BY <1>3 DEF ForkFree, Siblings
<1>5. prev[a] # ZERO_UID /\ prev[b] # ZERO_UID
  BY <1>3, <1>4 DEF Issued
<1>6. /\ prev[a] \in R /\ ver[a] = ver[prev[a]] + 1 /\ ver[prev[a]] \in Nat
      /\ prev[b] \in R /\ ver[b] = ver[prev[b]] + 1 /\ ver[prev[b]] \in Nat
  BY <1>5 DEF Issued, Linked
<1>7. ver[prev[a]] = ver[prev[b]] /\ ver[prev[a]] < v
  BY <1>3, <1>6
<1>8. ver[prev[a]] \in Twins
  BY <1>4, <1>6, <1>7
<1>9. v <= ver[prev[a]]
  BY <1>2, <1>8
<1> QED
  BY <1>6, <1>7, <1>9

(* Some record of a nonempty set of issued records has no successor in it: *)
(* the one issued last.                                                    *)
LEMMA LastIsChildless ==
    ASSUME NEW n \in Nat, NEW R \in SUBSET (1..n), R # {}, NEW prev, NEW ver,
           Issued(R, prev, ver)
    PROVE  \E h \in R : Children(R, prev, h) = {}
<1> DEFINE Bounds == {b \in Nat : \A u \in R : u <= b}
<1>1. n \in Bounds
  OBVIOUS
<1>2. PICK h \in Bounds : \A b \in Bounds : h <= b
  BY <1>1, LeastNat
<1>3. h \in R
  <2>1. SUFFICES ASSUME h \notin R PROVE FALSE
    OBVIOUS
  <2>2. PICK u \in R : TRUE
    OBVIOUS
  <2>3. \A w \in R : w \in 1..n /\ w <= h - 1
    BY <1>2, <2>1
  <2>4. h - 1 \in Nat
    BY <1>2, <2>2, <2>3
  <2>5. h - 1 \in Bounds
    BY <2>3, <2>4
  <2> QED
    BY <1>2, <2>5
<1>4. \A u \in R : prev[u] # h
  <2>1. SUFFICES ASSUME NEW u \in R, prev[u] = h PROVE FALSE
    OBVIOUS
  <2>2. h < u
    BY <1>3, <2>1 DEF Issued, ZERO_UID
  <2> QED
    BY <1>2, <2>2
<1> QED
  BY <1>3, <1>4 DEF Children

(* The head of a canonical history, as every read and write picks it, is   *)
(* one of the records and has the highest version of them all.             *)
THEOREM HeadIsNewest ==
    ASSUME NEW n \in Nat, NEW R \in SUBSET (1..n), NEW prev, NEW ver,
           Issued(R, prev, ver), Status(R, prev) = "canonical"
    PROVE  /\ ChainHead(R, prev) \in R
           /\ \A a \in R : a = ChainHead(R, prev) \/ ver[a] < ver[ChainHead(R, prev)]
<1> DEFINE h == ChainHead(R, prev)
<1>1. R # {} /\ Linked(R, prev) /\ ForkFree(R, prev)
  BY DEF Status
<1>2. h \in R /\ Children(R, prev, h) = {}
  <2>1. \E x \in R : Children(R, prev, x) = {}
    BY <1>1, LastIsChildless
  <2> QED
    BY <2>1 DEF ChainHead
<1> HIDE DEF h
<1>3. \A u \in R : prev[u] # h
  BY <1>2 DEF Children
<1>4. \A a, b \in R : ver[a] = ver[b] => a = b
  BY <1>1, VersionsDiffer
<1>5. \A u \in R : ver[u] \in Nat
  BY DEF Issued
<1> DEFINE Above == {d \in Nat : \E x \in R : ver[x] = ver[h] + 1 + d}
<1>6. Above = {}
  <2>1. SUFFICES ASSUME Above # {} PROVE FALSE
    OBVIOUS
  <2>2. PICK d \in Above : \A e \in Above : d <= e
    BY <2>1, LeastNat
  <2>3. PICK x \in R : ver[x] = ver[h] + 1 + d
    OBVIOUS
  <2>4. ver[h] > 0
    BY <1>2 DEF Issued
  <2>5. prev[x] \in R /\ ver[x] = ver[prev[x]] + 1 /\ ver[prev[x]] \in Nat
    BY <1>1, <1>2, <1>5, <2>3, <2>4 DEF Issued, Linked
  <2>6. CASE d = 0
    <3>1. ver[prev[x]] = ver[h]
      BY <1>2, <1>5, <2>3, <2>5, <2>6
    <3>2. prev[x] = h
      BY <1>2, <1>4, <2>5, <3>1
    <3> QED
      BY <1>3, <3>2
  <2>7. CASE d # 0
    <3>1. d - 1 \in Nat /\ ver[prev[x]] = ver[h] + 1 + (d - 1)
      BY <1>2, <1>5, <2>3, <2>5, <2>7
    <3>2. d - 1 \in Above
      BY <2>5, <3>1
    <3> QED
      BY <2>2, <3>2
  <2> QED
    BY <2>6, <2>7
<1>7. ASSUME NEW a \in R, a # h, ~(ver[a] < ver[h]) PROVE FALSE
  <2>1. ver[a] > ver[h]
    BY <1>2, <1>4, <1>5, <1>7
  <2>2. ver[a] - ver[h] - 1 \in Nat /\ ver[a] = ver[h] + 1 + (ver[a] - ver[h] - 1)
    BY <1>2, <1>5, <2>1
  <2>3. ver[a] - ver[h] - 1 \in Above
    BY <2>2
  <2> QED
    BY <1>6, <2>3
<1> QED
  BY <1>2, <1>7 DEF h

-----------------------------------------------------------------------------
(* A history that grows *)

(* The oldest record of a linked set is a root.                            *)
LEMMA RootExists ==
    ASSUME NEW n \in Nat, NEW R \in SUBSET (1..n), R # {}, NEW prev, NEW ver,
           Issued(R, prev, ver), Linked(R, prev)
    PROVE  Roots(R, prev) # {}
<1>1. PICK u \in R : \A w \in R : u <= w
  BY LeastNat
<1>2. SUFFICES ASSUME prev[u] # ZERO_UID PROVE FALSE
  BY DEF Roots
<1>3. prev[u] \in R /\ prev[u] < u /\ prev[u] \in Nat /\ u \in Nat
  BY <1>2 DEF Linked, Issued
<1> QED
  BY <1>1, <1>3

(* The versions of a canonical history are 1 to its length, each once.     *)
Fills(R, ver) ==
    /\ IsFiniteSet(R) /\ Cardinality(R) \in Nat
    /\ \A u \in R : ver[u] \in 1..Cardinality(R)
    /\ \A v \in 1..Cardinality(R) : \E u \in R : ver[u] = v
    /\ \A a, b \in R : ver[a] = ver[b] => a = b

LEMMA HistoryFills ==
    ASSUME NEW n \in Nat, NEW R \in SUBSET (1..n), NEW prev, NEW ver,
           Issued(R, prev, ver), Status(R, prev) = "canonical"
    PROVE  Fills(R, ver)
<1> DEFINE h == ChainHead(R, prev)
           V == ver[h]
           Gaps == {d \in Nat : d < V /\ \A u \in R : ver[u] # V - d}
           f == [v \in 1..V |-> CHOOSE u \in R : ver[u] = v]
<1>1. h \in R /\ \A a \in R : a = h \/ ver[a] < V
  BY HeadIsNewest
<1>2. Linked(R, prev) /\ ForkFree(R, prev)
  BY DEF Status
<1>3. \A a, b \in R : ver[a] = ver[b] => a = b
  BY <1>2, VersionsDiffer
<1>4. \A u \in R : ver[u] \in Nat /\ ver[u] >= 1
  BY DEF Issued
<1> HIDE DEF h
<1>5. V \in Nat /\ \A u \in R : ver[u] \in 1..V
  BY <1>1, <1>4
<1>6. Gaps = {}
  <2>1. SUFFICES ASSUME Gaps # {} PROVE FALSE
    OBVIOUS
  <2>2. PICK d \in Gaps : \A e \in Gaps : d <= e
    BY <2>1, LeastNat
  <2>3. d # 0
    BY <1>1, <1>5, <2>2
  <2>4. d - 1 \in Nat /\ d - 1 < V /\ ~(d <= d - 1)
    BY <1>5, <2>2, <2>3
  <2>5. PICK u \in R : ver[u] = V - (d - 1)
    BY <2>2, <2>4
  <2>6. ver[u] > 1
    BY <1>5, <2>2, <2>3, <2>5
  <2>7. prev[u] \in R /\ ver[u] = ver[prev[u]] + 1 /\ ver[prev[u]] \in Nat
    BY <1>2, <2>6 DEF Issued, Linked
  <2>8. ver[prev[u]] = V - d
    BY <1>5, <2>2, <2>5, <2>7
  <2> QED
    BY <2>2, <2>7, <2>8
<1>7. \A v \in 1..V : \E u \in R : ver[u] = v
  <2>1. SUFFICES ASSUME NEW v \in 1..V, \A u \in R : ver[u] # v PROVE FALSE
    OBVIOUS
  <2>2. V - v \in Nat /\ V - v < V /\ V - (V - v) = v
    BY <1>5
  <2>3. V - v \in Gaps
    BY <2>1, <2>2
  <2> QED
    BY <1>6, <2>3
<1>8. \A v \in 1..V : f[v] \in R /\ ver[f[v]] = v
  BY <1>7
<1>9. f \in Bijection(1..V, R)
  <2>1. f \in [1..V -> R]
    BY <1>8
  <2>2. \A v, w \in 1..V : f[v] = f[w] => v = w
    BY <1>8
  <2>3. \A u \in R : \E v \in 1..V : f[v] = u
    BY <1>3, <1>5, <1>8
  <2> QED
    BY <2>1, <2>2, <2>3 DEF Bijection, Injection, Surjection, IsInjective
<1>10. Cardinality(R) = V
  BY <1>5, <1>9, FS_CountingElements DEF ExistsBijection
<1>11. IsFiniteSet(R)
  <2>1. IsFiniteSet(1..n)
    BY FS_Interval
  <2> QED
    BY <2>1, FS_Subset
<1> QED
  BY <1>3, <1>5, <1>7, <1>10, <1>11 DEF Fills

LEMMA VersionsFill ==
    ASSUME NEW n \in Nat, NEW R \in SUBSET (1..n), NEW prev, NEW ver,
           Issued(R, prev, ver), Status(R, prev) = "canonical"
    PROVE  /\ IsFiniteSet(R) /\ Cardinality(R) \in Nat
           /\ \A u \in R : ver[u] \in 1..Cardinality(R)
           /\ \A v \in 1..Cardinality(R) : \E u \in R : ver[u] = v
           /\ \A a, b \in R : ver[a] = ver[b] => a = b
  BY HistoryFills DEF Fills

(* One more record: the history is extended at its end, or it forks and    *)
(* stays so.                                                               *)
LEMMA OneMore ==
    ASSUME NEW n \in Nat, NEW S \in SUBSET (1..n), NEW u \in S, NEW prev, NEW ver,
           Issued(S, prev, ver), Linked(S, prev), Linked(S \ {u}, prev)
    PROVE  LET T == S \ {u} IN
           /\ Status(S, prev) \in {"canonical", "ambiguous"}
           /\ Status(T, prev) = "ambiguous" => Status(S, prev) = "ambiguous"
           /\ T = {} => Status(S, prev) = "canonical"
           /\ Status(S, prev) = "canonical" =>
                 Cardinality(S) = Cardinality(T) + 1 /\ ver[u] = Cardinality(S)
<1> DEFINE T == S \ {u}
<1>1. T \in SUBSET (1..n) /\ Issued(T, prev, ver)
  BY DEF Issued
<1>2. Roots(S, prev) # {} /\ (T # {} => Roots(T, prev) # {})
  BY <1>1, RootExists
<1>3. Status(S, prev) = IF ForkFree(S, prev) THEN "canonical" ELSE "ambiguous"
  BY <1>2 DEF Status
<1>4. T # {} => Status(T, prev) = IF ForkFree(T, prev) THEN "canonical" ELSE "ambiguous"
  BY <1>2 DEF Status
<1>5. ForkFree(S, prev) => ForkFree(T, prev)
  BY DEF ForkFree
<1>6. T = {} => ForkFree(S, prev)
  BY DEF ForkFree, Siblings
<1>7. Status(T, prev) = "ambiguous" => T # {}
  BY DEF Status
<1>8. T \subseteq S /\ \A w \in S : w = u \/ w \in T
  OBVIOUS
<1>9. u \notin T
  OBVIOUS
<1>10. IsFiniteSet(S) => Cardinality(T) = Cardinality(S) - 1
  BY FS_RemoveElement
<1> HIDE DEF T
<1>11. ASSUME Status(S, prev) = "canonical"
       PROVE  Cardinality(S) = Cardinality(T) + 1 /\ ver[u] = Cardinality(S)
  <2>1. /\ IsFiniteSet(S) /\ Cardinality(S) \in Nat
        /\ \A w \in S : ver[w] \in 1..Cardinality(S)
        /\ \A a, b \in S : ver[a] = ver[b] => a = b
    BY <1>11, VersionsFill
  <2>2. Cardinality(T) = Cardinality(S) - 1
    BY <1>10, <2>1
  <2>3. CASE T = {}
    <3>1. Cardinality(T) = 0
      BY <2>3, FS_EmptySet
    <3> QED
      BY <2>1, <2>2, <3>1
  <2>4. CASE T # {}
    <3>1. Status(T, prev) = "canonical"
      BY <1>3, <1>4, <1>5, <1>11, <2>4
    <3>2. \A v \in 1..Cardinality(T) : \E w \in T : ver[w] = v
      <4>1. T \in SUBSET (1..n)
        BY <1>1
      <4>2. Issued(T, prev, ver)
        BY <1>1
      <4>3. SUFFICES ASSUME NEW v \in 1..Cardinality(T)
                     PROVE  \E w \in T : ver[w] = v
        OBVIOUS
      <4> QED
        BY <3>1, <4>1, <4>2, VersionsFill
    <3>3. ver[u] \notin 1..Cardinality(T)
      BY <1>8, <1>9, <2>1, <3>2
    <3> QED
      BY <2>1, <2>2, <3>3
  <2> QED
    BY <2>3, <2>4
<1> QED
  BY <1>3, <1>4, <1>5, <1>6, <1>7, <1>11 DEF T

(* The log that a linked set of records stands for (KeyStore!Log): its      *)
(* records by version, if it is one history.                               *)
LogAt(R, p, a) ==
    IF Status(R, p) = "canonical"
    THEN [v \in 1..Cardinality(R) |-> CHOOSE u \in R : a[u].version = v]
    ELSE <<>>

(* f lists the records of R by version.                                    *)
Lists(f, R, a) ==
    /\ Cardinality(R) \in Nat
    /\ f \in [1..Cardinality(R) -> R]
    /\ \A v \in 1..Cardinality(R) : a[f[v]].version = v
    /\ \A u, w \in R : a[u].version = a[w].version => u = w

LEMMA LogIs ==
    ASSUME NEW n \in Nat, NEW R \in SUBSET (1..n), NEW p, NEW a, NEW ver,
           Issued(R, p, ver), \A u \in R : ver[u] = a[u].version,
           Status(R, p) = "canonical"
    PROVE  Lists(LogAt(R, p, a), R, a)
<1> DEFINE N == Cardinality(R)
           f == LogAt(R, p, a)
<1>1. N \in Nat /\ \A c, d \in R : ver[c] = ver[d] => c = d
  BY VersionsFill
<1>2. ASSUME NEW v \in 1..N PROVE \E u \in R : a[u].version = v
  <2>1. \E u \in R : ver[u] = v
    BY VersionsFill
  <2> QED
    BY <2>1
<1>3. f = [v \in 1..N |-> CHOOSE u \in R : a[u].version = v]
  BY DEF LogAt
<1> HIDE DEF f
<1>4. \A v \in 1..N : f[v] \in R /\ a[f[v]].version = v
  BY <1>2, <1>3
<1>5. f \in [1..N -> R]
  BY <1>3, <1>4
<1>6. \A c, d \in R : a[c].version = a[d].version => c = d
  BY <1>1
<1>7. Lists(f, R, a)
  BY <1>1, <1>4, <1>5, <1>6 DEF Lists
<1> QED
  BY <1>7 DEF f

(* The list is the only one. *)
LEMMA OneList ==
    ASSUME NEW R, NEW a, NEW f, NEW g, Lists(f, R, a), Lists(g, R, a)
    PROVE  f = g
<1> DEFINE N == Cardinality(R)
<1>1. f \in [1..N -> R] /\ g \in [1..N -> R]
  BY DEF Lists
<1>2. ASSUME NEW v \in 1..N PROVE f[v] = g[v]
  <2>1. f[v] \in R /\ g[v] \in R
    BY <1>1
  <2>2. a[f[v]].version = v
    BY DEF Lists
  <2>3. a[g[v]].version = v
    BY DEF Lists
  <2>4. a[f[v]].version = a[g[v]].version
    BY <2>1, <2>2, <2>3
  <2> QED
    BY <2>1, <2>4 DEF Lists
<1> DEFINE D == 1..N
<1>3. f \in [D -> R] /\ g \in [D -> R] /\ \A v \in D : f[v] = g[v]
  BY <1>1, <1>2
<1> HIDE DEF D
<1> QED
  BY <1>3

(* The predecessors and the versions of R are the same for two readers.    *)
Agree(R, p, q, a, b, ver) ==
    \A u \in R : p[u] = q[u] /\ ver[u] = a[u].version /\ ver[u] = b[u].version

(* The log depends on nothing but the records it is made of.               *)
LEMMA SameLog ==
    ASSUME NEW n \in Nat, NEW R \in SUBSET (1..n), NEW p, NEW q, NEW a, NEW b, NEW ver,
           Issued(R, p, ver),
           Agree(R, p, q, a, b, ver)
    PROVE  /\ Issued(R, q, ver) /\ (Linked(R, p) => Linked(R, q))
           /\ Status(R, p) = Status(R, q)
           /\ LogAt(R, p, a) = LogAt(R, q, b)
<1>0. \A u \in R : p[u] = q[u] /\ ver[u] = a[u].version /\ ver[u] = b[u].version
  BY DEF Agree
<1>1. Issued(R, q, ver)
  BY <1>0 DEF Issued
<1>2. (Linked(R, p) <=> Linked(R, q)) /\ Roots(R, p) = Roots(R, q)
      /\ (ForkFree(R, p) <=> ForkFree(R, q))
  BY <1>0 DEF Linked, Roots, ForkFree, Siblings
<1>3. Status(R, p) = Status(R, q)
  BY <1>2 DEF Status
<1>4. CASE Status(R, p) # "canonical"
  <2>1. LogAt(R, p, a) = <<>> /\ LogAt(R, q, b) = <<>>
    BY <1>3, <1>4 DEF LogAt
  <2> QED
    BY <1>1, <1>2, <1>3, <2>1
<1>5. CASE Status(R, p) = "canonical"
  <2>1. Lists(LogAt(R, p, a), R, a)
    BY <1>0, <1>5, LogIs
  <2>2. Lists(LogAt(R, q, b), R, b)
    BY <1>0, <1>1, <1>3, <1>5, LogIs
  <2>3. \A u \in R : a[u].version = b[u].version
    BY <1>0
  <2>4. PICK f, g : f = LogAt(R, p, a) /\ g = LogAt(R, q, b)
    OBVIOUS
  <2>5. Lists(f, R, a)
    BY <2>1, <2>4
  <2>6. Lists(g, R, a)
    <3>1. Lists(g, R, b)
      BY <2>2, <2>4
    <3>2. \A v \in 1..Cardinality(R) : a[g[v]].version = v
      <4>1. SUFFICES ASSUME NEW v \in 1..Cardinality(R) PROVE a[g[v]].version = v
        OBVIOUS
      <4>2. g[v] \in R /\ b[g[v]].version = v
        BY <3>1 DEF Lists
      <4> QED
        BY <2>3, <4>2
    <3> QED
      BY <2>5, <3>1, <3>2 DEF Lists
  <2>7. f = g
    BY <2>5, <2>6, OneList
  <2> QED
    BY <1>1, <1>2, <1>3, <2>4, <2>7
<1> QED
  BY <1>4, <1>5

(* What the record u does to the log of the others: it is the next entry   *)
(* if its version says so, and forks the log if it does not.               *)
Follows(u, R, S, p, a) ==
    /\ Status(S, p) = "canonical" =>
          /\ Status(R, p) # "ambiguous" /\ LogAt(S, p, a) = Append(LogAt(R, p, a), u)
          /\ a[u].version = Len(LogAt(R, p, a)) + 1
    /\ Status(S, p) # "canonical" =>
          /\ Status(S, p) = "ambiguous" /\ LogAt(S, p, a) = <<>>
          /\ Status(R, p) = "ambiguous" => LogAt(R, p, a) = <<>>
          /\ Status(R, p) # "ambiguous" =>
                LogAt(R, p, a) # <<>> /\ a[u].version # Len(LogAt(R, p, a)) + 1

(* A record with the version after the last one follows the head.          *)
LEMMA NextVersionFits ==
    ASSUME NEW n \in Nat, NEW S \in SUBSET (1..n), NEW u \in S, NEW R, NEW p, NEW ver,
           R = S \ {u}, Issued(S, p, ver), Linked(S, p),
           Status(R, p) = "canonical", ver[u] = Cardinality(R) + 1
    PROVE  Status(S, p) = "canonical"
<1> DEFINE N == Cardinality(R)
<1>1. R \in SUBSET (1..n) /\ Issued(R, p, ver)
  BY DEF Issued
<1>2. /\ IsFiniteSet(R) /\ N \in Nat
      /\ \A w \in R : ver[w] \in 1..N
  BY <1>1, VersionsFill
<1>3. R # {} /\ ForkFree(R, p) /\ Roots(R, p) # {}
  BY DEF Status
<1>4. N # 0
  BY <1>2, <1>3, FS_EmptySet
<1>5. p[u] # ZERO_UID /\ p[u] \in S
  BY <1>2, <1>4 DEF Issued, Linked
<1>6. ASSUME NEW w \in R PROVE p[w] # p[u]
  <2>1. SUFFICES ASSUME p[w] = p[u] PROVE FALSE
    OBVIOUS
  <2>2. /\ ver[w] = ver[p[u]] + 1 /\ ver[u] = ver[p[u]] + 1
    BY <1>5, <2>1 DEF Issued
  <2> QED
    BY <1>2, <2>2
<1>7. ForkFree(S, p)
  BY <1>3, <1>6 DEF ForkFree, Siblings
<1>8. S # {} /\ Roots(S, p) # {}
  BY <1>3 DEF Roots
<1> QED
  BY <1>7, <1>8 DEF Status

(* One more record ends the log, or forks it, or finds it forked.          *)
LEMMA NextLog ==
    ASSUME NEW n \in Nat, NEW S \in SUBSET (1..n), NEW u \in S, NEW p, NEW a, NEW ver,
           Issued(S, p, ver), Linked(S, p), Linked(S \ {u}, p),
           Agree(S, p, p, a, a, ver)
    PROVE  Follows(u, S \ {u}, S, p, a)
<1>0. \A w \in S : ver[w] = a[w].version
  BY DEF Agree
<1>1. PICK R : R = S \ {u}
  OBVIOUS
<1>2. R \in SUBSET (1..n) /\ Issued(R, p, ver) /\ \A w \in R : ver[w] = a[w].version
  BY <1>0, <1>1 DEF Issued
<1>3. /\ Status(S, p) \in {"canonical", "ambiguous"}
      /\ Status(R, p) = "ambiguous" => Status(S, p) = "ambiguous"
      /\ R = {} => Status(S, p) = "canonical"
      /\ Status(S, p) = "canonical" =>
            Cardinality(S) = Cardinality(R) + 1 /\ ver[u] = Cardinality(S)
  BY <1>1, OneMore
<1>4. Status(R, p) \in {"empty", "canonical", "ambiguous"}
      /\ (Status(R, p) = "empty" => R = {})
  BY DEF Status
<1>5. ASSUME Status(S, p) = "canonical"
      PROVE  LogAt(S, p, a) = Append(LogAt(R, p, a), u)
  <2> DEFINE f == LogAt(R, p, a)
             g == LogAt(S, p, a)
             N == Cardinality(R)
  <2>1. Lists(g, S, a)
    BY <1>0, <1>5, LogIs
  <2>2. Cardinality(S) = N + 1 /\ a[u].version = N + 1
    BY <1>0, <1>3, <1>5
  <2>3. Lists(f, R, a)
    <3>1. CASE R = {}
      <4>1. f = <<>> /\ Cardinality(R) = 0
        BY <3>1, FS_EmptySet DEF LogAt, Status
      <4>2. <<>> \in [1..0 -> R]
        BY EmptySeq, LenProperties
      <4>3. Lists(<<>>, R, a)
        BY <3>1, <4>1, <4>2 DEF Lists
      <4> QED
        BY <4>1, <4>3
    <3>2. CASE R # {}
      <4>1. Status(R, p) = "canonical"
        BY <1>3, <1>4, <1>5, <3>2
      <4> QED
        BY <1>2, <4>1, LogIs
    <3> QED
      BY <3>1, <3>2
  <2> HIDE DEF f, g
  <2>4. f \in Seq(S) /\ Len(f) = N
    <3>1. f \in [1..N -> S] /\ N \in Nat
      BY <1>1, <2>3 DEF Lists
    <3> QED
      BY <3>1, SeqDef
  <2>5. g \in Seq(S) /\ Len(g) = N + 1
    <3>1. g \in [1..(N + 1) -> S] /\ N + 1 \in Nat
      BY <2>1, <2>2, <2>3 DEF Lists
    <3> QED
      BY <3>1, SeqDef
  <2>6. /\ Append(f, u) \in Seq(S) /\ Len(Append(f, u)) = N + 1
        /\ Append(f, u)[N + 1] = u
        /\ \A v \in 1..N : Append(f, u)[v] = f[v]
    BY <2>4
  <2>7. g[N + 1] = u
    <3>1. N + 1 \in 1..(N + 1)
      BY <2>3 DEF Lists
    <3>2. g[N + 1] \in S /\ a[g[N + 1]].version = N + 1
      BY <2>1, <2>2, <3>1 DEF Lists
    <3> QED
      BY <2>1, <2>2, <3>2 DEF Lists
  <2>8. ASSUME NEW v \in 1..N PROVE g[v] = f[v]
    <3>1. f[v] \in R /\ a[f[v]].version = v
      BY <2>3 DEF Lists
    <3>2. v \in 1..(N + 1)
      BY <2>3 DEF Lists
    <3>3. g[v] \in S /\ a[g[v]].version = v
      BY <2>1, <2>2, <3>2 DEF Lists
    <3> QED
      BY <1>1, <2>1, <3>1, <3>3 DEF Lists
  <2>9. \A v \in 1..(N + 1) : g[v] = Append(f, u)[v]
    <3>1. \A v \in 1..(N + 1) : v \in 1..N \/ v = N + 1
      BY <2>3 DEF Lists
    <3> QED
      BY <2>6, <2>7, <2>8, <3>1
  <2>10. g = Append(f, u)
    BY <2>5, <2>6, <2>9, SeqEqual
  <2> QED
    BY <2>10 DEF f, g
<1>6. ASSUME Status(S, p) # "canonical", Status(R, p) # "ambiguous"
      PROVE  LogAt(R, p, a) # <<>>
  <2>1. Status(R, p) = "canonical" /\ R # {}
    BY <1>3, <1>4, <1>6
  <2>2. /\ Cardinality(R) \in Nat
        /\ LogAt(R, p, a) \in [1..Cardinality(R) -> R]
    <3>1. Lists(LogAt(R, p, a), R, a)
      BY <1>2, <2>1, LogIs
    <3> QED
      BY <3>1 DEF Lists
  <2>3. IsFiniteSet(R)
    BY <1>2, <2>1, VersionsFill
  <2>4. Cardinality(R) # 0
    BY <2>1, <2>3, FS_EmptySet
  <2>5. 1 \in DOMAIN LogAt(R, p, a)
    BY <2>2, <2>4
  <2>6. DOMAIN <<>> = {}
    OBVIOUS
  <2> QED
    BY <2>5, <2>6
<1>7. Status(S, p) # "canonical" => LogAt(S, p, a) = <<>>
  BY DEF LogAt
<1>8. Status(R, p) = "ambiguous" => LogAt(R, p, a) = <<>>
  BY DEF LogAt
<1>9. ASSUME Status(R, p) # "ambiguous"
      PROVE  Len(LogAt(R, p, a)) = Cardinality(R)
  <2>1. CASE R = {}
    <3>1. LogAt(R, p, a) = <<>> /\ Cardinality(R) = 0
      BY <2>1, FS_EmptySet DEF LogAt, Status
    <3> QED
      BY <3>1
  <2>2. CASE R # {}
    <3>1. Status(R, p) = "canonical"
      BY <1>4, <1>9, <2>2
    <3>2. Cardinality(R) \in Nat /\ LogAt(R, p, a) \in [1..Cardinality(R) -> R]
      <4>1. Lists(LogAt(R, p, a), R, a)
        BY <1>2, <3>1, LogIs
      <4> QED
        BY <4>1 DEF Lists
    <3>3. PICK f : f = LogAt(R, p, a)
      OBVIOUS
    <3>4. f \in Seq(R) /\ Len(f) = Cardinality(R)
      BY <3>2, <3>3, SeqDef
    <3> QED
      BY <3>3, <3>4
  <2> QED
    BY <2>1, <2>2
<1>10. Status(S, p) = "canonical" => ver[u] = Cardinality(R) + 1
  BY <1>3
<1>11. Status(S, p) # "canonical" /\ Status(R, p) # "ambiguous" =>
          ver[u] # Cardinality(R) + 1
  <2>1. Status(R, p) # "ambiguous" /\ Status(S, p) # "canonical" =>
           Status(R, p) = "canonical"
    BY <1>3, <1>4
  <2> QED
    BY <1>1, <2>1, NextVersionFits
<1>12. ver[u] = a[u].version
  BY <1>0
<1> QED
  BY <1>1, <1>3, <1>5, <1>6, <1>7, <1>8, <1>9, <1>10, <1>11, <1>12 DEF Follows

(* A canonical part of a canonical history is its beginning, and its head  *)
(* the last entry of that beginning.                                       *)
BeginsHistory(R, P, p, a) ==
    /\ R = {LogAt(P, p, a)[v] : v \in 1..Cardinality(R)}
    /\ ChainHead(R, p) = LogAt(P, p, a)[Cardinality(R)]

LEMMA PartIsBeginning ==
    ASSUME NEW n \in Nat, NEW P \in SUBSET (1..n), NEW R \in SUBSET P,
           NEW p, NEW a, NEW ver,
           Issued(P, p, ver), \A u \in P : ver[u] = a[u].version,
           Status(P, p) = "canonical", Status(R, p) = "canonical"
    PROVE  BeginsHistory(R, P, p, a)
<1>1. R \in SUBSET (1..n) /\ Issued(R, p, ver)
  BY DEF Issued
<1>2. PICK N, f, h : N = Cardinality(R) /\ f = LogAt(P, p, a) /\ h = ChainHead(R, p)
  OBVIOUS
<1>3. /\ N \in Nat
      /\ \A u \in R : ver[u] \in 1..N
      /\ \A v \in 1..N : \E u \in R : ver[u] = v
      /\ \A u, w \in R : ver[u] = ver[w] => u = w
  <2>1. R \in SUBSET (1..n)
    BY <1>1
  <2>2. Issued(R, p, ver)
    BY <1>1
  <2>3. Fills(R, ver)
    BY <2>1, <2>2, HistoryFills
  <2> QED
    BY <1>2, <2>3 DEF Fills
<1>4. h \in R /\ \A u \in R : u = h \/ ver[u] < ver[h]
  BY <1>1, <1>2, HeadIsNewest
<1>5. \A u \in P : ver[u] \in 1..Cardinality(P)
  BY VersionsFill
<1>6. Lists(f, P, a)
  BY <1>2, LogIs
<1>7. ASSUME NEW u \in R PROVE f[ver[u]] = u
  <2>1. u \in P /\ ver[u] \in 1..Cardinality(P)
    BY <1>5
  <2>2. f[ver[u]] \in P /\ a[f[ver[u]]].version = ver[u]
    BY <1>6, <2>1 DEF Lists
  <2>3. a[u].version = ver[u]
    BY <2>1
  <2> QED
    BY <1>6, <2>1, <2>2, <2>3 DEF Lists
<1>8. R = {f[v] : v \in 1..N}
  <2>1. \A u \in R : \E v \in 1..N : u = f[v]
    BY <1>3, <1>7
  <2>2. ASSUME NEW v \in 1..N PROVE f[v] \in R
    <3>1. PICK u \in R : ver[u] = v
      BY <1>3
    <3> QED
      BY <1>7, <3>1
  <2> QED
    BY <2>1, <2>2
<1>9. h = f[N]
  <2>1. N \in 1..N
    BY <1>3, <1>4
  <2>2. PICK w \in R : ver[w] = N
    BY <1>3, <2>1
  <2>3. ver[h] \in 1..N
    BY <1>3, <1>4
  <2>4. w = h
    BY <1>3, <1>4, <2>2, <2>3
  <2> QED
    BY <1>7, <2>2, <2>4
<1> QED
  BY <1>2, <1>8, <1>9 DEF BeginsHistory
=============================================================================
