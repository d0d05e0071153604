--------------------------- MODULE VersionsProofs ---------------------------
(***************************************************************************)
(* The order of versions for any parts and any number of versions: on       *)
(* versions of numerals semverLess is an order that agrees with             *)
(* CompareSemver, the scan of refreshLatest ends with a greatest version in *)
(* whatever order the rows come, and sortVersionsDesc sorts.                *)
(***************************************************************************)
EXTENDS Versions, FoldLemmas

-----------------------------------------------------------------------------
(* The order of versions.                                                  *)

\* Part i of a version of numerals as both comparisons see it: a missing part
\* is below every number.
PartKey(v, i) == IF HasPart(v, i) THEN NumberOf[v[i]] ELSE -1

\* The parts of a version.
LEMMA VersionFacts ==
    ASSUME NEW v \in AnyVersion
    PROVE  /\ v \in Seq(Part) /\ v # <<>> /\ Len(v) \in 1..MaxParts
           /\ DOMAIN v = 1..Len(v)
           /\ \A i \in 1..Len(v) : v[i] \in Part
<1>1. PICK n \in 1..MaxParts : v \in [1..n -> Part]
  BY DEF AnyVersion
<1>2. n \in Nat /\ n >= 1 /\ MaxParts \in Nat
  BY VersionsAssumption
<1>3. v \in Seq(Part) /\ Len(v) = n
  BY <1>1, <1>2
<1> QED
  BY <1>1, <1>2, <1>3

\* The parts of a version in the order of texts: a missing or empty one is
\* before all.
LEMMA RankFacts ==
    ASSUME NEW v \in AnyVersion, NEW i \in 1..MaxParts
    PROVE  TextRank(v, i) \in Nat /\ (HasPart(v, i) /\ v[i] # EmptyPart <=> TextRank(v, i) >= 1)
<1>1. CASE HasPart(v, i) /\ v[i] # EmptyPart
  <2>1. v[i] \in Part
    BY <1>1, VersionFacts, VersionsAssumption DEF HasPart
  <2>2. \E k \in DOMAIN TextOrder : TextOrder[k] = v[i]
    BY <2>1, VersionsAssumption DEF Range
  <2>3. TextRank(v, i) \in DOMAIN TextOrder
    BY <1>1, <2>2 DEF TextRank
  <2>4. DOMAIN TextOrder = 1..Len(TextOrder) /\ Len(TextOrder) \in Nat
    BY VersionsAssumption, LenProperties
  <2> QED
    BY <1>1, <2>3, <2>4
<1>2. CASE ~(HasPart(v, i) /\ v[i] # EmptyPart)
  BY <1>2 DEF TextRank
<1> QED
  BY <1>1, <1>2

\* No version is less than itself.
LEMMA LessIrreflexive ==
    ASSUME NEW v \in AnyVersion
    PROVE  ~SemverLess(v, v)
<1>1. SUFFICES ASSUME NEW i \in 1..MaxParts, PartLess(v, v, i) PROVE FALSE
  BY DEF SemverLess
<1>2. CASE IsNumber(v, i)
  BY <1>1, <1>2, VersionsAssumption DEF PartLess, IsNumber
<1>3. CASE ~IsNumber(v, i)
  BY <1>1, <1>3, RankFacts DEF PartLess
<1> QED
  BY <1>2, <1>3

\* The parts of versions of numerals compare as their keys.
LEMMA KeysDecide ==
    ASSUME NEW a \in AnyVersion, NEW b \in AnyVersion, Numeric(a), Numeric(b),
           NEW i \in 1..MaxParts
    PROVE  /\ PartKey(a, i) \in Int /\ PartKey(b, i) \in Int
           /\ PartLess(a, b, i) <=> PartKey(a, i) < PartKey(b, i)
           /\ PartTies(a, b, i) <=> PartKey(a, i) = PartKey(b, i)
<1> DEFINE ra == TextRank(a, i)
           rb == TextRank(b, i)
<1>1. /\ ra \in Nat /\ (HasPart(a, i) <=> ra >= 1)
      /\ rb \in Nat /\ (HasPart(b, i) <=> rb >= 1)
  <2>1. ASSUME NEW v \in AnyVersion, Numeric(v), HasPart(v, i) PROVE v[i] # EmptyPart
    <3>1. i \in DOMAIN v
      BY <2>1, VersionFacts, VersionsAssumption DEF HasPart
    <3> QED
      BY <2>1, <3>1, VersionsAssumption DEF Numeric, IsNumber
  <2> QED
    BY <2>1, RankFacts
<1>2. ASSUME NEW v \in AnyVersion, Numeric(v), HasPart(v, i)
      PROVE  IsNumber(v, i) /\ NumberOf[v[i]] \in Int /\ NumberOf[v[i]] >= 0
  <2>1. i \in DOMAIN v
    BY <1>2, VersionFacts, VersionsAssumption DEF HasPart
  <2>2. IsNumber(v, i) /\ NumberOf[v[i]] >= 0
    BY <1>2, <2>1 DEF Numeric
  <2> QED
    BY <2>2, VersionsAssumption DEF IsNumber
<1> HIDE DEF ra, rb
<1>3. CASE HasPart(a, i) /\ HasPart(b, i)
  BY <1>2, <1>3 DEF PartKey, PartLess, PartTies
<1>4. CASE HasPart(a, i) /\ ~HasPart(b, i)
  <2>1. ~IsNumber(b, i)
    BY <1>4 DEF IsNumber
  <2> QED
    BY <1>1, <1>2, <1>4, <2>1 DEF PartKey, PartLess, PartTies, ra, rb
<1>5. CASE ~HasPart(a, i) /\ HasPart(b, i)
  <2>1. ~IsNumber(a, i)
    BY <1>5 DEF IsNumber
  <2> QED
    BY <1>1, <1>2, <1>5, <2>1 DEF PartKey, PartLess, PartTies, ra, rb
<1>6. CASE ~HasPart(a, i) /\ ~HasPart(b, i)
  <2>1. ~IsNumber(a, i) /\ ra = 0 /\ rb = 0
    BY <1>1, <1>6 DEF IsNumber
  <2> QED
    BY <1>1, <1>6, <2>1 DEF PartKey, PartLess, PartTies, ra, rb
<1> QED
  BY <1>3, <1>4, <1>5, <1>6

\* semverLess on versions of numerals: the first key that differs decides.
KeyLess(a, b) ==
    \E i \in 1..MaxParts : /\ PartKey(a, i) < PartKey(b, i)
                           /\ \A j \in 1..(i - 1) : PartKey(a, j) = PartKey(b, j)

\* The keys decide what semverLess says of versions of numerals.
LEMMA NumericLess ==
    ASSUME NEW a \in AnyVersion, NEW b \in AnyVersion, Numeric(a), Numeric(b)
    PROVE  SemverLess(a, b) <=> KeyLess(a, b)
<1>1. ASSUME NEW i \in 1..MaxParts
      PROVE  /\ PartLess(a, b, i) <=> PartKey(a, i) < PartKey(b, i)
             /\ PartTies(a, b, i) <=> PartKey(a, i) = PartKey(b, i)
  BY KeysDecide
<1>2. ASSUME NEW i \in 1..MaxParts, NEW j \in 1..(i - 1) PROVE j \in 1..MaxParts
  BY VersionsAssumption
<1>3. ASSUME NEW i \in 1..MaxParts
      PROVE  (\A j \in 1..(i - 1) : PartTies(a, b, j)) <=>
             (\A j \in 1..(i - 1) : PartKey(a, j) = PartKey(b, j))
  BY <1>1, <1>2
<1> QED
  BY <1>1, <1>3, Zenon DEF SemverLess, KeyLess

\* A place where the keys of two versions differ is not before the first one.
LEMMA FirstDifference ==
    ASSUME NEW a \in AnyVersion, NEW b \in AnyVersion, NEW i \in 1..MaxParts,
           PartKey(a, i) # PartKey(b, i)
    PROVE  \E k \in 1..i : /\ PartKey(a, k) # PartKey(b, k)
                           /\ \A j \in 1..(k - 1) : PartKey(a, j) = PartKey(b, j)
<1> DEFINE T == {k \in 1..i : PartKey(a, k) # PartKey(b, k)}
<1>1. T \in SUBSET Nat /\ T # {}
  <2>1. i \in 1..i
    BY VersionsAssumption
  <2> QED
    BY <2>1
<1>2. PICK k \in T : \A n \in T : k <= n
  <2> HIDE DEF T
  <2> QED
    BY <1>1, LeastNatural
<1>3. k \in 1..i /\ PartKey(a, k) # PartKey(b, k)
  BY <1>2
<1>4. ASSUME NEW j \in 1..(k - 1) PROVE PartKey(a, j) = PartKey(b, j)
  <2>1. j \in 1..i /\ ~(k <= j)
    BY <1>3, VersionsAssumption
  <2> QED
    BY <1>2, <2>1
<1> QED
  BY <1>3, <1>4

\* semverLess orders versions of numerals.
LEMMA NumericOrdered ==
    ASSUME NEW V \in SUBSET AnyVersion, \A v \in V : Numeric(v)
    PROVE  Ordered(V)
<1>1. ASSUME NEW a \in V, NEW b \in V, NEW c \in V, KeyLess(a, b), KeyLess(b, c)
      PROVE  KeyLess(a, c)
  <2>1. PICK i \in 1..MaxParts : /\ PartKey(a, i) < PartKey(b, i)
                                 /\ \A j \in 1..(i - 1) : PartKey(a, j) = PartKey(b, j)
    BY <1>1 DEF KeyLess
  <2>2. PICK k \in 1..MaxParts : /\ PartKey(b, k) < PartKey(c, k)
                                 /\ \A j \in 1..(k - 1) : PartKey(b, j) = PartKey(c, j)
    BY <1>1 DEF KeyLess
  <2>3. ASSUME NEW j \in 1..MaxParts
        PROVE  PartKey(a, j) \in Int /\ PartKey(b, j) \in Int /\ PartKey(c, j) \in Int
    BY KeysDecide
  <2>4. PICK m \in 1..MaxParts : (m = i \/ m = k) /\ m <= i /\ m <= k
    BY VersionsAssumption
  <2>5. PartKey(a, m) < PartKey(c, m)
    <3>1. m = i /\ i < k => i \in 1..(k - 1)
      BY VersionsAssumption
    <3>2. m = k /\ k < i => k \in 1..(i - 1)
      BY VersionsAssumption
    <3>3. CASE i = k
      BY <2>1, <2>2, <2>3, <2>4, <3>3
    <3>4. CASE m = i /\ i < k
      BY <2>1, <2>2, <3>1, <3>4
    <3>5. CASE m = k /\ k < i
      BY <2>1, <2>2, <3>2, <3>5
    <3>6. i = k \/ (m = i /\ i < k) \/ (m = k /\ k < i)
      BY <2>4, VersionsAssumption
    <3> QED
      BY <3>3, <3>4, <3>5, <3>6
  <2>6. ASSUME NEW j \in 1..(m - 1) PROVE PartKey(a, j) = PartKey(c, j)
    <3>1. j \in 1..(i - 1) /\ j \in 1..(k - 1)
      BY <2>4, VersionsAssumption
    <3> QED
      BY <2>1, <2>2, <3>1
  <2> QED
    BY <2>5, <2>6 DEF KeyLess
<1>2. ASSUME NEW a \in V, NEW b \in V, NEW c \in V, KeyLess(a, c)
      PROVE  KeyLess(a, b) \/ KeyLess(b, c)
  <2>1. PICK i \in 1..MaxParts : /\ PartKey(a, i) < PartKey(c, i)
                                 /\ \A j \in 1..(i - 1) : PartKey(a, j) = PartKey(c, j)
    BY <1>2 DEF KeyLess
  <2>2. ASSUME NEW j \in 1..MaxParts
        PROVE  PartKey(a, j) \in Int /\ PartKey(b, j) \in Int /\ PartKey(c, j) \in Int
    BY KeysDecide
  <2>3. CASE PartKey(a, i) = PartKey(b, i) /\ \A j \in 1..(i - 1) : PartKey(a, j) = PartKey(b, j)
    <3>1. PartKey(b, i) < PartKey(c, i) /\ \A j \in 1..(i - 1) : PartKey(b, j) = PartKey(c, j)
      BY <2>1, <2>3
    <3> QED
      BY <3>1 DEF KeyLess
  <2>4. ASSUME NEW n \in 1..i, PartKey(a, n) # PartKey(b, n)
        PROVE  KeyLess(a, b) \/ KeyLess(b, c)
    <3>1. n \in 1..MaxParts
      BY VersionsAssumption
    <3>2. PICK k \in 1..n : /\ PartKey(a, k) # PartKey(b, k)
                            /\ \A j \in 1..(k - 1) : PartKey(a, j) = PartKey(b, j)
      BY <2>4, <3>1, FirstDifference
    <3>3. k \in 1..MaxParts /\ k \in 1..i /\ (k # i => k \in 1..(i - 1))
      BY <3>1, VersionsAssumption
    <3>4. CASE PartKey(a, k) < PartKey(b, k)
      BY <3>2, <3>3, <3>4 DEF KeyLess
    <3>5. CASE PartKey(b, k) < PartKey(a, k)
      <4>1. PartKey(b, k) < PartKey(c, k)
        <5>1. CASE k = i
          BY <2>1, <2>2, <3>5, <5>1
        <5>2. CASE k # i
          BY <2>1, <3>3, <3>5, <5>2
        <5> QED
          BY <5>1, <5>2
      <4>2. ASSUME NEW j \in 1..(k - 1) PROVE PartKey(b, j) = PartKey(c, j)
        <5>1. j \in 1..(i - 1)
          BY <3>3, VersionsAssumption
        <5> QED
          BY <2>1, <3>2, <5>1
      <4> QED
        BY <3>3, <4>1, <4>2 DEF KeyLess
    <3> QED
      BY <2>2, <3>2, <3>3, <3>4, <3>5
  <2>5. i \in 1..i /\ \A j \in 1..(i - 1) : j \in 1..i
    BY VersionsAssumption
  <2> QED
    BY <2>3, <2>4, <2>5
<1>3. ASSUME NEW a \in V, NEW b \in V PROVE SemverLess(a, b) <=> KeyLess(a, b)
  BY NumericLess
<1> QED
  BY <1>1, <1>2, <1>3 DEF Ordered

\* On versions of numerals CompareSemver never says that a is older where
\* semverLess does not.
LEMMA ComparesAlike ==
    ASSUME NEW a \in AnyVersion, NEW b \in AnyVersion, Numeric(a), Numeric(b),
           ~SemverLess(a, b)
    PROVE  CompareSemver(a, b) >= 0
<1> DEFINE diff == {i \in 1..MaxParts : Number(a, i) # Number(b, i)}
<1>1. CASE diff = {}
  BY <1>1 DEF CompareSemver
<1>2. CASE diff # {}
  <2>1. PICK i \in diff : \A n \in diff : i <= n
    <3>1. diff \in SUBSET Nat
      OBVIOUS
    <3> HIDE DEF diff
    <3> QED
      BY <1>2, <3>1, LeastNatural
  <2>2. Min(diff) \in diff /\ \A n \in diff : Min(diff) <= n
    <3> HIDE DEF diff
    <3> QED
      BY <2>1 DEF Min
  <2>3. i = Min(diff) /\ i \in 1..MaxParts
    BY <2>1, <2>2, VersionsAssumption
  <2>4. SUFFICES ASSUME Number(a, i) < Number(b, i) PROVE FALSE
    <3> HIDE DEF diff
    <3>1. CompareSemver(a, b) = IF Number(a, i) < Number(b, i) THEN -1 ELSE 1
      BY <1>2, <2>3 DEF CompareSemver, diff
    <3> QED
      BY <3>1
  <2>5. ASSUME NEW v \in AnyVersion, Numeric(v), NEW k \in 1..MaxParts
        PROVE  /\ HasPart(v, k) => PartKey(v, k) = Number(v, k) /\ Number(v, k) \in Nat
               /\ ~HasPart(v, k) => PartKey(v, k) = -1 /\ Number(v, k) = 0
    <3>1. HasPart(v, k) => k \in DOMAIN v
      BY VersionFacts, VersionsAssumption DEF HasPart
    <3>2. HasPart(v, k) => NumberOf[v[k]] \in Int /\ NumberOf[v[k]] >= 0
      BY <2>5, <3>1, VersionsAssumption DEF Numeric, IsNumber
    <3> QED
      BY <3>2 DEF PartKey, Number
  <2>6. HasPart(b, i) /\ PartKey(a, i) < PartKey(b, i)
    BY <2>3, <2>4, <2>5
  <2>7. PICK k \in 1..i : /\ PartKey(a, k) # PartKey(b, k)
                          /\ \A j \in 1..(k - 1) : PartKey(a, j) = PartKey(b, j)
    <3>1. PartKey(a, i) # PartKey(b, i)
      BY <2>3, <2>6, KeysDecide
    <3> QED
      BY <2>3, <3>1, FirstDifference
  <2>8. k \in 1..MaxParts
    BY <2>3, VersionsAssumption
  <2>9. PartKey(a, k) < PartKey(b, k)
    <3>1. CASE k = i
      BY <2>6, <3>1
    <3>2. CASE k # i
      <4>1. Number(a, k) = Number(b, k)
        BY <2>1, <2>3, <2>8, <3>2
      <4>2. HasPart(b, k)
        BY <2>3, <2>6, VersionFacts, VersionsAssumption DEF HasPart
      <4>3. ~HasPart(a, k)
        BY <2>5, <2>7, <2>8, <4>1, <4>2
      <4> QED
        BY <2>5, <2>8, <4>2, <4>3
    <3> QED
      BY <3>1, <3>2
  <2> QED
    BY <2>7, <2>8, <2>9, NumericLess DEF KeyLess
<1> QED
  BY <1>1, <1>2

-----------------------------------------------------------------------------
(* The scan of refreshLatest.                                              *)

\* One row of the scan.
Better(best, v) == IF best = <<>> \/ SemverLess(best, v) THEN v ELSE best

\* The versions the scan holds, row after row.
IsScan(V, rows, t) ==
    /\ t \in [0..Len(rows) -> V \cup {<<>>}]
    /\ t[0] = <<>> /\ t[Len(rows)] = Scanned(rows)
    /\ \A i \in 1..Len(rows) : t[i] = Better(t[i - 1], rows[i])

\* There are such versions.
LEMMA ScanTrace ==
    ASSUME NEW V, NEW rows \in Seq(V)
    PROVE  \E t : IsScan(V, rows, t)
<1> DEFINE n == Len(rows)
           A == V \cup {<<>>}
           D == SUBSET (1..n)
           Rec(it, s) == IF s = {} THEN <<>>
                         ELSE Better(it[s \ {Max(s)}], rows[Max(s)])
           iter == CHOOSE it : it = [s \in D |-> Rec(it, s)]
           F == [p \in A \X V |-> Better(p[1], p[2])]
<1>1. n \in Nat /\ DOMAIN rows = 1..n /\ rows \in [1..n -> V]
  BY LenProperties
<1>2. \A b \in A, v \in V : Better(b, v) \in A
  BY DEF Better
<1>3. F \in [A \X V -> A] /\ <<>> \in A
  BY <1>2
<1>4. \E it : it = [s \in D |-> Rec(it, s)]
  <2> HIDE DEF F, n, A
  <2>1. FoldOf(A, V, F, <<>>, n, rows)
    BY <1>1, <1>3 DEF FoldOf
  <2>2. PICK it : FoldIter(A, F, <<>>, n, rows, it)
    BY <2>1, FoldExists
  <2>3. /\ it \in [D -> A]
        /\ \A s \in D : it[s] = IF s = {} THEN <<>>
                                ELSE F[<<it[s \ {Max(s)}], rows[Max(s)]>>]
    BY <2>2 DEF FoldIter
  <2>4. ASSUME NEW s \in D, s # {}
        PROVE  F[<<it[s \ {Max(s)}], rows[Max(s)]>>] = Better(it[s \ {Max(s)}], rows[Max(s)])
    <3>1. Max(s) \in s
      <4>1. s \in SUBSET (0..n)
        BY <1>1
      <4> QED
        BY <1>1, <2>4, <4>1, MaxOfSet
    <3>2. it[s \ {Max(s)}] \in A /\ rows[Max(s)] \in V
      BY <1>1, <2>3, <3>1
    <3> QED
      BY <3>2 DEF F
  <2>5. \A s \in D : it[s] = Rec(it, s)
    BY <2>3, <2>4
  <2>6. it = [s \in D |-> Rec(it, s)]
    <3> HIDE DEF Rec
    <3> QED
      BY <2>3, <2>5
  <2> QED
    BY <2>6
<1>5. iter = [s \in D |-> Rec(iter, s)]
  <2> HIDE DEF Rec
  <2> QED
    BY <1>4
<1>6. Scanned(rows) = iter[1..n]
  BY <1>1 DEF Scanned, Better, FoldLeft, MapThenFoldSet
<1> HIDE DEF iter
<1> DEFINE t == [i \in 0..n |-> iter[1..i]]
<1>7. t[0] = <<>>
  <2>1. 1..0 = {} /\ {} \in D /\ 0 \in 0..n
    BY <1>1
  <2> HIDE DEF n, D
  <2> QED
    BY <1>5, <2>1
<1>8. ASSUME NEW i \in 1..n PROVE t[i] = Better(t[i - 1], rows[i])
  <2>1. /\ 1..i \in D /\ 1..i # {} /\ Max(1..i) = i /\ (1..i) \ {Max(1..i)} = 1..(i - 1)
        /\ i \in 0..n /\ i - 1 \in 0..n
    BY <1>1, FoldPrefixes
  <2>2. iter[1..i] = Better(iter[1..(i - 1)], rows[i])
    <3> HIDE DEF n, D
    <3> QED
      BY <1>5, <2>1
  <2> QED
    BY <2>1, <2>2
<1>9. t \in [0..n -> A]
  <2> DEFINE S == {i \in 0..n : t[i] \in A}
  <2>1. 0 \in S
    BY <1>1, <1>3, <1>7
  <2>2. ASSUME NEW i \in 0..n, i \in S, i < n PROVE i + 1 \in S
    <3>1. i + 1 \in 1..n /\ i + 1 \in 0..n /\ t[i] \in A /\ (i + 1) - 1 = i
      BY <1>1, <2>2
    <3> HIDE DEF t, n, A
    <3>2. t[i + 1] = Better(t[i], rows[i + 1])
      BY <1>8, <3>1
    <3>3. t[i + 1] \in A
      BY <1>1, <1>2, <3>1, <3>2
    <3> QED
      BY <3>1, <3>3
  <2>3. 0..n \subseteq S
    <3> HIDE DEF S, n
    <3> QED
      BY <1>1, <2>1, <2>2, UpTo
  <2> HIDE DEF n, A
  <2> QED
    BY <2>3
<1>10. t[n] = Scanned(rows)
  BY <1>1, <1>6
<1> HIDE DEF t
<1> QED
  BY <1>7, <1>8, <1>9, <1>10 DEF IsScan

\* The scan of all the versions of V, in whatever order, ends with one that no
\* other exceeds.
LEMMA ScanFindsNewest ==
    ASSUME NEW V \in SUBSET AnyVersion, IsFiniteSet(V), V # {},
           NEW rows \in SetToSeqs(V)
    PROVE  /\ Scanned(rows) \in V
           /\ Ordered(V) => \A v \in V : ~SemverLess(Scanned(rows), v)
<1> DEFINE n == Cardinality(V)
<1>1. n \in Nat
  BY FS_CardinalityType
<1>2. rows \in [1..n -> V] /\ \A i, j \in 1..n : i # j => rows[i] # rows[j]
  BY DEF SetToSeqs
<1>3. rows \in Injection(1..n, V)
  BY <1>2 DEF Injection, IsInjective
<1>4. \A v \in V : \E i \in 1..n : rows[i] = v
  <2>1. Cardinality(1..n) = n
    BY <1>1, FS_Interval
  <2>2. rows \in Surjection(1..n, V)
    BY <1>3, <2>1, FS_Injection
  <2> QED
    BY <2>2 DEF Surjection
<1> HIDE DEF n
<1>5. rows \in Seq(V) /\ Len(rows) = n
  BY <1>1, <1>2
<1>6. PICK t : IsScan(V, rows, t)
  BY <1>5, ScanTrace
<1>7. /\ t[0] = <<>> /\ t[n] = Scanned(rows)
      /\ \A i \in 1..n : t[i] = Better(t[i - 1], rows[i])
  BY <1>5, <1>6 DEF IsScan
<1>8. \A v \in V : v # <<>> /\ ~SemverLess(v, v)
  BY VersionFacts, LessIrreflexive
<1> DEFINE S == {k \in 1..n : /\ t[k] \in V
                              /\ Ordered(V) => \A i \in 1..k : ~SemverLess(t[k], rows[i])}
<1>9. 1 <= n => 1 \in S
  <2>1. SUFFICES ASSUME 1 <= n PROVE 1 \in S
    OBVIOUS
  <2>2. 1 \in 1..n /\ 1 - 1 = 0
    BY <1>1, <2>1
  <2>3. t[1] = rows[1] /\ rows[1] \in V
    BY <1>2, <1>7, <2>2 DEF Better
  <2>4. \A i \in 1..1 : i = 1
    OBVIOUS
  <2> QED
    BY <1>8, <2>2, <2>3, <2>4
<1>10. ASSUME NEW k \in 1..n, k \in S, k < n PROVE k + 1 \in S
  <2>1. k + 1 \in 1..n /\ (k + 1) - 1 = k /\ \A i \in 1..(k + 1) : i \in 1..k \/ i = k + 1
    BY <1>1, <1>10
  <2>2. t[k] \in V /\ (Ordered(V) => \A i \in 1..k : ~SemverLess(t[k], rows[i]))
    BY <1>10
  <2>3. t[k + 1] = Better(t[k], rows[k + 1]) /\ rows[k + 1] \in V
    BY <1>2, <1>7, <2>1
  <2>4. \A i \in 1..k : i \in 1..n /\ rows[i] \in V
    BY <1>1, <1>2
  <2>5. CASE SemverLess(t[k], rows[k + 1])
    <3>1. t[k + 1] = rows[k + 1]
      BY <2>3, <2>5 DEF Better
    <3>2. ASSUME Ordered(V), NEW i \in 1..(k + 1) PROVE ~SemverLess(rows[k + 1], rows[i])
      <4>1. CASE i = k + 1
        BY <1>8, <2>3, <4>1
      <4>2. CASE i \in 1..k
        BY <2>2, <2>3, <2>4, <2>5, <3>2, <4>2, Zenon DEF Ordered
      <4> QED
        BY <2>1, <4>1, <4>2
    <3> QED
      BY <2>1, <2>3, <3>1, <3>2
  <2>6. CASE ~SemverLess(t[k], rows[k + 1])
    <3>1. t[k + 1] = t[k]
      BY <1>8, <2>2, <2>3, <2>6 DEF Better
    <3>2. ASSUME Ordered(V), NEW i \in 1..(k + 1) PROVE ~SemverLess(t[k], rows[i])
      BY <2>1, <2>2, <2>6, <3>2
    <3> QED
      BY <2>1, <2>2, <3>1, <3>2
  <2> QED
    BY <2>5, <2>6
<1>11. 1..n \subseteq S
  <2>1. 1 \in Nat
    OBVIOUS
  <2> HIDE DEF S
  <2> QED
    BY <1>1, <1>9, <1>10, <2>1, UpTo
<1>12. n \in 1..n
  BY <1>1, <1>4
<1>13. n \in S
  <2> HIDE DEF S
  <2> QED
    BY <1>11, <1>12
<1>14. ASSUME Ordered(V), NEW v \in V PROVE ~SemverLess(Scanned(rows), v)
  BY <1>4, <1>7, <1>13, <1>14
<1> QED
  BY <1>7, <1>13, <1>14

-----------------------------------------------------------------------------
(* The insertion sort of sortVersionsDesc.                                 *)

\* r is s with v at place k.
Inserted(s, k, v, r) ==
    /\ Len(r) = Len(s) + 1
    /\ \A i \in 1..(Len(s) + 1) :
          r[i] = IF i < k THEN s[i] ELSE IF i = k THEN v ELSE s[i - 1]

\* InsertAt moves what is behind by one place.
LEMMA InsertFacts ==
    ASSUME NEW V, NEW s \in Seq(V), NEW v \in V, NEW k \in 1..(Len(s) + 1)
    PROVE  InsertAt(s, k, v) \in Seq(V) /\ Inserted(s, k, v, InsertAt(s, k, v))
<1> DEFINE n == Len(s)
           h == SubSeq(s, 1, k - 1)
           e == <<v>>
           g == SubSeq(s, k, n)
           l == h \o e
           r == l \o g
<1>1. n \in Nat /\ \A i \in 1..n : s[i] \in V
  BY LenProperties, ElementOfSeq
<1>2. h \in Seq(V) /\ Len(h) = k - 1 /\ \A i \in 1..(k - 1) : h[i] = s[i]
  <2>1. k - 1 \in 0..Len(s)
    BY <1>1
  <2> QED
    BY <2>1, PrefixFacts
<1>3. g \in Seq(V) /\ Len(g) = (n - k) + 1 /\ \A i \in 1..((n - k) + 1) : g[i] = s[(k + i) - 1]
  <2>1. CASE k = n + 1
    BY <1>1, <2>1, SubSeqProperties, EmptySeq
  <2>2. CASE k # n + 1
    <3>1. k \in 1..n /\ n \in 1..n
      BY <1>1, <2>2
    <3> QED
      BY <1>1, <3>1, SubSeqProperties
  <2> QED
    BY <2>1, <2>2
<1>4. e \in Seq(V) /\ Len(e) = 1 /\ e[1] = v
  OBVIOUS
<1> HIDE DEF h, e, g
<1>5. /\ l \in Seq(V) /\ Len(l) = Len(h) + Len(e)
      /\ \A i \in 1..(Len(h) + Len(e)) : l[i] = IF i <= Len(h) THEN h[i] ELSE e[i - Len(h)]
  BY <1>2, <1>4, ConcatProperties
<1> HIDE DEF l
<1>6. /\ r \in Seq(V) /\ Len(r) = Len(l) + Len(g)
      /\ \A i \in 1..(Len(l) + Len(g)) : r[i] = IF i <= Len(l) THEN l[i] ELSE g[i - Len(l)]
  <2>1. l \in Seq(V) /\ g \in Seq(V)
    BY <1>3, <1>5
  <2> QED
    BY <2>1, ConcatProperties
<1> HIDE DEF r
<1>7. Len(l) = k /\ Len(r) = n + 1 /\ Len(l) + Len(g) = n + 1 /\ Len(h) + Len(e) = k
  BY <1>1, <1>2, <1>3, <1>4, <1>5, <1>6
<1>8. ASSUME NEW i \in 1..(n + 1)
      PROVE  r[i] = IF i < k THEN s[i] ELSE IF i = k THEN v ELSE s[i - 1]
  <2>1. CASE i < k
    <3>1. i \in 1..(k - 1) /\ i \in 1..k /\ i <= k /\ i <= k - 1
      BY <1>1, <2>1
    <3>2. r[i] = l[i]
      BY <1>6, <1>7, <3>1
    <3>3. l[i] = h[i]
      BY <1>2, <1>5, <1>7, <3>1
    <3> QED
      BY <1>2, <2>1, <3>1, <3>2, <3>3
  <2>2. CASE i = k
    <3>1. i - (k - 1) = 1 /\ ~(i <= k - 1) /\ i \in 1..k /\ i <= k
      BY <1>1, <2>2
    <3> QED
      BY <1>2, <1>4, <1>5, <1>6, <1>7, <2>2, <3>1
  <2>3. CASE i > k
    <3>1. i - k \in 1..((n - k) + 1) /\ (k + (i - k)) - 1 = i - 1 /\ ~(i <= k)
      BY <1>1, <2>3
    <3> QED
      <4>1. r[i] = g[i - k]
        BY <1>6, <1>7, <3>1
      <4> QED
        BY <1>3, <2>3, <3>1, <4>1
  <2> QED
    BY <2>1, <2>2, <2>3
<1>9. InsertAt(s, k, v) = r
  BY DEF InsertAt, r, l, h, e, g
<1>10. Inserted(s, k, v, r)
  BY <1>7, <1>8 DEF Inserted
<1> QED
  BY <1>6, <1>9, <1>10

\* There is a place for every version: the sort stops where it should.
LEMMA PlaceFacts ==
    ASSUME NEW V, NEW s \in Seq(V), NEW v
    PROVE  /\ Place(s, v) \in 1..(Len(s) + 1)
           /\ \A i \in Place(s, v)..Len(s) : SemverLess(s[i], v)
           /\ Place(s, v) > 1 => ~SemverLess(s[Place(s, v) - 1], v)
<1> DEFINE n == Len(s)
           T == {k \in 1..(n + 1) : \A i \in k..n : SemverLess(s[i], v)}
<1>1. n \in Nat
  BY LenProperties
<1>2. n + 1 \in T /\ T \in SUBSET Nat
  BY <1>1
<1>3. PICK k \in T : \A m \in T : k <= m
  <2> HIDE DEF T
  <2> QED
    BY <1>2, LeastNatural
<1>4. k \in 1..(n + 1) /\ \A i \in k..n : SemverLess(s[i], v)
  BY <1>3
<1>5. ASSUME k > 1 PROVE ~SemverLess(s[k - 1], v)
  <2>1. SUFFICES ASSUME SemverLess(s[k - 1], v) PROVE FALSE
    OBVIOUS
  <2>2. k - 1 \in 1..(n + 1) /\ ~(k <= k - 1) /\ \A i \in (k - 1)..n : i = k - 1 \/ i \in k..n
    BY <1>1, <1>4, <1>5
  <2>3. k - 1 \in T
    BY <1>4, <2>1, <2>2
  <2> QED
    BY <1>3, <2>2, <2>3
<1> HIDE DEF T
<1> QED
  BY <1>4, <1>5 DEF Place

\* One row of the sort.
Insert(s, v) == InsertAt(s, Place(s, v), v)

\* The lists the sort goes through, row after row.
IsSort(V, rows, t) ==
    /\ t \in [0..Len(rows) -> Seq(V)]
    /\ t[0] = <<>> /\ t[Len(rows)] = SortVersionsDesc(rows)
    /\ \A i \in 1..Len(rows) : t[i] = Insert(t[i - 1], rows[i])

\* A row that is inserted leaves a list of versions.
LEMMA InsertType ==
    ASSUME NEW V, NEW s \in Seq(V), NEW v \in V
    PROVE  Insert(s, v) \in Seq(V) /\ Inserted(s, Place(s, v), v, Insert(s, v))
<1>1. Place(s, v) \in 1..(Len(s) + 1)
  BY PlaceFacts
<1> QED
  BY <1>1, InsertFacts DEF Insert

\* There are such lists.
LEMMA SortTrace ==
    ASSUME NEW V, NEW rows \in Seq(V)
    PROVE  \E t : IsSort(V, rows, t)
<1> DEFINE n == Len(rows)
           A == Seq(V)
           D == SUBSET (1..n)
           Rec(it, s) == IF s = {} THEN <<>>
                         ELSE Insert(it[s \ {Max(s)}], rows[Max(s)])
           iter == CHOOSE it : it = [s \in D |-> Rec(it, s)]
           F == [p \in A \X V |-> Insert(p[1], p[2])]
<1>1. n \in Nat /\ DOMAIN rows = 1..n /\ rows \in [1..n -> V]
  BY LenProperties
<1>2. \A b \in A, v \in V : Insert(b, v) \in A
  BY InsertType
<1>3. F \in [A \X V -> A] /\ <<>> \in A
  BY <1>2, EmptySeq
<1>4. \E it : it = [s \in D |-> Rec(it, s)]
  <2> HIDE DEF F, n, A
  <2>1. FoldOf(A, V, F, <<>>, n, rows)
    BY <1>1, <1>3 DEF FoldOf
  <2>2. PICK it : FoldIter(A, F, <<>>, n, rows, it)
    BY <2>1, FoldExists
  <2>3. /\ it \in [D -> A]
        /\ \A s \in D : it[s] = IF s = {} THEN <<>>
                                ELSE F[<<it[s \ {Max(s)}], rows[Max(s)]>>]
    BY <2>2 DEF FoldIter
  <2>4. ASSUME NEW s \in D, s # {}
        PROVE  F[<<it[s \ {Max(s)}], rows[Max(s)]>>] = Insert(it[s \ {Max(s)}], rows[Max(s)])
    <3>1. Max(s) \in s
      <4>1. s \in SUBSET (0..n)
        BY <1>1
      <4> QED
        BY <1>1, <2>4, <4>1, MaxOfSet
    <3>2. it[s \ {Max(s)}] \in A /\ rows[Max(s)] \in V
      BY <1>1, <2>3, <3>1
    <3> QED
      BY <3>2 DEF F
  <2>5. \A s \in D : it[s] = Rec(it, s)
    BY <2>3, <2>4
  <2>6. it = [s \in D |-> Rec(it, s)]
    <3> HIDE DEF Rec
    <3> QED
      BY <2>3, <2>5
  <2> QED
    BY <2>6
<1>5. iter = [s \in D |-> Rec(iter, s)]
  <2> HIDE DEF Rec
  <2> QED
    BY <1>4
<1>6. SortVersionsDesc(rows) = iter[1..n]
  BY <1>1 DEF SortVersionsDesc, Insert, FoldLeft, MapThenFoldSet
<1> HIDE DEF iter
<1> DEFINE t == [i \in 0..n |-> iter[1..i]]
<1>7. t[0] = <<>>
  <2>1. 1..0 = {} /\ {} \in D /\ 0 \in 0..n
    BY <1>1
  <2> HIDE DEF n, D
  <2> QED
    BY <1>5, <2>1
<1>8. ASSUME NEW i \in 1..n PROVE t[i] = Insert(t[i - 1], rows[i])
  <2>1. /\ 1..i \in D /\ 1..i # {} /\ Max(1..i) = i /\ (1..i) \ {Max(1..i)} = 1..(i - 1)
        /\ i \in 0..n /\ i - 1 \in 0..n
    BY <1>1, FoldPrefixes
  <2>2. iter[1..i] = Insert(iter[1..(i - 1)], rows[i])
    <3> HIDE DEF n, D
    <3> QED
      BY <1>5, <2>1
  <2> QED
    BY <2>1, <2>2
<1>9. t \in [0..n -> A]
  <2> DEFINE S == {i \in 0..n : t[i] \in A}
  <2>1. 0 \in S
    <3> HIDE DEF t, A
    <3>1. 0 \in 0..n
      BY <1>1
    <3>2. t[0] \in A
      BY <1>3, <1>7
    <3> QED
      BY <3>1, <3>2
  <2>2. ASSUME NEW i \in 0..n, i \in S, i < n PROVE i + 1 \in S
    <3>1. i + 1 \in 1..n /\ i + 1 \in 0..n /\ t[i] \in A /\ (i + 1) - 1 = i
      BY <1>1, <2>2
    <3> HIDE DEF t, n, A
    <3>2. t[i + 1] = Insert(t[i], rows[i + 1])
      BY <1>8, <3>1
    <3>3. t[i + 1] \in A
      BY <1>1, <1>2, <3>1, <3>2
    <3> QED
      BY <3>1, <3>3
  <2>3. 0..n \subseteq S
    <3> HIDE DEF S, n
    <3> QED
      BY <1>1, <2>1, <2>2, UpTo
  <2> HIDE DEF n, A
  <2> QED
    BY <2>3
<1>10. t[n] = SortVersionsDesc(rows)
  BY <1>1, <1>6
<1> HIDE DEF t
<1> QED
  BY <1>7, <1>8, <1>9, <1>10 DEF IsSort

\* From newer to older, up to ties.
SortedDesc(s) == \A i, j \in 1..Len(s) : i < j => ~SemverLess(s[i], s[j])

\* A row is inserted where it belongs.
LEMMA InsertStep ==
    ASSUME NEW V \in SUBSET AnyVersion, NEW s \in Seq(V), NEW v \in V
    PROVE  /\ Len(Insert(s, v)) = Len(s) + 1
           /\ Range(Insert(s, v)) = Range(s) \cup {v}
           /\ Ordered(V) /\ SortedDesc(s) => SortedDesc(Insert(s, v))
<1> DEFINE n == Len(s)
           k == Place(s, v)
           r == Insert(s, v)
<1>1. /\ k \in 1..(n + 1) /\ n \in Nat
      /\ \A i \in k..n : SemverLess(s[i], v)
      /\ k > 1 => ~SemverLess(s[k - 1], v)
  BY PlaceFacts, LenProperties
<1>2. /\ r \in Seq(V) /\ Len(r) = n + 1
      /\ \A i \in 1..(n + 1) : r[i] = IF i < k THEN s[i] ELSE IF i = k THEN v ELSE s[i - 1]
  BY InsertType DEF Inserted
<1> HIDE DEF r, k
<1>3. DOMAIN r = 1..(n + 1) /\ DOMAIN s = 1..n /\ \A i \in 1..n : s[i] \in V
  BY <1>1, <1>2, LenProperties, ElementOfSeq
<1>4. Range(r) \subseteq Range(s) \cup {v}
  <2>1. ASSUME NEW i \in 1..(n + 1) PROVE r[i] \in Range(s) \cup {v}
    <3>1. (i < k => i \in 1..n) /\ (~(i < k) /\ i # k => i - 1 \in 1..n)
      BY <1>1
    <3> QED
      BY <1>2, <1>3, <3>1 DEF Range
  <2> QED
    BY <1>3, <2>1 DEF Range
<1>5. Range(s) \cup {v} \subseteq Range(r)
  <2>1. ASSUME NEW i \in 1..n PROVE s[i] \in Range(r)
    <3>1. CASE i < k
      <4>1. i \in 1..(n + 1)
        BY <1>1
      <4>2. r[i] = s[i]
        BY <1>2, <3>1, <4>1
      <4> QED
        BY <1>3, <4>1, <4>2 DEF Range
    <3>2. CASE ~(i < k)
      <4>1. i + 1 \in 1..(n + 1) /\ ~(i + 1 < k) /\ i + 1 # k /\ (i + 1) - 1 = i
        BY <1>1, <3>2
      <4>2. r[i + 1] = s[i]
        BY <1>2, <4>1
      <4> QED
        BY <1>3, <4>1, <4>2 DEF Range
    <3> QED
      BY <3>1, <3>2
  <2>2. v \in Range(r)
    <3>1. r[k] = v /\ k \in 1..(n + 1)
      BY <1>1, <1>2
    <3> QED
      BY <1>3, <3>1 DEF Range
  <2> QED
    BY <1>3, <2>1, <2>2 DEF Range
<1>6. ASSUME Ordered(V), SortedDesc(s) PROVE SortedDesc(r)
  <2>1. ASSUME NEW i \in 1..n, NEW j \in 1..n, i < j PROVE ~SemverLess(s[i], s[j])
    BY <1>6, <2>1 DEF SortedDesc
  <2>2. ASSUME NEW i \in 1..n, i < k PROVE ~SemverLess(s[i], v)
    <3>1. k > 1 /\ k - 1 \in 1..n /\ (i = k - 1 \/ i < k - 1)
      BY <1>1, <2>2
    <3>2. ~SemverLess(s[k - 1], v)
      BY <1>1, <3>1
    <3>3. CASE i = k - 1
      BY <3>2, <3>3
    <3>4. CASE i < k - 1
      <4>1. ~SemverLess(s[i], s[k - 1])
        BY <2>1, <3>1, <3>4
      <4>2. s[i] \in V /\ s[k - 1] \in V
        BY <1>3, <3>1
      <4> QED
        BY <1>6, <3>2, <4>1, <4>2, Zenon DEF Ordered
    <3> QED
      BY <3>1, <3>3, <3>4
  <2>3. ASSUME NEW j \in 1..n, k <= j PROVE ~SemverLess(v, s[j])
    <3>1. SemverLess(s[j], v) /\ s[j] \in V /\ s[j] \in AnyVersion
      <4>1. j \in k..n
        BY <1>1, <2>3
      <4> QED
        BY <1>1, <1>3, <4>1
    <3>2. ~SemverLess(s[j], s[j])
      BY <3>1, LessIrreflexive
    <3> QED
      BY <1>6, <3>1, <3>2, Zenon DEF Ordered
  <2>4. ASSUME NEW i \in 1..(n + 1), NEW j \in 1..(n + 1), i < j
        PROVE  ~SemverLess(r[i], r[j])
    <3>1. CASE j < k
      <4>1. i < k /\ i \in 1..n /\ j \in 1..n
        BY <1>1, <2>4, <3>1
      <4> QED
        BY <1>2, <2>1, <2>4, <3>1, <4>1
    <3>2. CASE j = k
      <4>1. i < k /\ i \in 1..n /\ ~(j < k)
        BY <1>1, <2>4, <3>2
      <4> QED
        BY <1>2, <2>2, <3>2, <4>1
    <3>3. CASE j > k
      <4>1. j - 1 \in 1..n /\ ~(j < k) /\ j # k /\ k <= j - 1
        BY <1>1, <3>3
      <4>2. r[j] = s[j - 1]
        BY <1>2, <4>1
      <4>3. CASE i < k
        <5>1. i \in 1..n /\ i < j - 1
          BY <1>1, <3>3, <4>3
        <5>2. r[i] = s[i]
          BY <1>2, <4>3
        <5> QED
          BY <2>1, <4>1, <4>2, <5>1, <5>2
      <4>4. CASE i = k
        <5>1. r[i] = v
          BY <1>2, <4>4
        <5> QED
          BY <2>3, <4>1, <4>2, <5>1
      <4>5. CASE i > k
        <5>1. i - 1 \in 1..n /\ i - 1 < j - 1 /\ ~(i < k) /\ i # k
          BY <1>1, <2>4, <4>5
        <5>2. r[i] = s[i - 1]
          BY <1>2, <5>1
        <5> QED
          BY <2>1, <4>1, <4>2, <5>1, <5>2
      <4> QED
        BY <1>1, <4>3, <4>4, <4>5
    <3> QED
      BY <1>1, <3>1, <3>2, <3>3
  <2> QED
    BY <1>2, <2>4 DEF SortedDesc
<1> QED
  BY <1>2, <1>4, <1>5, <1>6 DEF r

\* The sort keeps every version and, where semverLess orders them, puts them
\* from newer to older.
LEMMA SortFacts ==
    ASSUME NEW V \in SUBSET AnyVersion, NEW rows \in Seq(V)
    PROVE  /\ SortVersionsDesc(rows) \in Seq(V)
           /\ Len(SortVersionsDesc(rows)) = Len(rows)
           /\ Range(SortVersionsDesc(rows)) = Range(rows)
           /\ Ordered(V) => SortedDesc(SortVersionsDesc(rows))
<1> DEFINE n == Len(rows)
<1>1. n \in Nat /\ DOMAIN rows = 1..n /\ \A i \in 1..n : rows[i] \in V
  BY LenProperties, ElementOfSeq
<1>2. PICK t : IsSort(V, rows, t)
  BY SortTrace
<1>3. /\ t \in [0..n -> Seq(V)] /\ t[0] = <<>> /\ t[n] = SortVersionsDesc(rows)
      /\ \A i \in 1..n : t[i] = Insert(t[i - 1], rows[i])
  BY <1>2 DEF IsSort
<1> DEFINE S == {k \in 0..n : /\ Len(t[k]) = k /\ Range(t[k]) = {rows[i] : i \in 1..k}
                              /\ Ordered(V) => SortedDesc(t[k])}
<1>4. 0 \in S
  <2>1. Range(t[0]) = {} /\ {rows[i] : i \in 1..0} = {}
    BY <1>3 DEF Range
  <2> QED
    BY <1>1, <1>3, <2>1 DEF SortedDesc
<1>5. ASSUME NEW k \in 0..n, k \in S, k < n PROVE k + 1 \in S
  <2>1. k + 1 \in 1..n /\ k + 1 \in 0..n /\ (k + 1) - 1 = k
    BY <1>1, <1>5
  <2>2. t[k] \in Seq(V) /\ rows[k + 1] \in V /\ t[k + 1] = Insert(t[k], rows[k + 1])
    BY <1>1, <1>3, <2>1
  <2>3. Len(t[k]) = k /\ Range(t[k]) = {rows[i] : i \in 1..k} /\ (Ordered(V) => SortedDesc(t[k]))
    BY <1>5
  <2>4. /\ Len(t[k + 1]) = k + 1
        /\ Range(t[k + 1]) = Range(t[k]) \cup {rows[k + 1]}
        /\ Ordered(V) => SortedDesc(t[k + 1])
    BY <2>2, <2>3, InsertStep
  <2>5. {rows[i] : i \in 1..k} \cup {rows[k + 1]} = {rows[i] : i \in 1..(k + 1)}
    <3>1. \A i \in 1..(k + 1) : i \in 1..k \/ i = k + 1
      OBVIOUS
    <3>2. k + 1 \in 1..(k + 1) /\ \A i \in 1..k : i \in 1..(k + 1)
      OBVIOUS
    <3> QED
      BY <3>1, <3>2
  <2> QED
    BY <2>1, <2>3, <2>4, <2>5
<1>6. 0..n \subseteq S
  <2>1. 0 \in Nat
    OBVIOUS
  <2> HIDE DEF S, n
  <2> QED
    BY <1>1, <1>4, <1>5, <2>1, UpTo
<1>7. n \in S
  <2> HIDE DEF S
  <2> QED
    BY <1>1, <1>6
<1>8. Range(rows) = {rows[i] : i \in 1..n}
  BY <1>1 DEF Range
<1>9. n \in 0..n
  BY <1>1
<1> QED
  BY <1>3, <1>7, <1>8, <1>9

-----------------------------------------------------------------------------
(* Versions.                                                               *)

\* What the market keeps of an asset: latest_version is one of the versions
\* pushed and, where semverLess orders them, none of the others exceeds it.
VersionsInv ==
    /\ pushed \in Seq(AnyVersion)
    /\ pushed # <<>> => /\ latest \in Range(pushed)
                        /\ Ordered(Range(pushed)) =>
                              \A v \in Range(pushed) : ~SemverLess(latest, v)

\* The versions of a list are finitely many.
LEMMA RangeFacts ==
    ASSUME NEW s \in Seq(AnyVersion)
    PROVE  /\ Range(s) \in SUBSET AnyVersion /\ s \in Seq(Range(s)) /\ IsFiniteSet(Range(s))
           /\ s # <<>> => s[1] \in Range(s)
<1> DEFINE n == Len(s)
<1>1. n \in Nat /\ DOMAIN s = 1..n /\ \A i \in 1..n : s[i] \in AnyVersion
  BY LenProperties, ElementOfSeq
<1>2. Range(s) \in SUBSET AnyVersion
  BY <1>1 DEF Range
<1>3. s \in [1..n -> Range(s)]
  BY <1>1 DEF Range
<1>4. s \in Surjection(1..n, Range(s))
  BY <1>1, <1>3 DEF Surjection, Range
<1>5. IsFiniteSet(1..n)
  BY <1>1, FS_Interval
<1>6. IsFiniteSet(Range(s))
  BY <1>4, <1>5, FS_Surjection
<1>7. s \in Seq(Range(s))
  BY <1>1, <1>3
<1>8. ASSUME s # <<>> PROVE s[1] \in Range(s)
  <2>1. n # 0
    BY <1>8, EmptySeq
  <2>2. 1 \in DOMAIN s
    BY <1>1, <2>1
  <2> QED
    BY <2>2 DEF Range
<1> QED
  BY <1>2, <1>6, <1>7, <1>8

\* A push keeps it: the scan starts afresh over all the rows.
LEMMA VersionsStep ==
    ASSUME VersionsInv, [VersionsNext]_versionsVars
    PROVE  VersionsInv'
<1>1. CASE UNCHANGED versionsVars
  BY <1>1 DEF VersionsInv, versionsVars
<1>2. CASE VersionsNext
  <2>1. PICK v \in AnyVersion : PushNew(v)
    BY <1>2 DEF VersionsNext
  <2>2. PICK rows \in SetToSeqs(Range(pushed')) : latest' = Scanned(rows)
    BY <2>1 DEF PushNew
  <2>3. pushed' \in Seq(AnyVersion) /\ pushed' # <<>>
    BY <2>1, AppendProperties DEF PushNew, VersionsInv
  <2>4. PICK V : V = Range(pushed')
    OBVIOUS
  <2>5. V \in SUBSET AnyVersion /\ IsFiniteSet(V) /\ V # {}
    BY <2>3, <2>4, RangeFacts
  <2>6. /\ Scanned(rows) \in V
        /\ Ordered(V) => \A u \in V : ~SemverLess(Scanned(rows), u)
    BY <2>2, <2>4, <2>5, ScanFindsNewest
  <2> QED
    BY <2>2, <2>3, <2>4, <2>6 DEF VersionsInv
<1> QED
  BY <1>1, <1>2

\* VersionsInv is an invariant of the pushes (PutAsset, refreshLatest).
THEOREM VersionsInvariant == VersionsSpec => []VersionsInv
<1>1. VersionsInit => VersionsInv
  BY EmptySeq DEF VersionsInit, VersionsInv
<1> QED
  BY <1>1, VersionsStep, PTL DEF VersionsSpec

\* Where semverLess orders the versions of an asset, the version list holds
\* every version and starts with latest_version or one that ties with it.
THEOREM ListStartsWithLatestCorrect == VersionsSpec => []ListStartsWithLatest
<1>1. ASSUME VersionsInv PROVE ListStartsWithLatest
  <2> DEFINE list == SortVersionsDesc(pushed)
  <2>1. PICK p \in Seq(AnyVersion) : p = pushed
    BY <1>1 DEF VersionsInv
  <2>2. PICK V : V = Range(p)
    OBVIOUS
  <2>3. V \in SUBSET AnyVersion /\ p \in Seq(V)
    BY <2>2, RangeFacts
  <2>4. /\ list \in Seq(V) /\ Len(list) = Len(p) /\ Range(list) = V
        /\ Ordered(V) => SortedDesc(list)
    <3>1. /\ SortVersionsDesc(p) \in Seq(V) /\ Len(SortVersionsDesc(p)) = Len(p)
          /\ Range(SortVersionsDesc(p)) = Range(p)
          /\ Ordered(V) => SortedDesc(SortVersionsDesc(p))
      BY <2>3, SortFacts
    <3> QED
      BY <2>1, <2>2, <3>1
  <2> HIDE DEF list
  <2>5. ASSUME Ordered(V), p # <<>>
        PROVE  /\ ~SemverLess(list[1], latest) /\ ~SemverLess(latest, list[1])
               /\ latest \in V
    <3>1. latest \in V /\ \A v \in V : ~SemverLess(latest, v)
      BY <1>1, <2>1, <2>2, <2>5 DEF VersionsInv
    <3>2. Len(list) \in Nat /\ Len(list) # 0 /\ DOMAIN list = 1..Len(list)
      BY <2>1, <2>4, <2>5, LenProperties, EmptySeq
    <3>3. PICK j \in 1..Len(list) : list[j] = latest
      BY <2>4, <3>1, <3>2 DEF Range
    <3>4. 1 \in 1..Len(list)
      BY <3>2
    <3>5. list[1] \in V
      BY <2>4, <3>4, ElementOfSeq
    <3>6. ~SemverLess(list[1], latest)
      <4>1. CASE j = 1
        BY <2>3, <3>3, <3>5, <4>1, LessIrreflexive
      <4>2. CASE 1 < j
        BY <2>4, <2>5, <3>3, <3>4, <4>2 DEF SortedDesc
      <4> QED
        BY <3>2, <4>1, <4>2
    <3> QED
      BY <3>1, <3>5, <3>6
  <2> QED
    BY <2>1, <2>2, <2>4, <2>5, Zenon DEF ListStartsWithLatest, Tied, list
<1> QED
  BY <1>1, VersionsInvariant, PTL

\* For versions of numerals latest_version is the newest by CompareSemver, and
\* the version list goes from newer to older by it.
THEOREM LatestIsNewestCorrect == VersionsSpec => []LatestIsNewest
<1>1. ASSUME VersionsInv PROVE LatestIsNewest
  <2> DEFINE list == SortVersionsDesc(pushed)
  <2>1. PICK p \in Seq(AnyVersion) : p = pushed
    BY <1>1 DEF VersionsInv
  <2>2. PICK V : V = Range(p)
    OBVIOUS
  <2>3. V \in SUBSET AnyVersion /\ p \in Seq(V)
    BY <2>2, RangeFacts
  <2>4. SUFFICES ASSUME \A v \in V : Numeric(v)
                 PROVE  /\ \A v \in V : CompareSemver(latest, v) >= 0
                        /\ \A i, j \in DOMAIN list : i < j => CompareSemver(list[i], list[j]) >= 0
    BY <2>1, <2>2 DEF LatestIsNewest
  <2>5. Ordered(V)
    BY <2>3, <2>4, NumericOrdered
  <2>6. list \in Seq(V) /\ SortedDesc(list)
    <3>1. SortVersionsDesc(p) \in Seq(V) /\ SortedDesc(SortVersionsDesc(p))
      BY <2>3, <2>5, SortFacts
    <3> QED
      BY <2>1, <3>1
  <2> HIDE DEF list
  <2>7. ASSUME NEW v \in V PROVE CompareSemver(latest, v) >= 0
    <3>1. p # <<>>
      <4>1. p = <<>> => Range(p) = {}
        BY DEF Range
      <4> QED
        BY <2>2, <4>1
    <3>2. latest \in V /\ ~SemverLess(latest, v)
      BY <1>1, <2>1, <2>2, <2>5, <3>1 DEF VersionsInv
    <3> QED
      BY <2>3, <2>4, <3>2, ComparesAlike
  <2>8. ASSUME NEW i \in DOMAIN list, NEW j \in DOMAIN list, i < j
        PROVE  CompareSemver(list[i], list[j]) >= 0
    <3>1. i \in 1..Len(list) /\ j \in 1..Len(list)
      BY <2>6, LenProperties
    <3>2. list[i] \in V /\ list[j] \in V
      BY <2>6, <3>1, ElementOfSeq
    <3>3. ~SemverLess(list[i], list[j])
      BY <2>6, <2>8, <3>1 DEF SortedDesc
    <3> QED
      BY <2>3, <2>4, <3>2, <3>3, ComparesAlike
  <2> QED
    BY <2>7, <2>8
<1> QED
  BY <1>1, VersionsInvariant, PTL
=============================================================================
