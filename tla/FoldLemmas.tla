----------------------------- MODULE FoldLemmas -----------------------------
(***************************************************************************)
(* Induction over naturals in the form of sets, and what FoldLeft computes: *)
(* the facts behind every loop over a sequence in the models.  A step of a  *)
(* fold is given as a function, so that the lemmas can be used for any fold.*)
(***************************************************************************)
EXTENDS Integers, Sequences, SequencesExt, FiniteSetTheorems, SequenceTheorems,
        WellFoundedInduction, TLAPS

\* A nonempty set of naturals has a least element.
LEMMA LeastNatural ==
    ASSUME NEW T \in SUBSET Nat, T # {}
    PROVE  \E m \in T : \A n \in T : m <= n
<1> DEFINE R == {ss \in Nat \X Nat : ss[1] < ss[2]}
<1>1. IsWellFoundedOn(R, Nat)
  BY NatLessThanWellFounded, Zenon DEF OpToRel
<1>2. PICK m \in T : \A n \in T : ~(<<n, m>> \in R)
  BY <1>1, WFMin, Zenon
<1>3. ASSUME NEW n \in T PROVE m <= n
  <2>1. <<n, m>> \notin R /\ <<n, m>> \in Nat \X Nat
    BY <1>2
  <2> QED
    BY <2>1
<1> QED
  BY <1>3

\* Induction from a to b.
LEMMA UpTo ==
    ASSUME NEW a \in Nat, NEW b \in Nat, NEW S, a <= b => a \in S,
           \A n \in a..b : n \in S /\ n < b => n + 1 \in S
    PROVE  a..b \subseteq S
<1> DEFINE T == {n \in a..b : n \notin S}
<1>1. SUFFICES ASSUME T # {} PROVE FALSE
  OBVIOUS
<1>2. PICK m \in T : \A n \in T : m <= n
  <2>1. T \in SUBSET Nat
    OBVIOUS
  <2> HIDE DEF T
  <2> QED
    BY <1>1, <2>1, LeastNatural
<1>3. m \in a..b /\ m \notin S
  BY <1>2
<1>4. m > a
  BY <1>3
<1>5. m - 1 \in a..b /\ m - 1 \notin T
  BY <1>2, <1>3, <1>4
<1>6. m - 1 \in S
  BY <1>5
<1>7. (m - 1) + 1 \in S
  BY <1>3, <1>5, <1>6
<1> QED
  BY <1>3, <1>7

\* A bounded nonempty set of naturals has a greatest element, which is its Max.
LEMMA MaxOfSet ==
    ASSUME NEW b \in Nat, NEW s \in SUBSET (0..b), s # {}
    PROVE  Max(s) \in s /\ \A y \in s : Max(s) >= y
<1> DEFINE T == {b - y : y \in s}
<1>1. T \in SUBSET Nat /\ T # {}
  <2>1. \A y \in s : y \in 0..b /\ b - y \in Nat
    OBVIOUS
  <2>2. PICK y \in s : TRUE
    OBVIOUS
  <2>3. b - y \in T
    OBVIOUS
  <2> QED
    BY <2>1, <2>3
<1>2. PICK m \in T : \A n \in T : m <= n
  <2> HIDE DEF T
  <2> QED
    BY <1>1, LeastNatural
<1>3. PICK x \in s : m = b - x
  BY <1>2
<1>4. \A y \in s : x >= y
  <2>1. ASSUME NEW y \in s PROVE x >= y
    <3>1. m <= b - y
      BY <1>2
    <3> QED
      BY <1>3, <3>1
  <2> QED
    BY <2>1
<1> QED
  BY <1>3, <1>4 DEF Max

\* The greatest element of 1..n, and of any part of it that has n.
LEMMA MaxIs ==
    ASSUME NEW n \in Nat, NEW s \in SUBSET (1..n), n \in s
    PROVE  Max(s) = n
<1>1. s \in SUBSET (0..n) /\ s # {}
  OBVIOUS
<1>2. Max(s) \in s /\ \A y \in s : Max(s) >= y
  BY <1>1, MaxOfSet
<1>3. Max(s) \in 1..n /\ Max(s) >= n
  BY <1>2
<1> QED
  BY <1>3

-----------------------------------------------------------------------------
(* Folds.                                                                  *)

\* A fold over q of a step F on the states A, from b.
FoldOf(A, B, F, b, n, q) ==
    F \in [A \X B -> A] /\ b \in A /\ n \in Nat /\ q \in [1..n -> B]

\* The function that FoldLeft recurses with.
FoldIter(A, F, b, n, q, it) ==
    /\ it \in [SUBSET (1..n) -> A]
    /\ \A s \in SUBSET (1..n) :
          it[s] = IF s = {} THEN b ELSE F[<<it[s \ {Max(s)}], q[Max(s)]>>]

\* The function that FoldLeft recurses with exists.
LEMMA FoldExists ==
    ASSUME NEW A, NEW B, NEW F, NEW b, NEW n, NEW q, FoldOf(A, B, F, b, n, q)
    PROVE  \E it : FoldIter(A, F, b, n, q, it)
<1> USE DEF FoldOf
<1> DEFINE Goes(it, m) ==
              \A s \in SUBSET (1..m) :
                  it[s] = IF s = {} THEN b ELSE F[<<it[s \ {Max(s)}], q[Max(s)]>>]
           S == {m \in 0..n : \E it \in [SUBSET (1..m) -> A] : Goes(it, m)}
<1>1. 0 \in S
  <2> DEFINE it == [s \in SUBSET (1..0) |-> b]
  <2>1. it \in [SUBSET (1..0) -> A] /\ Goes(it, 0)
    OBVIOUS
  <2>2. 0 \in 0..n
    OBVIOUS
  <2> HIDE DEF it, Goes
  <2> QED
    BY <2>1, <2>2
<1>2. ASSUME NEW m \in 0..n, m \in S, m < n PROVE m + 1 \in S
  <2>1. PICK it \in [SUBSET (1..m) -> A] : Goes(it, m)
    BY <1>2
  <2> DEFINE Val(s) == IF m + 1 \in s THEN F[<<it[s \ {m + 1}], q[m + 1]>>] ELSE it[s]
             ext == [s \in SUBSET (1..(m + 1)) |-> Val(s)]
  <2>2. ASSUME NEW s \in SUBSET (1..(m + 1))
        PROVE  /\ s \ {m + 1} \in SUBSET (1..m)
               /\ m + 1 \notin s => s \in SUBSET (1..m)
               /\ s # {} => Max(s) \in s
               /\ m + 1 \in s => Max(s) = m + 1
    <3>1. s \in SUBSET (0..(m + 1))
      OBVIOUS
    <3>2. s # {} => Max(s) \in s
      <4>1. m + 1 \in Nat
        OBVIOUS
      <4> QED
        BY <3>1, <4>1, MaxOfSet
    <3>3. m + 1 \in s => Max(s) = m + 1
      BY MaxIs
    <3> QED
      BY <3>2, <3>3
  <2>3. q[m + 1] \in B
    BY <1>2
  <2>4. ASSUME NEW s \in SUBSET (1..(m + 1)) PROVE Val(s) \in A
    BY <2>2, <2>3
  <2>5. ext \in [SUBSET (1..(m + 1)) -> A]
    BY <2>4
  <2>6. Goes(ext, m + 1)
    <3>1. SUFFICES ASSUME NEW s \in SUBSET (1..(m + 1))
                   PROVE  ext[s] = IF s = {} THEN b
                                   ELSE F[<<ext[s \ {Max(s)}], q[Max(s)]>>]
      OBVIOUS
    <3>2. ext[s] = Val(s)
      OBVIOUS
    <3>3. CASE m + 1 \in s
      <4>1. Max(s) = m + 1 /\ s \ {m + 1} \in SUBSET (1..m)
        BY <2>2, <3>3
      <4>2. ext[s \ {m + 1}] = it[s \ {m + 1}]
        BY <4>1
      <4> QED
        BY <3>2, <3>3, <4>1, <4>2
    <3>4. CASE m + 1 \notin s /\ s # {}
      <4>1. s \in SUBSET (1..m) /\ Max(s) \in s
        BY <2>2, <3>4
      <4>2. ext[s \ {Max(s)}] = it[s \ {Max(s)}]
        BY <3>4, <4>1
      <4>3. it[s] = F[<<it[s \ {Max(s)}], q[Max(s)]>>]
        BY <2>1, <3>4, <4>1
      <4> QED
        BY <3>2, <3>4, <4>2, <4>3
    <3>5. CASE s = {}
      <4>1. it[{}] = b
        BY <2>1
      <4> QED
        BY <3>2, <3>5, <4>1
    <3> QED
      BY <3>3, <3>4, <3>5
  <2> HIDE DEF Goes, ext
  <2> QED
    BY <1>2, <2>5, <2>6
<1>3. 0..n \subseteq S
  <2> HIDE DEF S
  <2> QED
    BY <1>1, <1>2, UpTo
<1>4. n \in S
  <2> HIDE DEF S
  <2> QED
    BY <1>3
<1> QED
  BY <1>4 DEF FoldIter

\* What FoldLeft recurses with, read off along the sequence.
LEMMA FoldPrefixes ==
    ASSUME NEW n \in Nat
    PROVE  /\ 1..0 = {} /\ 1..n \in SUBSET (1..n)
           /\ \A i \in 1..n : /\ 1..i \in SUBSET (1..n) /\ 1..i # {}
                              /\ Max(1..i) = i /\ (1..i) \ {Max(1..i)} = 1..(i - 1)
<1>1. ASSUME NEW i \in 1..n PROVE Max(1..i) = i
  BY MaxIs
<1> QED
  BY <1>1

-----------------------------------------------------------------------------
(* Both ends of a sequence.                                                *)

\* The first k elements.
LEMMA PrefixFacts ==
    ASSUME NEW S, NEW s \in Seq(S), NEW k \in 0..Len(s)
    PROVE  /\ SubSeq(s, 1, k) \in Seq(S) /\ Len(SubSeq(s, 1, k)) = k
           /\ \A i \in 1..k : SubSeq(s, 1, k)[i] = s[i]
<1>1. Len(s) \in Nat
  BY LenProperties
<1>2. \A i \in 1..k : s[i] \in S
  BY <1>1, ElementOfSeq
<1> QED
  BY <1>1, <1>2, SubSeqProperties

\* Pushing e, replacing the last element by e and popping do the same to s and
\* to s at the end of c.
EndsAlike(B, s, c, e) ==
    LET n == Len(s)
        m == Len(B)
    IN  /\ Len(c) = m + n /\ m \in Nat /\ n \in Nat
        /\ Append(c, e) = B \o Append(s, e)
        /\ n > 0 => /\ c[m + n] = s[n]
                    /\ SubSeq(c, 1, (m + n) - 1) = B \o SubSeq(s, 1, n - 1)
                    /\ [c EXCEPT ![m + n] = e] = B \o [s EXCEPT ![n] = e]

\* What is done at the end of a sequence leaves what is before it alone.
LEMMA ConcatEnd ==
    ASSUME NEW S, NEW B \in Seq(S), NEW s \in Seq(S), NEW e \in S
    PROVE  EndsAlike(B, s, B \o s, e)
<1> DEFINE n == Len(s)
           m == Len(B)
           c == B \o s
<1>1. /\ c \in Seq(S) /\ Len(c) = m + n /\ m \in Nat /\ n \in Nat
      /\ \A i \in 1..(m + n) : c[i] = IF i <= m THEN B[i] ELSE s[i - m]
  BY ConcatProperties, LenProperties
<1>2. Append(c, e) = B \o Append(s, e)
  <2> DEFINE l == Append(c, e)
             t == Append(s, e)
             r == B \o t
  <2>1. t \in Seq(S) /\ Len(t) = n + 1 /\ t[n + 1] = e /\ \A i \in 1..n : t[i] = s[i]
    BY AppendProperties
  <2> HIDE DEF c
  <2>2. l \in Seq(S) /\ Len(l) = (m + n) + 1 /\ l[(m + n) + 1] = e
        /\ \A i \in 1..(m + n) : l[i] = c[i]
    BY <1>1, AppendProperties
  <2> HIDE DEF t, l
  <2>3. /\ r \in Seq(S) /\ Len(r) = m + Len(t)
        /\ \A i \in 1..(m + Len(t)) : r[i] = IF i <= m THEN B[i] ELSE t[i - m]
    BY <2>1, ConcatProperties
  <2> HIDE DEF r
  <2>4. ASSUME NEW i \in 1..Len(l) PROVE l[i] = r[i]
    <3>1. CASE i = (m + n) + 1
      <4>1. i - m = n + 1 /\ ~(i <= m) /\ i \in 1..(m + Len(t))
        BY <1>1, <2>1, <2>2, <3>1
      <4> QED
        BY <2>1, <2>2, <2>3, <3>1, <4>1
    <3>2. CASE i # (m + n) + 1
      <4>1. i \in 1..(m + n) /\ i \in 1..(m + Len(t)) /\ (~(i <= m) => i - m \in 1..n)
        BY <1>1, <2>1, <2>2, <3>2
      <4> QED
        BY <1>1, <2>1, <2>2, <2>3, <4>1
    <3> QED
      BY <3>1, <3>2
  <2>5. Len(l) = Len(r)
    BY <1>1, <2>1, <2>2, <2>3
  <2>6. l = r
    BY <2>2, <2>3, <2>4, <2>5, SeqEqual
  <2> QED
    BY <2>6 DEF l, r, t
<1>3. ASSUME n > 0
      PROVE  c[m + n] = s[n]
  BY <1>1, <1>3
<1>4. ASSUME n > 0
      PROVE  SubSeq(c, 1, (m + n) - 1) = B \o SubSeq(s, 1, n - 1)
  <2> DEFINE l == SubSeq(c, 1, (m + n) - 1)
             t == SubSeq(s, 1, n - 1)
             r == B \o t
  <2> HIDE DEF c
  <2>1. t \in Seq(S) /\ Len(t) = n - 1 /\ \A i \in 1..(n - 1) : t[i] = s[i]
    <3>1. n - 1 \in 0..Len(s)
      BY <1>1, <1>4
    <3> QED
      BY <3>1, PrefixFacts
  <2>2. l \in Seq(S) /\ Len(l) = (m + n) - 1
        /\ \A i \in 1..((m + n) - 1) : l[i] = c[i]
    <3>1. (m + n) - 1 \in 0..Len(c)
      BY <1>1, <1>4
    <3> QED
      BY <1>1, <3>1, PrefixFacts
  <2> HIDE DEF t, l
  <2>3. /\ r \in Seq(S) /\ Len(r) = m + Len(t)
        /\ \A i \in 1..(m + Len(t)) : r[i] = IF i <= m THEN B[i] ELSE t[i - m]
    BY <2>1, ConcatProperties
  <2> HIDE DEF r
  <2>4. ASSUME NEW i \in 1..Len(l) PROVE l[i] = r[i]
    <3>1. /\ i \in 1..((m + n) - 1) /\ i \in 1..(m + n) /\ i \in 1..(m + Len(t))
          /\ (~(i <= m) => i - m \in 1..(n - 1))
      BY <1>1, <1>4, <2>1, <2>2
    <3> QED
      BY <1>1, <2>1, <2>2, <2>3, <3>1
  <2>5. Len(l) = Len(r)
    BY <1>1, <2>1, <2>2, <2>3
  <2>6. l = r
    BY <2>2, <2>3, <2>4, <2>5, SeqEqual
  <2> QED
    BY <2>6 DEF l, r, t
<1>5. ASSUME n > 0
      PROVE  [c EXCEPT ![m + n] = e] = B \o [s EXCEPT ![n] = e]
  <2> DEFINE l == [c EXCEPT ![m + n] = e]
             t == [s EXCEPT ![n] = e]
             r == B \o t
  <2> HIDE DEF c
  <2>1. t \in Seq(S) /\ Len(t) = n /\ \A i \in 1..n : t[i] = IF i = n THEN e ELSE s[i]
    BY <1>1, <1>5, ExceptSeq
  <2>2. l \in Seq(S) /\ Len(l) = m + n
        /\ \A i \in 1..(m + n) : l[i] = IF i = m + n THEN e ELSE c[i]
    <3>1. m + n \in 1..Len(c)
      BY <1>1, <1>5
    <3> HIDE DEF m, n
    <3> QED
      BY <1>1, <3>1, ExceptSeq
  <2> HIDE DEF t, l
  <2>3. /\ r \in Seq(S) /\ Len(r) = m + Len(t)
        /\ \A i \in 1..(m + Len(t)) : r[i] = IF i <= m THEN B[i] ELSE t[i - m]
    BY <2>1, ConcatProperties
  <2> HIDE DEF r
  <2>4. ASSUME NEW i \in 1..Len(l) PROVE l[i] = r[i]
    <3>1. /\ i \in 1..(m + n) /\ i \in 1..(m + Len(t))
          /\ (~(i <= m) => i - m \in 1..n) /\ (i = m + n <=> i - m = n) /\ (i <= m => i # m + n)
      BY <1>1, <1>5, <2>1, <2>2
    <3> QED
      BY <1>1, <2>1, <2>2, <2>3, <3>1
  <2>5. Len(l) = Len(r)
    BY <1>1, <2>1, <2>2, <2>3
  <2>6. l = r
    BY <2>2, <2>3, <2>4, <2>5, SeqEqual
  <2> QED
    BY <2>6 DEF l, r, t
<1> QED
  BY <1>1, <1>2, <1>3, <1>4, <1>5 DEF EndsAlike
=============================================================================
