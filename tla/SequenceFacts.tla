---------------------------- MODULE SequenceFacts ----------------------------
(***************************************************************************)
(* What the proofs need of minima and maxima, and of the two recursions    *)
(* the modules use on sequences, FoldLeft and FlattenSeq.  Both are        *)
(* functions of the library defined by recursion, over the subsets of      *)
(* DOMAIN s and over its indices; that such a function exists and is what  *)
(* its equation says has to be shown by induction.  The library's          *)
(* induction theorems take an operator as a parameter; the ones here take  *)
(* a set, and rest on the well-founded order of finite sets by inclusion.  *)
(***************************************************************************)
EXTENDS Integers, SequencesExt, FiniteSetTheorems, SequenceTheorems, TLAPS

\* A set of natural numbers has a least element: among the intervals 0..m of its
\* members m there is one with no other below it.
LEMMA LeastElement ==
  ASSUME NEW T \in SUBSET Nat, T # {}
  PROVE  \E m \in T : \A n \in T : m <= n
PROOF
<1> DEFINE R == StrictSubsetOrdering(Nat)
           F == FiniteSubsetsOf(Nat)
           U == {0..m : m \in T}
<1>1. IsWellFoundedOn(R, F)
  BY FS_StrictSubsetOrderingWellFounded
<1>2. U \subseteq F /\ U # {}
  <2>1. ASSUME NEW m \in T PROVE 0..m \in F
    <3>1. m \in Int /\ 0 \in Int
      OBVIOUS
    <3>2. IsFiniteSet(0..m)
      BY <3>1, FS_Interval
    <3> QED BY <3>2 DEF FiniteSubsetsOf
  <2> QED BY <2>1
<1>3. PICK I \in U : \A J \in U : ~ (<<J, I>> \in R)
  <2> HIDE DEF R, F, U
  <2> QED BY <1>1, <1>2, WFMin
<1>4. PICK m \in T : I = 0..m
  BY <1>3
<1>5. ASSUME NEW n \in T PROVE m <= n
  <2>1. CASE n < m
    <3>1. /\ 0..n \subseteq 0..m /\ 0..n \in U
          /\ m \in 0..m /\ m \notin 0..n
      BY <2>1
    <3>2. <<0..n, I>> \in R
      BY <3>1, <1>4 DEF StrictSubsetOrdering
    <3> QED BY <3>1, <3>2, <1>3
  <2> QED BY <2>1
<1> QED BY <1>4, <1>5

\* Induction over the natural numbers, for the membership in a set.
LEMMA NatSetInduction ==
  ASSUME NEW T, 0 \in T, \A n \in Nat : n \in T => n + 1 \in T
  PROVE  \A n \in Nat : n \in T
PROOF
<1> DEFINE F == {n \in Nat : n \notin T}
<1>1. SUFFICES ASSUME F # {} PROVE FALSE
  OBVIOUS
<1>2. PICK m \in F : \A n \in F : m <= n
  BY <1>1, LeastElement
<1>3. m - 1 \in Nat /\ m - 1 \in T
  BY <1>2
<1> QED BY <1>2, <1>3

\* Induction over sequences by their last element, for the membership in a set.
LEMMA SeqSetInduction ==
  ASSUME NEW S, NEW T, <<>> \in T,
         \A s \in Seq(S), e \in S : s \in T => Append(s, e) \in T
  PROVE  \A s \in Seq(S) : s \in T
PROOF
<1> DEFINE N == {n \in Nat : \A s \in Seq(S) : Len(s) = n => s \in T}
<1>1. 0 \in N
  BY EmptySeq
<1>2. ASSUME NEW n \in Nat, n \in N PROVE n + 1 \in N
  <2>1. ASSUME NEW s \in Seq(S), Len(s) = n + 1 PROVE s \in T
    <3>1. PICK f \in Seq(S), e \in S : s = Append(f, e)
      BY <2>1, SequenceEmptyOrAppend
    <3>2. Len(f) = n
      BY <2>1, <3>1
    <3> QED BY <1>2, <3>1, <3>2
  <2> QED BY <2>1
<1>3. \A n \in Nat : n \in N
  <2> HIDE DEF N
  <2> QED BY <1>1, <1>2, NatSetInduction
<1> QED BY <1>3, LenProperties

\* The member of a set that no other exceeds is its maximum.
LEMMA MaxIs ==
  ASSUME NEW T \in SUBSET Nat, NEW m \in T, \A n \in T : n <= m
  PROVE  Max(T) = m
PROOF
<1> DEFINE P(x) == \A y \in T : x >= y
<1>1. P(m)
  OBVIOUS
<1>2. \A x \in T : P(x) => x = m
  OBVIOUS
<1>3. Max(T) = CHOOSE x \in T : P(x)
  BY DEF Max
<1> QED BY <1>1, <1>2, <1>3

\* The member of a set that exceeds no other is its minimum.
LEMMA MinIs ==
  ASSUME NEW T \in SUBSET Nat, NEW m \in T, \A n \in T : m <= n
  PROVE  Min(T) = m
PROOF
<1> DEFINE P(x) == \A y \in T : x <= y
<1>1. P(m)
  OBVIOUS
<1>2. \A x \in T : P(x) => x = m
  OBVIOUS
<1>3. Min(T) = CHOOSE x \in T : P(x)
  BY DEF Min
<1> QED BY <1>1, <1>2, <1>3

\* The smaller of two numbers is the minimum of their set.
LEMMA MinOfTwo ==
  ASSUME NEW a \in Nat, NEW b \in Nat
  PROVE  Min({a, b}) = IF a <= b THEN a ELSE b
PROOF
<1> DEFINE T == {a, b}
           m == IF a <= b THEN a ELSE b
<1>1. T \in SUBSET Nat /\ m \in T /\ \A n \in T : m <= n
  OBVIOUS
<1>2. Min(T) = m
  <2> HIDE DEF T, m
  <2> QED BY <1>1, MinIs
<1> QED BY <1>2

-----------------------------------------------------------------------------
(***************************************************************************)
(* FoldLeft is a recursive function over the subsets of the indices 1..n   *)
(* that goes from a set to the one without its maximum.  One step of it is *)
(* a function F of what was gathered so far and an index.                  *)
(***************************************************************************)
Steps(X, n) == [X \X (1..n) -> X]

\* f is that function, on every set of indices.
IsFold(f, F, base, n) ==
  \A T \in SUBSET (1..n) :
    f[T] = IF T = {} THEN base ELSE F[<<f[T \ {Max(T)}], Max(T)>>]

\* There is such a function, by induction on the number of indices.
LEMMA FoldExists ==
  ASSUME NEW X, NEW base \in X, NEW n \in Nat, NEW F \in Steps(X, n)
  PROVE  \E f \in [SUBSET (1..n) -> X] : IsFold(f, F, base, n)
PROOF
<1> USE DEF Steps, IsFold
<1> DEFINE Folds(f, k) ==
             /\ f \in [SUBSET (1..k) -> X]
             /\ \A T \in SUBSET (1..k) :
                  f[T] = IF T = {} THEN base ELSE F[<<f[T \ {Max(T)}], Max(T)>>]
           N == {k \in Nat : k <= n => \E f : Folds(f, k)}
<1>1. 0 \in N
  <2>1. Folds([T \in SUBSET (1..0) |-> base], 0)
    OBVIOUS
  <2> HIDE DEF Folds
  <2> QED BY <2>1
<1>2. ASSUME NEW k \in Nat, k \in N PROVE k + 1 \in N
  <2>1. CASE ~(k + 1 <= n)
    BY <2>1
  <2>2. CASE k + 1 <= n
    <3>1. PICK f : Folds(f, k)
      <4> HIDE DEF Folds
      <4> QED BY <1>2, <2>2
    <3> DEFINE g == [T \in SUBSET (1..(k + 1)) |->
                       IF k + 1 \in T THEN F[<<f[T \ {k + 1}], k + 1>>] ELSE f[T]]
    <3>2. \A T \in SUBSET (1..(k + 1)) :
            /\ T \ {k + 1} \in SUBSET (1..k)
            /\ k + 1 \notin T => T \in SUBSET (1..k)
      OBVIOUS
    <3>3. g \in [SUBSET (1..(k + 1)) -> X]
      BY <2>2, <3>1, <3>2
    <3>4. ASSUME NEW T \in SUBSET (1..(k + 1))
          PROVE  g[T] = IF T = {} THEN base ELSE F[<<g[T \ {Max(T)}], Max(T)>>]
      <4>1. CASE k + 1 \in T
        <5>1. Max(T) = k + 1
          BY <4>1, MaxIs
        <5>2. g[T \ {k + 1}] = f[T \ {k + 1}]
          BY <3>2
        <5> QED BY <4>1, <5>1, <5>2
      <4>2. CASE k + 1 \notin T
        <5>1. T \in SUBSET (1..k) /\ T \ {Max(T)} \in SUBSET (1..k)
          BY <3>2, <4>2
        <5>2. g[T] = f[T] /\ g[T \ {Max(T)}] = f[T \ {Max(T)}]
          BY <4>2, <5>1
        <5> QED BY <3>1, <5>1, <5>2
      <4> QED BY <4>1, <4>2
    <3>5. Folds(g, k + 1)
      <4> HIDE DEF g
      <4> QED BY <3>3, <3>4
    <3> HIDE DEF Folds, g
    <3> QED BY <3>5
  <2> QED BY <2>1, <2>2
<1>3. n \in N
  <2> HIDE DEF N
  <2> QED BY <1>1, <1>2, NatSetInduction
<1>4. PICK f : Folds(f, n)
  <2> HIDE DEF Folds
  <2> QED BY <1>3
<1> QED BY <1>4

\* A bounded set of natural numbers that is not empty has a maximum.
LEMMA MaxOf ==
  ASSUME NEW n \in Nat, NEW T \in SUBSET (0..n), T # {}
  PROVE  Max(T) \in T /\ \A m \in T : m <= Max(T)
PROOF
<1> DEFINE U == {n - m : m \in T}
<1>1. U \in SUBSET Nat /\ U # {}
  <2>1. \A m \in T : n - m \in Nat
    OBVIOUS
  <2>2. PICK m : m \in T
    OBVIOUS
  <2>3. n - m \in U
    BY <2>2
  <2> QED BY <2>1, <2>3
<1>2. PICK u \in U : \A v \in U : u <= v
  BY <1>1, LeastElement
<1>3. PICK m \in T : u = n - m
  BY <1>2
<1>4. \A k \in T : k <= m
  <2>1. \A k \in T : n - m <= n - k
    BY <1>2, <1>3
  <2> QED BY <2>1
<1> QED BY <1>4, MaxIs

\* So has a set of indices.
LEMMA MaxIn ==
  ASSUME NEW n \in Nat, NEW T \in SUBSET (1..n), T # {}
  PROVE  Max(T) \in T /\ \A m \in T : m <= Max(T)
PROOF
<1>1. T \in SUBSET (0..n)
  OBVIOUS
<1> QED BY <1>1, MaxOf

\* The stages that matter are the sets 1..k; without its maximum 1..k is 1..(k-1).
LEMMA LastStage ==
  ASSUME NEW n \in Nat, NEW k \in 1..n
  PROVE  /\ 1..k \in SUBSET (1..n) /\ 1..k # {} /\ Max(1..k) = k
         /\ (1..k) \ {k} = 1..(k - 1)
PROOF
<1>1. Max(1..k) = k
  BY MaxIs
<1> QED BY <1>1

\* Two elements more at the end leave the others in their places.
LEMMA TwoMore ==
  ASSUME NEW S, NEW s \in Seq(S), NEW t \in Seq(S), Len(t) = 2
  PROVE  /\ s \o t \in Seq(S) /\ Len(s \o t) = Len(s) + 2
         /\ \A i \in 1..Len(s) : (s \o t)[i] = s[i]
         /\ (s \o t)[Len(s) + 1] = t[1]
PROOF
<1>1. Len(s) \in Nat
  OBVIOUS
<1>2. /\ s \o t \in Seq(S) /\ Len(s \o t) = Len(s) + 2
      /\ \A i \in 1..(Len(s) + 2) :
           (s \o t)[i] = IF i <= Len(s) THEN s[i] ELSE t[i - Len(s)]
  <2>1. /\ s \o t \in Seq(S) /\ Len(s \o t) = Len(s) + Len(t)
        /\ \A i \in 1..(Len(s) + Len(t)) :
             (s \o t)[i] = IF i <= Len(s) THEN s[i] ELSE t[i - Len(s)]
    BY ConcatProperties, Zenon
  <2> QED BY <2>1, Zenon
<1>3. Len(s) + 1 \in 1..(Len(s) + 2) /\ ~(Len(s) + 1 <= Len(s))
      /\ (Len(s) + 1) - Len(s) = 1
  BY <1>1
<1>4. \A i \in 1..Len(s) : i \in 1..(Len(s) + 2) /\ i <= Len(s)
  BY <1>1
<1> QED BY <1>2, <1>3, <1>4

\* Two folds with the same beginning and the same steps have the same result.
LEMMA SameFold ==
  ASSUME NEW f, NEW g, NEW n \in Nat, f[{}] = g[{}],
         \A k \in 1..n : f[1..(k - 1)] = g[1..(k - 1)] => f[1..k] = g[1..k]
  PROVE  f[1..n] = g[1..n]
PROOF
<1> DEFINE N == {k \in Nat : k <= n => f[1..k] = g[1..k]}
<1>1. 0 \in N
  <2>1. 1..0 = {}
    OBVIOUS
  <2> QED BY <2>1
<1>2. ASSUME NEW k \in Nat, k \in N PROVE k + 1 \in N
  <2>1. k + 1 <= n => k + 1 \in 1..n /\ (k + 1) - 1 = k
    OBVIOUS
  <2> QED BY <1>2, <2>1
<1>3. n \in N
  <2> HIDE DEF N
  <2> QED BY <1>1, <1>2, NatSetInduction
<1> QED BY <1>3

-----------------------------------------------------------------------------
(***************************************************************************)
(* FlattenSeq is a recursive function over the indices of its argument.    *)
(***************************************************************************)
\* f holds, at every index up to n, all up to there flattened.
IsFlat(f, ss, n) ==
  \A k \in 1..n : f[k] = IF k = 1 THEN ss[k] ELSE f[k - 1] \o ss[k]

\* It is well-defined, up to every index.
LEMMA FlattenExists ==
  ASSUME NEW S, NEW ss \in Seq(Seq(S)), NEW n \in Nat, n <= Len(ss)
  PROVE  \E f \in [1..n -> Seq(S)] : IsFlat(f, ss, n)
PROOF
<1> DEFINE Q == Seq(S)
           Flat(f, k) == f \in [1..k -> Q] /\ IsFlat(f, ss, k)
           N == {k \in Nat : k <= Len(ss) => \E f : Flat(f, k)}
<1>1. Len(ss) \in Nat /\ \A i \in 1..Len(ss) : ss[i] \in Q
  OBVIOUS
<1>2. \A p, q \in Q : p \o q \in Q
  OBVIOUS
<1> HIDE DEF Q
<1>3. 0 \in N
  <2>1. Flat([i \in 1..0 |-> ss[i]], 0)
    BY DEF IsFlat
  <2> HIDE DEF Flat
  <2> QED BY <2>1
<1>4. ASSUME NEW k \in Nat, k \in N PROVE k + 1 \in N
  <2>1. CASE ~(k + 1 <= Len(ss))
    BY <2>1
  <2>2. CASE k + 1 <= Len(ss)
    <3>1. PICK f : Flat(f, k)
      <4> HIDE DEF Flat
      <4> QED BY <1>1, <1>4, <2>2
    <3> DEFINE last == IF k = 0 THEN ss[1] ELSE f[k] \o ss[k + 1]
               g == [i \in 1..(k + 1) |-> IF i = k + 1 THEN last ELSE f[i]]
    <3>2. last \in Q
      BY <1>1, <1>2, <2>2, <3>1
    <3>3. g \in [1..(k + 1) -> Q]
      BY <3>1, <3>2
    <3>4. IsFlat(g, ss, k + 1)
      <4>1. ASSUME NEW i \in 1..(k + 1)
            PROVE  g[i] = IF i = 1 THEN ss[i] ELSE g[i - 1] \o ss[i]
        <5>1. CASE i = k + 1
          BY <5>1
        <5>2. CASE i # k + 1
          <6>1. i \in 1..k /\ (i # 1 => i - 1 \in 1..k)
            BY <5>2
          <6>2. f[i] = IF i = 1 THEN ss[i] ELSE f[i - 1] \o ss[i]
            BY <3>1, <6>1 DEF IsFlat
          <6> QED BY <5>2, <6>1, <6>2
        <5> QED BY <5>1, <5>2
      <4> QED BY <4>1 DEF IsFlat
    <3>5. Flat(g, k + 1)
      BY <3>3, <3>4
    <3> HIDE DEF Flat, g
    <3> QED BY <3>5
  <2> QED BY <2>1, <2>2
<1>5. n \in N
  <2> HIDE DEF N
  <2> QED BY <1>3, <1>4, NatSetInduction
<1>6. PICK f : Flat(f, n)
  <2> HIDE DEF Flat
  <2> QED BY <1>5
<1> QED BY <1>6 DEF Q

\* Whatever satisfies its equations tells what it is.
LEMMA FlattenIs ==
  ASSUME NEW S, NEW ss \in Seq(Seq(S)), ss # <<>>,
         NEW f, IsFlat(f, ss, Len(ss))
  PROVE  FlattenSeq(ss) = f[Len(ss)]
PROOF
<1> DEFINE n == Len(ss)
           Flat(h) == h = [i \in 1..n |-> IF i = 1 THEN ss[i] ELSE h[i - 1] \o ss[i]]
           g == CHOOSE h : Flat(h)
<1>1. n \in Nat \ {0}
  OBVIOUS
<1>2. \E h : Flat(h)
  <2>1. \E h \in [1..n -> Seq(S)] : IsFlat(h, ss, n)
    <3>1. n \in Nat /\ n <= Len(ss)
      BY <1>1
    <3> HIDE DEF n
    <3> QED BY <3>1, FlattenExists
  <2>2. PICK h \in [1..n -> Seq(S)] : IsFlat(h, ss, n)
    BY <2>1
  <2>3. Flat(h)
    BY <2>2 DEF IsFlat
  <2> QED BY <2>3
<1>3. Flat(g)
  <2> HIDE DEF Flat
  <2> QED BY <1>2
<1>4. FlattenSeq(ss) = g[n]
  BY <1>1 DEF FlattenSeq
<1> HIDE DEF g
<1> DEFINE M == {k \in Nat : k \in 1..n => g[k] = f[k]}
<1>5. 0 \in M
  OBVIOUS
<1>6. ASSUME NEW k \in Nat, k \in M PROVE k + 1 \in M
  <2>1. CASE k + 1 \in 1..n
    <3>1. f[k + 1] = IF k + 1 = 1 THEN ss[k + 1] ELSE f[(k + 1) - 1] \o ss[k + 1]
      BY <2>1 DEF IsFlat
    <3>2. g[k + 1] = IF k + 1 = 1 THEN ss[k + 1] ELSE g[(k + 1) - 1] \o ss[k + 1]
      BY <1>3, <2>1
    <3>3. k = 0 \/ (g[k] = f[k] /\ (k + 1) - 1 = k)
      BY <1>6, <2>1
    <3> QED BY <3>1, <3>2, <3>3
  <2> QED BY <2>1
<1>7. n \in M
  <2> HIDE DEF M, n
  <2> QED BY <1>1, <1>5, <1>6, NatSetInduction
<1> QED BY <1>1, <1>4, <1>7

\* What is flattened is a sequence of what the inner sequences have.
LEMMA FlattenType ==
  ASSUME NEW S, NEW ss \in Seq(Seq(S))
  PROVE  FlattenSeq(ss) \in Seq(S)
PROOF
<1>1. CASE ss = <<>>
  BY <1>1 DEF FlattenSeq
<1>2. CASE ss # <<>>
  <2> DEFINE n == Len(ss)
  <2>1. n \in Nat /\ n <= Len(ss) /\ n \in 1..n
    BY <1>2
  <2>2. \E f \in [1..n -> Seq(S)] : IsFlat(f, ss, n)
    <3> HIDE DEF n
    <3> QED BY <2>1, FlattenExists
  <2>3. PICK f \in [1..n -> Seq(S)] : IsFlat(f, ss, n)
    BY <2>2
  <2>4. FlattenSeq(ss) = f[n]
    BY <1>2, <2>3, FlattenIs
  <2> QED BY <2>1, <2>3, <2>4
<1> QED BY <1>1, <1>2

\* Flattening one sequence more puts that sequence at the end.
LEMMA FlattenAppend ==
  ASSUME NEW S, NEW ss \in Seq(Seq(S)), NEW s \in Seq(S)
  PROVE  FlattenSeq(Append(ss, s)) = FlattenSeq(ss) \o s
PROOF
<1> DEFINE Q == Seq(S)
           longer == Append(ss, s)
           n == Len(ss)
<1>1. /\ longer \in Seq(Q) /\ Len(longer) = n + 1 /\ longer # <<>>
      /\ n \in Nat
      /\ longer[n + 1] = s /\ \A k \in 1..n : longer[k] = ss[k]
  <2>1. ss \in Seq(Q) /\ s \in Q
    OBVIOUS
  <2> HIDE DEF Q
  <2> QED BY <2>1, AppendProperties
<1> HIDE DEF longer
<1>2. PICK g \in [1..(n + 1) -> Q] : IsFlat(g, longer, n + 1)
  <2>1. n + 1 \in Nat /\ n + 1 <= Len(longer)
    BY <1>1
  <2> QED BY <1>1, <2>1, FlattenExists
<1>3. FlattenSeq(longer) = g[n + 1]
  BY <1>1, <1>2, FlattenIs
<1>4. CASE ss = <<>>
  <2>1. n = 0 /\ FlattenSeq(ss) = <<>>
    BY <1>4 DEF FlattenSeq
  <2>2. g[n + 1] = s
    BY <1>1, <1>2, <2>1 DEF IsFlat
  <2> QED BY <1>3, <2>1, <2>2 DEF longer
<1>5. CASE ss # <<>>
  <2>1. n \in Nat \ {0}
    BY <1>5
  <2>2. IsFlat(g, ss, n)
    <3>1. \A k \in 1..n : k \in 1..(n + 1) /\ longer[k] = ss[k]
      BY <1>1
    <3> QED BY <1>2, <3>1 DEF IsFlat
  <2>3. FlattenSeq(ss) = g[n]
    BY <1>5, <2>2, FlattenIs
  <2>4. g[n + 1] = g[n] \o s
    <3>1. n + 1 \in 1..(n + 1) /\ n + 1 # 1 /\ (n + 1) - 1 = n
      BY <2>1
    <3>2. g[n + 1] = g[(n + 1) - 1] \o longer[n + 1]
      BY <1>2, <3>1 DEF IsFlat
    <3> QED BY <1>1, <3>1, <3>2
  <2> QED BY <1>3, <2>3, <2>4 DEF longer
<1> QED BY <1>4, <1>5

-----------------------------------------------------------------------------
\* A prefix agrees with the longer sequence as far as it goes.
LEMMA PrefixIs ==
  ASSUME NEW S, NEW s \in Seq(S), NEW t \in Seq(S)
  PROVE  IsPrefix(s, t) <=> Len(s) <= Len(t) /\ \A i \in 1..Len(s) : s[i] = t[i]
PROOF
<1> DEFINE n == Len(s)
<1>1. n \in Nat /\ Len(t) \in Nat /\ SubSeq(s, 1, n) = s
  BY SubSeqFull
<1>2. ASSUME n <= Len(t)
      PROVE  /\ SubSeq(t, 1, n) \in Seq(S)
             /\ Len(SubSeq(t, 1, n)) = n
             /\ \A i \in 1..n : SubSeq(t, 1, n)[i] = t[i]
  BY <1>1, <1>2
<1>3. ASSUME n <= Len(t), \A i \in 1..n : s[i] = t[i]
      PROVE  SubSeq(t, 1, n) = s
  BY <1>2, <1>3, SeqEqual
<1> QED BY <1>1, <1>2, <1>3 DEF IsPrefix

\* A suffix agrees with the end of the longer sequence.
LEMMA SuffixIs ==
  ASSUME NEW S, NEW s \in Seq(S), NEW t \in Seq(S)
  PROVE  IsSuffix(s, t) <=>
           Len(s) <= Len(t) /\ \A i \in 1..Len(s) : s[i] = t[Len(t) - Len(s) + i]
PROOF
<1> DEFINE m == Len(s)
           n == Len(t)
           sr == Reverse(s)
           tr == Reverse(t)
<1>1. m \in Nat /\ n \in Nat
  OBVIOUS
<1>2. /\ sr \in Seq(S) /\ Len(sr) = m
      /\ \A i \in 1..m : sr[i] = s[(m - i) + 1]
  <2>1. sr = [i \in 1..m |-> s[(m - i) + 1]] /\ \A i \in 1..m : (m - i) + 1 \in 1..m
    BY <1>1 DEF Reverse
  <2>2. sr \in [1..m -> S]
    BY <2>1
  <2>3. \A i \in 1..m : sr[i] = s[(m - i) + 1]
    BY <2>1
  <2> HIDE DEF sr, m
  <2> QED BY <1>1, <2>2, <2>3
<1>3. /\ tr \in Seq(S) /\ Len(tr) = n
      /\ \A i \in 1..n : tr[i] = t[(n - i) + 1]
  <2>1. tr = [i \in 1..n |-> t[(n - i) + 1]] /\ \A i \in 1..n : (n - i) + 1 \in 1..n
    BY <1>1 DEF Reverse
  <2>2. tr \in [1..n -> S]
    BY <2>1
  <2>3. \A i \in 1..n : tr[i] = t[(n - i) + 1]
    BY <2>1
  <2> HIDE DEF tr, n
  <2> QED BY <1>1, <2>2, <2>3
<1>4. IsSuffix(s, t) <=> m <= n /\ \A i \in 1..m : sr[i] = tr[i]
  <2>1. IsSuffix(s, t) <=> IsPrefix(sr, tr)
    BY DEF IsSuffix
  <2> HIDE DEF sr, tr, m, n
  <2>2. IsPrefix(sr, tr) <=> Len(sr) <= Len(tr) /\ \A i \in 1..Len(sr) : sr[i] = tr[i]
    <3>1. sr \in Seq(S) /\ tr \in Seq(S)
      BY <1>2, <1>3
    <3>2. ASSUME NEW x \in Seq(S), NEW y \in Seq(S)
          PROVE  IsPrefix(x, y) <=> Len(x) <= Len(y) /\ \A i \in 1..Len(x) : x[i] = y[i]
      BY PrefixIs
    <3> QED BY <3>1, <3>2, Zenon
  <2> QED BY <1>2, <1>3, <2>1, <2>2
<1> HIDE DEF sr, tr, m, n
<1>5. ASSUME m <= n, \A i \in 1..m : sr[i] = tr[i], NEW i \in 1..m
      PROVE  s[i] = t[n - m + i]
  <2>1. (m - i) + 1 \in 1..m /\ (m - i) + 1 \in 1..n
    BY <1>1, <1>5
  <2>2. (m - ((m - i) + 1)) + 1 = i /\ (n - ((m - i) + 1)) + 1 = n - m + i
    BY <1>1
  <2>3. sr[(m - i) + 1] = s[i] /\ tr[(m - i) + 1] = t[n - m + i]
    BY <1>2, <1>3, <2>1, <2>2
  <2> QED BY <1>5, <2>1, <2>3
<1>6. ASSUME m <= n, \A i \in 1..m : s[i] = t[n - m + i], NEW i \in 1..m
      PROVE  sr[i] = tr[i]
  <2> DEFINE j == (m - i) + 1
  <2>1. j \in 1..m /\ i \in 1..n /\ n - m + j = (n - i) + 1
    BY <1>1, <1>6
  <2>2. sr[i] = s[j] /\ tr[i] = t[(n - i) + 1]
    BY <1>2, <1>3, <2>1
  <2>3. s[j] = t[n - m + j]
    <3> HIDE DEF j
    <3> QED BY <1>6, <2>1
  <2> QED BY <2>1, <2>2, <2>3
<1> QED BY <1>4, <1>5, <1>6 DEF m, n

\* A suffix is what is left of a sequence when something is taken off its front.
LEMMA SuffixSplit ==
  ASSUME NEW S, NEW s \in Seq(S), NEW t \in Seq(S)
  PROVE  IsSuffix(s, t) <=> \E u \in Seq(S) : t = u \o s
PROOF
<1> DEFINE m == Len(s)
           n == Len(t)
<1>1. m \in Nat /\ n \in Nat
  OBVIOUS
<1>2. ASSUME NEW u \in Seq(S), t = u \o s
      PROVE  IsSuffix(s, t)
  <2>1. m <= n /\ \A i \in 1..m : s[i] = t[n - m + i]
    BY <1>2
  <2> QED BY <2>1, SuffixIs
<1>3. ASSUME IsSuffix(s, t)
      PROVE  \E u \in Seq(S) : t = u \o s
  <2> DEFINE u == SubSeq(t, 1, n - m)
  <2>1. m <= n /\ \A i \in 1..m : s[i] = t[n - m + i]
    BY <1>3, SuffixIs
  <2>2. u \in Seq(S) /\ Len(u) = n - m /\ \A i \in 1..(n - m) : u[i] = t[i]
    BY <1>1, <2>1
  <2> HIDE DEF u
  <2>3. u \o s \in Seq(S) /\ Len(u \o s) = n
        /\ \A i \in 1..n : (u \o s)[i] = t[i]
    <3>1. u \o s \in Seq(S) /\ Len(u \o s) = n
      BY <1>1, <2>1, <2>2
    <3>2. ASSUME NEW i \in 1..n PROVE (u \o s)[i] = t[i]
      <4>1. CASE i <= n - m
        BY <1>1, <2>1, <2>2, <4>1
      <4>2. CASE i > n - m
        <5>1. i - (n - m) \in 1..m /\ n - m + (i - (n - m)) = i
          BY <1>1, <2>1, <4>2
        <5>2. (u \o s)[i] = s[i - (n - m)]
          BY <1>1, <2>1, <2>2, <4>2
        <5>3. s[i - (n - m)] = t[n - m + (i - (n - m))]
          BY <2>1, <5>1
        <5> QED BY <5>1, <5>2, <5>3
      <4>3. i <= n - m \/ i > n - m
        <5> HIDE DEF m, n
        <5> QED BY <1>1
      <4> QED BY <4>1, <4>2, <4>3
    <3> QED BY <3>1, <3>2
  <2> DEFINE us == u \o s
  <2>4. us = t
    <3>1. us \in Seq(S) /\ Len(us) = Len(t) /\ \A i \in 1..Len(us) : us[i] = t[i]
      BY <2>3
    <3> HIDE DEF us
    <3> QED BY <3>1, SeqEqual
  <2> QED BY <2>2, <2>4
<1> QED BY <1>2, <1>3

=============================================================================
