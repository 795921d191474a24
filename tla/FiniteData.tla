----------------------------- MODULE FiniteData -----------------------------
(***************************************************************************)
(* Lemmas about data that the proofs share: induction over the naturals    *)
(* and over finite sets, with the property to prove given as a set, the    *)
(* sum of a function's values, and rankings of a finite set.               *)
(***************************************************************************)
EXTENDS Integers, Sequences, FiniteSets, Functions, SequencesExt,
        FiniteSetTheorems, WellFoundedInduction, TLAPS

(***************************************************************************)
(* Induction.                                                              *)
(***************************************************************************)
\* A set of naturals that is not empty has a least element.
LEMMA LeastNatural ==
  ASSUME NEW S, S \subseteq Nat, S # {}
  PROVE  \E m \in S : \A n \in S : m <= n
<1> DEFINE R == OpToRel(<, Nat)
<1>1. IsWellFoundedOn(R, Nat)
  BY NatLessThanWellFounded, Zenon
<1>2. \A x, y \in Nat : x < y => <<x, y>> \in R
  BY DEF OpToRel
<1> HIDE DEF R
<1>3. PICK m \in S : \A n \in S : ~(<<n, m>> \in R)
  BY <1>1, WFMin
<1>4. ASSUME NEW n \in S
      PROVE  m <= n
  <2>1. m \in Nat /\ n \in Nat
    OBVIOUS
  <2>2. ~(n < m)
    BY <1>2, <1>3, <2>1
  <2> QED
    BY <2>1, <2>2
<1> QED
  BY <1>3, <1>4

\* A set with zero and with the successor of each of its naturals has all of them.
LEMMA NaturalsByInduction ==
  ASSUME NEW T, 0 \in T, \A n \in Nat : n \in T => n + 1 \in T
  PROVE  Nat \subseteq T
<1> DEFINE S == Nat \ T
<1> SUFFICES ASSUME S # {}
             PROVE  FALSE
  OBVIOUS
<1>1. PICK m \in S : \A n \in S : m <= n
  <2>1. S \subseteq Nat
    OBVIOUS
  <2> HIDE DEF S
  <2> QED
    BY <2>1, LeastNatural
<1>2. m - 1 \in Nat /\ ~(m <= m - 1) /\ (m - 1) + 1 = m
  <2>1. m \in Nat /\ m # 0
    OBVIOUS
  <2> QED
    BY <2>1
<1> QED
  BY <1>1, <1>2

\* So does a set of finite sets with the empty set and, for each of its sets, the sets
\* that have one more element of S.
LEMMA FiniteSetsByInduction ==
  ASSUME NEW S, IsFiniteSet(S), NEW T, {} \in T,
         \A s \in SUBSET S : s \in T => \A x \in S \ s : s \cup {x} \in T
  PROVE  S \in T
<1> DEFINE N == {n \in Nat : \A s \in SUBSET S : Cardinality(s) = n => s \in T}
<1>1. 0 \in N
  <2>1. ASSUME NEW s \in SUBSET S, Cardinality(s) = 0
        PROVE  s \in T
    BY <2>1, FS_Subset, FS_EmptySet
  <2> QED
    BY <2>1
<1>2. ASSUME NEW n \in Nat, n \in N
      PROVE  n + 1 \in N
  <2>1. ASSUME NEW s \in SUBSET S, Cardinality(s) = n + 1
        PROVE  s \in T
    <3>1. IsFiniteSet(s)
      BY FS_Subset
    <3>2. PICK x \in s : TRUE
      BY <2>1, <3>1, FS_EmptySet
    <3>3. Cardinality(s \ {x}) = n
      <4>1. Cardinality(s \ {x}) = Cardinality(s) - 1
        BY <3>1, <3>2, FS_RemoveElement
      <4> QED
        BY <2>1, <4>1
    <3>4. s \ {x} \in T /\ x \in S \ (s \ {x}) /\ (s \ {x}) \cup {x} = s
      BY <1>2, <3>2, <3>3
    <3>5. s \ {x} \in SUBSET S
      OBVIOUS
    <3> QED
      BY <3>4, <3>5
  <2> QED
    BY <2>1
<1>3. Cardinality(S) \in N
  <2> HIDE DEF N
  <2>1. Nat \subseteq N
    BY <1>1, <1>2, NaturalsByInduction
  <2> QED
    BY <2>1, FS_CardinalityType
<1> QED
  BY <1>3

-----------------------------------------------------------------------------
(***************************************************************************)
(* Sums.  SumFunction takes the elements of the domain in an order of its  *)
(* own; what follows does not depend on it.                                *)
(***************************************************************************)
First(s) == CHOOSE x \in s : TRUE
SumStep(f, g, s) == IF s = {} THEN 0 ELSE f[First(s)] + g[s \ {First(s)}]

\* The recursion of a sum has a solution, so the sum is its value at the domain.
LEMMA SumRecursion ==
  ASSUME NEW f, IsFiniteSet(DOMAIN f)
  PROVE  \E g : /\ SumFunction(f) = g[DOMAIN f]
                /\ \A s \in SUBSET DOMAIN f : g[s] = SumStep(f, g, s)
<1> DEFINE D == DOMAIN f
<1> DEFINE Solves(g, n) == \A s \in SUBSET D : Cardinality(s) <= n => g[s] = SumStep(f, g, s)
<1> DEFINE N == {n \in Nat : \E g : Solves(g, n)}
<1>1. ASSUME NEW s \in SUBSET D
      PROVE  /\ IsFiniteSet(s) /\ Cardinality(s) \in Nat /\ Cardinality(s) <= Cardinality(D)
             /\ s # {} => /\ First(s) \in s /\ s \ {First(s)} \in SUBSET D
                          /\ Cardinality(s \ {First(s)}) = Cardinality(s) - 1
             /\ s = {} => Cardinality(s) = 0
  <2>1. IsFiniteSet(s) /\ Cardinality(s) \in Nat /\ Cardinality(s) <= Cardinality(D)
    BY FS_Subset, FS_CardinalityType
  <2>2. s # {} => First(s) \in s
    BY Zenon DEF First
  <2> QED
    BY <2>1, <2>2, FS_RemoveElement, FS_EmptySet
<1>2. 0 \in N
  <2> DEFINE g == [s \in SUBSET D |-> 0]
  <2>1. ASSUME NEW s \in SUBSET D, Cardinality(s) <= 0
        PROVE  g[s] = SumStep(f, g, s)
    <3>1. s = {}
      <4>1. IsFiniteSet(s) /\ Cardinality(s) \in Nat
        BY <1>1
      <4>2. Cardinality(s) = 0
        BY <2>1, <4>1
      <4> QED
        BY <4>1, <4>2, FS_EmptySet
    <3> QED
      BY <3>1 DEF SumStep
  <2>2. Solves(g, 0)
    BY <2>1
  <2> QED
    BY <2>2
<1>3. ASSUME NEW n \in Nat, n \in N
      PROVE  n + 1 \in N
  <2>1. PICK g : Solves(g, n)
    BY <1>3
  <2> DEFINE h == [s \in SUBSET D |-> IF Cardinality(s) <= n THEN g[s] ELSE SumStep(f, g, s)]
  <2>2. ASSUME NEW s \in SUBSET D, Cardinality(s) <= n + 1
        PROVE  h[s] = SumStep(f, h, s)
    <3>1. h[s] = SumStep(f, g, s)
      BY <2>1
    <3>2. CASE s = {}
      BY <3>1, <3>2 DEF SumStep
    <3>3. CASE s # {}
      <4>1. s \ {First(s)} \in SUBSET D /\ Cardinality(s \ {First(s)}) <= n
        BY <1>1, <2>2, <3>3
      <4>2. h[s \ {First(s)}] = g[s \ {First(s)}]
        BY <4>1
      <4> HIDE DEF h
      <4> QED
        BY <3>1, <3>3, <4>2 DEF SumStep
    <3> QED
      BY <3>2, <3>3
  <2> HIDE DEF h
  <2>3. Solves(h, n + 1)
    BY <2>2
  <2> QED
    BY <2>3
<1>4. Cardinality(D) \in N
  <2> HIDE DEF N
  <2>1. Nat \subseteq N
    BY <1>2, <1>3, NaturalsByInduction
  <2> QED
    BY <2>1, FS_CardinalityType
<1>5. PICK g : \A s \in SUBSET D : g[s] = SumStep(f, g, s)
  BY <1>1, <1>4
<1> DEFINE Solution(k) == k = [s \in SUBSET D |-> SumStep(f, k, s)]
<1> DEFINE k == [s \in SUBSET D |-> g[s]]
<1>6. Solution(k)
  <2>1. ASSUME NEW s \in SUBSET D
        PROVE  k[s] = SumStep(f, k, s)
    <3>1. s \ {First(s)} \in SUBSET D
      OBVIOUS
    <3> QED
      BY <1>5, <3>1 DEF SumStep
  <2> QED
    BY <2>1
<1>7. Solution(CHOOSE j : Solution(j))
  <2> HIDE DEF Solution
  <2> QED
    BY <1>6, Zenon
<1>8. SumFunction(f) = (CHOOSE j : Solution(j))[D]
  BY Zenon DEF SumFunction, SumFunctionOnSet, FoldFunctionOnSet, MapThenFoldSet, SumStep, First
<1> DEFINE j == CHOOSE i : Solution(i)
<1>9. SumFunction(f) = j[D] /\ j = [s \in SUBSET D |-> SumStep(f, j, s)]
  BY <1>7, <1>8
<1> HIDE DEF j
<1> QED
  BY <1>9

\* A sum of naturals is one, and zero only if all of them are.
LEMMA SumOfNaturals ==
  ASSUME NEW f, IsFiniteSet(DOMAIN f), \A x \in DOMAIN f : f[x] \in Nat
  PROVE  /\ SumFunction(f) \in Nat
         /\ (\A x \in DOMAIN f : f[x] = 0) => SumFunction(f) = 0
         /\ (\E x \in DOMAIN f : f[x] > 0) => SumFunction(f) > 0
<1>1. PICK g : /\ SumFunction(f) = g[DOMAIN f]
               /\ \A s \in SUBSET DOMAIN f : g[s] = SumStep(f, g, s)
  BY SumRecursion
<1> DEFINE Sums(s) == /\ g[s] \in Nat
                      /\ (\A x \in s : f[x] = 0) => g[s] = 0
                      /\ (\E x \in s : f[x] > 0) => g[s] > 0
<1> DEFINE N == {n \in Nat : \A s \in SUBSET DOMAIN f : Cardinality(s) = n => Sums(s)}
<1>2. ASSUME NEW s \in SUBSET DOMAIN f
      PROVE  /\ IsFiniteSet(s) /\ Cardinality(s) \in Nat
             /\ Cardinality(s) = 0 <=> s = {}
  BY FS_Subset, FS_CardinalityType, FS_EmptySet
<1>3. 0 \in N
  <2>1. ASSUME NEW s \in SUBSET DOMAIN f, Cardinality(s) = 0
        PROVE  Sums(s)
    <3>1. s = {} /\ g[s] = 0
      BY <1>1, <1>2, <2>1 DEF SumStep
    <3> QED
      BY <3>1
  <2> QED
    BY <2>1
<1>4. ASSUME NEW n \in Nat, n \in N
      PROVE  n + 1 \in N
  <2>1. ASSUME NEW s \in SUBSET DOMAIN f, Cardinality(s) = n + 1
        PROVE  Sums(s)
    <3> DEFINE x == First(s)
    <3> DEFINE rest == s \ {x}
    <3>1. IsFiniteSet(s) /\ s # {}
      BY <1>2, <2>1
    <3>2. x \in s
      BY <3>1, Zenon DEF First
    <3>3. Cardinality(rest) = n
      <4>1. Cardinality(rest) = Cardinality(s) - 1
        BY <3>1, <3>2, FS_RemoveElement
      <4> QED
        BY <2>1, <4>1
    <3>4. rest \in SUBSET DOMAIN f
      OBVIOUS
    <3>5. Sums(rest)
      BY <1>4, <3>3, <3>4
    <3>6. g[s] = f[x] + g[rest]
      BY <1>1, <3>1 DEF SumStep
    <3>7. f[x] \in Nat /\ s = rest \cup {x}
      BY <3>2
    <3> HIDE DEF x, rest
    <3> QED
      BY <3>5, <3>6, <3>7
  <2> QED
    BY <2>1
<1>5. Cardinality(DOMAIN f) \in N
  <2> HIDE DEF N
  <2>1. Nat \subseteq N
    BY <1>3, <1>4, NaturalsByInduction
  <2> QED
    BY <2>1, FS_CardinalityType
<1>6. Sums(DOMAIN f)
  BY <1>5
<1> QED
  BY <1>1, <1>6

-----------------------------------------------------------------------------
(***************************************************************************)
(* Rankings: the sequences of SetToSeqs, each element of a set once.       *)
(***************************************************************************)
\* A ranking has each element of the set, at one position.
LEMMA RankingOfSet ==
  ASSUME NEW S, IsFiniteSet(S), NEW s \in SetToSeqs(S)
  PROVE  /\ s \in Seq(S) /\ Len(s) = Cardinality(S) /\ DOMAIN s = 1..Len(s) /\ Len(s) \in Nat
         /\ \A p, q \in DOMAIN s : s[p] = s[q] => p = q
         /\ Range(s) = S
<1> DEFINE n == Cardinality(S)
<1>1. n \in Nat
  BY FS_CardinalityType
<1>2. s \in [1..n -> S] /\ \A p, q \in 1..n : p # q => s[p] # s[q]
  BY DEF SetToSeqs
<1>3. s \in Injection(1..n, S)
  BY <1>2 DEF Injection, IsInjective
<1>4. Cardinality(1..n) = n
  BY <1>1, FS_Interval
<1>5. s \in Surjection(1..n, S)
  BY <1>3, <1>4, FS_Injection
<1>6. \A x \in S : \E p \in 1..n : s[p] = x
  BY <1>5 DEF Surjection
<1>7. s \in Seq(S) /\ Len(s) = n /\ DOMAIN s = 1..n
  BY <1>1, <1>2
<1> HIDE DEF n
<1>8. Range(s) = S
  BY <1>2, <1>6, <1>7 DEF Range
<1> QED
  BY <1>1, <1>2, <1>7, <1>8 DEF n

\* A sequence without duplicates has as many elements as it is long.
LEMMA ElementsOfRanking ==
  ASSUME NEW S, NEW s \in Seq(S), \A p, q \in DOMAIN s : s[p] = s[q] => p = q
  PROVE  IsFiniteSet(Range(s)) /\ Cardinality(Range(s)) = Len(s) /\ Range(s) \subseteq S
<1>1. Len(s) \in Nat /\ DOMAIN s = 1..Len(s)
  OBVIOUS
<1>2. s \in [1..Len(s) -> Range(s)] /\ Range(s) \subseteq S
  BY <1>1 DEF Range
<1>3. s \in Injection(1..Len(s), Range(s))
  BY <1>1, <1>2 DEF Injection, IsInjective
<1>4. s \in Surjection(1..Len(s), Range(s))
  BY <1>1, <1>2 DEF Surjection, Range
<1>5. IsFiniteSet(1..Len(s)) /\ Cardinality(1..Len(s)) = Len(s)
  BY <1>1, FS_Interval
<1>6. IsFiniteSet(Range(s)) /\ Cardinality(Range(s)) = Cardinality(1..Len(s))
  BY <1>3, <1>4, <1>5, FS_Surjection
<1> QED
  BY <1>2, <1>5, <1>6

\* Of a finite set that a relation orders, some element comes before all others.
Orders(R, S) ==
  /\ \A x, y \in S : <<x, y>> \in R \/ <<y, x>> \in R
  /\ \A x, y, z \in S : <<x, y>> \in R /\ <<y, z>> \in R => <<x, z>> \in R
LEMMA FirstOfFiniteSet ==
  ASSUME NEW S, IsFiniteSet(S), S # {}, NEW R, Orders(R, S)
  PROVE  \E m \in S : \A x \in S : <<m, x>> \in R
<1> DEFINE HasFirst(s) == s # {} => \E m \in s : \A x \in s : <<m, x>> \in R
<1> DEFINE T == {s \in SUBSET S : HasFirst(s)}
<1>1. {} \in T
  OBVIOUS
<1>2. ASSUME NEW s \in SUBSET S, s \in T, NEW x \in S \ s
      PROVE  s \cup {x} \in T
  <2>1. CASE s = {}
    <3>1. \A y \in s \cup {x} : <<x, y>> \in R
      BY <2>1 DEF Orders
    <3> QED
      BY <3>1
  <2>2. CASE s # {}
    <3>1. PICK m \in s : \A y \in s : <<m, y>> \in R
      BY <1>2, <2>2
    <3>2. CASE <<m, x>> \in R
      <4>1. \A y \in s \cup {x} : <<m, y>> \in R
        BY <3>1, <3>2
      <4> QED
        BY <4>1
    <3>3. CASE <<x, m>> \in R
      <4>1. \A y \in s \cup {x} : <<x, y>> \in R
        BY <3>1, <3>3 DEF Orders
      <4> QED
        BY <4>1
    <3> QED
      BY <3>2, <3>3 DEF Orders
  <2> QED
    BY <2>1, <2>2
<1>3. S \in T
  <2> HIDE DEF T
  <2> QED
    BY <1>1, <1>2, FiniteSetsByInduction
<1> QED
  BY <1>3

\* A finite set that a relation orders has a ranking in that order.
Sorted(s, R) == \A p, q \in DOMAIN s : p < q => <<s[p], s[q]>> \in R
LEMMA SortedRanking ==
  ASSUME NEW S, IsFiniteSet(S), NEW R, Orders(R, S)
  PROVE  \E s \in SetToSeqs(S) : Sorted(s, R)
<1> DEFINE N == {n \in Nat : \A T \in SUBSET S :
                   Cardinality(T) = n => \E s \in SetToSeqs(T) : Sorted(s, R)}
<1>1. 0 \in N
  <2>1. ASSUME NEW T \in SUBSET S, Cardinality(T) = 0
        PROVE  \E s \in SetToSeqs(T) : Sorted(s, R)
    <3>1. <<>> \in SetToSeqs(T)
      BY <2>1 DEF SetToSeqs
    <3>2. Sorted(<<>>, R)
      BY DEF Sorted
    <3> QED
      BY <3>1, <3>2
  <2> QED
    BY <2>1
<1>2. ASSUME NEW n \in Nat, n \in N
      PROVE  n + 1 \in N
  <2>1. ASSUME NEW T \in SUBSET S, Cardinality(T) = n + 1
        PROVE  \E s \in SetToSeqs(T) : Sorted(s, R)
    <3>1. IsFiniteSet(T) /\ T # {}
      BY <2>1, FS_Subset, FS_EmptySet
    <3>2. Orders(R, T)
      BY DEF Orders
    <3>3. PICK m \in T : \A x \in T : <<m, x>> \in R
      BY <3>1, <3>2, FirstOfFiniteSet
    <3> DEFINE rest == T \ {m}
    <3>4. Cardinality(rest) = n
      <4>1. Cardinality(rest) = Cardinality(T) - 1
        BY <3>1, FS_RemoveElement
      <4> QED
        BY <2>1, <4>1
    <3>5. PICK r \in SetToSeqs(rest) : Sorted(r, R)
      BY <1>2, <3>4
    <3>6. /\ r \in [1..n -> rest] /\ \A p, q \in 1..n : p # q => r[p] # r[q]
          /\ \A p, q \in 1..n : p < q => <<r[p], r[q]>> \in R
      BY <3>4, <3>5 DEF SetToSeqs, Sorted
    <3> DEFINE s == [p \in 1..(n + 1) |-> IF p = 1 THEN m ELSE r[p - 1]]
    <3>7. \A p \in 1..(n + 1) : p = 1 \/ (p - 1 \in 1..n /\ r[p - 1] \in rest)
      BY <3>6
    <3>8. s \in [1..(n + 1) -> T]
      BY <3>7
    <3>9. ASSUME NEW p \in 1..(n + 1), NEW q \in 1..(n + 1), p < q
          PROVE  s[p] # s[q] /\ <<s[p], s[q]>> \in R
      <4>1. s[q] = r[q - 1] /\ q - 1 \in 1..n /\ s[q] \in rest
        BY <3>7, <3>9
      <4>2. CASE p = 1
        BY <3>3, <4>1, <4>2
      <4>3. CASE p # 1
        <5>1. s[p] = r[p - 1] /\ p - 1 \in 1..n /\ p - 1 < q - 1
          BY <3>7, <3>9, <4>3
        <5> HIDE DEF s
        <5> QED
          BY <3>6, <4>1, <5>1
      <4> QED
        BY <4>2, <4>3
    <3> HIDE DEF s
    <3>10. \A p, q \in 1..(n + 1) : p # q => p < q \/ q < p
      OBVIOUS
    <3>11. s \in SetToSeqs(T)
      BY <2>1, <3>8, <3>9, <3>10 DEF SetToSeqs
    <3>12. Sorted(s, R)
      BY <3>8, <3>9 DEF Sorted
    <3> QED
      BY <3>11, <3>12
  <2> QED
    BY <2>1
<1>3. Cardinality(S) \in N
  <2> HIDE DEF N
  <2>1. Nat \subseteq N
    BY <1>1, <1>2, NaturalsByInduction
  <2> QED
    BY <2>1, FS_CardinalityType
<1> QED
  BY <1>3

\* It has one such ranking, if no two elements are each before the other.
LEMMA SortedRankingIsUnique ==
  ASSUME NEW S, IsFiniteSet(S), NEW R,
         \A x, y \in S : <<x, y>> \in R /\ <<y, x>> \in R => x = y,
         NEW s \in SetToSeqs(S), NEW t \in SetToSeqs(S), Sorted(s, R), Sorted(t, R)
  PROVE  s = t
<1> DEFINE n == Cardinality(S)
<1> DEFINE D == {p \in 1..n : s[p] # t[p]}
<1>1. /\ n \in Nat /\ s \in [1..n -> S] /\ t \in [1..n -> S] /\ Range(s) = S /\ Range(t) = S
      /\ \A p, q \in 1..n : (s[p] = s[q] => p = q) /\ (t[p] = t[q] => p = q)
  <2>1. n \in Nat
    BY FS_CardinalityType
  <2>2. s \in [1..n -> S] /\ t \in [1..n -> S]
    BY DEF SetToSeqs
  <2>3. Range(s) = S /\ Range(t) = S
    BY RankingOfSet
  <2>4. \A p, q \in 1..n : (s[p] = s[q] => p = q) /\ (t[p] = t[q] => p = q)
    BY DEF SetToSeqs
  <2> QED
    BY <2>1, <2>2, <2>3, <2>4
<1> HIDE DEF n
<1>2. SUFFICES ASSUME D # {}
               PROVE  FALSE
  BY <1>1
<1>3. PICK p \in D : \A q \in D : p <= q
  <2>1. D \subseteq Nat
    BY <1>1
  <2> HIDE DEF D
  <2> QED
    BY <1>2, <2>1, LeastNatural
<1>4. p \in 1..n /\ s[p] # t[p] /\ p \in Nat
  BY <1>1
<1>5. \A q \in 1..n : q < p => s[q] = t[q]
  <2>1. \A q \in 1..n : q < p => ~(p <= q)
    BY <1>4
  <2> QED
    BY <1>3, <2>1
<1>6. PICK q \in 1..n : t[q] = s[p]
  BY <1>1, <1>4 DEF Range
<1>7. PICK r \in 1..n : s[r] = t[p]
  BY <1>1, <1>4 DEF Range
<1> HIDE DEF D
<1>8. q # p /\ r # p /\ ~(q < p) /\ ~(r < p)
  BY <1>1, <1>4, <1>5, <1>6, <1>7
<1>9. p < q /\ p < r
  BY <1>1, <1>4, <1>8
<1>10. <<s[p], s[r]>> \in R /\ <<t[p], t[q]>> \in R
  BY <1>1, <1>4, <1>9 DEF Sorted
<1>11. s[p] \in S /\ t[p] \in S
  BY <1>1, <1>4
<1> QED
  BY <1>4, <1>6, <1>7, <1>10, <1>11
=============================================================================
