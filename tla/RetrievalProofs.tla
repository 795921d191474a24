--------------------------- MODULE RetrievalProofs ---------------------------
(***************************************************************************)
(* Theorems about Retrieval, for every corpus, every limit and every       *)
(* number of chunks.                                                       *)
(***************************************************************************)
EXTENDS Retrieval, FiniteData

-----------------------------------------------------------------------------
(***************************************************************************)
(* Cuts.                                                                   *)
(***************************************************************************)
LEMMA Extremes ==
  ASSUME NEW m \in Int, NEW n \in Int
  PROVE  /\ Min({m, n}) = IF m <= n THEN m ELSE n
         /\ Max({m, n}) = IF m >= n THEN m ELSE n
<1>1. \E x \in {m, n} : \A y \in {m, n} : x <= y
  OBVIOUS
<1>2. Min({m, n}) \in {m, n} /\ \A y \in {m, n} : Min({m, n}) <= y
  BY <1>1, Zenon DEF Min
<1>3. \E x \in {m, n} : \A y \in {m, n} : x >= y
  OBVIOUS
<1>4. Max({m, n}) \in {m, n} /\ \A y \in {m, n} : Max({m, n}) >= y
  BY <1>3, Zenon DEF Max
<1> QED
  BY <1>2, <1>4

\* A cut is the beginning of what it cuts.
LEMMA TakeType ==
  ASSUME NEW S, NEW s \in Seq(S), NEW n \in Nat
  PROVE  /\ Take(s, n) \in Seq(S)
         /\ Len(Take(s, n)) = IF n <= Len(s) THEN n ELSE Len(s)
         /\ DOMAIN Take(s, n) = 1..Len(Take(s, n)) /\ Len(Take(s, n)) \in Nat
         /\ \A p \in DOMAIN Take(s, n) : p \in DOMAIN s /\ Take(s, n)[p] = s[p]
         /\ Range(Take(s, n)) \subseteq Range(s)
<1> DEFINE m == IF n <= Len(s) THEN n ELSE Len(s)
<1>1. Len(s) \in Nat /\ DOMAIN s = 1..Len(s)
  OBVIOUS
<1>2. Min({n, Len(s)}) = m
  BY <1>1, Extremes
<1>3. Take(s, n) = SubSeq(s, 1, m)
  BY <1>2 DEF Take
<1>4. m \in Nat /\ m <= Len(s)
  BY <1>1
<1> HIDE DEF m
<1>5. /\ SubSeq(s, 1, m) \in Seq(S) /\ Len(SubSeq(s, 1, m)) = m
      /\ \A p \in 1..m : p \in 1..Len(s) /\ SubSeq(s, 1, m)[p] = s[p]
  BY <1>1, <1>4
<1>6. /\ Take(s, n) \in Seq(S) /\ Len(Take(s, n)) = m /\ DOMAIN Take(s, n) = 1..m
      /\ \A p \in 1..m : p \in DOMAIN s /\ Take(s, n)[p] = s[p]
  BY <1>1, <1>3, <1>5
<1>7. Range(Take(s, n)) \subseteq Range(s)
  BY <1>6 DEF Range
<1> QED
  BY <1>4, <1>6, <1>7 DEF m

\* Of a sequence without duplicates, what a cut leaves out comes after all it keeps.
Injective(s) == \A p, q \in DOMAIN s : s[p] = s[q] => p = q
LEMMA CutOfRanking ==
  ASSUME NEW S, NEW s \in Seq(S), Injective(s), NEW n \in Nat
  PROVE  /\ Injective(Take(s, n))
         /\ Len(s) <= n => Take(s, n) = s
         /\ \A x \in Range(s) \ Range(Take(s, n)) :
              /\ Len(Take(s, n)) = n
              /\ \A j \in Range(Take(s, n)) :
                   \E p, q \in DOMAIN s : p < q /\ s[p] = j /\ s[q] = x
<1> DEFINE t == Take(s, n)
<1>1. /\ t \in Seq(S) /\ Len(t) = (IF n <= Len(s) THEN n ELSE Len(s))
      /\ DOMAIN t = 1..Len(t) /\ Len(t) \in Nat
      /\ \A p \in DOMAIN t : p \in DOMAIN s /\ t[p] = s[p]
  BY TakeType
<1>2. Len(s) \in Nat /\ DOMAIN s = 1..Len(s)
  OBVIOUS
<1> HIDE DEF t
<1>3. Injective(t)
  BY <1>1 DEF Injective
<1>4. Len(s) <= n => t = s
  <2> SUFFICES ASSUME Len(s) <= n
               PROVE  t = s
    OBVIOUS
  <2>1. Len(t) = Len(s)
    <3>1. n <= Len(s) => n = Len(s)
      OBVIOUS
    <3> QED
      BY <1>1, <3>1
  <2>2. t \in [1..Len(s) -> S] /\ s \in [1..Len(s) -> S] /\ \A p \in 1..Len(s) : t[p] = s[p]
    BY <1>1, <2>1
  <2> QED
    BY <2>2
<1>5. ASSUME NEW x \in Range(s) \ Range(t)
      PROVE  /\ Len(t) = n
             /\ \A j \in Range(t) : \E p, q \in DOMAIN s : p < q /\ s[p] = j /\ s[q] = x
  <2>1. PICK q \in DOMAIN s : s[q] = x
    BY DEF Range
  <2>2. q \notin DOMAIN t
    BY <1>1, <2>1 DEF Range
  <2>3. n < q /\ Len(t) = n
    <3>1. q \in Nat /\ 1 <= q /\ q <= Len(s)
      BY <1>2, <2>1
    <3>2. ~(q <= Len(t)) /\ Len(t) = IF n <= Len(s) THEN n ELSE Len(s)
      BY <1>1, <2>2, <3>1
    <3>3. n <= Len(s) => Len(t) = n
      BY <3>2
    <3>4. ~(n <= Len(s)) => Len(t) = Len(s)
      BY <3>2
    <3>5. n <= Len(s)
      BY <3>1, <3>2, <3>4
    <3> QED
      BY <3>1, <3>2, <3>3, <3>5
  <2>4. ASSUME NEW j \in Range(t)
        PROVE  \E p \in DOMAIN s : p < q /\ s[p] = j
    <3>1. PICK p \in DOMAIN t : t[p] = j
      BY DEF Range
    <3>2. p \in DOMAIN s /\ s[p] = j /\ p < q
      BY <1>1, <1>2, <2>3, <3>1
    <3> QED
      BY <3>2
  <2> QED
    BY <2>1, <2>3, <2>4
<1> QED
  BY <1>3, <1>4, <1>5 DEF t

\* The position of an element is where it is.
LEMMA PositionIs ==
  ASSUME NEW s, NEW i \in Range(s)
  PROVE  Position(s, i) \in DOMAIN s /\ s[Position(s, i)] = i
<1>1. \E p \in DOMAIN s : s[p] = i
  BY DEF Range
<1> QED
  BY <1>1, Zenon DEF Position
LEMMA PositionOf ==
  ASSUME NEW s, Injective(s), NEW p \in DOMAIN s
  PROVE  s[p] \in Range(s) /\ Position(s, s[p]) = p
<1>1. s[p] \in Range(s)
  BY DEF Range
<1> QED
  BY <1>1, PositionIs DEF Injective

\* What a ranking of the type is.
LEMMA RankingsAre ==
  ASSUME NEW s
  PROVE  s \in Rankings <=> s \in Seq(Ids) /\ Injective(s) /\ Len(s) <= RecallK
<1>0. RecallK \in Nat
  BY RetrievalAssumption
<1>1. ASSUME s \in Rankings
      PROVE  s \in Seq(Ids) /\ Injective(s) /\ Len(s) <= RecallK
  <2>1. PICK n \in 0..RecallK : s \in [1..n -> Ids] /\ \A p, q \in 1..n : s[p] = s[q] => p = q
    BY <1>1 DEF Rankings
  <2>2. s \in Seq(Ids) /\ Len(s) = n /\ DOMAIN s = 1..n
    BY <1>0, <2>1
  <2> QED
    BY <1>0, <2>1, <2>2 DEF Injective
<1>2. ASSUME s \in Seq(Ids), Injective(s), Len(s) <= RecallK
      PROVE  s \in Rankings
  <2>1. Len(s) \in 0..RecallK /\ DOMAIN s = 1..Len(s) /\ s \in [1..Len(s) -> Ids]
    BY <1>0, <1>2
  <2> QED
    BY <1>2, <2>1 DEF Rankings, Injective
<1> QED
  BY <1>1, <1>2

\* A branch: a ranking, cut.
LEMMA BranchIs ==
  ASSUME NEW S, IsFiniteSet(S), S \subseteq Ids, NEW s \in SetToSeqs(S), NEW n \in 0..RecallK
  PROVE  LET t == Take(s, n)
         IN  /\ t \in Rankings /\ Range(t) \subseteq S /\ Len(t) <= n
             /\ \A i \in S \ Range(t) :
                  /\ Len(t) = n
                  /\ \A j \in Range(t) : \E p, q \in DOMAIN s : p < q /\ s[p] = j /\ s[q] = i
<1> DEFINE t == Take(s, n)
<1>0. n \in Nat /\ n <= RecallK /\ RecallK \in Nat
  BY RetrievalAssumption
<1>1. s \in Seq(S) /\ Injective(s) /\ Range(s) = S
  BY RankingOfSet, Zenon DEF Injective
<1>2. s \in Seq(Ids)
  BY <1>1
<1>3. t \in Seq(Ids) /\ Len(t) = (IF n <= Len(s) THEN n ELSE Len(s)) /\ Range(t) \subseteq S
  BY <1>0, <1>1, <1>2, TakeType
<1>4. /\ Injective(t)
      /\ \A i \in S \ Range(t) :
           /\ Len(t) = n
           /\ \A j \in Range(t) : \E p, q \in DOMAIN s : p < q /\ s[p] = j /\ s[q] = i
  BY <1>0, <1>1, <1>2, CutOfRanking
<1>5. Len(t) <= n
  BY <1>0, <1>2, <1>3
<1>6. t \in Rankings
  <2>1. Len(t) \in Nat
    BY <1>3
  <2>2. Len(t) <= RecallK
    BY <1>0, <1>5, <2>1
  <2> QED
    BY <1>3, <1>4, <2>2, RankingsAre
<1> QED
  BY <1>3, <1>4, <1>5, <1>6

-----------------------------------------------------------------------------
(***************************************************************************)
(* The inductive invariant: what each branch has, what the text branch has *)
(* left out of what was there when the search began, and what the answer   *)
(* was made of.                                                            *)
(***************************************************************************)
VectorInv ==
  stage \in {"lexical", "ranking", "done"} =>
    Range(vectorIds) \subseteq UnderThreshold /\ Len(vectorIds) <= VectorLimit
LexicalInv ==
  /\ request.mode = "hybrid" /\ stage \in {"ranking", "done"} =>
       /\ Range(lexicalIds) \subseteq Matching
       /\ \A i \in (Matching \cap known) \ Range(lexicalIds) : Len(lexicalIds) = RecallK
  /\ request.mode = "vector" => stage # "lexical" /\ lexicalIds = <<>>

AnswerOf(final) == [p \in DOMAIN final |-> [id |-> final[p], distance |-> Distance(final[p])]]
AnswerInv ==
  /\ stage = "done" =>
       \E final \in Finals : result = AnswerOf(final) /\ finding = FindingOf(Neighbours(final))
  /\ stage # "done" => finding = None

IInv == TypeOK /\ known \subseteq committed /\ VectorInv /\ LexicalInv /\ AnswerInv

-----------------------------------------------------------------------------
(***************************************************************************)
(* Types.                                                                  *)
(***************************************************************************)
\* What a chunk and a search can be.
LEMMA Types ==
  ASSUME TypeOK
  PROVE  /\ UnderThreshold \subseteq Ids /\ Matching \subseteq Ids /\ Passing \subseteq Ids
         /\ IsFiniteSet(UnderThreshold) /\ IsFiniteSet(Matching)
         /\ \A i \in Ids : /\ corpus[i].distance \in Distances /\ corpus[i].score \in Int
                           /\ corpus[i].rank \in Nat /\ corpus[i].hours \in Nat \cup {NoHours}
         /\ VectorLimit \in 0..RecallK /\ TopK \in Nat /\ RecallK \in Nat /\ TopK <= RecallK
         /\ request.mode \in {"vector", "hybrid"}
<1>1. IsFiniteSet(Ids)
  BY RetrievalAssumption
<1>2. UnderThreshold \subseteq Ids /\ Matching \subseteq Ids /\ Passing \subseteq Ids
  BY DEF TypeOK, UnderThreshold, Matching, Passing
<1>3. IsFiniteSet(UnderThreshold) /\ IsFiniteSet(Matching)
  BY <1>1, <1>2, FS_Subset
<1>4. ASSUME NEW i \in Ids
      PROVE  corpus[i] \in [passes : BOOLEAN, distance : Distances, rank : Nat, score : Int,
                            hours : Nat \cup {NoHours}]
  BY RetrievalAssumption DEF TypeOK
<1>5. TopK \in Nat /\ RecallK \in Nat /\ TopK <= RecallK
  BY RetrievalAssumption
<1>6. VectorLimit \in 0..RecallK
  BY <1>5 DEF VectorLimit
<1>7. request.mode \in {"vector", "hybrid"}
  BY DEF TypeOK, Requests
<1> QED
  BY <1>2, <1>3, <1>4, <1>5, <1>6, <1>7

\* The rankings of the branches and all that is recalled.
LEMMA RecalledTypes ==
  ASSUME TypeOK
  PROVE  /\ vectorIds \in Seq(Ids) /\ Injective(vectorIds) /\ Len(vectorIds) <= RecallK
         /\ lexicalIds \in Seq(Ids) /\ Injective(lexicalIds) /\ Len(lexicalIds) <= RecallK
         /\ Recalled \subseteq Ids /\ IsFiniteSet(Recalled)
<1>1. /\ vectorIds \in Seq(Ids) /\ Injective(vectorIds) /\ Len(vectorIds) <= RecallK
      /\ lexicalIds \in Seq(Ids) /\ Injective(lexicalIds) /\ Len(lexicalIds) <= RecallK
  BY RankingsAre DEF TypeOK
<1>2. Range(vectorIds) \subseteq Ids /\ Range(lexicalIds) \subseteq Ids
  BY <1>1, ElementsOfRanking DEF Injective
<1>3. Recalled \subseteq Ids
  BY <1>2 DEF Recalled
<1>4. IsFiniteSet(Recalled)
  BY <1>3, FS_Subset, RetrievalAssumption
<1> QED
  BY <1>1, <1>3, <1>4

\* What is ordered has all that was recalled, once.
LEMMA OrderedIs ==
  ASSUME TypeOK, request.mode = "vector" => lexicalIds = <<>>, NEW o \in Ordered
  PROVE  o \in Seq(Ids) /\ Injective(o) /\ Range(o) = Recalled
<1>1. CASE request.mode = "hybrid"
  <2>1. o \in SetToSeqs(Recalled)
    BY <1>1 DEF Ordered, Fused
  <2>2. o \in Seq(Recalled) /\ Injective(o) /\ Range(o) = Recalled
    BY <2>1, RecalledTypes, RankingOfSet, Zenon DEF Injective
  <2>3. o \in Seq(Ids)
    BY <2>2, RecalledTypes
  <2> QED
    BY <2>2, <2>3
<1>2. CASE request.mode = "vector"
  <2>1. o = vectorIds /\ lexicalIds = <<>>
    BY <1>2 DEF Ordered
  <2>2. Range(lexicalIds) = {}
    BY <2>1 DEF Range
  <2> QED
    BY <2>1, <2>2, RecalledTypes DEF Recalled
<1> QED
  BY <1>1, <1>2, Types

\* What the cross-encoder sorts has the same chunks, once.
LEMMA RerankedIs ==
  ASSUME NEW pool \in Seq(Ids), Injective(pool), NEW s \in Reranked(pool)
  PROVE  s \in Seq(Ids) /\ Injective(s) /\ Range(s) = Range(pool)
<1>1. IsFiniteSet(Range(pool)) /\ Range(pool) \subseteq Ids
  BY ElementsOfRanking DEF Injective
<1>2. s \in SetToSeqs(Range(pool))
  BY DEF Reranked
<1>3. s \in Seq(Range(pool)) /\ Injective(s) /\ Range(s) = Range(pool)
  BY <1>1, <1>2, RankingOfSet, Zenon DEF Injective
<1>4. s \in Seq(Ids)
  BY <1>1, <1>3
<1> QED
  BY <1>3, <1>4

\* An answer is a cut of what was sorted last.
LEMMA SortsIs ==
  ASSUME TypeOK, request.mode = "vector" => lexicalIds = <<>>, NEW s \in Sorts
  PROVE  s \in Seq(Ids) /\ Injective(s) /\ Range(s) \subseteq Recalled
<1>1. CASE request.rerank
  <2>1. PICK o \in Ordered : s \in Reranked(Take(o, RecallK))
    BY <1>1 DEF Sorts, Pool
  <2>2. o \in Seq(Ids) /\ Injective(o) /\ Range(o) = Recalled
    BY OrderedIs
  <2>3. RecallK \in Nat
    BY Types
  <2>4. /\ Take(o, RecallK) \in Seq(Ids) /\ Injective(Take(o, RecallK))
        /\ Range(Take(o, RecallK)) \subseteq Recalled
    BY <2>2, <2>3, TakeType, CutOfRanking
  <2> QED
    BY <2>1, <2>4, RerankedIs
<1>2. CASE ~request.rerank
  BY <1>2, OrderedIs DEF Sorts
<1> QED
  BY <1>1, <1>2
LEMMA FinalsIs ==
  ASSUME TypeOK, request.mode = "vector" => lexicalIds = <<>>, NEW f \in Finals
  PROVE  /\ f \in Seq(Ids) /\ Injective(f) /\ Len(f) <= TopK /\ Range(f) \subseteq Recalled
         /\ \E s \in Sorts : f = Take(s, TopK)
<1>1. PICK s \in Sorts : f = Take(s, TopK)
  BY DEF Finals
<1>2. s \in Seq(Ids) /\ Injective(s) /\ Range(s) \subseteq Recalled
  BY SortsIs
<1>3. TopK \in Nat
  BY Types
<1>4. /\ f \in Seq(Ids) /\ Len(f) = (IF TopK <= Len(s) THEN TopK ELSE Len(s))
      /\ Range(f) \subseteq Range(s)
  BY <1>1, <1>2, <1>3, TakeType
<1>5. Injective(f)
  BY <1>1, <1>2, <1>3, CutOfRanking
<1>6. Len(f) <= TopK
  <2>1. Len(s) \in Nat
    BY <1>2
  <2> QED
    BY <1>3, <1>4, <2>1
<1> QED
  BY <1>1, <1>2, <1>4, <1>5, <1>6

\* The answer has the type of a result.
LEMMA AnswerType ==
  ASSUME TypeOK, request.mode = "vector" => lexicalIds = <<>>, NEW f \in Finals
  PROVE  /\ Len(AnswerOf(f)) <= TopK /\ DOMAIN AnswerOf(f) = DOMAIN f
         /\ \A p \in DOMAIN f : /\ AnswerOf(f)[p] \in [id : Ids, distance : Distances]
                                /\ AnswerOf(f)[p].id = f[p]
<1>1. f \in Seq(Ids) /\ Len(f) <= TopK /\ DOMAIN f = 1..Len(f) /\ Len(f) \in Nat
  BY FinalsIs
<1>2. \A i \in Ids : Distance(i) \in Distances
  BY Types DEF Distance, Far, Distances
<1>3. \A p \in DOMAIN f : f[p] \in Ids
  BY <1>1
<1>4. DOMAIN AnswerOf(f) = 1..Len(f)
  BY <1>1 DEF AnswerOf
<1>5. Len(AnswerOf(f)) = Len(f)
  <2>1. AnswerOf(f) = [p \in 1..Len(f) |-> [id |-> f[p], distance |-> Distance(f[p])]]
    BY <1>1 DEF AnswerOf
  <2> QED
    BY <1>1, <2>1
<1> QED
  BY <1>1, <1>2, <1>3, <1>4, <1>5 DEF AnswerOf

\* What a step leaves alone when it leaves the rankings and the request alone.
Search == <<corpus, request, vectorIds, lexicalIds>>
LEMMA SearchUnchanged ==
  ASSUME UNCHANGED Search
  PROVE  /\ Finals' = Finals /\ Recalled' = Recalled /\ VectorLimit' = VectorLimit
         /\ \A f : AnswerOf(f)' = AnswerOf(f) /\ FindingOf(Neighbours(f))' = FindingOf(Neighbours(f))
<1>1. Recalled' = Recalled /\ VectorLimit' = VectorLimit
  BY DEF Search, Recalled, VectorLimit
<1>2. Fused' = Fused
  BY <1>1 DEF Search, Fused, FusesAbove, Higher, FusedScore, Share
<1>3. Ordered' = Ordered
  BY <1>2 DEF Search, Ordered
<1>4. Sorts' = Sorts
  BY <1>3 DEF Search, Sorts, Pool, Reranked, ScoresAbove
<1>5. Finals' = Finals
  BY <1>4 DEF Finals
<1>6. \A f : AnswerOf(f)' = AnswerOf(f)
  BY DEF Search, AnswerOf, Distance
<1>7. \A f : FindingOf(Neighbours(f))' = FindingOf(Neighbours(f))
  BY DEF Search, FindingOf, Neighbours, Contradict, Unreliable, Spread, Hours, Similarity,
         Similarities, Distance
<1> QED
  BY <1>1, <1>5, <1>6, <1>7

-----------------------------------------------------------------------------
(***************************************************************************)
(* The invariant is inductive.                                             *)
(***************************************************************************)
\* What is committed later was not known, so nothing is owed to it.
LEMMA BranchesKept ==
  ASSUME VectorInv, LexicalInv, known \subseteq committed, committed \subseteq committed',
         UNCHANGED <<corpus, request, vectorIds, lexicalIds, known>>,
         stage' = stage \/ stage' \in {"failed", "counting", "vector"}
                        \/ (stage = "ranking" /\ stage' = "done")
  PROVE  VectorInv' /\ LexicalInv'
<1>1. /\ UnderThreshold \subseteq UnderThreshold' /\ Matching \subseteq Matching'
      /\ UnderThreshold' \cap known \subseteq UnderThreshold
      /\ Matching' \cap known \subseteq Matching
  BY DEF UnderThreshold, Matching, Passing
<1>2. VectorLimit' = VectorLimit
  BY DEF VectorLimit
<1>3. VectorInv'
  BY <1>1, <1>2 DEF VectorInv
<1>4. LexicalInv'
  BY <1>1 DEF LexicalInv
<1> QED
  BY <1>3, <1>4

LEMMA Initially == Init => IInv
<1> SUFFICES ASSUME Init
             PROVE  IInv
  OBVIOUS
<1>0. TopK \in Nat /\ RecallK \in Nat /\ Corpora \subseteq [Ids -> Profiles] /\ IsFiniteSet(Ids)
  BY RetrievalAssumption
<1>1. /\ corpus \in [Ids -> Profiles] /\ committed \subseteq Ids /\ known = committed
      /\ stage = "embedding" /\ request \in Requests /\ evaluated = 0 /\ finding = None
      /\ vectorIds = <<>> /\ lexicalIds = <<>> /\ result = <<>>
  BY <1>0 DEF Init
<1>2. <<>> \in Rankings
  <2>1. <<>> \in Seq(Ids) /\ Injective(<<>>) /\ Len(<<>>) <= RecallK
    BY <1>0 DEF Injective
  <2> QED
    BY <2>1, RankingsAre
<1>3. evaluated \in 0..Cardinality(Ids)
  BY <1>0, <1>1, FS_CardinalityType
<1>4. Len(result) <= TopK /\ DOMAIN result = {}
  BY <1>0, <1>1
<1>5. TypeOK
  BY <1>1, <1>2, <1>3, <1>4 DEF TypeOK
<1> QED
  BY <1>1, <1>5 DEF IInv, VectorInv, LexicalInv, AnswerInv

LEMMA CountKeeps == IInv /\ Count => IInv'
<1> SUFFICES ASSUME IInv, Count
             PROVE  IInv'
  OBVIOUS
<1>1. TypeOK /\ known \subseteq committed /\ VectorInv /\ LexicalInv /\ AnswerInv
  BY DEF IInv
<1>2. VectorInv' /\ LexicalInv'
  BY <1>1, BranchesKept DEF Count
<1>3. evaluated' \in 0..Cardinality(Ids)
  <2>1. IsFiniteSet(Ids)
    BY RetrievalAssumption
  <2>2. Passing \subseteq Ids
    BY <1>1, Types
  <2>3. Cardinality(Passing) <= Cardinality(Ids) /\ IsFiniteSet(Passing)
    BY <2>1, <2>2, FS_Subset
  <2>4. Cardinality(Passing) \in Nat /\ Cardinality(Ids) \in Nat
    BY <2>1, <2>3, FS_CardinalityType
  <2> QED
    BY <2>3, <2>4 DEF Count
<1>4. TypeOK'
  BY <1>1, <1>3 DEF Count, TypeOK
<1>5. AnswerInv'
  BY <1>1 DEF Count, AnswerInv
<1> QED
  BY <1>1, <1>2, <1>4, <1>5 DEF IInv, Count

LEMMA SearchVectorKeeps == IInv /\ SearchVector => IInv'
<1> SUFFICES ASSUME IInv, SearchVector
             PROVE  IInv'
  OBVIOUS
<1>1. TypeOK /\ known \subseteq committed /\ LexicalInv /\ AnswerInv
  BY DEF IInv
<1>2. PICK scanned \in SUBSET UnderThreshold :
        vectorIds' \in {Take(s, VectorLimit) : s \in ByDistance(scanned)}
  BY DEF SearchVector, Scans
<1>3. PICK s \in SetToSeqs(scanned) : vectorIds' = Take(s, VectorLimit)
  BY <1>2 DEF ByDistance
<1>4. scanned \subseteq Ids /\ IsFiniteSet(scanned)
  BY <1>1, <1>2, Types, FS_Subset
<1>5. /\ vectorIds' \in Rankings /\ Range(vectorIds') \subseteq UnderThreshold
      /\ Len(vectorIds') <= VectorLimit
  BY <1>1, <1>2, <1>3, <1>4, Types, BranchIs
<1>6. VectorInv'
  <2>1. UnderThreshold' = UnderThreshold /\ VectorLimit' = VectorLimit
    BY DEF SearchVector, UnderThreshold, Passing, VectorLimit
  <2> QED
    BY <1>5, <2>1 DEF VectorInv
<1>7. LexicalInv'
  BY <1>1, Types DEF LexicalInv, SearchVector
<1>8. TypeOK'
  BY <1>1, <1>5 DEF SearchVector, TypeOK
<1>9. AnswerInv'
  BY <1>1 DEF SearchVector, AnswerInv
<1> QED
  BY <1>1, <1>6, <1>7, <1>8, <1>9 DEF IInv, SearchVector

LEMMA SearchLexicalKeeps == IInv /\ SearchLexical => IInv'
<1> SUFFICES ASSUME IInv, SearchLexical
             PROVE  IInv'
  OBVIOUS
<1>1. TypeOK /\ known \subseteq committed /\ VectorInv /\ LexicalInv /\ AnswerInv
  BY DEF IInv
<1>2. PICK s \in ByRank : lexicalIds' = Take(s, RecallK)
  BY DEF SearchLexical
<1>3. s \in SetToSeqs(Matching)
  BY <1>2 DEF ByRank
<1>4. RecallK \in 0..RecallK
  BY <1>1, Types
<1>5. /\ lexicalIds' \in Rankings /\ Range(lexicalIds') \subseteq Matching
      /\ \A i \in Matching \ Range(lexicalIds') : Len(lexicalIds') = RecallK
  BY <1>1, <1>2, <1>3, <1>4, Types, BranchIs
<1>6. /\ UnderThreshold' = UnderThreshold /\ VectorLimit' = VectorLimit /\ Matching' = Matching
  BY DEF SearchLexical, UnderThreshold, Matching, Passing, VectorLimit
<1>7. VectorInv'
  BY <1>1, <1>6 DEF VectorInv, SearchLexical
<1>8. LexicalInv'
  BY <1>1, <1>5, <1>6 DEF LexicalInv, SearchLexical
<1>9. TypeOK'
  BY <1>1, <1>5 DEF SearchLexical, TypeOK
<1>10. AnswerInv'
  BY <1>1 DEF SearchLexical, AnswerInv
<1> QED
  BY <1>1, <1>7, <1>8, <1>9, <1>10 DEF IInv, SearchLexical

LEMMA RankKeeps == IInv /\ Rank => IInv'
<1> SUFFICES ASSUME IInv, Rank
             PROVE  IInv'
  OBVIOUS
<1>1. TypeOK /\ known \subseteq committed /\ VectorInv /\ LexicalInv /\ AnswerInv
  BY DEF IInv
<1>2. request.mode = "vector" => lexicalIds = <<>>
  BY <1>1 DEF LexicalInv
<1>3. PICK f \in Finals : result' = AnswerOf(f) /\ finding' = FindingOf(Neighbours(f))
  BY DEF Rank, AnswerOf
<1>4. UNCHANGED Search
  BY DEF Rank, Search
<1>5. AnswerInv'
  <2>1. f \in Finals' /\ result' = AnswerOf(f)' /\ finding' = FindingOf(Neighbours(f))'
    BY <1>3, <1>4, SearchUnchanged
  <2> QED
    BY <2>1 DEF AnswerInv, Rank
<1>6. TypeOK'
  <2>1. /\ Len(result') <= TopK
        /\ \A p \in DOMAIN result' : result'[p] \in [id : Ids, distance : Distances]
        /\ \A p, q \in DOMAIN result' : result'[p].id = result'[q].id => p = q
    BY <1>1, <1>2, <1>3, AnswerType, FinalsIs DEF Injective
  <2>2. finding' \in {None, "nothing", "doubtful", "sound"}
    BY <1>3 DEF FindingOf
  <2> QED
    BY <1>1, <2>1, <2>2 DEF Rank, TypeOK
<1>7. VectorInv' /\ LexicalInv'
  BY <1>1, BranchesKept DEF Rank
<1> QED
  BY <1>1, <1>5, <1>6, <1>7 DEF IInv, Rank

\* Every step of the search or of an ingest.
LEMMA Inductive == IInv /\ [Next]_vars => IInv'
<1> SUFFICES ASSUME IInv, [Next]_vars
             PROVE  IInv'
  OBVIOUS
<1>1. TypeOK /\ known \subseteq committed /\ VectorInv /\ LexicalInv /\ AnswerInv
  BY DEF IInv
<1>2. CASE EmbedQuery
  BY <1>1, <1>2 DEF EmbedQuery, IInv, TypeOK, VectorInv, LexicalInv, AnswerInv
<1>3. CASE Count
  BY <1>3, CountKeeps
<1>4. CASE SearchVector
  BY <1>4, SearchVectorKeeps
<1>5. CASE SearchLexical
  BY <1>5, SearchLexicalKeeps
<1>6. CASE Rank
  BY <1>6, RankKeeps
<1>7. CASE Fail
  <2>1. VectorInv' /\ LexicalInv'
    BY <1>1, <1>7, BranchesKept DEF Fail
  <2>2. AnswerInv'
    BY <1>1, <1>7 DEF Fail, AnswerInv
  <2>3. TypeOK'
    BY <1>1, <1>7 DEF Fail, TypeOK
  <2> QED
    BY <1>1, <1>7, <2>1, <2>2, <2>3 DEF IInv, Fail
<1>8. ASSUME NEW i \in Ids, CommitChunk(i)
      PROVE  IInv'
  <2>1. VectorInv' /\ LexicalInv'
    BY <1>1, <1>8, BranchesKept DEF CommitChunk
  <2>2. AnswerInv'
    BY <1>1, <1>8 DEF CommitChunk, AnswerInv
  <2>3. TypeOK'
    BY <1>1, <1>8 DEF CommitChunk, TypeOK
  <2> QED
    BY <1>1, <1>8, <2>1, <2>2, <2>3 DEF IInv, CommitChunk
<1>9. CASE UNCHANGED vars
  <2>1. VectorInv' /\ LexicalInv'
    BY <1>1, <1>9, BranchesKept DEF vars
  <2>2. AnswerInv'
    BY <1>1, <1>9, SearchUnchanged DEF vars, AnswerInv, Search
  <2>3. TypeOK'
    BY <1>1, <1>9 DEF vars, TypeOK
  <2> QED
    BY <1>1, <1>9, <2>1, <2>2, <2>3 DEF IInv, vars
<1> QED
  BY <1>2, <1>3, <1>4, <1>5, <1>6, <1>7, <1>8, <1>9 DEF Next

THEOREM InvariantHolds == Spec => []IInv
  BY Initially, Inductive, PTL DEF Spec

-----------------------------------------------------------------------------
(***************************************************************************)
(* Fusion.                                                                 *)
(***************************************************************************)
\* A fraction and a larger one, added to two others of which the second is no smaller.
LEMMA ProductsOfNaturals ==
  ASSUME NEW m \in Nat, NEW n \in Nat
  PROVE  m * n \in Nat /\ (m > 0 /\ n > 0 => m * n > 0)
OBVIOUS
LEMMA LargerBy ==
  ASSUME NEW m \in Nat, NEW n \in Nat, NEW k \in Nat, m >= n
  PROVE  m * k >= n * k /\ (m > n /\ k > 0 => m * k > n * k)
OBVIOUS
LEMMA SumOfFractions ==
  ASSUME NEW a \in Nat, NEW b \in Nat \ {0}, NEW c \in Nat, NEW d \in Nat \ {0},
         NEW u \in Nat, NEW v \in Nat \ {0}, NEW x \in Nat, NEW y \in Nat \ {0},
         a * d >= c * b, u * y >= x * v, a * d > c * b \/ u * y > x * v
  PROVE  (a * v + u * b) * (d * y) > (c * y + x * d) * (b * v)
<1>1. /\ a * d \in Nat /\ c * b \in Nat /\ u * y \in Nat /\ x * v \in Nat
      /\ v * y \in Nat /\ v * y > 0 /\ b * d \in Nat /\ b * d > 0
  BY ProductsOfNaturals
<1>2. /\ (a * d) * (v * y) >= (c * b) * (v * y)
      /\ (u * y) * (b * d) >= (x * v) * (b * d)
      /\ a * d > c * b => (a * d) * (v * y) > (c * b) * (v * y)
      /\ u * y > x * v => (u * y) * (b * d) > (x * v) * (b * d)
  BY <1>1, LargerBy
<1>3. (a * v + u * b) * (d * y) = (a * d) * (v * y) + (u * y) * (b * d)
  OBVIOUS
<1>4. (c * y + x * d) * (b * v) = (c * b) * (v * y) + (x * v) * (b * d)
  OBVIOUS
<1>5. /\ (a * d) * (v * y) \in Nat /\ (c * b) * (v * y) \in Nat
      /\ (u * y) * (b * d) \in Nat /\ (x * v) * (b * d) \in Nat
  BY <1>1, ProductsOfNaturals
<1>6. (a * d) * (v * y) + (u * y) * (b * d) > (c * b) * (v * y) + (x * v) * (b * d)
  BY <1>2, <1>5
<1> QED
  BY <1>3, <1>4, <1>6

\* What a ranking gives a chunk: more the higher it stands.
LEMMA Shares ==
  ASSUME NEW s \in Seq(Ids), NEW i \in Ids
  PROVE  /\ Share(s, i).of \in Nat /\ Share(s, i).by \in Nat \ {0}
         /\ \A j \in Ids :
              (j \in Range(s) => i \in Range(s) /\ Position(s, i) < Position(s, j)) =>
                /\ Share(s, i).of * Share(s, j).by >= Share(s, j).of * Share(s, i).by
                /\ j \in Range(s) =>
                     Share(s, i).of * Share(s, j).by > Share(s, j).of * Share(s, i).by
<1>1. RrfK \in Nat \ {0}
  BY RetrievalAssumption
<1>2. \A k \in Range(s) : Position(s, k) \in Nat \ {0}
  <2>1. DOMAIN s \subseteq Nat \ {0}
    OBVIOUS
  <2> QED
    BY <2>1, PositionIs
<1>3. ASSUME NEW k \in Ids
      PROVE  Share(s, k).of \in Nat /\ Share(s, k).by \in Nat \ {0}
  <2>1. CASE k \in Range(s)
    BY <1>1, <1>2, <2>1 DEF Share
  <2>2. CASE k \notin Range(s)
    BY <2>2 DEF Share
  <2> QED
    BY <2>1, <2>2
<1>4. ASSUME NEW j \in Ids, j \in Range(s) => i \in Range(s) /\ Position(s, i) < Position(s, j)
      PROVE  /\ Share(s, i).of * Share(s, j).by >= Share(s, j).of * Share(s, i).by
             /\ j \in Range(s) =>
                  Share(s, i).of * Share(s, j).by > Share(s, j).of * Share(s, i).by
  <2>1. CASE j \in Range(s)
    <3>1. /\ Share(s, i).of = 1 /\ Share(s, i).by = RrfK + Position(s, i) - 1
          /\ Share(s, j).of = 1 /\ Share(s, j).by = RrfK + Position(s, j) - 1
      BY <1>4, <2>1 DEF Share
    <3>2. RrfK + Position(s, j) - 1 > RrfK + Position(s, i) - 1
      BY <1>1, <1>2, <1>4, <2>1
    <3>3. Share(s, i).of * Share(s, j).by > Share(s, j).of * Share(s, i).by
      BY <1>1, <1>2, <1>4, <2>1, <3>1, <3>2
    <3>4. Share(s, i).of * Share(s, j).by >= Share(s, j).of * Share(s, i).by
      BY <1>3, <3>3, ProductsOfNaturals
    <3> QED
      BY <3>3, <3>4
  <2>2. CASE j \notin Range(s)
    <3>1. Share(s, j).of = 0 /\ Share(s, j).by = 1
      BY <2>2 DEF Share
    <3>2. Share(s, i).of \in Nat /\ Share(s, i).by \in Nat
      BY <1>3
    <3> QED
      BY <2>2, <3>1, <3>2
  <2> QED
    BY <2>1, <2>2
<1> QED
  BY <1>3, <1>4

\* A chunk that stands above another in every ranking that has the other fuses above it.
LEMMA StandingAbove ==
  ASSUME TypeOK, NEW i \in Ids, NEW j \in Ids, StandsAbove(i, j)
  PROVE  Higher(i, j) /\ i \in Recalled /\ i # j
<1>1. vectorIds \in Seq(Ids) /\ lexicalIds \in Seq(Ids)
  BY RecalledTypes
<1>2. /\ j \in Range(vectorIds) =>
           i \in Range(vectorIds) /\ Position(vectorIds, i) < Position(vectorIds, j)
      /\ j \in Range(lexicalIds) =>
           i \in Range(lexicalIds) /\ Position(lexicalIds, i) < Position(lexicalIds, j)
      /\ j \in Range(vectorIds) \/ j \in Range(lexicalIds)
  BY DEF StandsAbove, Recalled
<1> DEFINE vi == Share(vectorIds, i)
<1> DEFINE vj == Share(vectorIds, j)
<1> DEFINE li == Share(lexicalIds, i)
<1> DEFINE lj == Share(lexicalIds, j)
<1>3. /\ vi.of \in Nat /\ vi.by \in Nat \ {0} /\ vj.of \in Nat /\ vj.by \in Nat \ {0}
      /\ li.of \in Nat /\ li.by \in Nat \ {0} /\ lj.of \in Nat /\ lj.by \in Nat \ {0}
  BY <1>1, Shares
<1>4. /\ vi.of * vj.by >= vj.of * vi.by
      /\ j \in Range(vectorIds) => vi.of * vj.by > vj.of * vi.by
  BY <1>1, <1>2, Shares
<1>5. /\ li.of * lj.by >= lj.of * li.by
      /\ j \in Range(lexicalIds) => li.of * lj.by > lj.of * li.by
  BY <1>1, <1>2, Shares
<1>6. /\ FusedScore(i) = [of |-> vi.of * li.by + li.of * vi.by, by |-> vi.by * li.by]
      /\ FusedScore(j) = [of |-> vj.of * lj.by + lj.of * vj.by, by |-> vj.by * lj.by]
  BY DEF FusedScore
<1> HIDE DEF vi, vj, li, lj
<1>7. (vi.of * li.by + li.of * vi.by) * (vj.by * lj.by)
        > (vj.of * lj.by + lj.of * vj.by) * (vi.by * li.by)
  BY <1>2, <1>3, <1>4, <1>5, SumOfFractions
<1>8. Higher(i, j)
  BY <1>6, <1>7 DEF Higher
<1>9. \A s \in {vectorIds, lexicalIds} : i \in Range(s) => Position(s, i) \in Nat
  <2>1. DOMAIN vectorIds \subseteq Nat /\ DOMAIN lexicalIds \subseteq Nat
    BY <1>1
  <2> QED
    BY <2>1, PositionIs
<1>10. i # j
  BY <1>2, <1>9
<1> QED
  BY <1>2, <1>8, <1>10 DEF Recalled

\* Of two chunks one fuses above the other, and not both.
LEMMA FusedScoreType ==
  ASSUME TypeOK, NEW i \in Ids
  PROVE  FusedScore(i).of \in Nat /\ FusedScore(i).by \in Nat \ {0}
<1>1. vectorIds \in Seq(Ids) /\ lexicalIds \in Seq(Ids)
  BY RecalledTypes
<1> DEFINE v == Share(vectorIds, i)
<1> DEFINE l == Share(lexicalIds, i)
<1>2. /\ v.of \in Nat /\ v.by \in Nat /\ v.by > 0
      /\ l.of \in Nat /\ l.by \in Nat /\ l.by > 0
  BY <1>1, Shares
<1>3. FusedScore(i) = [of |-> v.of * l.by + l.of * v.by, by |-> v.by * l.by]
  BY DEF FusedScore
<1> HIDE DEF v, l
<1>4. v.of * l.by \in Nat /\ l.of * v.by \in Nat /\ v.by * l.by \in Nat /\ v.by * l.by > 0
  BY <1>2, ProductsOfNaturals
<1> QED
  BY <1>3, <1>4
LEMMA HigherIsOneWay ==
  ASSUME TypeOK, NEW i \in Ids, NEW j \in Ids, Higher(i, j)
  PROVE  ~Higher(j, i) /\ ~FusesAbove(j, i)
<1> DEFINE m == FusedScore(i).of * FusedScore(j).by
<1> DEFINE n == FusedScore(j).of * FusedScore(i).by
<1>1. m \in Nat /\ n \in Nat
  BY FusedScoreType, ProductsOfNaturals
<1>2. m > n
  BY DEF Higher
<1>3. ~(n > m)
  <2> HIDE DEF m, n
  <2> QED
    BY <1>1, <1>2
<1>4. ~Higher(j, i)
  BY <1>3 DEF Higher
<1> QED
  BY <1>4 DEF FusesAbove

\* An answer that is not sorted again has what stands above a chunk of it, and before it.
LEMMA FairAnswers ==
  ASSUME TypeOK, request.mode = "vector" => lexicalIds = <<>>, ~request.rerank,
         NEW f \in Finals, NEW i \in Ids, NEW j \in Ids, StandsAbove(i, j), j \in Range(f)
  PROVE  \E p, q \in DOMAIN f : p < q /\ f[p] = i /\ f[q] = j
<1>1. PICK s \in Ordered : f = Take(s, TopK)
  BY DEF Finals, Sorts, Pool
<1>2. s \in Seq(Ids) /\ Injective(s) /\ Range(s) = Recalled
  BY OrderedIs
<1>3. Higher(i, j) /\ i \in Recalled /\ i # j
  BY StandingAbove
<1>4. TopK \in Nat
  BY Types
<1>5. /\ DOMAIN f = 1..Len(f) /\ Len(f) \in Nat
      /\ \A p \in DOMAIN f : p \in DOMAIN s /\ f[p] = s[p]
  BY <1>1, <1>2, <1>4, TakeType
<1>6. PICK q \in DOMAIN f : f[q] = j
  BY DEF Range
<1>7. PICK p \in DOMAIN s : s[p] = i
  BY <1>2, <1>3 DEF Range
<1>8. q \in DOMAIN s /\ s[q] = j /\ p # q
  BY <1>3, <1>5, <1>6, <1>7
<1>9. ~(q < p)
  <2>1. CASE request.mode = "hybrid"
    <3>1. \A m, n \in DOMAIN s : m < n => FusesAbove(s[m], s[n])
      BY <2>1 DEF Ordered, Fused
    <3>2. ~FusesAbove(j, i)
      BY <1>3, HigherIsOneWay
    <3> QED
      BY <1>7, <1>8, <3>1, <3>2
  <2>2. CASE request.mode = "vector"
    <3>1. s = vectorIds /\ lexicalIds = <<>>
      BY <2>2 DEF Ordered
    <3>2. Range(lexicalIds) = {}
      BY <3>1 DEF Range
    <3>3. Position(s, i) < Position(s, j)
      BY <3>1, <3>2 DEF StandsAbove, Recalled
    <3>4. Position(s, i) = p /\ Position(s, j) = q
      BY <1>2, <1>7, <1>8, PositionOf
    <3> QED
      BY <1>2, <1>5, <1>6, <1>7, <3>3, <3>4
  <2> QED
    BY <2>1, <2>2, Types
<1>10. p < q /\ p \in DOMAIN f
  <2>1. p \in Nat /\ 1 <= p /\ q \in Nat /\ q <= Len(f)
    BY <1>2, <1>5, <1>6, <1>7
  <2>2. p < q
    BY <1>8, <1>9, <2>1
  <2> QED
    BY <1>5, <2>1, <2>2
<1> QED
  BY <1>5, <1>6, <1>7, <1>10

-----------------------------------------------------------------------------
(***************************************************************************)
(* Recall.                                                                 *)
(***************************************************************************)
\* A branch is not full while there is more to be had, if that is not more than recall keeps.
LEMMA FullBranch ==
  ASSUME NEW s \in Seq(Ids), Injective(s), NEW S, S \subseteq Ids, Range(s) \subseteq S,
         Cardinality(S) <= RecallK, NEW i \in S \ Range(s)
  PROVE  Len(s) # RecallK
<1>1. IsFiniteSet(S) /\ RecallK \in Nat
  BY FS_Subset, RetrievalAssumption
<1>2. IsFiniteSet(Range(s)) /\ Cardinality(Range(s)) = Len(s)
  BY ElementsOfRanking DEF Injective
<1>3. Cardinality(Range(s) \cup {i}) = Cardinality(Range(s)) + 1
  BY <1>2, FS_AddElement
<1>4. Cardinality(Range(s) \cup {i}) <= Cardinality(S)
  <2>1. Range(s) \cup {i} \subseteq S
    OBVIOUS
  <2> QED
    BY <1>1, <2>1, FS_Subset
<1>5. Cardinality(S) \in Nat /\ Cardinality(Range(s)) \in Nat
  BY <1>1, <1>2, FS_CardinalityType
<1>6. Cardinality(Range(s)) < RecallK
  BY <1>1, <1>3, <1>4, <1>5
<1> QED
  BY <1>1, <1>2, <1>5, <1>6

\* If not more is to be had than recall keeps, what is sorted again has it all.
LEMMA AllIsRecalled ==
  ASSUME IInv, stage = "done", Cardinality(Recallable) <= RecallK
  PROVE  Recallable \cap known \subseteq Recalled /\ Recalled \subseteq Recallable
<1>1. TypeOK /\ LexicalInv
  BY DEF IInv
<1>2. vectorIds \in Seq(Ids) /\ lexicalIds \in Seq(Ids) /\ Injective(lexicalIds)
  BY <1>1, RecalledTypes
<1>3. CASE request.mode = "hybrid"
  <2>1. /\ Range(lexicalIds) \subseteq Matching
        /\ \A i \in (Matching \cap known) \ Range(lexicalIds) : Len(lexicalIds) = RecallK
        /\ Recallable = Range(vectorIds) \cup Matching
    BY <1>1, <1>3 DEF LexicalInv, Recallable
  <2>2. Range(lexicalIds) \subseteq Recallable /\ Recallable \subseteq Ids
    BY <1>1, <1>2, <2>1, Types DEF Range
  <2>3. Matching \cap known \subseteq Range(lexicalIds)
    <3> SUFFICES ASSUME NEW i \in (Matching \cap known) \ Range(lexicalIds)
                 PROVE  FALSE
      OBVIOUS
    <3>1. i \in Recallable \ Range(lexicalIds)
      BY <2>1
    <3>2. Len(lexicalIds) # RecallK
      BY <1>2, <2>2, <3>1, FullBranch
    <3> QED
      BY <2>1, <3>2
  <2> QED
    BY <2>1, <2>3 DEF Recalled
<1>4. CASE request.mode = "vector"
  <2>1. lexicalIds = <<>> /\ Recallable = Range(vectorIds)
    BY <1>1, <1>4 DEF LexicalInv, Recallable
  <2>2. Range(lexicalIds) = {}
    BY <2>1 DEF Range
  <2> QED
    BY <2>1, <2>2 DEF Recalled
<1> QED
  BY <1>1, <1>3, <1>4, Types

\* The answer is as long as the chunks it has.
LEMMA AnsweredIs ==
  ASSUME TypeOK, request.mode = "vector" => lexicalIds = <<>>, NEW f \in Finals,
         result = AnswerOf(f)
  PROVE  Answered = Range(f) /\ Cardinality(Answered) = Len(f)
<1>1. DOMAIN result = DOMAIN f /\ \A p \in DOMAIN f : result[p].id = f[p]
  BY AnswerType
<1>2. Answered = Range(f)
  BY <1>1 DEF Answered, Range
<1>3. Cardinality(Range(f)) = Len(f)
  BY FinalsIs, ElementsOfRanking DEF Injective
<1> QED
  BY <1>2, <1>3

\* What the cross-encoder puts above another chunk scores no lower.
LEMMA BestFirst ==
  ASSUME TypeOK, NEW pool \in Seq(Ids), Injective(pool), NEW s \in Reranked(pool),
         NEW i \in Range(s) \ Range(Take(s, TopK))
  PROVE  /\ Len(Take(s, TopK)) = TopK
         /\ \A j \in Range(Take(s, TopK)) : corpus[j].score >= corpus[i].score
<1>1. s \in Seq(Ids) /\ Injective(s) /\ TopK \in Nat
  BY RerankedIs, Types
<1>2. /\ Len(Take(s, TopK)) = TopK
      /\ \A j \in Range(Take(s, TopK)) : \E p, q \in DOMAIN s : p < q /\ s[p] = j /\ s[q] = i
  BY <1>1, CutOfRanking
<1>3. \A p, q \in DOMAIN s : p < q => ScoresAbove(pool, s[p], s[q])
  BY DEF Reranked
<1>4. ASSUME NEW j \in Range(Take(s, TopK))
      PROVE  corpus[j].score >= corpus[i].score
  <2>1. PICK p \in DOMAIN s, q \in DOMAIN s : p < q /\ s[p] = j /\ s[q] = i
    BY <1>2
  <2>2. ScoresAbove(pool, j, i)
    BY <1>3, <2>1
  <2>3. i \in Ids /\ j \in Ids
    BY <1>1, <2>1
  <2>4. corpus[i].score \in Int /\ corpus[j].score \in Int
    BY <2>3, Types
  <2> QED
    BY <2>2, <2>4 DEF ScoresAbove
<1> QED
  BY <1>2, <1>4

LEMMA NothingBetterOfIInv == IInv => NothingBetterIsLeftOut
<1> SUFFICES ASSUME IInv, stage = "done", request.rerank, Cardinality(Recallable) <= RecallK,
                    NEW i \in (Recallable \cap known) \ Answered
             PROVE  /\ Cardinality(Answered) = TopK
                    /\ \A j \in Answered : corpus[j].score >= corpus[i].score
  BY DEF NothingBetterIsLeftOut
<1>1. TypeOK /\ LexicalInv /\ AnswerInv
  BY DEF IInv
<1>2. request.mode = "vector" => lexicalIds = <<>>
  BY <1>1 DEF LexicalInv
<1>3. PICK f \in Finals : result = AnswerOf(f)
  BY <1>1 DEF AnswerInv
<1>4. Answered = Range(f) /\ Cardinality(Answered) = Len(f)
  BY <1>1, <1>2, <1>3, AnsweredIs
<1>5. PICK s \in Sorts : f = Take(s, TopK)
  BY <1>1, <1>2, FinalsIs
<1>6. PICK o \in Ordered : s \in Reranked(Take(o, RecallK))
  BY <1>5 DEF Sorts, Pool
<1>7. o \in Seq(Ids) /\ Injective(o) /\ Range(o) = Recalled
  BY <1>1, <1>2, OrderedIs
<1>8. i \in Recalled /\ Recalled \subseteq Recallable
  BY AllIsRecalled
<1>9. Take(o, RecallK) = o
  <2>1. Recallable \subseteq Ids
    BY <1>1, Types, RecalledTypes DEF Recallable, Recalled
  <2>2. IsFiniteSet(Recallable) /\ RecallK \in Nat
    BY <2>1, FS_Subset, RetrievalAssumption
  <2>3. Cardinality(Recalled) = Len(o)
    BY <1>7, ElementsOfRanking DEF Injective
  <2>4. Cardinality(Recalled) <= Cardinality(Recallable)
    BY <1>8, <2>2, FS_Subset
  <2>5. Cardinality(Recallable) \in Nat /\ Len(o) \in Nat
    BY <1>7, <2>2, FS_CardinalityType
  <2>6. Len(o) <= RecallK
    BY <2>2, <2>3, <2>4, <2>5
  <2> QED
    BY <1>7, <2>2, <2>6, CutOfRanking
<1>10. s \in Reranked(o) /\ Range(s) = Recalled
  BY <1>6, <1>7, <1>9, RerankedIs
<1>11. i \in Range(s) \ Range(Take(s, TopK))
  BY <1>4, <1>5, <1>8, <1>10
<1>12. /\ Len(Take(s, TopK)) = TopK
       /\ \A j \in Range(Take(s, TopK)) : corpus[j].score >= corpus[i].score
  BY <1>1, <1>7, <1>10, <1>11, BestFirst
<1> QED
  BY <1>4, <1>5, <1>12

-----------------------------------------------------------------------------
(***************************************************************************)
(* The consensus.                                                          *)
(***************************************************************************)
\* Neighbours that only the text search found are no ground for hours: their similarity is
\* zero, so the weighted similarity is below its limit.
LEMMA TextAloneIsUnreliable ==
  ASSUME TypeOK, NEW N, N \subseteq Ids, N # {}, N \cap Range(vectorIds) = {}
  PROVE  Unreliable(N)
<1> DEFINE w == [i \in N |-> Weight[Distance(i)]]
<1> DEFINE z == [i \in N |-> Weight[Distance(i)] * Max({0, 10 - Distance(i)})]
<1>1. IsFiniteSet(N)
  BY FS_Subset, RetrievalAssumption
<1>2. \A i \in N : Distance(i) = 10
  BY DEF Distance, Far
<1>3. Weight[10] \in Nat \ {0}
  BY RetrievalAssumption DEF Distances
<1>4. Max({0, 10 - 10}) = 0
  BY Extremes
<1>5. \A i \in N : w[i] \in Nat /\ w[i] > 0
  BY <1>2, <1>3
<1>6. \A i \in N : z[i] = 0
  <2>1. Weight[10] * 0 = 0
    BY <1>3
  <2> QED
    BY <1>2, <1>4, <2>1
<1>7. DOMAIN w = N /\ DOMAIN z = N
  OBVIOUS
<1>8. Similarity(N) = SumFunction(z) /\ Similarities(N) = 10 * SumFunction(w)
  BY DEF Similarity, Similarities
<1> HIDE DEF w, z
<1>9. SumFunction(w) \in Nat /\ SumFunction(w) > 0
  BY <1>1, <1>5, <1>7, SumOfNaturals
<1>10. SumFunction(z) = 0
  BY <1>1, <1>6, <1>7, SumOfNaturals
<1>11. 20 * Similarity(N) - 7 * Similarities(N) < 0
  BY <1>8, <1>9, <1>10
<1> QED
  BY <1>11 DEF Unreliable

LEMMA GroundedOfIInv == IInv => HoursAreGrounded
<1> SUFFICES ASSUME IInv, finding = "sound"
             PROVE  \E p \in DOMAIN result :
                      /\ corpus[result[p].id].hours # NoHours
                      /\ corpus[result[p].id].distance <= Threshold
                      /\ result[p].id \in Range(vectorIds)
  BY DEF HoursAreGrounded
<1>1. TypeOK /\ VectorInv /\ LexicalInv /\ AnswerInv
  BY DEF IInv
<1>2. request.mode = "vector" => lexicalIds = <<>>
  BY <1>1 DEF LexicalInv
<1>3. stage = "done"
  BY <1>1 DEF AnswerInv, None
<1>4. PICK f \in Finals : result = AnswerOf(f) /\ finding = FindingOf(Neighbours(f))
  BY <1>1, <1>3 DEF AnswerInv
<1>5. f \in Seq(Ids) /\ Range(f) \subseteq Ids
  BY <1>1, <1>2, FinalsIs, ElementsOfRanking DEF Injective
<1>6. Neighbours(f) \subseteq Ids
  BY <1>5 DEF Neighbours
<1>7. Neighbours(f) # {} /\ ~Unreliable(Neighbours(f))
  BY <1>4 DEF FindingOf
<1>8. PICK i \in Neighbours(f) : i \in Range(vectorIds)
  BY <1>1, <1>6, <1>7, TextAloneIsUnreliable
<1>9. i \in Range(f) /\ corpus[i].hours # NoHours
  BY <1>8 DEF Neighbours
<1>10. corpus[i].distance <= Threshold
  BY <1>1, <1>3, <1>8 DEF VectorInv, UnderThreshold
<1>11. PICK p \in DOMAIN f : f[p] = i
  BY <1>9 DEF Range
<1>12. p \in DOMAIN result /\ result[p].id = i
  BY <1>1, <1>2, <1>4, <1>11, AnswerType
<1> QED
  BY <1>8, <1>9, <1>10, <1>12

LEMMA FairOfIInv == IInv => FusionIsFair
<1> SUFFICES ASSUME IInv, stage = "done", ~request.rerank, NEW i \in Ids, NEW j \in Ids,
                    StandsAbove(i, j), j \in Answered
             PROVE  \E p, q \in DOMAIN result : p < q /\ result[p].id = i /\ result[q].id = j
  BY DEF FusionIsFair
<1>1. TypeOK /\ LexicalInv /\ AnswerInv
  BY DEF IInv
<1>2. request.mode = "vector" => lexicalIds = <<>>
  BY <1>1 DEF LexicalInv
<1>3. PICK f \in Finals : result = AnswerOf(f)
  BY <1>1 DEF AnswerInv
<1>4. j \in Range(f)
  BY <1>1, <1>2, <1>3, AnsweredIs
<1>5. PICK p \in DOMAIN f, q \in DOMAIN f : p < q /\ f[p] = i /\ f[q] = j
  BY <1>1, <1>2, <1>4, FairAnswers
<1>6. DOMAIN result = DOMAIN f /\ \A m \in DOMAIN f : result[m].id = f[m]
  BY <1>1, <1>2, <1>3, AnswerType
<1> QED
  BY <1>5, <1>6

-----------------------------------------------------------------------------
(***************************************************************************)
(* A search that has its rankings has one answer.                          *)
(***************************************************************************)
\* The order of fractions is total.
LEMMA FractionsOrdered ==
  ASSUME NEW a \in Nat, NEW b \in Nat \ {0}, NEW c \in Nat, NEW d \in Nat \ {0},
         NEW x \in Nat, NEW y \in Nat \ {0}, a * d >= c * b, c * y >= x * d
  PROVE  a * y >= x * b /\ (a * d > c * b \/ c * y > x * d => a * y > x * b)
<1>1. /\ a * d \in Nat /\ c * b \in Nat /\ c * y \in Nat /\ x * d \in Nat
      /\ a * y \in Nat /\ x * b \in Nat
  BY ProductsOfNaturals
<1>2. /\ (a * d) * y >= (c * b) * y /\ (a * d > c * b => (a * d) * y > (c * b) * y)
      /\ (c * y) * b >= (x * d) * b /\ (c * y > x * d => (c * y) * b > (x * d) * b)
  BY <1>1, LargerBy
<1>3. (a * d) * y = (a * y) * d /\ (c * b) * y = (c * y) * b /\ (x * d) * b = (x * b) * d
  OBVIOUS
<1>4. (a * y) * d \in Nat /\ (c * y) * b \in Nat /\ (x * b) * d \in Nat
  BY <1>1, ProductsOfNaturals
<1>5. /\ (a * y) * d >= (x * b) * d
      /\ a * d > c * b \/ c * y > x * d => (a * y) * d > (x * b) * d
  BY <1>2, <1>3, <1>4
<1>6. a * y < x * b => (x * b) * d > (a * y) * d
  BY <1>1, LargerBy
<1>7. a * y >= x * b
  BY <1>1, <1>4, <1>5, <1>6
<1>8. a * y = x * b => (a * y) * d = (x * b) * d
  OBVIOUS
<1>9. a * d > c * b \/ c * y > x * d => a * y # x * b
  BY <1>4, <1>5, <1>8
<1> QED
  BY <1>1, <1>7, <1>9

FusedOrder == {e \in Ids \X Ids : e[1] = e[2] \/ FusesAbove(e[1], e[2])}
LEMMA FusedOrderIs ==
  ASSUME TypeOK
  PROVE  Orders(FusedOrder, Ids)
         /\ \A i, j \in Ids : <<i, j>> \in FusedOrder /\ <<j, i>> \in FusedOrder => i = j
<1>0. Ids \subseteq Nat
  BY RetrievalAssumption
<1>1. ASSUME NEW i \in Ids, NEW j \in Ids
      PROVE  /\ i # j => FusesAbove(i, j) \/ FusesAbove(j, i)
             /\ ~(i # j /\ FusesAbove(i, j) /\ FusesAbove(j, i))
  BY <1>0, HigherIsOneWay DEF FusesAbove
<1>2. ASSUME NEW i \in Ids, NEW j \in Ids, NEW k \in Ids, FusesAbove(i, j), FusesAbove(j, k)
      PROVE  FusesAbove(i, k)
  <2> DEFINE a == FusedScore(i).of
  <2> DEFINE b == FusedScore(i).by
  <2> DEFINE c == FusedScore(j).of
  <2> DEFINE d == FusedScore(j).by
  <2> DEFINE x == FusedScore(k).of
  <2> DEFINE y == FusedScore(k).by
  <2>1. /\ a \in Nat /\ b \in Nat \ {0} /\ c \in Nat /\ d \in Nat \ {0}
        /\ x \in Nat /\ y \in Nat \ {0}
    BY FusedScoreType
  <2>2. /\ Higher(i, j) <=> a * d > c * b
        /\ Higher(j, i) <=> c * b > a * d
        /\ Higher(j, k) <=> c * y > x * d
        /\ Higher(k, j) <=> x * d > c * y
        /\ Higher(i, k) <=> a * y > x * b
        /\ Higher(k, i) <=> x * b > a * y
    BY DEF Higher
  <2> HIDE DEF a, b, c, d, x, y
  <2>3. /\ a * d \in Nat /\ c * b \in Nat /\ c * y \in Nat /\ x * d \in Nat
        /\ a * y \in Nat /\ x * b \in Nat
    BY <2>1, ProductsOfNaturals
  <2>4. a * d >= c * b /\ (a * d > c * b \/ i < j)
    BY <1>2, <2>2, <2>3 DEF FusesAbove
  <2>5. c * y >= x * d /\ (c * y > x * d \/ j < k)
    BY <1>2, <2>2, <2>3 DEF FusesAbove
  <2>6. a * y >= x * b /\ (a * d > c * b \/ c * y > x * d => a * y > x * b)
    BY <2>1, <2>4, <2>5, FractionsOrdered
  <2>7. ~Higher(k, i)
    BY <2>2, <2>3, <2>6
  <2>8. Higher(i, k) \/ (i < j /\ j < k)
    BY <2>2, <2>4, <2>5, <2>6
  <2>9. i < j /\ j < k => i < k
    BY <1>0
  <2> QED
    BY <2>7, <2>8, <2>9 DEF FusesAbove
<1>3. \A i, j \in Ids : <<i, j>> \in FusedOrder <=> i = j \/ FusesAbove(i, j)
  BY DEF FusedOrder
<1>4. \A i, j, k \in Ids :
        <<i, j>> \in FusedOrder /\ <<j, k>> \in FusedOrder => <<i, k>> \in FusedOrder
  BY <1>2, <1>3
<1>5. \A i, j \in Ids : <<i, j>> \in FusedOrder \/ <<j, i>> \in FusedOrder
  BY <1>1, <1>3
<1> QED
  BY <1>1, <1>3, <1>4, <1>5 DEF Orders

\* Fusion puts what was recalled in one order.
LEMMA OneOrder ==
  ASSUME TypeOK
  PROVE  \E o : Ordered = {o}
<1>1. CASE request.mode = "hybrid"
  <2>1. Recalled \subseteq Ids /\ IsFiniteSet(Recalled)
    BY RecalledTypes
  <2>2. /\ Orders(FusedOrder, Recalled)
        /\ \A i, j \in Recalled : <<i, j>> \in FusedOrder /\ <<j, i>> \in FusedOrder => i = j
    BY <2>1, FusedOrderIs DEF Orders
  <2>3. ASSUME NEW s \in SetToSeqs(Recalled)
        PROVE  s \in Fused <=> Sorted(s, FusedOrder)
    <3>1. s \in Seq(Recalled) /\ \A p, q \in DOMAIN s : s[p] = s[q] => p = q
      BY <2>1, RankingOfSet
    <3>2. \A p \in DOMAIN s : s[p] \in Ids /\ p \in Nat
      BY <2>1, <3>1
    <3>3. \A p, q \in DOMAIN s : p < q => s[p] # s[q]
      BY <3>1, <3>2
    <3> QED
      BY <3>2, <3>3 DEF Fused, Sorted, FusedOrder
  <2>4. PICK s \in SetToSeqs(Recalled) : Sorted(s, FusedOrder)
    BY <2>1, <2>2, SortedRanking
  <2>5. \A t \in Fused : t = s
    <3>1. Fused \subseteq SetToSeqs(Recalled)
      BY DEF Fused
    <3> QED
      BY <2>1, <2>2, <2>3, <2>4, <3>1, SortedRankingIsUnique
  <2> QED
    BY <1>1, <2>3, <2>4, <2>5 DEF Ordered
<1>2. CASE request.mode = "vector"
  BY <1>2 DEF Ordered
<1> QED
  BY <1>1, <1>2, Types

ScoreOrder(pool) ==
  {e \in Range(pool) \X Range(pool) : e[1] = e[2] \/ ScoresAbove(pool, e[1], e[2])}
LEMMA ScoreOrderIs ==
  ASSUME TypeOK, NEW pool \in Seq(Ids), Injective(pool)
  PROVE  /\ Orders(ScoreOrder(pool), Range(pool))
         /\ \A i, j \in Range(pool) :
              <<i, j>> \in ScoreOrder(pool) /\ <<j, i>> \in ScoreOrder(pool) => i = j
<1>1. ASSUME NEW i \in Range(pool)
      PROVE  corpus[i].score \in Int /\ Position(pool, i) \in Nat /\ pool[Position(pool, i)] = i
  <2>1. DOMAIN pool \subseteq Nat /\ Range(pool) \subseteq Ids
    BY DEF Range
  <2> QED
    BY <2>1, PositionIs, Types
<1>2. ASSUME NEW i \in Range(pool), NEW j \in Range(pool)
      PROVE  /\ i # j => ScoresAbove(pool, i, j) \/ ScoresAbove(pool, j, i)
             /\ ~(ScoresAbove(pool, i, j) /\ ScoresAbove(pool, j, i))
  <2>1. i # j => Position(pool, i) # Position(pool, j)
    BY <1>1
  <2> QED
    BY <1>1, <2>1 DEF ScoresAbove
<1>3. ASSUME NEW i \in Range(pool), NEW j \in Range(pool), NEW k \in Range(pool),
             ScoresAbove(pool, i, j), ScoresAbove(pool, j, k)
      PROVE  ScoresAbove(pool, i, k)
  BY <1>1, <1>3 DEF ScoresAbove
<1>4. \A i, j \in Range(pool) :
        <<i, j>> \in ScoreOrder(pool) <=> i = j \/ ScoresAbove(pool, i, j)
  BY DEF ScoreOrder
<1>5. \A i, j, k \in Range(pool) :
        <<i, j>> \in ScoreOrder(pool) /\ <<j, k>> \in ScoreOrder(pool) =>
          <<i, k>> \in ScoreOrder(pool)
  BY <1>3, <1>4
<1>6. \A i, j \in Range(pool) : <<i, j>> \in ScoreOrder(pool) \/ <<j, i>> \in ScoreOrder(pool)
  BY <1>2, <1>4
<1> QED
  BY <1>2, <1>4, <1>5, <1>6 DEF Orders

\* So does the cross-encoder, stable as its sort is.
LEMMA OneReranking ==
  ASSUME TypeOK, NEW pool \in Seq(Ids), Injective(pool)
  PROVE  \E s : Reranked(pool) = {s}
<1> DEFINE S == Range(pool)
<1> DEFINE R == ScoreOrder(pool)
<1>1. IsFiniteSet(S)
  BY ElementsOfRanking DEF Injective
<1>2. Orders(R, S) /\ \A i, j \in S : <<i, j>> \in R /\ <<j, i>> \in R => i = j
  BY ScoreOrderIs
<1>3. ASSUME NEW s \in SetToSeqs(S)
      PROVE  s \in Reranked(pool) <=> Sorted(s, R)
  <2>1. s \in Seq(S) /\ \A p, q \in DOMAIN s : s[p] = s[q] => p = q
    BY <1>1, RankingOfSet
  <2>2. \A p \in DOMAIN s : s[p] \in S /\ p \in Nat
    BY <2>1
  <2>3. \A p, q \in DOMAIN s : p < q => s[p] # s[q]
    BY <2>1, <2>2
  <2> QED
    BY <2>2, <2>3 DEF Reranked, Sorted, ScoreOrder
<1>4. Reranked(pool) \subseteq SetToSeqs(S)
  BY DEF Reranked
<1> HIDE DEF S, R
<1>5. PICK s \in SetToSeqs(S) : Sorted(s, R)
  BY <1>1, <1>2, SortedRanking
<1>6. \A t \in Reranked(pool) : t = s
  BY <1>1, <1>2, <1>3, <1>4, <1>5, SortedRankingIsUnique
<1> QED
  BY <1>3, <1>5, <1>6

LEMMA OneAnswer ==
  ASSUME TypeOK, request.mode = "vector" => lexicalIds = <<>>
  PROVE  \E f : Finals = {f}
<1>1. PICK o : Ordered = {o}
  BY OneOrder
<1>2. PICK s : Sorts = {s}
  <2>1. CASE request.rerank
    <3>1. o \in Seq(Ids) /\ Injective(o) /\ RecallK \in Nat
      BY <1>1, OrderedIs, Types
    <3>2. Take(o, RecallK) \in Seq(Ids) /\ Injective(Take(o, RecallK))
      BY <3>1, TakeType, CutOfRanking
    <3>3. PICK s : Reranked(Take(o, RecallK)) = {s}
      BY <3>2, OneReranking
    <3>4. Sorts = {s}
      BY <1>1, <2>1, <3>3 DEF Sorts, Pool
    <3> QED
      BY <3>4
  <2>2. CASE ~request.rerank
    BY <1>1, <2>2 DEF Sorts
  <2> QED
    BY <2>1, <2>2
<1>3. Finals = {Take(s, TopK)}
  BY <1>2 DEF Finals
<1> QED
  BY <1>3

\* The statements of the branches can be answered: their rows have an order.
LEMMA BranchesAnswer ==
  ASSUME TypeOK
  PROVE  (\A scanned \in Scans : ByDistance(scanned) # {}) /\ ByRank # {}
<1>1. /\ UnderThreshold \subseteq Ids /\ Matching \subseteq Ids
      /\ IsFiniteSet(UnderThreshold) /\ IsFiniteSet(Matching)
      /\ \A i \in Ids : corpus[i].distance \in Nat /\ corpus[i].rank \in Nat
  BY Types DEF Distances
<1>2. ASSUME NEW scanned \in Scans
      PROVE  ByDistance(scanned) # {}
  <2> DEFINE R == {e \in Ids \X Ids : ~Nearer(e[2], e[1])}
  <2>1. \A i, j \in Ids : <<i, j>> \in R <=> corpus[i].distance <= corpus[j].distance
    BY <1>1 DEF Nearer
  <2>2. \A i, j \in Ids : <<i, j>> \in R => ~Nearer(j, i)
    OBVIOUS
  <2> HIDE DEF R
  <2>3. \A i \in scanned : i \in Ids
    BY <1>1 DEF Scans
  <2>4. Orders(R, scanned)
    <3>1. ASSUME NEW i \in scanned, NEW j \in scanned
          PROVE  <<i, j>> \in R \/ <<j, i>> \in R
      <4>1. i \in Ids /\ j \in Ids
        BY <2>3
      <4>2. corpus[i].distance <= corpus[j].distance \/ corpus[j].distance <= corpus[i].distance
        BY <1>1, <4>1
      <4> QED
        BY <2>1, <4>1, <4>2
    <3>2. \A i, j, k \in scanned : <<i, j>> \in R /\ <<j, k>> \in R => <<i, k>> \in R
      <4>1. \A i \in scanned : corpus[i].distance \in Nat
        BY <1>1, <2>3
      <4> QED
        BY <2>1, <2>3, <4>1
    <3> QED
      BY <3>1, <3>2 DEF Orders
  <2>5. IsFiniteSet(scanned) /\ scanned \subseteq Ids
    BY <1>1, FS_Subset DEF Scans
  <2>6. PICK s \in SetToSeqs(scanned) : Sorted(s, R)
    BY <2>4, <2>5, SortedRanking
  <2>7. Range(s) = scanned
    BY <2>5, RankingOfSet
  <2>8. \A p \in DOMAIN s : s[p] \in Ids
    BY <2>5, <2>7 DEF Range
  <2>9. s \in ByDistance(scanned)
    BY <2>2, <2>6, <2>8 DEF ByDistance, Sorted
  <2> QED
    BY <2>9
<1>3. ByRank # {}
  <2> DEFINE R == {e \in Ids \X Ids : ~RanksAbove(e[2], e[1])}
  <2>1. \A i, j \in Ids : <<i, j>> \in R <=> corpus[i].rank >= corpus[j].rank
    BY <1>1 DEF RanksAbove
  <2>2. \A i, j \in Ids : <<i, j>> \in R => ~RanksAbove(j, i)
    OBVIOUS
  <2> HIDE DEF R
  <2>3. Orders(R, Matching)
    <3>1. ASSUME NEW i \in Matching, NEW j \in Matching
          PROVE  <<i, j>> \in R \/ <<j, i>> \in R
      <4>1. i \in Ids /\ j \in Ids
        BY <1>1
      <4>2. corpus[i].rank >= corpus[j].rank \/ corpus[j].rank >= corpus[i].rank
        BY <1>1, <4>1
      <4> QED
        BY <2>1, <4>1, <4>2
    <3>2. \A i, j, k \in Matching : <<i, j>> \in R /\ <<j, k>> \in R => <<i, k>> \in R
      BY <1>1, <2>1
    <3> QED
      BY <3>1, <3>2 DEF Orders
  <2>4. PICK s \in SetToSeqs(Matching) : Sorted(s, R)
    BY <1>1, <2>3, SortedRanking
  <2>5. \A p \in DOMAIN s : s[p] \in Ids
    BY <1>1, <2>4, RankingOfSet DEF Range
  <2>6. s \in ByRank
    BY <2>2, <2>4, <2>5 DEF ByRank, Sorted
  <2> QED
    BY <2>6
<1> QED
  BY <1>2, <1>3

-----------------------------------------------------------------------------
(***************************************************************************)
(* The theorems.                                                           *)
(***************************************************************************)
\* Rankings have no duplicates, and an answer has at most TopK chunks, none twice.
THEOREM TypeCorrect == Spec => []TypeOK
<1>1. IInv => TypeOK
  BY DEF IInv
<1> QED
  BY <1>1, InvariantHolds, PTL

\* A chunk that stands above another in every ranking that has the other is answered
\* before it (reciprocal_rank_fusion), whatever the constant of the fusion.
THEOREM FusionIsFairHolds == Spec => []FusionIsFair
  BY FairOfIInv, InvariantHolds, PTL

\* Of what the branches come by, a chunk that the cross-encoder's cut leaves out is beaten by
\* TopK chunks, whatever the vector branch misses and whatever is committed during the search
\* (hybrid_search_one, retrieve).
THEOREM NothingBetterIsLeftOutHolds == Spec => []NothingBetterIsLeftOut
  BY NothingBetterOfIInv, InvariantHolds, PTL

\* Hours that are not flagged rest on a neighbour under the threshold (consensus,
\* _flag_reason), whatever the weights.
THEOREM HoursAreGroundedHolds == Spec => []HoursAreGrounded
  BY GroundedOfIInv, InvariantHolds, PTL

\* The answer is determined by the rankings of the branches: ties are broken by the chunk's
\* id in the fusion (reciprocal_rank_fusion) and by the place in the pool in the rerank.
\* The branches themselves always have rows to answer with, so no search is stuck.
AnswerIsDetermined ==
  /\ stage = "ranking" => \E f : Finals = {f}
  /\ stage = "vector" => \A scanned \in Scans : ByDistance(scanned) # {}
  /\ stage = "lexical" => ByRank # {}
THEOREM AnswerIsDeterminedHolds == Spec => []AnswerIsDetermined
<1>1. IInv => AnswerIsDetermined
  <2> SUFFICES ASSUME IInv
               PROVE  AnswerIsDetermined
    OBVIOUS
  <2>1. TypeOK /\ (request.mode = "vector" => lexicalIds = <<>>)
    BY DEF IInv, LexicalInv
  <2> QED
    BY <2>1, OneAnswer, BranchesAnswer DEF AnswerIsDetermined
<1> QED
  BY <1>1, InvariantHolds, PTL
=============================================================================
