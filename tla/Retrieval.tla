------------------------------ MODULE Retrieval -----------------------------
(***************************************************************************)
(* The search behind the hours of a task (src/src/generation/rag/          *)
(* task_hours.py): recall by vector and by text, fusion of the two         *)
(* rankings, the cross-encoder, and the consensus of the neighbours found. *)
(* The statements of a search each see what is committed when they run;    *)
(* chunks may be committed between them.                                   *)
(***************************************************************************)
EXTENDS Integers, Sequences, FiniteSets, FiniteSetsExt, SequencesExt

CONSTANTS
  Ids,               \* chunk ids
  Profiles,          \* what a chunk is to a query
  Corpora,           \* bound: the profiles the chunks may have
  Late,              \* bound: the chunks that may be committed during the search
  TopK, RecallK,     \* top_k and rerank_top_n; recall_k
  Threshold,         \* distance_threshold, in tenths
  RrfK,              \* the smoothing constant of the fusion
  Weight,            \* the weight of a neighbour by its distance, nearer first
  NoHours

(***************************************************************************)
(* To a query, a chunk passes the filters or not, has a cosine distance    *)
(* (in tenths, 0 to 2), a rank for its text (0 if it does not match), a    *)
(* score for the cross-encoder, and recorded hours or none.                *)
(***************************************************************************)
Distances == 0..20
Far == 10            \* of a chunk that only the text search found
Requests == [mode : {"vector", "hybrid"}, rerank : BOOLEAN, synthesis : BOOLEAN]

ASSUME RetrievalAssumption ==
  /\ IsFiniteSet(Ids) /\ Ids \subseteq Nat /\ Late \subseteq Ids
  /\ Profiles \subseteq [passes : BOOLEAN, distance : Distances, rank : Nat, score : Int,
                         hours : Nat \cup {NoHours}]
  /\ Corpora \subseteq [Ids -> Profiles]
  /\ TopK \in Nat \ {0} /\ RecallK \in Nat \ {0} /\ TopK <= RecallK
  /\ Threshold \in Distances /\ RrfK \in Nat \ {0}
  /\ Weight \in [Distances -> Nat \ {0}]
  /\ \A d \in Distances : d > 0 => Weight[d] <= Weight[d - 1]

VARIABLES
  corpus,            \* the profile of every chunk
  committed,         \* the chunks that are committed
  stage, request,
  evaluated,         \* candidates_evaluated
  vectorIds, lexicalIds,   \* the rankings of the two branches
  result,            \* the chunks answered, best first, with their distances
  finding,           \* what the hours of the task are then
  known              \* history variable: what was committed when the search began

vars == <<corpus, committed, stage, request, evaluated, vectorIds, lexicalIds, result, finding,
          known>>

None == "none"

Init ==
  /\ corpus \in Corpora
  /\ committed \in {Ids, Ids \ Late}
  /\ stage = "embedding"
  /\ request \in Requests
  /\ evaluated = 0
  /\ vectorIds = <<>> /\ lexicalIds = <<>> /\ result = <<>>
  /\ finding = None
  /\ known = committed

TakeOneMore(s, n) == SubSeq(s, 1, Min({n + 1, Len(s)}))
Take(s, n) == SubSeq(s, 1, Min({n, Len(s)}))

-----------------------------------------------------------------------------
(***************************************************************************)
(* The branches.  Rows that tie come in any order.  The text branch finds  *)
(* every chunk that matches.  The vector branch goes through an            *)
(* approximate index, which applies the filters and the threshold to the   *)
(* few rows its scan has come by, in the order of their distances: it may  *)
(* miss any of the chunks.                                                 *)
(***************************************************************************)
Passing == {i \in committed : corpus[i].passes}
UnderThreshold == {i \in Passing : corpus[i].distance <= Threshold}
Matching == {i \in Passing : corpus[i].rank > 0}

\* What a scan of the index (migration 0005) may come by.
Scans == SUBSET UnderThreshold

Nearer(i, j) == corpus[i].distance < corpus[j].distance
RanksAbove(i, j) == corpus[i].rank > corpus[j].rank
ByDistance(scanned) ==
  {s \in SetToSeqs(scanned) : \A p, q \in DOMAIN s : p < q => ~Nearer(s[q], s[p])}
ByRank ==
  {s \in SetToSeqs(Matching) : \A p, q \in DOMAIN s : p < q => ~RanksAbove(s[q], s[p])}

\* Recall is wide when a later stage sorts again.
VectorLimit == IF request.rerank \/ request.mode = "hybrid" THEN RecallK ELSE TopK

EmbedQuery ==
  /\ stage = "embedding"
  /\ stage' = "counting"
  /\ known' = committed
  /\ UNCHANGED <<corpus, committed, request, evaluated, vectorIds, lexicalIds, result, finding>>

\* search_filtered: one statement counts the candidates, the next ranks them.
Count ==
  /\ stage = "counting"
  /\ stage' = "vector"
  /\ evaluated' = Cardinality(Passing)
  /\ UNCHANGED <<corpus, committed, request, vectorIds, lexicalIds, result, finding, known>>

SearchVector ==
  /\ stage = "vector"
  /\ stage' = IF request.mode = "hybrid" THEN "lexical" ELSE "ranking"
  /\ \E scanned \in Scans :
       vectorIds' \in {Take(s, VectorLimit) : s \in ByDistance(scanned)}
  /\ UNCHANGED <<corpus, committed, request, evaluated, lexicalIds, result, finding, known>>

SearchLexical ==
  /\ stage = "lexical"
  /\ stage' = "ranking"
  /\ lexicalIds' \in {Take(s, RecallK) : s \in ByRank}
  /\ UNCHANGED <<corpus, committed, request, evaluated, vectorIds, result, finding, known>>

-----------------------------------------------------------------------------
(***************************************************************************)
(* Reciprocal rank fusion, then the cross-encoder.  Scores are fractions.  *)
(***************************************************************************)
Position(s, i) == CHOOSE p \in DOMAIN s : s[p] = i

\* 1 / (k + position), positions from 0; nothing from a ranking without the chunk.
Share(s, i) ==
  IF i \in Range(s) THEN [of |-> 1, by |-> RrfK + Position(s, i) - 1] ELSE [of |-> 0, by |-> 1]
FusedScore(i) ==
  LET v == Share(vectorIds, i)
      l == Share(lexicalIds, i)
  IN  [of |-> v.of * l.by + l.of * v.by, by |-> v.by * l.by]
Higher(i, j) == FusedScore(i).of * FusedScore(j).by > FusedScore(j).of * FusedScore(i).by

\* The highest score first, then the lowest id.
Recalled == Range(vectorIds) \cup Range(lexicalIds)
FusesAbove(i, j) == Higher(i, j) \/ (~Higher(j, i) /\ i < j)
FusedWorstFirst ==
  {s \in SetToSeqs(Recalled) : \A p, q \in DOMAIN s : p < q => ~FusesAbove(s[p], s[q])}
Fused == {s \in SetToSeqs(Recalled) : \A p, q \in DOMAIN s : p < q => FusesAbove(s[p], s[q])}

\* Stable: chunks with one score stay in their order.
ScoresAbove(pool, i, j) ==
  \/ corpus[i].score > corpus[j].score
  \/ corpus[i].score = corpus[j].score /\ Position(pool, i) < Position(pool, j)
Reranked(pool) ==
  {s \in SetToSeqs(Range(pool)) : \A p, q \in DOMAIN s : p < q => ScoresAbove(pool, s[p], s[q])}

\* What is answered: the one order there is of all that was recalled, cut.
Ordered == IF request.mode = "hybrid" THEN Fused ELSE {vectorIds}
PoolNarrow(o) == Take(o, TopK)
Pool(o) == Take(o, RecallK)
Sorts == IF request.rerank THEN UNION {Reranked(Pool(o)) : o \in Ordered} ELSE Ordered
Finals == {Take(s, TopK) : s \in Sorts}

\* A chunk keeps its distance if the vector branch found it.
DistanceAtThreshold(i) == IF i \in Range(vectorIds) THEN corpus[i].distance ELSE Threshold
Distance(i) == IF i \in Range(vectorIds) THEN corpus[i].distance ELSE Far

-----------------------------------------------------------------------------
(***************************************************************************)
(* The consensus of a set of neighbours, chunks that have hours:           *)
(* reliability is the weighted similarity times one minus the dispersion,  *)
(* the standard deviation of the hours over their mean; both limits are    *)
(* 0.35.  Roots are compared by their squares.                             *)
(***************************************************************************)
Hours(N) == SumFunction([i \in N |-> corpus[i].hours])
Spread(N) ==         \* the square of the number of neighbours times the deviation
  Cardinality(N) * SumFunction([i \in N |-> corpus[i].hours * corpus[i].hours])
    - Hours(N) * Hours(N)
Similarity(N) == SumFunction([i \in N |-> Weight[Distance(i)] * Max({0, 10 - Distance(i)})])
Similarities(N) == 10 * SumFunction([i \in N |-> Weight[Distance(i)]])

Contradict(N) == 400 * Spread(N) > 49 * Hours(N) * Hours(N)
Unreliable(N) ==
  LET margin == 20 * Similarity(N) - 7 * Similarities(N)
  IN  \/ Spread(N) >= Hours(N) * Hours(N) /\ Hours(N) > 0
      \/ margin < 0
      \/ (margin * Hours(N)) * (margin * Hours(N))
           < (20 * Similarity(N)) * (20 * Similarity(N)) * Spread(N)

FindingOf(N) ==
  CASE N = {} -> "nothing"
    [] N # {} /\ ((request.synthesis /\ Contradict(N)) \/ Unreliable(N)) -> "doubtful"
    [] OTHER -> "sound"
Neighbours(final) == {i \in Range(final) : corpus[i].hours # NoHours}

\* The answer of the search, and the hours made of it.
Rank ==
  /\ stage = "ranking"
  /\ stage' = "done"
  /\ \E final \in Finals :
       /\ result' = [p \in DOMAIN final |-> [id |-> final[p], distance |-> Distance(final[p])]]
       /\ finding' = FindingOf(Neighbours(final))
  /\ UNCHANGED <<corpus, committed, request, evaluated, vectorIds, lexicalIds, known>>

\* RetrievalError, or another error of the embedding model or the cross-encoder.
Fail ==
  /\ stage \notin {"done", "failed"}
  /\ stage' = "failed"
  /\ UNCHANGED <<corpus, committed, request, evaluated, vectorIds, lexicalIds, result, finding,
                 known>>

\* An ingest commits.
CommitChunk(i) ==
  /\ i \in Ids \ committed /\ stage \notin {"done", "failed"}
  /\ committed' = committed \cup {i}
  /\ UNCHANGED <<corpus, stage, request, evaluated, vectorIds, lexicalIds, result, finding, known>>

Next ==
  \/ EmbedQuery \/ Count \/ SearchVector \/ SearchLexical \/ Rank \/ Fail
  \/ \E i \in Ids : CommitChunk(i)

Spec == Init /\ [][Next]_vars

-----------------------------------------------------------------------------
Rankings == UNION {{s \in [1..n -> Ids] : \A p, q \in 1..n : s[p] = s[q] => p = q} : n \in 0..RecallK}

\* The type of every variable: rankings without duplicates, at most TopK chunks.
TypeOK ==
  /\ corpus \in [Ids -> Profiles] /\ committed \subseteq Ids /\ known \subseteq Ids
  /\ stage \in {"embedding", "counting", "vector", "lexical", "ranking", "done", "failed"}
  /\ request \in Requests /\ evaluated \in 0..Cardinality(Ids)
  /\ vectorIds \in Rankings /\ lexicalIds \in Rankings
  /\ Len(result) <= TopK
  /\ \A p \in DOMAIN result : result[p] \in [id : Ids, distance : Distances]
  /\ \A p, q \in DOMAIN result : result[p].id = result[q].id => p = q
  /\ finding \in {None, "nothing", "doubtful", "sound"}

Answered == {result[p].id : p \in DOMAIN result}

\* Fusion is fair (reciprocal_rank_fusion): a chunk that stands above another in every
\* ranking that has the other is never answered after it, nor left out for it.
StandsAbove(i, j) ==
  /\ j \in Recalled
  /\ \A s \in {vectorIds, lexicalIds} :
       j \in Range(s) => i \in Range(s) /\ Position(s, i) < Position(s, j)
FusionIsFair ==
  stage = "done" /\ ~request.rerank =>
    \A i, j \in Ids :
      StandsAbove(i, j) /\ j \in Answered =>
        \E p, q \in DOMAIN result : p < q /\ result[p].id = i /\ result[q].id = j

\* The two-stage search loses nothing the cross-encoder would have put first, whatever is
\* committed meanwhile (retrieve: "recall WIDE then let the cross-encoder rescore"): of the
\* chunks the vector branch came by and those whose text matches and that were there when
\* the search began, one that is not answered has TopK chunks answered that score no lower,
\* unless more were to be had than recall keeps.
Recallable ==
  Range(vectorIds) \cup (IF request.mode = "hybrid" THEN Matching ELSE {})
NothingBetterIsLeftOut ==
  stage = "done" /\ request.rerank /\ Cardinality(Recallable) <= RecallK =>
    \A i \in (Recallable \cap known) \ Answered :
      Cardinality(Answered) = TopK /\ \A j \in Answered : corpus[j].score >= corpus[i].score

\* Hours that nobody is asked to look at again rest on a neighbour under the threshold: a
\* chunk found by its text alone does not make a task reliable (the sentinel distance, the
\* floor of the similarity and the limits of _flag_reason together).
HoursAreGrounded ==
  finding = "sound" =>
    \E p \in DOMAIN result :
      LET i == result[p].id
      IN  corpus[i].hours # NoHours /\ corpus[i].distance <= Threshold /\ i \in Range(vectorIds)
====
