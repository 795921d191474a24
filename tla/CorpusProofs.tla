----------------------------- MODULE CorpusProofs ----------------------------
(***************************************************************************)
(* Theorems about Corpus, for any clients, budgets, batch size, number of  *)
(* attempts and size of the pool.                                          *)
(***************************************************************************)
EXTENDS Corpus, FiniteSetTheorems, TLAPS

Ids == {d.id : d \in documents}

\* The vectors of the first n components, and how many an ingest has by now.
FirstChunks(n) == [i \in 1..n |-> i]
Covered(from, size) == IF from >= size THEN size ELSE from

\* Committed documents: whole, of one id each, and below the sequence.
DocInv ==
  /\ IsFiniteSet(documents)
  /\ \A d \in documents : d.id < nextId /\ d.chunks = Chunks(d.budget)
  /\ \A d, e \in documents : d.id = e.id => d = e

\* Ingests: the vectors so far are the first ones; an inserted document is whole and has an
\* id nobody else has.
IngestInv ==
  \A r \in Ingests :
    /\ stage[r] # "idle" => budget[r] \in Budgets
    /\ stage[r] \notin {"embedding", "flushed"} => start[r] = 0 /\ embedded[r] = <<>>
    /\ stage[r] = "embedding" =>
         embedded[r] = FirstChunks(Covered(start[r], budget[r].size))
    /\ stage[r] = "flushed" =>
         /\ embedded[r] = Chunks(budget[r])
         /\ id[r] # 0 /\ id[r] < nextId /\ id[r] \notin Ids
         /\ \A q \in Ingests : stage[q] = "flushed" /\ id[q] = id[r] => q = r

AnswerInv ==
  \A r \in Ingests :
    /\ stage[r] = "idle" => answer[r] = 0
    /\ answer[r] # 0 => \E d \in documents : d.id = answer[r] /\ d.budget.path = budget[r].path

\* Of a path that no two ingests were given at once, one ingest at most is being served,
\* and none is past the guard once a document of it is committed.
Inside == {"embedding", "flushed"}
PathInv ==
  /\ \A q, r \in Ingests \cap Serving :
       budget[q].path = budget[r].path /\ budget[r].path \notin overlapped => q = r
  /\ \A r \in Ingests, d \in documents :
       stage[r] \in Inside /\ budget[r].path = d.budget.path => d.budget.path \in overlapped
  /\ \A d, e \in documents :
       d.budget.path = e.budget.path /\ d.budget.path \notin overlapped => d = e

\* What an ingest knew when it was received is of its own path, and keeps it out.
KnownInv ==
  \A r \in Ingests :
    /\ \A k \in known[r] : \E d \in documents : d.id = k /\ d.budget.path = budget[r].path
    /\ stage[r] \in Inside \cup {"created"} => known[r] = {}

IInv == TypeOK /\ DocInv /\ IngestInv /\ AnswerInv /\ PathInv /\ KnownInv

-----------------------------------------------------------------------------
(***************************************************************************)
(* The operators of the model.                                             *)
(***************************************************************************)
LEMMA BudgetSize ==
  ASSUME NEW b \in Budgets
  PROVE  b.size \in Nat \ {0} /\ b.path \in Paths
BY CorpusAssumption DEF Budgets

LEMMA ChunksOf ==
  ASSUME NEW b \in Budgets
  PROVE  Chunks(b) = FirstChunks(b.size) /\ Chunks(b) \in Seq(Nat) /\ DOMAIN Chunks(b) = 1..b.size
BY BudgetSize DEF Chunks, FirstChunks

LEMMA FirstChunksType ==
  ASSUME NEW n \in Nat
  PROVE  FirstChunks(n) \in Seq(Nat)
BY DEF FirstChunks

\* The vectors of a batch go after those that are there.
LEMMA NextBatch ==
  ASSUME NEW m \in Nat, NEW n \in Nat, NEW size \in Nat, m < n, n <= size
  PROVE  FirstChunks(m) \o SubSeq(FirstChunks(size), m + 1, n) = FirstChunks(n)
<1>1. SubSeq(FirstChunks(size), m + 1, n) = [i \in 1..(n - m) |-> i + m]
  BY DEF FirstChunks
<1> QED
  BY <1>1 DEF FirstChunks

LEMMA ImageIsFinite ==
  ASSUME NEW S, IsFiniteSet(S), NEW f, f = [x \in S |-> f[x]]
  PROVE  IsFiniteSet({f[x] : x \in S})
<1> DEFINE T == {f[x] : x \in S}
<1>1. f \in [S -> T] /\ \A t \in T : \E x \in S : f[x] = t
  OBVIOUS
<1>2. f \in Surjection(S, T)
  BY <1>1 DEF Surjection
<1> QED
  BY <1>2, FS_Surjection

LEMMA RowsType ==
  ASSUME TypeOK, DocInv
  PROVE  /\ Rows \subseteq Nat \X Nat
         /\ Cardinality(Rows) \in Nat
         /\ Cardinality({row[1] : row \in Rows}) \in Nat
<1> DEFINE Part(d) == {<<d.id, i>> : i \in DOMAIN d.chunks}
<1>1. ASSUME NEW d \in documents
      PROVE  /\ d.id \in Nat /\ d.budget.size \in Nat
             /\ DOMAIN d.chunks = 1..d.budget.size
  BY ChunksOf, BudgetSize DEF TypeOK, Documents, DocInv
<1>2. Rows = UNION {Part(d) : d \in documents}
  BY DEF Rows
<1>3. ASSUME NEW d \in documents
      PROVE  Part(d) \subseteq Nat \X Nat /\ IsFiniteSet(Part(d))
  <2> DEFINE f == [i \in 1..d.budget.size |-> <<d.id, i>>]
  <2>1. IsFiniteSet(1..d.budget.size)
    BY <1>1, FS_Interval
  <2>2. IsFiniteSet({f[i] : i \in 1..d.budget.size})
    BY <2>1, ImageIsFinite
  <2>3. {f[i] : i \in 1..d.budget.size} = Part(d)
    BY <1>1
  <2>4. Part(d) \subseteq Nat \X Nat
    BY <1>1
  <2> QED
    BY <2>2, <2>3, <2>4
<1>4. IsFiniteSet({Part(d) : d \in documents})
  <2> DEFINE f == [d \in documents |-> Part(d)]
  <2>1. IsFiniteSet(documents) /\ f = [d \in documents |-> f[d]]
    BY DEF DocInv
  <2>2. {f[d] : d \in documents} = {Part(d) : d \in documents}
    OBVIOUS
  <2> HIDE DEF f
  <2>3. IsFiniteSet({f[d] : d \in documents})
    BY <2>1, ImageIsFinite
  <2> QED
    BY <2>2, <2>3
<1> HIDE DEF Part
<1>5. IsFiniteSet(Rows) /\ Rows \subseteq Nat \X Nat
  BY <1>2, <1>3, <1>4, FS_UNION
<1>6. IsFiniteSet({row[1] : row \in Rows})
  <2> DEFINE f == [row \in Rows |-> row[1]]
  <2>1. IsFiniteSet({f[row] : row \in Rows})
    BY <1>5, ImageIsFinite
  <2>2. {f[row] : row \in Rows} = {row[1] : row \in Rows}
    OBVIOUS
  <2> QED
    BY <2>1, <2>2
<1> QED
  BY <1>5, <1>6, FS_CardinalityType

-----------------------------------------------------------------------------
(***************************************************************************)
(* The initial state, and the steps a group at a time.                     *)
(***************************************************************************)
LEMMA InitInv == Init => IInv
<1> SUFFICES ASSUME Init
             PROVE  IInv
  OBVIOUS
<1>1. 0 \in 0..(MaxTries - 1) /\ <<>> \in Seq(Nat)
  BY CorpusAssumption
<1>2. TypeOK
  BY <1>1 DEF Init, TypeOK, Counts
<1>3. DocInv
  BY FS_EmptySet DEF Init, DocInv
<1>4. IngestInv /\ AnswerInv
  BY DEF Init, IngestInv, AnswerInv, Clients
<1>5. KnownInv
  BY DEF Init, KnownInv, Clients, Inside
<1>6. PathInv
  <2>1. Serving = {}
    BY DEF Init, Serving, Holding, Waiting
  <2> QED
    BY <2>1 DEF Init, PathInv
<1> QED
  BY <1>2, <1>3, <1>4, <1>5, <1>6 DEF IInv

\* A client that is answered, its transaction rolled back.
LEMMA LeaveInv ==
  ASSUME IInv, NEW c \in Clients, NEW outcome \in {"failed", "duplicate", "ambiguous"},
         stage[c] # "idle", Leave(c, outcome),
         UNCHANGED <<documents, nextId, budget, others, history>>,
         answer' \in [Ingests -> Nat], AnswerInv'
  PROVE  IInv'
<1>1. \A k \in Clients : stage'[k] = IF k = c THEN outcome ELSE stage[k]
  BY DEF Leave, Move, IInv, TypeOK
<1>2. /\ \A r \in Ingests : start'[r] = IF r = c THEN 0 ELSE start[r]
      /\ \A r \in Ingests : embedded'[r] = IF r = c THEN <<>> ELSE embedded[r]
      /\ \A r \in Ingests : id'[r] = IF r = c THEN 0 ELSE id[r]
  BY DEF Leave
<1>3. TypeOK'
  <2>1. stage' \in [Clients -> Holding \cup Waiting \cup
          {"idle", "asked", "queued", "created", "duplicate", "ambiguous", "ranked", "told",
           "failed", "lost"}]
    BY DEF Leave, Move, IInv, TypeOK
  <2>2. 0 \in 0..(MaxTries - 1) /\ <<>> \in Seq(Nat)
    BY CorpusAssumption
  <2>3. start' \in [Ingests -> Nat] /\ id' \in [Ingests -> Nat]
    BY DEF Leave, IInv, TypeOK
  <2>4. embedded' \in [Ingests -> Seq(Nat)] /\ tries' \in [Ingests -> 0..(MaxTries - 1)]
    BY <2>2 DEF Leave, IInv, TypeOK
  <2> QED
    BY <2>1, <2>3, <2>4 DEF IInv, TypeOK, others, history
<1>4. DocInv'
  BY DEF IInv, DocInv, Chunks
<1>5. IngestInv'
  <2> SUFFICES ASSUME NEW r \in Ingests
               PROVE  /\ stage'[r] # "idle" => budget'[r] \in Budgets
                      /\ stage'[r] \notin {"embedding", "flushed"} =>
                           start'[r] = 0 /\ embedded'[r] = <<>>
                      /\ stage'[r] = "embedding" =>
                           embedded'[r] = FirstChunks(Covered(start'[r], budget'[r].size))
                      /\ stage'[r] = "flushed" =>
                           /\ embedded'[r] = Chunks(budget'[r])
                           /\ id'[r] # 0 /\ id'[r] < nextId' /\ id'[r] \notin Ids'
                           /\ \A q \in Ingests :
                                stage'[q] = "flushed" /\ id'[q] = id'[r] => q = r
    BY DEF IngestInv, Covered, FirstChunks, Chunks
  <2>1. r \in Clients /\ budget' = budget /\ nextId' = nextId /\ Ids' = Ids
    BY DEF Clients, Ids
  <2>2. CASE r = c
    BY <1>1, <1>2, <2>1, <2>2 DEF IInv, IngestInv
  <2>3. CASE r # c
    BY <1>1, <1>2, <2>1, <2>3 DEF IInv, IngestInv, Clients
  <2> QED
    BY <2>2, <2>3
<1>6. PathInv'
  <2>1. Serving' \subseteq Serving
    BY <1>1 DEF Serving, Holding, Waiting
  <2> QED
    BY <1>1, <2>1 DEF IInv, PathInv, Inside, Clients, history
<1>7. KnownInv'
  BY <1>1 DEF IInv, KnownInv, Inside, Clients, history
<1> QED
  BY <1>3, <1>4, <1>5, <1>6, <1>7 DEF IInv

\* A step of a reader leaves the ingests as they are.
LEMMA ReaderStep ==
  ASSUME IInv, NEW s \in Others, NEW to,
         stage' = [stage EXCEPT ![s] = to],
         UNCHANGED <<documents, nextId, ingesting, history>>
  PROVE  DocInv' /\ IngestInv' /\ AnswerInv' /\ PathInv' /\ KnownInv'
<1>1. \A r \in Ingests : r \in Clients /\ stage'[r] = stage[r]
  BY CorpusAssumption DEF IInv, TypeOK, Clients
<1>2. DocInv'
  BY DEF IInv, DocInv, Chunks
<1>3. IngestInv' /\ AnswerInv'
  BY <1>1 DEF IInv, IngestInv, AnswerInv, ingesting, Covered, FirstChunks, Chunks, Ids
<1>4. PathInv'
  <2>1. Ingests \cap Serving' = Ingests \cap Serving
    BY <1>1 DEF Serving
  <2> QED
    BY <1>1, <2>1 DEF IInv, PathInv, Inside, ingesting, history
<1>5. KnownInv'
  BY <1>1 DEF IInv, KnownInv, Inside, ingesting, history
<1> QED
  BY <1>2, <1>3, <1>4, <1>5

LEMMA ReaderInv ==
  ASSUME IInv, NEW s \in Others,
         \/ Receive(s) \/ EmbedQuery(s) \/ Rank(s) \/ CountChunks(s) \/ CountDocuments(s)
         \/ CreateRun(s) \/ RunExpansion(s)
  PROVE  IInv'
<1>1. PICK to \in {"asked", "counting", "ranking", "ranked", "counted", "told", "queued",
                   "failed"} :
        stage' = [stage EXCEPT ![s] = to]
  BY DEF Receive, EmbedQuery, Rank, CountChunks, CountDocuments, CreateRun, RunExpansion, Move
<1>2. UNCHANGED <<documents, nextId, ingesting, history>>
  BY DEF Receive, EmbedQuery, Rank, CountChunks, CountDocuments, CreateRun, RunExpansion
<1>3. DocInv' /\ IngestInv' /\ AnswerInv' /\ PathInv' /\ KnownInv'
  BY <1>1, <1>2, ReaderStep
<1>4. count' \in [Others -> Counts]
  <2>1. \A n \in Nat : [count EXCEPT ![s].chunks = n] \in [Others -> Counts]
    BY DEF IInv, TypeOK, Counts
  <2>2. \A n \in Nat : [count EXCEPT ![s].documents = n] \in [Others -> Counts]
    BY DEF IInv, TypeOK, Counts
  <2>3. Cardinality(Rows) \in Nat /\ Cardinality({row[1] : row \in Rows}) \in Nat
    BY RowsType DEF IInv
  <2>4. CASE CountChunks(s)
    BY <2>1, <2>3, <2>4 DEF CountChunks
  <2>5. CASE CountDocuments(s)
    BY <2>2, <2>3, <2>5 DEF CountDocuments
  <2>6. CASE Receive(s) \/ EmbedQuery(s) \/ Rank(s) \/ CreateRun(s) \/ RunExpansion(s)
    BY <2>6 DEF Receive, EmbedQuery, Rank, CreateRun, RunExpansion, others, IInv, TypeOK
  <2> QED
    BY <2>4, <2>5, <2>6
<1>5. job' \in [Others -> {"none", "pending", "running", "completed", "failed"}]
  BY DEF Receive, EmbedQuery, Rank, CountChunks, CountDocuments, CreateRun, RunExpansion, others,
         IInv, TypeOK
<1>6. TypeOK'
  BY <1>1, <1>2, <1>4, <1>5 DEF IInv, TypeOK, ingesting, history, Holding, Waiting
<1> QED
  BY <1>3, <1>6 DEF IInv

LEMMA ReceiveIngestInv ==
  ASSUME IInv, NEW r \in Ingests, NEW b \in Offers[r], ReceiveIngest(r, b)
  PROVE  IInv'
<1> DEFINE twice == {budget[q].path : q \in Ingests \cap Serving} \cap {b.path}
<1> DEFINE knew == FindDocuments(b.path)
<1>1. b \in Budgets /\ b.path \in Paths /\ r \in Clients
  BY OffersAssumption, BudgetSize DEF Clients
<1>2. /\ \A c \in Clients : stage'[c] = IF c = r THEN "waiting" ELSE stage[c]
      /\ \A q \in Ingests : budget'[q] = IF q = r THEN b ELSE budget[q]
      /\ \A q \in Ingests : known'[q] = IF q = r THEN knew ELSE known[q]
      /\ overlapped' = overlapped \cup twice
      /\ stage[r] = "idle"
  BY <1>1 DEF ReceiveIngest, Move, IInv, TypeOK, FindDocuments
<1>3. UNCHANGED <<documents, nextId, start, embedded, tries, id, answer, others>>
  BY DEF ReceiveIngest
<1>4. \A k \in knew : \E d \in documents : d.id = k /\ d.budget.path = b.path
  BY DEF FindDocuments
<1> HIDE DEF knew
<1>5. TypeOK'
  <2>1. knew \subseteq Nat
    BY DEF knew, IInv, TypeOK, Documents, FindDocuments
  <2>2. known' \in [Ingests -> SUBSET Nat]
    BY <1>1, <2>1 DEF ReceiveIngest, IInv, TypeOK, FindDocuments, knew
  <2>3. overlapped' \subseteq Paths
    BY <1>1, <1>2 DEF IInv, TypeOK
  <2>4. stage' = [stage EXCEPT ![r] = "waiting"] /\ budget' = [budget EXCEPT ![r] = b]
    BY DEF ReceiveIngest, Move
  <2> QED
    BY <1>1, <1>3, <2>2, <2>3, <2>4 DEF IInv, TypeOK, others, Waiting
<1>6. DocInv'
  BY <1>3 DEF IInv, DocInv, Chunks
<1>7. IngestInv'
  <2> SUFFICES ASSUME NEW q \in Ingests
               PROVE  /\ stage'[q] # "idle" => budget'[q] \in Budgets
                      /\ stage'[q] \notin {"embedding", "flushed"} =>
                           start'[q] = 0 /\ embedded'[q] = <<>>
                      /\ stage'[q] = "embedding" =>
                           embedded'[q] = FirstChunks(Covered(start'[q], budget'[q].size))
                      /\ stage'[q] = "flushed" =>
                           /\ embedded'[q] = Chunks(budget'[q])
                           /\ id'[q] # 0 /\ id'[q] < nextId' /\ id'[q] \notin Ids'
                           /\ \A p \in Ingests :
                                stage'[p] = "flushed" /\ id'[p] = id'[q] => p = q
    BY DEF IngestInv, Covered, FirstChunks, Chunks
  <2>1. q \in Clients /\ Ids' = Ids
    BY <1>3 DEF Clients, Ids
  <2>2. CASE q = r
    BY <1>1, <1>2, <1>3, <2>1, <2>2 DEF IInv, IngestInv
  <2>3. CASE q # r
    BY <1>2, <1>3, <2>1, <2>3 DEF IInv, IngestInv, Clients
  <2> QED
    BY <2>2, <2>3
<1>8. AnswerInv'
  BY <1>2, <1>3 DEF IInv, AnswerInv, Clients
<1>9. PathInv'
  <2>1. \A q \in Ingests \cap Serving' : q # r => q \in Serving
    BY <1>2 DEF Serving
  <2>2. \A q, p \in Ingests \cap Serving' :
          budget'[q].path = budget'[p].path /\ budget'[p].path \notin overlapped' => q = p
    <3>1. \A q \in Ingests \cap Serving' : q # r /\ budget[q].path = b.path => b.path \in twice
      BY <2>1
    <3> QED
      BY <1>2, <2>1, <3>1 DEF IInv, PathInv
  <2>3. \A q \in Ingests, d \in documents' :
          stage'[q] \in Inside /\ budget'[q].path = d.budget.path => d.budget.path \in overlapped'
    BY <1>2, <1>3 DEF IInv, PathInv, Inside, Clients
  <2>4. \A d, e \in documents' :
          d.budget.path = e.budget.path /\ d.budget.path \notin overlapped' => d = e
    BY <1>2, <1>3 DEF IInv, PathInv
  <2> QED
    BY <2>2, <2>3, <2>4 DEF PathInv
<1>10. KnownInv'
  <2> SUFFICES ASSUME NEW q \in Ingests
               PROVE  /\ \A k \in known'[q] :
                           \E d \in documents' : d.id = k /\ d.budget.path = budget'[q].path
                      /\ stage'[q] \in Inside \cup {"created"} => known'[q] = {}
    BY DEF KnownInv, Inside
  <2>1. CASE q = r
    BY <1>1, <1>2, <1>3, <1>4, <2>1 DEF Inside
  <2>2. CASE q # r
    BY <1>2, <1>3, <2>2 DEF IInv, KnownInv, Clients
  <2> QED
    BY <2>1, <2>2
<1> QED
  BY <1>5, <1>6, <1>7, <1>8, <1>9, <1>10 DEF IInv

\* Past the guard: nothing of its path was committed, so it knew of nothing.
LEMMA CheckInv ==
  ASSUME IInv, NEW r \in Ingests, Check(r)
  PROVE  IInv'
<1> DEFINE found == FindDocuments(budget[r].path)
<1>1. r \in Clients /\ stage[r] = "waiting" /\ stage[r] # "idle"
  BY DEF Check, Clients
<1>2. UNCHANGED <<documents, nextId, budget, others, history>>
  BY DEF Check
<1>3. found \subseteq Nat
  BY DEF FindDocuments, IInv, TypeOK, Documents
<1>4. CASE /\ found = {}
           /\ Move(r, "embedding")
           /\ UNCHANGED <<start, embedded, tries, id, answer>>
  <2>1. \A c \in Clients : stage'[c] = IF c = r THEN "embedding" ELSE stage[c]
    BY <1>4 DEF Move, IInv, TypeOK
  <2>2. TypeOK'
    BY <1>2, <1>4 DEF Move, IInv, TypeOK, others, history, Holding
  <2>3. \A d \in documents : d.budget.path # budget[r].path
    BY <1>4 DEF FindDocuments
  <2>4. DocInv' /\ AnswerInv'
    BY <1>1, <1>2, <1>4, <2>1 DEF IInv, DocInv, AnswerInv, Chunks, Clients
  <2>5. IngestInv'
    <3>1. FirstChunks(Covered(start[r], budget[r].size)) = <<>>
      <4>1. start[r] = 0 /\ budget[r] \in Budgets
        BY <1>1 DEF IInv, IngestInv
      <4>2. Covered(start[r], budget[r].size) = 0
        BY <4>1, BudgetSize DEF Covered
      <4> QED
        BY <4>2 DEF FirstChunks
    <3> SUFFICES ASSUME NEW q \in Ingests
                 PROVE  /\ stage'[q] # "idle" => budget'[q] \in Budgets
                        /\ stage'[q] \notin {"embedding", "flushed"} =>
                             start'[q] = 0 /\ embedded'[q] = <<>>
                        /\ stage'[q] = "embedding" =>
                             embedded'[q] = FirstChunks(Covered(start'[q], budget'[q].size))
                        /\ stage'[q] = "flushed" =>
                             /\ embedded'[q] = Chunks(budget'[q])
                             /\ id'[q] # 0 /\ id'[q] < nextId' /\ id'[q] \notin Ids'
                             /\ \A p \in Ingests :
                                  stage'[p] = "flushed" /\ id'[p] = id'[q] => p = q
      BY DEF IngestInv, Covered, FirstChunks, Chunks
    <3>2. q \in Clients /\ Ids' = Ids
      BY <1>2 DEF Clients, Ids
    <3>3. CASE q = r
      BY <1>1, <1>2, <1>4, <2>1, <3>1, <3>2, <3>3 DEF IInv, IngestInv
    <3>4. CASE q # r
      BY <1>2, <1>4, <2>1, <3>2, <3>4 DEF IInv, IngestInv, Clients
    <3> QED
      BY <3>3, <3>4
  <2>6. PathInv'
    <3>1. Ingests \cap Serving' \subseteq Ingests \cap Serving
      BY <1>1, <2>1 DEF Serving, Waiting
    <3>2. \A q \in Ingests, d \in documents :
            stage'[q] \in Inside /\ budget[q].path = d.budget.path => d.budget.path \in overlapped
      BY <2>1, <2>3 DEF IInv, PathInv, Clients
    <3> QED
      BY <1>2, <3>1, <3>2 DEF IInv, PathInv, Inside, history
  <2>7. KnownInv'
    <3>1. known[r] = {}
      BY <2>3 DEF IInv, KnownInv
    <3>2. \A q \in Ingests : stage'[q] \in Inside \cup {"created"} => known[q] = {}
      BY <2>1, <3>1 DEF IInv, KnownInv, Clients
    <3> QED
      BY <1>2, <3>2 DEF IInv, KnownInv, Inside, history
  <2> QED
    BY <2>2, <2>4, <2>5, <2>6, <2>7 DEF IInv
<1>5. CASE /\ \E d \in found : found = {d} /\ answer' = [answer EXCEPT ![r] = d]
           /\ Leave(r, "duplicate")
  <2>1. PICK d \in found : answer' = [answer EXCEPT ![r] = d]
    BY <1>5
  <2>2. answer' \in [Ingests -> Nat]
    BY <1>3, <2>1 DEF IInv, TypeOK
  <2>3. \E e \in documents : e.id = d /\ e.budget.path = budget[r].path
    BY DEF FindDocuments
  <2>4. stage' = [stage EXCEPT ![r] = "duplicate"]
    BY <1>5 DEF Leave, Move
  <2>5. AnswerInv'
    BY <1>1, <1>2, <2>1, <2>3, <2>4 DEF IInv, TypeOK, AnswerInv, Clients
  <2> QED
    BY <1>1, <1>2, <1>5, <2>2, <2>5, LeaveInv
<1>6. CASE Leave(r, "ambiguous") /\ UNCHANGED answer
  <2>1. stage' = [stage EXCEPT ![r] = "ambiguous"]
    BY <1>6 DEF Leave, Move
  <2>2. answer' \in [Ingests -> Nat] /\ AnswerInv'
    BY <1>1, <1>2, <1>6, <2>1 DEF IInv, TypeOK, AnswerInv, Clients
  <2> QED
    BY <1>1, <1>2, <1>6, <2>2, LeaveInv
<1> QED
  BY <1>4, <1>5, <1>6 DEF Check

\* The answer 500: the last attempt at the model, no connection, any other error.
LEMMA FailureInv ==
  ASSUME IInv, NEW c \in Clients, stage[c] # "idle", Leave(c, "failed"),
         UNCHANGED <<documents, nextId, budget, answer, others, history>>
  PROVE  IInv'
<1>1. stage' = [stage EXCEPT ![c] = "failed"]
  BY DEF Leave, Move
<1>2. answer' \in [Ingests -> Nat] /\ AnswerInv'
  BY <1>1 DEF IInv, TypeOK, AnswerInv, Clients
<1> QED
  BY <1>2, LeaveInv

\* The steps of an ingest at the model keep everything but how far it is.
LEMMA EmbedBatchInv ==
  ASSUME IInv, NEW r \in Ingests, EmbedBatch(r)
  PROVE  IInv'
<1> DEFINE b == budget[r]
<1> DEFINE size == budget[r].size
<1> DEFINE end == BatchEnd(start[r], size)
<1>1. /\ stage[r] = "embedding" /\ start[r] < size
      /\ b \in Budgets /\ size \in Nat \ {0} /\ start[r] \in Nat
      /\ BatchSize \in Nat \ {0}
  BY BudgetSize, CorpusAssumption DEF EmbedBatch, AtModel, IInv, IngestInv, TypeOK
<1>2. UNCHANGED <<documents, nextId, stage, budget, id, answer, others, history>>
  BY DEF EmbedBatch
<1>3. embedded[r] = FirstChunks(start[r]) /\ Chunks(b) = FirstChunks(size)
  BY <1>1, ChunksOf DEF IInv, IngestInv, Covered
<1>4. /\ end \in Nat /\ start[r] < end /\ end <= size
      /\ end = Covered(start[r] + BatchSize, size)
  BY <1>1 DEF BatchEnd, Covered
<1>5. embedded[r] \o Batch(r) = FirstChunks(Covered(start[r] + BatchSize, size))
  <2>1. embedded[r] \o Batch(r) = FirstChunks(start[r]) \o SubSeq(FirstChunks(size), start[r] + 1, end)
    BY <1>3 DEF Batch
  <2>2. FirstChunks(start[r]) \o SubSeq(FirstChunks(size), start[r] + 1, end) = FirstChunks(end)
    <3> HIDE DEF end, size
    <3> QED
      BY <1>1, <1>4, NextBatch
  <2> QED
    BY <1>4, <2>1, <2>2
<1>6. /\ start' = [start EXCEPT ![r] = start[r] + BatchSize]
      /\ embedded' = [embedded EXCEPT ![r] = FirstChunks(Covered(start[r] + BatchSize, size))]
      /\ tries' = [tries EXCEPT ![r] = 0]
  BY <1>5 DEF EmbedBatch
<1>7. TypeOK'
  <2>1. start' \in [Ingests -> Nat]
    BY <1>1, <1>6 DEF IInv, TypeOK
  <2>2. tries' \in [Ingests -> 0..(MaxTries - 1)]
    BY <1>6, CorpusAssumption DEF IInv, TypeOK
  <2>3. embedded' \in [Ingests -> Seq(Nat)]
    BY <1>4, <1>6, FirstChunksType DEF IInv, TypeOK
  <2> QED
    BY <1>2, <2>1, <2>2, <2>3 DEF IInv, TypeOK, others, history
<1>8. DocInv' /\ AnswerInv'
  BY <1>2 DEF IInv, DocInv, AnswerInv, Chunks
<1>9. IngestInv'
  <2> SUFFICES ASSUME NEW q \in Ingests
               PROVE  /\ stage[q] \notin {"embedding", "flushed"} =>
                           start'[q] = 0 /\ embedded'[q] = <<>>
                      /\ stage[q] = "embedding" =>
                           embedded'[q] = FirstChunks(Covered(start'[q], budget[q].size))
                      /\ stage[q] = "flushed" => embedded'[q] = embedded[q]
    BY <1>2 DEF IInv, IngestInv, Covered, FirstChunks, Chunks, Ids
  <2>1. CASE q = r
    BY <1>1, <1>6, <2>1 DEF IInv, TypeOK
  <2>2. CASE q # r
    BY <1>6, <2>2 DEF IInv, TypeOK, IngestInv
  <2> QED
    BY <2>1, <2>2
<1>10. KnownInv'
  BY <1>2 DEF IInv, KnownInv, Inside, history
<1>11. PathInv'
  BY <1>2 DEF IInv, PathInv, Inside, Serving, history
<1> QED
  BY <1>7, <1>8, <1>9, <1>10, <1>11 DEF IInv

LEMMA RateLimitedInv ==
  ASSUME IInv, NEW r \in Ingests, RateLimited(r)
  PROVE  IInv'
<1>1. stage[r] = "embedding" /\ r \in Clients
  BY DEF RateLimited, AtModel, Clients
<1>2. UNCHANGED <<documents, nextId, budget, answer, others, history>>
  BY DEF RateLimited
<1>3. CASE NextTry(r) = MaxTries
  <2>1. Leave(r, "failed")
    BY <1>3 DEF RateLimited
  <2> QED
    BY <1>1, <1>2, <2>1, FailureInv
<1>4. CASE NextTry(r) # MaxTries
  <2>1. tries' = [tries EXCEPT ![r] = NextTry(r)] /\ UNCHANGED <<stage, start, embedded, id>>
    BY <1>4 DEF RateLimited
  <2>2. NextTry(r) \in 0..(MaxTries - 1)
    <3>1. tries[r] \in 0..(MaxTries - 1) /\ MaxTries \in Nat \ {0}
      BY CorpusAssumption DEF IInv, TypeOK
    <3> QED
      BY <1>4, <3>1 DEF NextTry
  <2>3. tries' \in [Ingests -> 0..(MaxTries - 1)]
    BY <2>1, <2>2 DEF IInv, TypeOK
  <2>4. TypeOK'
    BY <1>2, <2>1, <2>3 DEF IInv, TypeOK, others, history
  <2>5. DocInv' /\ AnswerInv' /\ IngestInv'
    BY <1>2, <2>1 DEF IInv, DocInv, AnswerInv, IngestInv, Chunks, Covered, FirstChunks, Ids
  <2>6. KnownInv'
    BY <1>2, <2>1 DEF IInv, KnownInv, Inside, history
  <2>7. PathInv'
    BY <1>2, <2>1 DEF IInv, PathInv, Inside, Serving, history
  <2> QED
    BY <2>4, <2>5, <2>6, <2>7 DEF IInv
<1> QED
  BY <1>3, <1>4

\* The new id is above every other.
LEMMA PersistInv ==
  ASSUME IInv, NEW r \in Ingests, Persist(r)
  PROVE  IInv'
<1>1. /\ stage[r] = "embedding" /\ start[r] >= budget[r].size /\ r \in Clients
      /\ budget[r] \in Budgets /\ nextId \in Nat \ {0}
  BY DEF Persist, Clients, IInv, IngestInv, TypeOK
<1>2. /\ \A c \in Clients : stage'[c] = IF c = r THEN "flushed" ELSE stage[c]
      /\ \A q \in Ingests : id'[q] = IF q = r THEN nextId ELSE id[q]
      /\ nextId' = nextId + 1
  BY DEF Persist, Move, IInv, TypeOK
<1>3. UNCHANGED <<documents, budget, start, embedded, tries, answer, others, history>>
  BY DEF Persist
<1>4. TypeOK'
  <2>1. nextId' \in Nat \ {0} /\ id' \in [Ingests -> Nat]
    BY <1>1 DEF Persist, IInv, TypeOK
  <2>2. stage' = [stage EXCEPT ![r] = "flushed"]
    BY DEF Persist, Move
  <2> QED
    BY <1>3, <2>1, <2>2 DEF IInv, TypeOK, others, history, Holding
<1>5. \A d \in documents : d.id \in Nat /\ d.id < nextId /\ d.id < nextId + 1
  BY <1>1 DEF IInv, DocInv, TypeOK, Documents
<1>6. DocInv' /\ AnswerInv'
  BY <1>2, <1>3, <1>5 DEF IInv, DocInv, AnswerInv, Chunks, Clients
<1>7. IngestInv'
  <2>1. embedded[r] = Chunks(budget[r])
    BY <1>1, ChunksOf DEF IInv, IngestInv, Covered
  <2>2. \A q \in Ingests : id[q] \in Nat /\ (stage[q] = "flushed" => id[q] < nextId)
    BY DEF IInv, IngestInv, TypeOK
  <2> SUFFICES ASSUME NEW q \in Ingests
               PROVE  /\ stage'[q] # "idle" => budget[q] \in Budgets
                      /\ stage'[q] \notin {"embedding", "flushed"} =>
                           start[q] = 0 /\ embedded[q] = <<>>
                      /\ stage'[q] = "embedding" =>
                           embedded[q] = FirstChunks(Covered(start[q], budget[q].size))
                      /\ stage'[q] = "flushed" =>
                           /\ embedded[q] = Chunks(budget[q])
                           /\ id'[q] # 0 /\ id'[q] < nextId + 1 /\ id'[q] \notin Ids
                           /\ \A p \in Ingests :
                                stage'[p] = "flushed" /\ id'[p] = id'[q] => p = q
    BY <1>2, <1>3 DEF IngestInv, Covered, FirstChunks, Chunks, Ids
  <2>3. CASE q = r
    <3>1. nextId \notin Ids
      BY <1>1, <1>5 DEF Ids
    <3>2. \A p \in Ingests : stage'[p] = "flushed" /\ id'[p] = nextId => p = r
      BY <1>1, <1>2, <2>2 DEF Clients
    <3> QED
      BY <1>1, <1>2, <2>1, <2>3, <3>1, <3>2
  <2>4. CASE q # r
    <3>1. stage'[q] = stage[q] /\ id'[q] = id[q]
      BY <1>2, <2>4 DEF Clients
    <3>2. stage[q] = "flushed" => id[q] < nextId + 1
      BY <1>1, <2>2
    <3>3. \A p \in Ingests :
            stage[q] = "flushed" /\ stage'[p] = "flushed" /\ id'[p] = id[q] => p = q
      BY <1>1, <1>2, <2>2 DEF Clients, IInv, IngestInv
    <3> QED
      BY <3>1, <3>2, <3>3 DEF IInv, IngestInv
  <2> QED
    BY <2>3, <2>4
<1>8. PathInv'
  <2>1. Ingests \cap Serving' \subseteq Ingests \cap Serving
    BY <1>1, <1>2 DEF Serving, Holding
  <2>2. \A q \in Ingests : stage'[q] \in Inside => stage[q] \in Inside
    BY <1>1, <1>2 DEF Inside, Clients
  <2> QED
    BY <1>3, <2>1, <2>2 DEF IInv, PathInv, Inside, history
<1>9. KnownInv'
  <2>1. \A q \in Ingests :
          stage'[q] \in Inside \cup {"created"} => stage[q] \in Inside \cup {"created"}
    BY <1>1, <1>2 DEF Inside, Clients
  <2> QED
    BY <1>3, <2>1 DEF IInv, KnownInv, Inside, history
<1> QED
  BY <1>4, <1>6, <1>7, <1>8, <1>9 DEF IInv

\* Commits that land: what is inserted is whole, of a new id, and of no path that has a
\* document, unless ingests of the path overlapped.
LEMMA LandInv ==
  ASSUME IInv, NEW landed, landed \subseteq {r \in Ingests : stage[r] = "flushed"},
         documents' = documents \cup {Inserted(r) : r \in landed},
         UNCHANGED <<nextId, budget, others, history>>,
         \A c \in Clients : stage'[c] = stage[c] \/ stage'[c] \in {"created", "lost"},
         \A r \in landed : stage'[r] \in {"created", "lost"},
         \A r \in Ingests : stage'[r] = "created" => stage[r] = "created" \/ r \in landed
  PROVE  /\ documents' \subseteq Documents
         /\ Ids' = Ids \cup {id[r] : r \in landed}
         /\ DocInv' /\ PathInv' /\ KnownInv'
<1>1. ASSUME NEW r \in landed
      PROVE  /\ r \in Ingests /\ r \in Clients /\ r \in Serving /\ stage[r] = "flushed"
             /\ budget[r] \in Budgets /\ id[r] \in Nat \ {0}
             /\ embedded[r] = Chunks(budget[r])
             /\ id[r] < nextId /\ id[r] \notin Ids
             /\ \A q \in landed : id[q] = id[r] => q = r
  BY DEF IInv, TypeOK, IngestInv, Serving, Holding, Clients
<1>2. ASSUME NEW r \in landed
      PROVE  /\ Inserted(r) \in Documents
             /\ Inserted(r).id = id[r] /\ Inserted(r).budget = budget[r]
             /\ Inserted(r).chunks = Chunks(budget[r])
  BY <1>1, ChunksOf DEF Inserted, Documents
<1> HIDE DEF Inserted
<1>3. documents' \subseteq Documents
  BY <1>2 DEF IInv, TypeOK
<1>4. Ids' = Ids \cup {id[r] : r \in landed}
  BY <1>2 DEF Ids
<1>5. DocInv'
  <2>1. IsFiniteSet(documents')
    <3> DEFINE f == [r \in landed |-> Inserted(r)]
    <3>1. IsFiniteSet(landed) /\ f = [r \in landed |-> f[r]]
      BY CorpusAssumption, FS_Subset
    <3>2. {f[r] : r \in landed} = {Inserted(r) : r \in landed}
      OBVIOUS
    <3> HIDE DEF f
    <3>3. IsFiniteSet({f[r] : r \in landed})
      BY <3>1, ImageIsFinite
    <3> QED
      BY <3>2, <3>3, FS_Union DEF IInv, DocInv
  <2>2. \A d \in documents' : d.id < nextId /\ d.chunks = Chunks(d.budget)
    BY <1>1, <1>2 DEF IInv, DocInv
  <2>3. \A d, e \in documents' : d.id = e.id => d = e
    BY <1>1, <1>2 DEF IInv, DocInv, Ids
  <2> QED
    BY <2>1, <2>2, <2>3 DEF DocInv, Chunks
<1>6. PathInv'
  <2>1. Ingests \cap Serving' \subseteq Ingests \cap Serving
    BY DEF Serving, Holding, Waiting, Clients
  <2>2. \A r \in Ingests : stage'[r] \in Inside => stage[r] \in Inside /\ r \notin landed
    BY DEF Inside, Clients
  <2>3. \A q, r \in Ingests \cap Serving :
          budget[q].path = budget[r].path /\ budget[r].path \notin overlapped => q = r
    BY DEF IInv, PathInv
  <2>4. ASSUME NEW r \in Ingests, NEW d \in documents',
               stage'[r] \in Inside, budget[r].path = d.budget.path
        PROVE  d.budget.path \in overlapped
    <3>1. r \in Serving
      BY <2>2, <2>4 DEF Inside, Serving, Holding, Clients
    <3>2. CASE d \in documents
      BY <2>2, <2>4, <3>2 DEF IInv, PathInv
    <3>3. CASE \E q \in landed : d = Inserted(q)
      BY <1>1, <1>2, <2>2, <2>3, <2>4, <3>1, <3>3
    <3> QED
      BY <3>2, <3>3
  <2>5. ASSUME NEW d \in documents', NEW e \in documents',
               d.budget.path = e.budget.path, d.budget.path \notin overlapped
        PROVE  d = e
    <3>1. ASSUME NEW q \in landed, NEW g \in documents, Inserted(q).budget.path = g.budget.path
          PROVE  g.budget.path \in overlapped
      BY <1>1, <1>2, <3>1 DEF IInv, PathInv, Inside
    <3>2. CASE d \in documents /\ e \in documents
      BY <2>5, <3>2 DEF IInv, PathInv
    <3>3. CASE (\E q \in landed : d = Inserted(q)) /\ (\E q \in landed : e = Inserted(q))
      BY <1>1, <1>2, <2>3, <2>5, <3>3
    <3> QED
      BY <2>5, <3>1, <3>2, <3>3
  <2> QED
    BY <2>1, <2>3, <2>4, <2>5 DEF PathInv, history
<1>7. KnownInv'
  <2>1. \A q \in Ingests : stage'[q] \in Inside \cup {"created"} => known[q] = {}
    BY <1>1 DEF IInv, KnownInv, Inside, Clients
  <2> QED
    BY <2>1 DEF IInv, KnownInv, Inside, history
<1> QED
  BY <1>3, <1>4, <1>5, <1>6, <1>7

LEMMA CommitInv ==
  ASSUME IInv, NEW r \in Ingests, Commit(r)
  PROVE  IInv'
<1>1. r \in Clients /\ stage[r] = "flushed" /\ id[r] \in Nat
  BY DEF Commit, Clients, IInv, TypeOK
<1>2. UNCHANGED <<nextId, budget, others, history>>
  BY DEF Commit
<1>3. /\ \A c \in Clients : stage'[c] = IF c = r THEN "created" ELSE stage[c]
      /\ \A q \in Ingests : start'[q] = IF q = r THEN 0 ELSE start[q]
      /\ \A q \in Ingests : embedded'[q] = IF q = r THEN <<>> ELSE embedded[q]
      /\ \A q \in Ingests : id'[q] = IF q = r THEN 0 ELSE id[q]
      /\ \A q \in Ingests : answer'[q] = IF q = r THEN id[r] ELSE answer[q]
  BY DEF Commit, Leave, Move, IInv, TypeOK
<1>4. documents' = documents \cup {Inserted(q) : q \in {r}}
  BY DEF Commit
<1>5. /\ documents' \subseteq Documents
      /\ Ids' = Ids \cup {id[q] : q \in {r}}
      /\ DocInv' /\ PathInv' /\ KnownInv'
  <2>1. {r} \subseteq {q \in Ingests : stage[q] = "flushed"}
    BY <1>1
  <2>2. /\ \A c \in Clients : stage'[c] = stage[c] \/ stage'[c] \in {"created", "lost"}
        /\ \A q \in {r} : stage'[q] \in {"created", "lost"}
        /\ \A q \in Ingests : stage'[q] = "created" => stage[q] = "created" \/ q \in {r}
    BY <1>1, <1>3 DEF Clients
  <2> QED
    BY <1>2, <1>4, <2>1, <2>2, LandInv
<1>6. TypeOK'
  <2>1. stage' = [stage EXCEPT ![r] = "created"]
    BY DEF Commit, Leave, Move
  <2>2. 0 \in 0..(MaxTries - 1) /\ <<>> \in Seq(Nat)
    BY CorpusAssumption
  <2>3. /\ start' \in [Ingests -> Nat] /\ id' \in [Ingests -> Nat]
        /\ answer' \in [Ingests -> Nat]
    BY <1>1 DEF Commit, Leave, IInv, TypeOK
  <2>4. embedded' \in [Ingests -> Seq(Nat)] /\ tries' \in [Ingests -> 0..(MaxTries - 1)]
    BY <2>2 DEF Commit, Leave, IInv, TypeOK
  <2> QED
    BY <1>2, <1>5, <2>1, <2>3, <2>4 DEF IInv, TypeOK, others, history
<1>7. AnswerInv'
  <2>1. \E d \in documents' : d.id = id[r] /\ d.budget.path = budget[r].path
    <3>1. Inserted(r) \in documents'
      BY <1>4
    <3>2. Inserted(r).id = id[r] /\ Inserted(r).budget = budget[r]
      BY DEF Inserted
    <3> QED
      BY <3>1, <3>2
  <2>2. documents \subseteq documents'
    BY <1>4
  <2> QED
    BY <1>1, <1>2, <1>3, <2>1, <2>2 DEF IInv, AnswerInv, Clients
<1>8. IngestInv'
  <2> SUFFICES ASSUME NEW q \in Ingests
               PROVE  /\ stage'[q] # "idle" => budget[q] \in Budgets
                      /\ stage'[q] \notin {"embedding", "flushed"} =>
                           start'[q] = 0 /\ embedded'[q] = <<>>
                      /\ stage'[q] = "embedding" =>
                           embedded'[q] = FirstChunks(Covered(start'[q], budget[q].size))
                      /\ stage'[q] = "flushed" =>
                           /\ embedded'[q] = Chunks(budget[q])
                           /\ id'[q] # 0 /\ id'[q] < nextId /\ id'[q] \notin Ids'
                           /\ \A p \in Ingests :
                                stage'[p] = "flushed" /\ id'[p] = id'[q] => p = q
    BY <1>2 DEF IngestInv, Covered, FirstChunks, Chunks
  <2>1. CASE q = r
    BY <1>1, <1>3, <2>1 DEF IInv, IngestInv
  <2>2. CASE q # r
    <3>1. /\ stage'[q] = stage[q] /\ id'[q] = id[q] /\ start'[q] = start[q]
          /\ embedded'[q] = embedded[q]
      BY <1>3, <2>2 DEF Clients
    <3>2. stage[q] = "flushed" => id[q] \notin Ids'
      BY <1>1, <1>5, <2>2 DEF IInv, IngestInv
    <3>3. \A p \in Ingests :
            stage[q] = "flushed" /\ stage'[p] = "flushed" /\ id'[p] = id[q] => p = q
      BY <1>1, <1>3 DEF Clients, IInv, IngestInv
    <3> QED
      BY <3>1, <3>2, <3>3 DEF IInv, IngestInv
  <2> QED
    BY <2>1, <2>2
<1> QED
  BY <1>5, <1>6, <1>7, <1>8 DEF IInv

LEMMA CrashInv ==
  ASSUME IInv, NEW landed \in SUBSET Ingests, Crash(landed)
  PROVE  IInv'
<1>1. UNCHANGED <<nextId, budget, answer, others, history>>
  BY DEF Crash
<1>2. /\ \A c \in Clients : stage'[c] = IF c \in Serving THEN "lost" ELSE stage[c]
      /\ \A r \in Ingests : start'[r] = 0 /\ embedded'[r] = <<>>
      /\ \A r \in Ingests : r \in Clients
  BY DEF Crash, Clients
<1>3. \A c \in Clients : stage'[c] \notin Inside
  BY <1>2 DEF Inside, Serving, Holding
<1>4. /\ documents' \subseteq Documents
      /\ DocInv' /\ PathInv' /\ KnownInv'
  <2>1. landed \subseteq {r \in Ingests : stage[r] = "flushed"}
    BY DEF Crash
  <2>2. \A r \in landed : r \in Ingests /\ r \in Serving
    BY <1>2, <2>1 DEF Serving, Holding
  <2>3. /\ \A c \in Clients : stage'[c] = stage[c] \/ stage'[c] \in {"created", "lost"}
        /\ \A r \in landed : stage'[r] \in {"created", "lost"}
        /\ \A r \in Ingests : stage'[r] = "created" => stage[r] = "created" \/ r \in landed
    BY <1>2, <2>2
  <2>4. documents' = documents \cup {Inserted(r) : r \in landed}
    BY DEF Crash
  <2> QED
    BY <1>1, <2>1, <2>3, <2>4, LandInv
<1>5. TypeOK'
  <2>1. stage' \in [Clients -> Holding \cup Waiting \cup
          {"idle", "asked", "queued", "created", "duplicate", "ambiguous", "ranked", "told",
           "failed", "lost"}]
    BY DEF Crash, IInv, TypeOK
  <2>2. 0 \in 0..(MaxTries - 1) /\ <<>> \in Seq(Nat)
    BY CorpusAssumption
  <2>3. start' \in [Ingests -> Nat] /\ id' \in [Ingests -> Nat]
    BY DEF Crash
  <2>4. embedded' \in [Ingests -> Seq(Nat)] /\ tries' \in [Ingests -> 0..(MaxTries - 1)]
    BY <2>2 DEF Crash
  <2> QED
    BY <1>1, <1>4, <2>1, <2>3, <2>4 DEF IInv, TypeOK, others, history
<1>6. AnswerInv'
  <2>1. documents \subseteq documents'
    BY DEF Crash
  <2>2. \A r \in Ingests : stage'[r] = "idle" => stage[r] = "idle"
    BY <1>2
  <2> QED
    BY <1>1, <2>1, <2>2 DEF IInv, AnswerInv
<1>7. IngestInv'
  <2>1. \A r \in Ingests : stage'[r] # "embedding" /\ stage'[r] # "flushed"
    BY <1>2, <1>3 DEF Inside
  <2>2. \A r \in Ingests : stage'[r] # "idle" => stage[r] # "idle"
    <3>1. \A c \in Serving : stage[c] # "idle"
      BY DEF Serving, Holding, Waiting
    <3> QED
      BY <1>2, <3>1
  <2> QED
    BY <1>1, <1>2, <2>1, <2>2 DEF IInv, IngestInv
<1> QED
  BY <1>4, <1>5, <1>6, <1>7 DEF IInv

LEMMA StepInv == IInv /\ [Next]_vars => IInv'
<1> SUFFICES ASSUME IInv, [Next]_vars
             PROVE  IInv'
  OBVIOUS
<1>1. CASE \E r \in Ingests : \E b \in Offers[r] : ReceiveIngest(r, b)
  BY <1>1, ReceiveIngestInv
<1>2. CASE \E c \in Others : Receive(c) \/ CreateRun(c) \/ RunExpansion(c)
  BY <1>2, ReaderInv
<1>3. ASSUME NEW c \in Clients, Advance(c)
      PROVE  IInv'
  <2>1. CASE c \in Ingests /\ (Check(c) \/ EmbedBatch(c) \/ RateLimited(c) \/ Persist(c) \/ Commit(c))
    BY <2>1, CheckInv, EmbedBatchInv, RateLimitedInv, PersistInv, CommitInv
  <2>2. CASE c \in Others /\ (EmbedQuery(c) \/ Rank(c) \/ CountChunks(c) \/ CountDocuments(c))
    BY <2>2, ReaderInv
  <2>3. CASE PoolTimesOut(c)
    <3>1. stage[c] # "idle" /\ Leave(c, "failed")
      BY <2>3 DEF PoolTimesOut, Waiting
    <3>2. UNCHANGED <<documents, nextId, budget, answer, others, history>>
      BY <2>3 DEF PoolTimesOut
    <3> QED
      BY <3>1, <3>2, FailureInv
  <2> QED
    BY <1>3, <2>1, <2>2, <2>3 DEF Advance
<1>4. ASSUME NEW c \in Clients, Raise(c)
      PROVE  IInv'
  <2>1. stage[c] # "idle" /\ Leave(c, "failed")
    BY <1>4 DEF Raise, Serving, Holding, Waiting
  <2>2. UNCHANGED <<documents, nextId, budget, answer, others, history>>
    BY <1>4 DEF Raise
  <2> QED
    BY <2>1, <2>2, FailureInv
<1>5. CASE \E landed \in SUBSET Ingests : Crash(landed)
  BY <1>5, CrashInv
<1>6. CASE UNCHANGED vars
  <2>1. UNCHANGED <<documents, nextId, stage, budget, start, embedded, tries, id, answer,
                    count, job, known, overlapped>>
    BY <1>6 DEF vars, ingesting, others, history
  <2>2. TypeOK' /\ DocInv' /\ AnswerInv'
    BY <2>1 DEF IInv, TypeOK, DocInv, AnswerInv, Chunks
  <2>3. IngestInv'
    BY <2>1 DEF IInv, IngestInv, Covered, FirstChunks, Chunks, Ids
  <2>4. PathInv' /\ KnownInv'
    BY <2>1 DEF IInv, PathInv, KnownInv, Inside, Serving
  <2> QED
    BY <2>2, <2>3, <2>4 DEF IInv
<1> QED
  BY <1>1, <1>2, <1>3, <1>4, <1>5, <1>6 DEF Next

-----------------------------------------------------------------------------
(***************************************************************************)
(* The theorems.                                                           *)
(***************************************************************************)
LEMMA Invariance == Spec => []IInv
BY InitInv, StepInv, PTL DEF Spec

\* Every variable keeps its type: the requests, their counters and the committed rows.
THEOREM TypeCorrect == Spec => []TypeOK
<1>1. IInv => TypeOK
  BY DEF IInv
<1> QED
  BY <1>1, Invariance, PTL

\* The ingest transaction: a committed document has all the chunks of its budget, with
\* their own vectors, and its id is nobody else's.
THEOREM DocumentsAreWholeHolds == Spec => []DocumentsAreWhole
<1>1. IInv => DocumentsAreWhole
  BY DEF IInv, DocInv, DocumentsAreWhole
<1> QED
  BY <1>1, Invariance, PTL

\* An id that POST /embeddings/ingest answers with is a committed document of the path
\* asked for, whatever else is served, fails or dies.
THEOREM AnswersAreTrueHolds == Spec => []AnswersAreTrue
<1>1. IInv => AnswersAreTrue
  BY DEF IInv, AnswerInv, AnswersAreTrue
<1> QED
  BY <1>1, Invariance, PTL

\* The duplicate guard of POST /embeddings/ingest, for ingests of a path that do not overlap.
THEOREM OneDocumentPerPathHolds == Spec => []OneDocumentPerPath
<1>1. IInv => OneDocumentPerPath
  BY DEF IInv, PathInv, KnownInv, OneDocumentPerPath
<1> QED
  BY <1>1, Invariance, PTL

-----------------------------------------------------------------------------
(***************************************************************************)
(* Corpus implements Catalogue.  What it takes besides the invariant: a    *)
(* request that is served or over has its budget, and one that was told an *)
(* id is over.                                                             *)
(***************************************************************************)
BookInv ==
  \A r \in Ingests :
    /\ stage[r] = "idle" <=> budget[r] = NoBudget
    /\ answer[r] # 0 => stage[r] \in {"created", "duplicate"}

\* Where budgets and answers stay, requests only go on.
LEMMA BookKept ==
  ASSUME BookInv, UNCHANGED <<budget, answer>>,
         \A r \in Ingests : stage'[r] = stage[r] \/
                            /\ stage[r] \notin {"idle", "created", "duplicate"}
                            /\ stage'[r] # "idle"
  PROVE  BookInv'
BY DEF BookInv

\* The steps that a request takes no answer from.
Quiet ==
  \/ \E c \in Others : Receive(c) \/ CreateRun(c) \/ RunExpansion(c)
  \/ \E c \in Others : EmbedQuery(c) \/ Rank(c) \/ CountChunks(c) \/ CountDocuments(c)
  \/ \E r \in Ingests : EmbedBatch(r) \/ RateLimited(r) \/ Persist(r)
  \/ \E c \in Clients : PoolTimesOut(c) \/ Raise(c)

LEMMA QuietIsQuiet ==
  ASSUME IInv, Quiet
  PROVE  /\ UNCHANGED <<documents, budget, answer>>
         /\ \A r \in Ingests : stage'[r] = stage[r] \/
                               /\ stage[r] \notin {"idle", "created", "duplicate"}
                               /\ stage'[r] # "idle"
<1>1. CASE \E c \in Others : \/ Receive(c) \/ CreateRun(c) \/ RunExpansion(c)
                             \/ EmbedQuery(c) \/ Rank(c) \/ CountChunks(c) \/ CountDocuments(c)
  <2>1. PICK c \in Others : \E to : stage' = [stage EXCEPT ![c] = to]
    BY <1>1 DEF Receive, CreateRun, RunExpansion, EmbedQuery, Rank, CountChunks, CountDocuments,
                Move
  <2>2. UNCHANGED <<documents, budget, answer>>
    BY <1>1 DEF Receive, CreateRun, RunExpansion, EmbedQuery, Rank, CountChunks, CountDocuments,
                ingesting
  <2> QED
    BY <2>1, <2>2, CorpusAssumption DEF IInv, TypeOK, Clients
<1>2. CASE \E r \in Ingests : EmbedBatch(r) \/ RateLimited(r) \/ Persist(r)
  <2>1. PICK r \in Ingests : EmbedBatch(r) \/ RateLimited(r) \/ Persist(r)
    BY <1>2
  <2>2. stage[r] = "embedding" /\ UNCHANGED <<documents, budget, answer>>
    BY <2>1 DEF EmbedBatch, RateLimited, Persist, AtModel
  <2>3. stage' = stage \/ \E to \in {"failed", "flushed"} : stage' = [stage EXCEPT ![r] = to]
    BY <2>1 DEF EmbedBatch, RateLimited, Persist, Leave, Move
  <2> QED
    BY <2>2, <2>3 DEF IInv, TypeOK, Clients
<1>3. CASE \E c \in Clients : PoolTimesOut(c) \/ Raise(c)
  <2>1. PICK c \in Clients : PoolTimesOut(c) \/ Raise(c)
    BY <1>3
  <2>2. /\ stage' = [stage EXCEPT ![c] = "failed"]
        /\ stage[c] \notin {"idle", "created", "duplicate"}
        /\ UNCHANGED <<documents, budget, answer>>
    BY <2>1 DEF PoolTimesOut, Raise, Leave, Move, Serving, Holding, Waiting
  <2> QED
    BY <2>2 DEF IInv, TypeOK, Clients
<1> QED
  BY <1>1, <1>2, <1>3 DEF Quiet

\* The others: a request is received, is told an id, or its commit lands in a crash.
LEMMA NextSplits ==
  ASSUME [Next]_vars
  PROVE  \/ \E r \in Ingests : \E b \in Offers[r] : ReceiveIngest(r, b)
         \/ \E r \in Ingests : Check(r) \/ Commit(r)
         \/ \E landed \in SUBSET Ingests : Crash(landed)
         \/ Quiet
         \/ UNCHANGED vars
BY DEF Next, Advance, Quiet

LEMMA BookNext ==
  ASSUME IInv, BookInv, [Next]_vars
  PROVE  BookInv'
<1>1. ASSUME NEW r \in Ingests, NEW b \in Offers[r], ReceiveIngest(r, b)
      PROVE  BookInv'
  <2>1. b # NoBudget
    BY OffersAssumption DEF Budgets, NoBudget
  <2>2. /\ \A q \in Ingests : stage'[q] = IF q = r THEN "waiting" ELSE stage[q]
        /\ \A q \in Ingests : budget'[q] = IF q = r THEN b ELSE budget[q]
        /\ UNCHANGED answer /\ stage[r] = "idle"
    BY <1>1 DEF ReceiveIngest, Move, IInv, TypeOK, Clients
  <2> QED
    BY <2>1, <2>2 DEF BookInv
<1>2. ASSUME NEW r \in Ingests, Check(r)
      PROVE  BookInv'
  <2>1. stage[r] = "waiting" /\ UNCHANGED budget
    BY <1>2 DEF Check
  <2>2. CASE UNCHANGED answer
    <3>1. \E to \in {"embedding", "duplicate", "ambiguous"} : stage' = [stage EXCEPT ![r] = to]
      BY <1>2 DEF Check, Leave, Move
    <3> QED
      BY <2>1, <2>2, <3>1, BookKept DEF IInv, TypeOK, Clients
  <2>3. CASE \E d : answer' = [answer EXCEPT ![r] = d] /\ Leave(r, "duplicate")
    <3>1. \A q \in Ingests : stage'[q] = IF q = r THEN "duplicate" ELSE stage[q]
      BY <2>3 DEF Leave, Move, IInv, TypeOK, Clients
    <3>2. \A q \in Ingests : q # r => answer'[q] = answer[q]
      BY <2>3 DEF IInv, TypeOK
    <3> QED
      BY <2>1, <3>1, <3>2 DEF BookInv
  <2> QED
    BY <1>2, <2>2, <2>3 DEF Check
<1>3. ASSUME NEW r \in Ingests, Commit(r)
      PROVE  BookInv'
  <2>1. /\ \A q \in Ingests : stage'[q] = IF q = r THEN "created" ELSE stage[q]
        /\ \A q \in Ingests : q # r => answer'[q] = answer[q]
        /\ UNCHANGED budget /\ stage[r] = "flushed"
    BY <1>3 DEF Commit, Leave, Move, IInv, TypeOK, Clients
  <2> QED
    BY <2>1 DEF BookInv
<1>4. ASSUME NEW landed \in SUBSET Ingests, Crash(landed)
      PROVE  BookInv'
  <2>1. \A q \in Ingests : /\ stage'[q] = IF q \in Serving THEN "lost" ELSE stage[q]
                           /\ q \in Serving => stage[q] \notin {"idle", "created", "duplicate"}
    BY <1>4 DEF Crash, Clients, Serving, Holding, Waiting
  <2> QED
    BY <1>4, <2>1, BookKept DEF Crash
<1>5. CASE Quiet
  BY <1>5, QuietIsQuiet, BookKept
<1>6. CASE UNCHANGED vars
  BY <1>6 DEF vars, ingesting, BookInv
<1> QED
  BY <1>1, <1>2, <1>3, <1>4, <1>5, <1>6, NextSplits

\* What lands is whole, new, and of a request that waits.
LEMMA LandAppears ==
  ASSUME IInv, BookInv, NEW landed, landed \subseteq {r \in Ingests : stage[r] = "flushed"},
         documents' = documents \cup {Inserted(r) : r \in landed}
  PROVE  /\ Books!Appear
         /\ \A r \in landed : Inserted(r) \notin documents /\ Inserted(r).id = id[r]
                              /\ Inserted(r).budget = budget[r]
<1>1. ASSUME NEW r \in landed
      PROVE  /\ Inserted(r) \in Whole /\ Inserted(r) \notin documents
             /\ Inserted(r).id = id[r] /\ Inserted(r).budget = budget[r]
             /\ r \in Ingests /\ budget[r] # NoBudget /\ answer[r] = 0
             /\ id[r] \notin Ids /\ \A q \in landed : id[q] = id[r] => q = r
  <2>1. /\ r \in Ingests /\ stage[r] = "flushed" /\ budget[r] \in Budgets
        /\ id[r] \in Nat \ {0} /\ embedded[r] = Chunks(budget[r])
        /\ id[r] \notin Ids /\ \A q \in landed : id[q] = id[r] => q = r
    BY DEF IInv, TypeOK, IngestInv
  <2>2. Inserted(r) \in Whole
    BY <2>1, ChunksOf DEF Inserted, Documents, Whole
  <2>3. Inserted(r).id = id[r] /\ Inserted(r).budget = budget[r]
    BY DEF Inserted
  <2>4. Inserted(r) \notin documents
    BY <2>1, <2>3 DEF Ids
  <2> QED
    BY <2>1, <2>2, <2>3, <2>4 DEF BookInv
<1> HIDE DEF Inserted
<1>2. \A d \in Books!Added : \E r \in landed : d = Inserted(r)
  BY DEF Books!Added
<1>3. ASSUME NEW d \in Books!Added, NEW e \in documents', e.id = d.id
      PROVE  e = d
  BY <1>1, <1>2, <1>3 DEF Ids
<1>4. \A d \in Books!Added :
        d \in Whole /\ \E r \in Ingests : Books!Waits(r) /\ budget[r] = d.budget
  BY <1>1, <1>2 DEF Books!Waits
<1> QED
  BY <1>1, <1>3, <1>4 DEF Books!Appear

\* Every step is a step of Catalogue or leaves it as it is.
LEMMA StepsAreBooked ==
  ASSUME IInv, BookInv, [Next]_vars
  PROVE  [Books!Next]_<<documents, budget, answer>>
<1>1. ASSUME NEW r \in Ingests, NEW b \in Offers[r], ReceiveIngest(r, b)
      PROVE  Books!Ask(r)
  <2>1. b \in Budgets /\ budget[r] = NoBudget
    BY <1>1, OffersAssumption DEF ReceiveIngest, BookInv
  <2> QED
    BY <1>1, <2>1 DEF ReceiveIngest, Books!Ask
<1>2. ASSUME NEW r \in Ingests, Check(r)
      PROVE  Books!Recall(r) \/ UNCHANGED <<documents, budget, answer>>
  <2>1. UNCHANGED <<documents, budget>> /\ Books!Waits(r)
    BY <1>2 DEF Check, Books!Waits, BookInv
  <2>2. CASE UNCHANGED answer
    BY <2>1, <2>2
  <2>3. CASE \E d \in FindDocuments(budget[r].path) : answer' = [answer EXCEPT ![r] = d]
    BY <2>1, <2>3 DEF FindDocuments, Books!Recall
  <2> QED
    BY <1>2, <2>2, <2>3 DEF Check
<1>3. ASSUME NEW r \in Ingests, Commit(r)
      PROVE  Books!Add(r)
  <2>1. documents' = documents \cup {Inserted(q) : q \in {r}} /\ stage[r] = "flushed"
    BY <1>3 DEF Commit
  <2>2. Books!Appear /\ Inserted(r) \notin documents
        /\ Inserted(r).id = id[r] /\ Inserted(r).budget = budget[r]
    BY <2>1, LandAppears
  <2>3. Books!Added = {Inserted(r)}
    BY <2>1, <2>2 DEF Books!Added
  <2>4. answer[r] = 0 /\ answer' = [answer EXCEPT ![r] = id[r]] /\ UNCHANGED budget
    BY <1>3 DEF Commit, BookInv
  <2> HIDE DEF Inserted
  <2> QED
    BY <2>2, <2>3, <2>4 DEF Books!Add
<1>4. ASSUME NEW landed \in SUBSET Ingests, Crash(landed)
      PROVE  Books!AddUnanswered
  <2>1. Books!Appear
    BY <1>4, LandAppears DEF Crash
  <2> QED
    BY <1>4, <2>1 DEF Crash, Books!AddUnanswered
<1>5. CASE Quiet
  BY <1>5, QuietIsQuiet
<1>6. CASE UNCHANGED vars
  BY <1>6 DEF vars, ingesting
<1> QED
  BY <1>1, <1>2, <1>3, <1>4, <1>5, <1>6, NextSplits DEF Books!Next

\* RagIngestService.ingest and its transaction implement Catalogue for any clients, batch
\* size, number of attempts and pool, through failures and crashes: a document appears all
\* at once, for a budget that was asked for, and a request is told one id, once.
THEOREM IngestsAreAtomicHolds == Spec => IngestsAreAtomic
<1>1. Init => Books!Init /\ BookInv
  BY DEF Init, Books!Init, BookInv, Clients
<1>2. IInv /\ BookInv /\ [Next]_vars => BookInv'
  BY BookNext
<1>3. IInv /\ BookInv /\ [Next]_vars => [Books!Next]_<<documents, budget, answer>>
  BY StepsAreBooked
<1> QED
  BY <1>1, <1>2, <1>3, Invariance, PTL DEF Spec, IngestsAreAtomic, Books!Spec

-----------------------------------------------------------------------------
(***************************************************************************)
(* How many steps a request has left, at most.  An ingest: every attempt   *)
(* at every chunk, were each a batch of its own, the guard, the flush and  *)
(* the commit.                                                             *)
(***************************************************************************)
CallsLeft(r) ==
  IF start[r] >= budget[r].size THEN 0 ELSE MaxTries * (budget[r].size - start[r]) - tries[r]

StepsOfIngest(r) == MaxTries * budget[r].size + 3

StepsLeft(c) ==
  CASE c \in Ingests /\ stage[c] = "waiting"   -> StepsOfIngest(c)
    [] c \in Ingests /\ stage[c] = "embedding" -> CallsLeft(c) + 2
    [] c \in Ingests /\ stage[c] = "flushed"   -> 1
    [] stage[c] = "asked"                      -> 3
    [] stage[c] \in {"ranking", "counting"}    -> 2
    [] stage[c] \in {"counted", "queued"}      -> 1
    [] OTHER                                   -> 0

\* Readers have the stages of a reader.
RoleInv == \A s \in Others : stage[s] \notin {"waiting", "embedding", "flushed"}

\* A step of a request being served that touches no other.
Takes(c) ==
  /\ c \in Serving
  /\ StepsLeft(c)' \in Nat /\ StepsLeft(c)' < StepsLeft(c)
  /\ \A k \in Clients : k # c => StepsLeft(k)' = StepsLeft(k)

LEMMA Products ==
  /\ \A k, m \in Nat : k * m \in Nat
  /\ \A k, m, n \in Nat : m < n => k * m + k <= k * n
<1>1. \A k, m \in Nat : k * m \in Nat
  OBVIOUS
<1>2. ASSUME NEW k \in Nat, NEW m \in Nat, NEW n \in Nat, m < n
      PROVE  k * m + k <= k * n
  <2>1. n - m - 1 \in Nat
    BY <1>2
  <2>2. k * (n - m - 1) \in Nat
    BY <1>1, <2>1
  <2>3. k * n = k * m + k + k * (n - m - 1)
    BY <2>1
  <2> QED
    BY <1>1, <2>2, <2>3
<1> QED
  BY <1>1, <1>2

LEMMA CallsLeftType ==
  ASSUME IInv, NEW r \in Ingests, stage[r] = "embedding"
  PROVE  /\ CallsLeft(r) \in Nat /\ CallsLeft(r) <= MaxTries * budget[r].size
         /\ budget[r].size \in Nat /\ MaxTries * budget[r].size \in Nat
<1> DEFINE n == budget[r].size
<1>1. /\ n \in Nat /\ start[r] \in Nat /\ MaxTries \in Nat
      /\ tries[r] \in 0..(MaxTries - 1)
  BY BudgetSize, CorpusAssumption DEF IInv, TypeOK, IngestInv
<1> HIDE DEF n
<1>2. MaxTries * n \in Nat
  BY <1>1, Products
<1>3. CASE start[r] >= n
  <2>1. CallsLeft(r) = 0
    BY <1>3 DEF CallsLeft, n
  <2> QED
    BY <1>1, <1>2, <2>1 DEF n
<1>4. CASE start[r] < n
  <2>1. CallsLeft(r) = MaxTries * (n - start[r]) - tries[r]
    BY <1>1, <1>4 DEF CallsLeft, n
  <2>2. n - start[r] \in Nat /\ n - start[r] > 0 /\ n - start[r] <= n
    BY <1>1, <1>4
  <2>3. MaxTries * (n - start[r]) \in Nat /\ MaxTries * 0 + MaxTries <= MaxTries * (n - start[r])
    BY <1>1, <2>2, Products
  <2>4. MaxTries * (n - start[r]) <= MaxTries * n
    <3>1. CASE n - start[r] = n
      BY <1>2, <3>1
    <3>2. CASE n - start[r] < n
      <4>1. MaxTries * (n - start[r]) + MaxTries <= MaxTries * n
        BY <1>1, <2>2, <3>2, Products
      <4> QED
        BY <1>1, <1>2, <2>3, <4>1
    <3> QED
      BY <1>1, <2>2, <3>1, <3>2
  <2>5. MaxTries * 0 = 0
    BY <1>1
  <2> QED
    BY <1>1, <1>2, <2>1, <2>3, <2>4, <2>5 DEF n
<1> QED
  BY <1>1, <1>3, <1>4

LEMMA StepsLeftType ==
  ASSUME IInv, RoleInv, NEW c \in Clients
  PROVE  /\ StepsLeft(c) \in Nat
         /\ StepsLeft(c) = 0 <=> c \notin Serving
         /\ c \in Serving => StepsLeft(c) <= IF c \in Ingests THEN StepsOfIngest(c) ELSE 3
<1>1. CASE c \in Ingests /\ stage[c] # "idle"
  <2>1. budget[c].size \in Nat /\ MaxTries * budget[c].size \in Nat
    BY <1>1, BudgetSize, CorpusAssumption, Products DEF IInv, IngestInv
  <2>2. CASE stage[c] = "embedding"
    <3>1. StepsLeft(c) = CallsLeft(c) + 2 /\ c \in Serving
      BY <1>1, <2>2 DEF StepsLeft, Serving, Holding
    <3>2. CallsLeft(c) \in Nat /\ CallsLeft(c) <= MaxTries * budget[c].size
      BY <1>1, <2>2, CallsLeftType
    <3> HIDE DEF CallsLeft
    <3> QED
      BY <1>1, <2>1, <3>1, <3>2 DEF StepsOfIngest
  <2>3. CASE stage[c] = "waiting"
    <3>1. StepsLeft(c) = StepsOfIngest(c) /\ c \in Serving
      BY <1>1, <2>3 DEF StepsLeft, Serving, Waiting
    <3> QED
      BY <1>1, <2>1, <3>1 DEF StepsOfIngest
  <2>4. CASE stage[c] \notin {"embedding", "waiting"}
    BY <1>1, <2>1, <2>4 DEF StepsLeft, StepsOfIngest, Serving, Holding, Waiting
  <2> QED
    BY <2>2, <2>3, <2>4
<1>2. CASE stage[c] = "idle"
  BY <1>2 DEF StepsLeft, Serving, Holding, Waiting
<1>3. CASE c \in Others
  <2>1. c \notin Ingests /\ stage[c] \notin {"waiting", "embedding", "flushed"}
    BY <1>3, CorpusAssumption DEF RoleInv
  <2> QED
    BY <2>1 DEF StepsLeft, Serving, Holding, Waiting
<1> QED
  BY <1>1, <1>2, <1>3 DEF Clients

LEMMA OthersWait ==
  ASSUME NEW c \in Clients, UNCHANGED budget,
         \A k \in Clients : k # c => stage'[k] = stage[k],
         \A q \in Ingests : q # c => start'[q] = start[q] /\ tries'[q] = tries[q]
  PROVE  \A k \in Clients : k # c => StepsLeft(k)' = StepsLeft(k)
BY DEF StepsLeft, StepsOfIngest, CallsLeft

\* A request that is over has none left.
LEMMA LeaveTakes ==
  ASSUME IInv, RoleInv, NEW c \in Serving, UNCHANGED budget,
         NEW outcome \in {"created", "duplicate", "ambiguous", "failed"}, Leave(c, outcome)
  PROVE  Takes(c)
<1>1. c \in Clients
  BY DEF Serving
<1>2. /\ \A k \in Clients : k # c => stage'[k] = stage[k]
      /\ \A q \in Ingests : q # c => start'[q] = start[q] /\ tries'[q] = tries[q]
      /\ stage'[c] = outcome
  BY <1>1 DEF Leave, Move, IInv, TypeOK
<1>3. StepsLeft(c)' = 0
  BY <1>2 DEF StepsLeft
<1>4. StepsLeft(c) \in Nat /\ StepsLeft(c) # 0
  BY <1>1, StepsLeftType
<1> QED
  BY <1>1, <1>2, <1>3, <1>4, OthersWait DEF Takes

LEMMA ReaderTakes ==
  ASSUME IInv, NEW c \in Others,
         \/ EmbedQuery(c) \/ Rank(c) \/ CountChunks(c) \/ CountDocuments(c) \/ RunExpansion(c)
  PROVE  Takes(c)
<1>1. c \in Clients /\ c \notin Ingests /\ UNCHANGED <<budget, start, tries>>
  BY CorpusAssumption
     DEF Clients, EmbedQuery, Rank, CountChunks, CountDocuments, RunExpansion, ingesting
<1>2. \A k \in Clients : k # c => stage'[k] = stage[k]
  BY <1>1 DEF EmbedQuery, Rank, CountChunks, CountDocuments, RunExpansion, Move, IInv, TypeOK
<1>3. \/ stage[c] = "asked" /\ stage'[c] = "ranking"
      \/ stage[c] = "ranking" /\ stage'[c] = "ranked"
      \/ stage[c] = "counting" /\ stage'[c] = "counted"
      \/ stage[c] = "counted" /\ stage'[c] = "told"
      \/ stage[c] = "queued" /\ stage'[c] = "failed"
  BY <1>1 DEF EmbedQuery, Rank, CountChunks, CountDocuments, RunExpansion, Move, IInv, TypeOK
<1>4. c \in Serving
  BY <1>1, <1>3 DEF Serving, Holding, Waiting
<1>5. StepsLeft(c)' \in Nat /\ StepsLeft(c)' < StepsLeft(c)
  BY <1>1, <1>3 DEF StepsLeft
<1> QED
  BY <1>1, <1>2, <1>4, <1>5, OthersWait DEF Takes

\* A batch is embedded, or the call for it is rate-limited: one attempt fewer.
LEMMA ModelTakes ==
  ASSUME IInv, RoleInv, NEW r \in Ingests, EmbedBatch(r) \/ RateLimited(r)
  PROVE  Takes(r)
<1> DEFINE n == budget[r].size
<1>1. /\ r \in Clients /\ r \in Serving /\ stage[r] = "embedding" /\ start[r] < n
      /\ UNCHANGED budget
  BY DEF EmbedBatch, RateLimited, AtModel, Clients, Serving, Holding
<1>2. /\ n \in Nat /\ start[r] \in Nat /\ MaxTries \in Nat
      /\ tries[r] \in 0..(MaxTries - 1) /\ BatchSize \in Nat \ {0}
      /\ CallsLeft(r) \in Nat
  BY <1>1, CallsLeftType, CorpusAssumption DEF IInv, TypeOK
<1>3. CallsLeft(r) = MaxTries * (n - start[r]) - tries[r]
  BY <1>1, <1>2 DEF CallsLeft
<1>4. StepsLeft(r) = CallsLeft(r) + 2
  BY <1>1 DEF StepsLeft
<1> HIDE DEF n
<1>5. n - start[r] \in Nat /\ n - start[r] > 0
  BY <1>1, <1>2
<1>6. MaxTries * (n - start[r]) \in Nat
  BY <1>2, <1>5, Products
<1>7. CASE EmbedBatch(r)
  <2>1. /\ \A q \in Ingests : q # r => start'[q] = start[q] /\ tries'[q] = tries[q]
        /\ start'[r] = start[r] + BatchSize /\ tries'[r] = 0 /\ UNCHANGED stage
    BY <1>7 DEF EmbedBatch, IInv, TypeOK
  <2>2. StepsLeft(r)' = CallsLeft(r)' + 2
    BY <1>1, <2>1 DEF StepsLeft
  <2>3. CallsLeft(r)' \in Nat /\ CallsLeft(r)' < CallsLeft(r)
    <3>1. CASE start[r] + BatchSize >= n
      <4>1. CallsLeft(r)' = 0
        BY <1>1, <2>1, <3>1 DEF CallsLeft, n
      <4>2. MaxTries * 0 + MaxTries <= MaxTries * (n - start[r])
        BY <1>2, <1>5, Products
      <4>3. MaxTries * 0 = 0
        BY <1>2
      <4> QED
        BY <1>2, <1>3, <1>6, <4>1, <4>2, <4>3
    <3>2. CASE start[r] + BatchSize < n
      <4>1. CallsLeft(r)' = MaxTries * (n - (start[r] + BatchSize)) - 0
        BY <1>1, <1>2, <2>1, <3>2 DEF CallsLeft, n
      <4>2. n - (start[r] + BatchSize) \in Nat /\ n - (start[r] + BatchSize) < n - start[r]
        BY <1>2, <3>2
      <4>3. /\ MaxTries * (n - (start[r] + BatchSize)) \in Nat
            /\ MaxTries * (n - (start[r] + BatchSize)) + MaxTries <= MaxTries * (n - start[r])
        BY <1>2, <1>5, <4>2, Products
      <4> QED
        BY <1>2, <1>3, <1>6, <4>1, <4>3
    <3> QED
      BY <1>2, <3>1, <3>2
  <2>4. \A k \in Clients : k # r => stage'[k] = stage[k]
    BY <2>1
  <2> HIDE DEF CallsLeft
  <2>5. StepsLeft(r)' \in Nat /\ StepsLeft(r)' < StepsLeft(r)
    BY <1>2, <1>4, <2>2, <2>3
  <2> QED
    BY <1>1, <2>1, <2>4, <2>5, OthersWait DEF Takes
<1>8. CASE RateLimited(r) /\ NextTry(r) = MaxTries
  BY <1>1, <1>8, LeaveTakes DEF RateLimited
<1>9. CASE RateLimited(r) /\ NextTry(r) # MaxTries
  <2>1. /\ \A q \in Ingests : q # r => start'[q] = start[q] /\ tries'[q] = tries[q]
        /\ tries'[r] = tries[r] + 1 /\ UNCHANGED <<stage, start>>
    BY <1>9 DEF RateLimited, NextTry, IInv, TypeOK
  <2>2. StepsLeft(r)' = CallsLeft(r)' + 2
    BY <1>1, <2>1 DEF StepsLeft
  <2>3. CallsLeft(r)' = MaxTries * (n - start[r]) - (tries[r] + 1)
    BY <1>1, <1>2, <2>1 DEF CallsLeft, n
  <2>4. MaxTries * 0 + MaxTries <= MaxTries * (n - start[r]) /\ MaxTries * 0 = 0
    BY <1>2, <1>5, Products
  <2>5. \A k \in Clients : k # r => stage'[k] = stage[k]
    BY <2>1
  <2>6. StepsLeft(r)' \in Nat /\ StepsLeft(r)' < StepsLeft(r)
    BY <1>2, <1>3, <1>4, <1>6, <2>2, <2>3, <2>4
  <2> QED
    BY <1>1, <2>1, <2>5, <2>6, OthersWait DEF Takes
<1> QED
  BY <1>7, <1>8, <1>9

\* The guard lets an ingest in, with its attempts still to come; its document is flushed.
LEMMA IngestTakes ==
  ASSUME IInv, IInv', RoleInv, NEW r \in Ingests, Check(r) \/ Persist(r) \/ Commit(r)
  PROVE  Takes(r)
<1>1. /\ r \in Clients /\ r \in Serving /\ stage[r] \in {"waiting", "embedding", "flushed"}
      /\ UNCHANGED budget
  BY DEF Check, Persist, Commit, Clients, Serving, Holding, Waiting
<1>2. CASE Check(r) /\ Move(r, "embedding") /\ UNCHANGED <<start, tries>>
  <2>1. \A k \in Clients : stage'[k] = IF k = r THEN "embedding" ELSE stage[k]
    BY <1>2 DEF Move, IInv, TypeOK
  <2>2. start[r] = 0 /\ budget[r] \in Budgets /\ stage[r] = "waiting"
    BY <1>2 DEF Check, IInv, IngestInv
  <2>3. /\ budget[r].size \in Nat \ {0} /\ MaxTries \in Nat \ {0}
        /\ tries[r] \in 0..(MaxTries - 1)
    BY <2>2, BudgetSize, CorpusAssumption DEF IInv, TypeOK
  <2>4. /\ MaxTries * budget[r].size \in Nat
        /\ MaxTries * 0 + MaxTries <= MaxTries * budget[r].size /\ MaxTries * 0 = 0
    BY <2>3, Products
  <2>5. CallsLeft(r)' = MaxTries * (budget[r].size - 0) - tries[r]
    BY <1>1, <1>2, <2>2, <2>3 DEF CallsLeft
  <2>6. CallsLeft(r)' = MaxTries * budget[r].size - tries[r]
    BY <2>3, <2>5
  <2>7. StepsLeft(r)' = CallsLeft(r)' + 2 /\ StepsLeft(r) = MaxTries * budget[r].size + 3
    BY <1>1, <2>1, <2>2 DEF StepsLeft, StepsOfIngest
  <2> HIDE DEF CallsLeft
  <2>8. StepsLeft(r)' \in Nat /\ StepsLeft(r)' < StepsLeft(r)
    BY <2>3, <2>4, <2>6, <2>7
  <2> QED
    BY <1>1, <1>2, <2>1, <2>8, OthersWait DEF Takes
<1>3. CASE Commit(r) \/ \E outcome \in {"duplicate", "ambiguous"} : Leave(r, outcome)
  BY <1>1, <1>3, LeaveTakes DEF Commit
<1>4. CASE Persist(r)
  <2>1. \A k \in Clients : stage'[k] = IF k = r THEN "flushed" ELSE stage[k]
    BY <1>4 DEF Persist, Move, IInv, TypeOK
  <2>2. stage[r] = "embedding" /\ UNCHANGED <<start, tries>>
    BY <1>4 DEF Persist
  <2>3. StepsLeft(r) = CallsLeft(r) + 2 /\ StepsLeft(r)' = 1
    BY <1>1, <2>1, <2>2 DEF StepsLeft
  <2>4. CallsLeft(r) \in Nat
    BY <2>2, CallsLeftType
  <2> HIDE DEF CallsLeft
  <2>5. StepsLeft(r)' \in Nat /\ StepsLeft(r)' < StepsLeft(r)
    BY <2>3, <2>4
  <2> QED
    BY <1>1, <2>1, <2>2, <2>5, OthersWait DEF Takes
<1> QED
  BY <1>2, <1>3, <1>4 DEF Check

\* A request comes in; what others have left stays.
Arrives(c) ==
  /\ c \notin Serving /\ c \in Serving'
  /\ \A k \in Clients : k # c => StepsLeft(k)' = StepsLeft(k)

LEMMA ReceiveArrives ==
  ASSUME IInv, NEW c \in Clients,
         \/ c \in Ingests /\ \E b \in Offers[c] : ReceiveIngest(c, b)
         \/ c \in Others /\ (Receive(c) \/ CreateRun(c))
  PROVE  Arrives(c)
<1>1. /\ stage[c] = "idle" /\ stage'[c] \in {"waiting", "asked", "counting", "queued"}
      /\ \A k \in Clients : k # c => stage'[k] = stage[k]
  BY DEF ReceiveIngest, Receive, CreateRun, Move, IInv, TypeOK
<1>2. /\ UNCHANGED <<start, tries>>
      /\ \A q \in Ingests : q # c => budget'[q] = budget[q]
  BY DEF ReceiveIngest, Receive, CreateRun, ingesting, IInv, TypeOK
<1>3. \A k \in Clients : k # c => StepsLeft(k)' = StepsLeft(k)
  BY <1>1, <1>2 DEF StepsLeft, StepsOfIngest, CallsLeft
<1> QED
  BY <1>1, <1>3 DEF Arrives, Serving, Holding, Waiting

LEMMA RoleNext ==
  ASSUME IInv, RoleInv, [Next]_vars
  PROVE  RoleInv'
<1> SUFFICES ASSUME NEW s \in Others, stage'[s] # stage[s]
             PROVE  stage'[s] \notin {"waiting", "embedding", "flushed"}
  BY DEF RoleInv
<1>1. s \in Clients /\ s \notin Ingests
  BY CorpusAssumption DEF Clients
<1>2. CASE \E c \in Clients : PoolTimesOut(c) \/ Raise(c)
  BY <1>1, <1>2 DEF PoolTimesOut, Raise, Leave, Move, IInv, TypeOK
<1>3. CASE \E landed \in SUBSET Ingests : Crash(landed)
  BY <1>1, <1>3 DEF Crash
<1>4. CASE \E c \in Others : \/ Receive(c) \/ CreateRun(c) \/ RunExpansion(c)
                             \/ EmbedQuery(c) \/ Rank(c) \/ CountChunks(c) \/ CountDocuments(c)
  BY <1>1, <1>4 DEF Receive, CreateRun, RunExpansion, EmbedQuery, Rank, CountChunks,
                    CountDocuments, Move, IInv, TypeOK, Clients
<1>5. CASE \E r \in Ingests : \/ \E b \in Offers[r] : ReceiveIngest(r, b)
                              \/ Check(r) \/ EmbedBatch(r) \/ RateLimited(r) \/ Persist(r)
                              \/ Commit(r)
  <2>1. PICK r \in Ingests : stage' = stage \/ \E to : stage' = [stage EXCEPT ![r] = to]
    BY <1>5 DEF ReceiveIngest, Check, EmbedBatch, RateLimited, Persist, Commit, Leave, Move
  <2> QED
    BY <1>1, <2>1 DEF IInv, TypeOK
<1>6. CASE UNCHANGED vars
  BY <1>6 DEF vars
<1> QED
  BY <1>2, <1>3, <1>4, <1>5, <1>6 DEF Next, Advance

\* Requests are bounded, although ingests hold their connections across calls that are
\* tried again and the pool may be empty: of the steps a request being served has left,
\* at most (for an ingest, MaxTries for each component of its budget and three), no step
\* of the system gives any back, and each takes one or more from some request being
\* served, unless it is the arrival of another.
RequestsAreBounded ==
  /\ [](\A c \in Clients :
          /\ StepsLeft(c) \in Nat
          /\ StepsLeft(c) = 0 <=> c \notin Serving
          /\ c \in Serving => StepsLeft(c) <= IF c \in Ingests THEN StepsOfIngest(c) ELSE 3)
  /\ [][/\ \A c \in Serving : StepsLeft(c)' <= StepsLeft(c)
        /\ \/ \E c \in Serving : StepsLeft(c)' < StepsLeft(c)
           \/ \E c \in Clients \ Serving : c \in Serving']_vars
THEOREM RequestsAreBoundedHolds == Spec => RequestsAreBounded
<1> DEFINE Fewer == /\ \A c \in Serving : StepsLeft(c)' <= StepsLeft(c)
                    /\ \/ \E c \in Serving : StepsLeft(c)' < StepsLeft(c)
                       \/ \E c \in Clients \ Serving : c \in Serving'
<1>1. ASSUME IInv, RoleInv, NEW c \in Clients, Takes(c) \/ Arrives(c)
      PROVE  Fewer
  <2>1. \A k \in Clients : StepsLeft(k) \in Nat
    BY <1>1, StepsLeftType
  <2>2. \A k \in Serving : k \in Clients
    BY DEF Serving
  <2>3. CASE Takes(c)
    <3>1. \A k \in Serving : StepsLeft(k)' <= StepsLeft(k)
      BY <1>1, <2>1, <2>2, <2>3 DEF Takes
    <3> QED
      BY <2>3, <3>1 DEF Takes
  <2>4. CASE Arrives(c)
    <3>1. \A k \in Serving : StepsLeft(k)' <= StepsLeft(k)
      BY <1>1, <2>1, <2>2, <2>4 DEF Arrives
    <3> QED
      BY <1>1, <2>4, <3>1 DEF Arrives
  <2> QED
    BY <1>1, <2>3, <2>4
<1>2. ASSUME IInv, RoleInv, NEW landed \in SUBSET Ingests, Crash(landed)
      PROVE  Fewer
  <2>1. ASSUME NEW c \in Serving
        PROVE  StepsLeft(c) \in Nat /\ StepsLeft(c) # 0 /\ StepsLeft(c)' = 0
    <3>1. c \in Clients
      BY DEF Serving
    <3>2. stage'[c] = "lost"
      BY <1>2, <3>1 DEF Crash
    <3>3. StepsLeft(c)' = 0
      BY <3>2 DEF StepsLeft
    <3> QED
      BY <1>2, <3>1, <3>3, StepsLeftType
  <2>2. Serving # {}
    BY <1>2 DEF Crash
  <2> QED
    BY <2>1, <2>2
<1>3. IInv /\ IInv' /\ RoleInv /\ [Next]_vars => [Fewer]_vars
  <2> SUFFICES ASSUME IInv, IInv', RoleInv, [Next]_vars PROVE Fewer \/ UNCHANGED vars
    OBVIOUS
  <2> HIDE DEF Fewer
  <2>1. ASSUME NEW c \in Clients, PoolTimesOut(c) \/ Raise(c)
        PROVE  Fewer
    <3>1. c \in Serving /\ Leave(c, "failed") /\ UNCHANGED budget
      BY <2>1 DEF PoolTimesOut, Raise, Serving
    <3> QED
      BY <1>1, <2>1, <3>1, LeaveTakes
  <2>2. ASSUME NEW r \in Ingests,
               Check(r) \/ EmbedBatch(r) \/ RateLimited(r) \/ Persist(r) \/ Commit(r)
        PROVE  Fewer
    BY <1>1, <2>2, ModelTakes, IngestTakes DEF Clients
  <2>3. ASSUME NEW s \in Others,
               \/ EmbedQuery(s) \/ Rank(s) \/ CountChunks(s) \/ CountDocuments(s)
               \/ RunExpansion(s)
        PROVE  Fewer
    BY <1>1, <2>3, ReaderTakes DEF Clients
  <2>4. ASSUME NEW c \in Clients,
               \/ c \in Ingests /\ \E b \in Offers[c] : ReceiveIngest(c, b)
               \/ c \in Others /\ (Receive(c) \/ CreateRun(c))
        PROVE  Fewer
    BY <1>1, <2>4, ReceiveArrives
  <2> QED
    BY <1>2, <2>1, <2>2, <2>3, <2>4 DEF Next, Advance, Clients
<1>4. IInv /\ RoleInv =>
        \A c \in Clients :
          /\ StepsLeft(c) \in Nat
          /\ StepsLeft(c) = 0 <=> c \notin Serving
          /\ c \in Serving => StepsLeft(c) <= IF c \in Ingests THEN StepsOfIngest(c) ELSE 3
  BY StepsLeftType
<1>5. Init => RoleInv
  BY DEF Init, RoleInv, Clients
<1>6. IInv /\ RoleInv /\ [Next]_vars => RoleInv'
  BY RoleNext
<1> QED
  BY <1>3, <1>4, <1>5, <1>6, Invariance, PTL DEF Spec, RequestsAreBounded
====
