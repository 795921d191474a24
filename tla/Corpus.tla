------------------------------- MODULE Corpus --------------------------------
(***************************************************************************)
(* The corpus of documents and chunks: POST /embeddings/ingest adds a      *)
(* budget in one transaction that stays open across the calls to the       *)
(* embedding model, POST /search and GET /embeddings/index/stats read, and *)
(* POST /embeddings/index/runs starts a job.  All but the jobs share one   *)
(* pool of connections; statements of different requests interleave, each  *)
(* seeing what is committed.                                               *)
(***************************************************************************)
EXTENDS Integers, Sequences, FiniteSets

CONSTANTS
  Ingests, Others,   \* requests: those that ingest; searches, polls, index runs
  Paths,             \* source paths
  Sizes,             \* how many components a budget may have
  Offers,            \* the budgets a client may send in an ingest
  BatchSize,         \* texts in one call to the embedding model
  MaxTries,          \* attempts at a call that is rate-limited
  PoolSize           \* connections of the engine

ASSUME CorpusAssumption ==
  /\ IsFiniteSet(Ingests) /\ IsFiniteSet(Others) /\ Ingests \cap Others = {}
  /\ Sizes \subseteq Nat \ {0}
  /\ BatchSize \in Nat \ {0} /\ MaxTries \in Nat \ {0}
  /\ PoolSize \in Nat \ {0}

Clients == Ingests \cup Others
Budgets == [path : Paths, size : Sizes]
ASSUME OffersAssumption == Offers \in [Ingests -> SUBSET Budgets]
NoBudget == [none |-> "budget"]

\* A document with its chunk rows, each known by the component its vector is of.
Documents == [id : Nat \ {0}, budget : Budgets, chunks : Seq(Nat)]
Counts == [chunks : Nat, documents : Nat]

VARIABLES
  documents,         \* what is committed
  nextId,            \* the sequence of documents.id, which no rollback takes back
  stage,             \* of each client
  budget,            \* of each ingest: what it adds
  start, embedded, tries,  \* of an ingest at the embedding model: the first chunk of the
                     \* batch, the vectors it has, the attempts at the batch
  id,                \* of an ingest whose document is inserted, not committed
  answer,            \* of each ingest: the document_id it was answered with, or 0
  count,             \* of a poll of the stats: what it has counted
  job,               \* of an index run: the status column of its job
  known,             \* history variable: the documents of an ingest's path that were
                     \* committed when it was received
  overlapped         \* history variable: the paths two ingests were given at once

ingesting == <<budget, start, embedded, tries, id, answer>>
others == <<count, job>>
history == <<known, overlapped>>
vars == <<documents, nextId, stage, ingesting, others, history>>

Init ==
  /\ documents = {} /\ nextId = 1
  /\ stage = [c \in Clients |-> "idle"]
  /\ budget = [r \in Ingests |-> NoBudget]
  /\ start = [r \in Ingests |-> 0] /\ embedded = [r \in Ingests |-> <<>>]
  /\ tries = [r \in Ingests |-> 0]
  /\ id = [r \in Ingests |-> 0]
  /\ answer = [r \in Ingests |-> 0]
  /\ count = [c \in Others |-> [chunks |-> 0, documents |-> 0]]
  /\ job = [c \in Others |-> "none"]
  /\ known = [r \in Ingests |-> {}]
  /\ overlapped = {}

Holding == {"embedding", "flushed", "counted"}
Waiting == {"waiting", "ranking", "counting"}
HasConnection == Cardinality({c \in Clients : stage[c] \in Holding}) < PoolSize
Serving == {c \in Clients : stage[c] \in Holding \cup Waiting \cup {"asked", "queued"}}

Move(c, to) == stage' = [stage EXCEPT ![c] = to]

\* A client is answered; the connection of its session goes back to the pool.
Leave(c, outcome) ==
  /\ Move(c, outcome)
  /\ start' = [r \in Ingests |-> IF r = c THEN 0 ELSE start[r]]
  /\ embedded' = [r \in Ingests |-> IF r = c THEN <<>> ELSE embedded[r]]
  /\ tries' = [r \in Ingests |-> IF r = c THEN 0 ELSE tries[r]]
  /\ id' = [r \in Ingests |-> IF r = c THEN 0 ELSE id[r]]

-----------------------------------------------------------------------------
(***************************************************************************)
(* Ingest: check, chunk, embed, insert, commit.                            *)
(***************************************************************************)
ReceiveIngest(r, b) ==
  /\ stage[r] = "idle"
  /\ Move(r, "waiting")
  /\ budget' = [budget EXCEPT ![r] = b]
  /\ known' = [known EXCEPT ![r] = {d.id : d \in {d \in documents : d.budget.path = b.path}}]
  /\ overlapped' =
       overlapped \cup ({budget[q].path : q \in Ingests \cap Serving} \cap {b.path})
  /\ UNCHANGED <<documents, nextId, start, embedded, tries, id, answer, others>>

\* find_document_id, the first statement of the transaction: it raises on two rows.
FindNothing(path) == {}
FindUncommitted(path) ==
  {d.id : d \in {d \in documents : d.budget.path = path}}
  \cup {id[q] : q \in {q \in Ingests : stage[q] = "flushed" /\ budget[q].path = path}}
FindDocuments(path) == {d.id : d \in {d \in documents : d.budget.path = path}}
Check(r) ==
  LET found == FindDocuments(budget[r].path)
  IN  /\ stage[r] = "waiting" /\ HasConnection
      /\ \/ /\ found = {}
            /\ Move(r, "embedding")
            /\ UNCHANGED <<start, embedded, tries, id, answer>>
         \/ /\ \E d \in found : found = {d} /\ answer' = [answer EXCEPT ![r] = d]
            /\ Leave(r, "duplicate")
         \/ /\ Cardinality(found) > 1
            /\ Leave(r, "ambiguous")
            /\ UNCHANGED answer
      /\ UNCHANGED <<documents, nextId, budget, others, history>>

\* One chunk per component, and one call for each batch of them.
Chunks(b) == [i \in 1..b.size |-> i]
BatchEndLate(from, size) == IF from + BatchSize >= size THEN size ELSE from + BatchSize + 1
BatchEnd(from, size) == IF from + BatchSize >= size THEN size ELSE from + BatchSize
Batch(r) == SubSeq(Chunks(budget[r]), start[r] + 1, BatchEnd(start[r], budget[r].size))
AtModel(r) == stage[r] = "embedding" /\ start[r] < budget[r].size

EmbedBatch(r) ==
  /\ AtModel(r)
  /\ embedded' = [embedded EXCEPT ![r] = @ \o Batch(r)]
  /\ start' = [start EXCEPT ![r] = @ + BatchSize]
  /\ tries' = [tries EXCEPT ![r] = 0]
  /\ UNCHANGED <<documents, nextId, stage, budget, id, answer, others, history>>

\* The call is rate-limited: once more after a pause, or the last attempt raises.
NextTryRestarts(r) == (tries[r] + 1) % MaxTries
NextTry(r) == tries[r] + 1
RateLimited(r) ==
  /\ AtModel(r)
  /\ IF NextTry(r) = MaxTries
     THEN Leave(r, "failed")
     ELSE /\ tries' = [tries EXCEPT ![r] = NextTry(r)]
          /\ UNCHANGED <<stage, start, embedded, id>>
  /\ UNCHANGED <<documents, nextId, budget, answer, others, history>>

\* The document row is flushed, which gives it its id; the chunk rows are added to it.
Persist(r) ==
  /\ stage[r] = "embedding" /\ start[r] >= budget[r].size
  /\ Move(r, "flushed")
  /\ id' = [id EXCEPT ![r] = nextId]
  /\ nextId' = nextId + 1
  /\ UNCHANGED <<documents, budget, start, embedded, tries, answer, others, history>>

InsertedUnflushed(r) == [id |-> answer[r], budget |-> budget[r], chunks |-> embedded[r]]
Inserted(r) == [id |-> id[r], budget |-> budget[r], chunks |-> embedded[r]]
Commit(r) ==
  /\ stage[r] = "flushed"
  /\ documents' = documents \cup {Inserted(r)}
  /\ answer' = [answer EXCEPT ![r] = id[r]]
  /\ Leave(r, "created")
  /\ UNCHANGED <<nextId, budget, others, history>>

\* No connection within the pool's timeout; another error of the embedding model or of
\* the database: what is not committed is rolled back, and the answer is 500.
PoolTimesOut(c) ==
  /\ stage[c] \in Waiting /\ ~HasConnection
  /\ Leave(c, "failed")
  /\ UNCHANGED <<documents, nextId, budget, answer, others, history>>
Raise(c) ==
  /\ c \in Serving /\ stage[c] # "queued"
  /\ Leave(c, "failed")
  /\ UNCHANGED <<documents, nextId, budget, answer, others, history>>

-----------------------------------------------------------------------------
(***************************************************************************)
(* The readers.                                                            *)
(***************************************************************************)
Receive(c) ==
  /\ stage[c] = "idle"
  /\ \/ Move(c, "asked")
     \/ Move(c, "counting")
  /\ UNCHANGED <<documents, nextId, ingesting, others, history>>

\* A search embeds its query before it asks for a connection.
EmbedQuery(s) ==
  /\ stage[s] = "asked"
  /\ Move(s, "ranking")
  /\ UNCHANGED <<documents, nextId, ingesting, others, history>>

\* One statement.  Which rows it gives is open: the index it goes through (HNSW) is
\* approximate, and nothing here depends on them (Retrieval has the rows).
Rank(s) ==
  /\ stage[s] = "ranking" /\ HasConnection
  /\ Move(s, "ranked")
  /\ UNCHANGED <<documents, nextId, ingesting, others, history>>

Rows == UNION {{<<d.id, i>> : i \in DOMAIN d.chunks} : d \in documents}

\* corpus_stats: one statement counts the chunks, the next one their documents.
CountChunks(p) ==
  /\ stage[p] = "counting" /\ HasConnection
  /\ Move(p, "counted")
  /\ count' = [count EXCEPT ![p].chunks = Cardinality(Rows)]
  /\ UNCHANGED <<documents, nextId, ingesting, job, history>>
CountDocuments(p) ==
  /\ stage[p] = "counted"
  /\ Move(p, "told")
  /\ count' = [count EXCEPT ![p].documents = Cardinality({row[1] : row \in Rows})]
  /\ UNCHANGED <<documents, nextId, ingesting, job, history>>

-----------------------------------------------------------------------------
(***************************************************************************)
(* The index runs.                                                         *)
(***************************************************************************)
\* The row of the job is committed as pending; its task runs once the answer is sent.
CreateRun(c) ==
  /\ stage[c] = "idle"
  /\ Move(c, "queued")
  /\ job' = [job EXCEPT ![c] = "pending"]
  /\ UNCHANGED <<documents, nextId, ingesting, count, history>>

\* Before anything else it names SessionLocal, which its module does not import: it
\* raises before it marks the job as running.
RunExpansion(c) ==
  /\ stage[c] = "queued"
  /\ Move(c, "failed")
  /\ UNCHANGED <<documents, nextId, ingesting, others, history>>

\* The process dies: open transactions roll back, but a commit on its way may land.
Crash(landed) ==
  /\ Serving # {}
  /\ landed \subseteq {r \in Ingests : stage[r] = "flushed"}
  /\ documents' = documents \cup {Inserted(r) : r \in landed}
  /\ stage' = [c \in Clients |-> IF c \in Serving THEN "lost" ELSE stage[c]]
  /\ start' = [r \in Ingests |-> 0] /\ embedded' = [r \in Ingests |-> <<>>]
  /\ tries' = [r \in Ingests |-> 0]
  /\ id' = [r \in Ingests |-> 0]
  /\ UNCHANGED <<nextId, budget, answer, others, history>>

Advance(c) ==
  \/ c \in Ingests /\ (Check(c) \/ EmbedBatch(c) \/ RateLimited(c) \/ Persist(c) \/ Commit(c))
  \/ c \in Others /\ (EmbedQuery(c) \/ Rank(c) \/ CountChunks(c) \/ CountDocuments(c))
  \/ PoolTimesOut(c)

Next ==
  \/ \E r \in Ingests : \E b \in Offers[r] : ReceiveIngest(r, b)
  \/ \E c \in Others : Receive(c) \/ CreateRun(c) \/ RunExpansion(c)
  \/ \E c \in Clients : Advance(c) \/ Raise(c)
  \/ \E landed \in SUBSET Ingests : Crash(landed)

Spec == Init /\ [][Next]_vars
FairSpec == Spec /\ \A c \in Clients : WF_vars(Advance(c))

-----------------------------------------------------------------------------
\* The type of every variable.
TypeOK ==
  /\ documents \subseteq Documents /\ nextId \in Nat \ {0}
  /\ stage \in [Clients -> Holding \cup Waiting \cup
                {"idle", "asked", "queued", "created", "duplicate", "ambiguous", "ranked", "told",
                 "failed", "lost"}]
  /\ budget \in [Ingests -> Budgets \cup {NoBudget}]
  /\ start \in [Ingests -> Nat] /\ embedded \in [Ingests -> Seq(Nat)]
  /\ tries \in [Ingests -> 0..(MaxTries - 1)]
  /\ id \in [Ingests -> Nat] /\ answer \in [Ingests -> Nat]
  /\ count \in [Others -> Counts]
  /\ job \in [Others -> {"none", "pending", "running", "completed", "failed"}]
  /\ known \in [Ingests -> SUBSET Nat] /\ overlapped \subseteq Paths

\* Whatever fails, is retried or dies, a committed document has one chunk for each
\* component of its budget, each with its own vector, and ids are never reused.
DocumentsAreWhole ==
  /\ \A d \in documents : d.chunks = Chunks(d.budget)
  /\ \A d, e \in documents : d.id = e.id => d = e

\* An ingest, with its batches, retries, flush and commit, happens all at once or not
\* at all, whatever fails or dies (see Catalogue): documents appear whole and under new
\* ids, for budgets that were asked for, and a request is told one id, once.
Whole == {d \in Documents : d.chunks = Chunks(d.budget)}
Books == INSTANCE Catalogue WITH Requests <- Ingests, Entries <- Whole, asked <- budget
IngestsAreAtomic == Books!Spec

\* An ingest answered with a document_id, as created or as a duplicate, is told of a
\* committed document of its own path, whatever other ingests have flushed, roll back
\* or lose, and whatever crashes later.
AnswersAreTrue ==
  \A r \in Ingests :
    answer[r] # 0 => \E d \in documents : d.id = answer[r] /\ d.budget.path = budget[r].path

\* The duplicate guard holds for ingests that do not overlap: a path has one document at
\* most, although an ingest whose answer was lost is sent again; and an ingest received
\* after its path was committed never adds a document.
OneDocumentPerPath ==
  /\ \A d, e \in documents :
       d.budget.path = e.budget.path /\ d.budget.path \notin overlapped => d = e
  /\ \A r \in Ingests : stage[r] = "created" => known[r] = {}

\* Every request ends, although ingests hold their connections across the calls to the
\* embedding model and the pool may be empty.
RequestsEnd ==
  \A c \in Clients :
    stage[c] \in Waiting \cup {"asked"} ~>
      stage[c] \in {"created", "duplicate", "ambiguous", "ranked", "told", "failed", "lost"}

\* The duplicate guard always answers: an id, or none (find_document_id's docstring).
GuardAnswers == \A r \in Ingests : stage[r] # "ambiguous"
====
