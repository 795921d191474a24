# Verification of the estimator

TLA+ models, TLC runs and machine-checked proofs for the estimation service in
`src/` (paths below are relative to the repository's root as the map writes
them, `src/src/...` being the Python package). The service turns a transcript of
a client meeting into a software estimate: a pipeline of agents searches a
corpus of past budgets, prices the work, validates the numbers and asks a human
before anything is released or written.

The interesting part of the code is not the arithmetic of an estimate. It is
that its state outlives the requests that work on it. Three graphs keep theirs
in a *thread* (a checkpoint under an estimation id, in Postgres), a session its
own in the memory of the process, the corpus in tables that requests read and
write at once: a run pauses for hours, the process restarts, a client retries,
two requests run on the same thread, session or source path, an identifier is
used again. Nothing in the code locks any of these. The properties here are
about what survives that.

1. [Inventory](#1-inventory)
2. [Modules](#2-modules)
3. [The three graphs](#3-the-three-graphs)
4. [Conversation](#4-conversation)
5. [Corpus, HoursRecovery and Retrieval](#5-corpus-hoursrecovery-and-retrieval)
6. [What the runs check](#6-what-the-runs-check)
7. [Fairness](#7-fairness)
8. [What is proved](#8-what-is-proved)
9. [Disagreements between the code and its documentation](#9-disagreements-between-the-code-and-its-documentation)
10. [What is not modelled](#10-what-is-not-modelled)
11. [Plan](#11-plan)
12. [Running it](#12-running-it)

## 1. Inventory

| Part | State it keeps | Operations | Hard because |
|---|---|---|---|
| Supervisor flow, `domain/graph/supervisor/` | one thread: routing trail, step counter, estimate, verdict, review, plus the sink `PERSISTED` in process memory | route, four agents, gate, resume, guarded write | the router is a language model; nothing is reset between invocations of a thread; the sink is not durable and the checkpoint is |
| Multi-agent flow, `domain/multi_agent/` and `api/routers/estimate_multi_agent.py` | one thread: requirements, matches, estimate, validation, ruling | start, resume, route, four agents, gate, finalize | requests overlap on one thread; `operator.add` channels cannot be reset; a failed search writes into the estimate |
| Session 13 pipeline, `domain/graph/` and `api/routers/estimate_graph.py` | one thread: structure, approved tree, accumulator of task hours, estimate, two rulings; the activity log | start, resume, eight nodes, fan-out per task, progress, proposal | background runs, a keyed accumulator that outlives a run, branches that fail alone, two gates fed by one resume verb |
| Sessions, `services/sessions.py`, `routers/sessions.py` | history, summary and metadata per session, in memory | create, turn, history, metadata | turns of one session interleave at their awaits; a sliding window |
| Estimation service, `services/estimation.py`, `cache/semantic.py`, `guardrails/` | exact cache, semantic cache | estimate (guard, look up, generate, guard, store) | lookup and store are separated by awaits; the two caches have different keys |
| Corpus, `generation/rag/`, `api/routers/corpus_index.py`, `persistence/repositories/jobs.py` | documents, chunks, index jobs, a pool of connections | ingest, plain search, statistics, index job | check-then-insert around calls to a model; a transaction and its connection held across them; statements that each see a different state |
| Recovery agent, `domain/agent_estimation.py`, `generation/agentic/` | one loop's messages, steps and derivations | search each task, call the model, run a tool, stop, merge | bounded loop, calls left unanswered at the bound, derivations keyed by task |
| Retrieval, `generation/rag/task_hours.py`, `generation/rag/retrieval/` | none of its own | recall by vector and by text, fuse, rerank, consensus, flag | four statements on a corpus that changes, two rankings with different limits, a distance that stands for *unknown* |
| LLM wrapper, `services/llm_wrapper.py` | counters | chat, structured call with retries | its coroutine is called as a plain function by two flows |
| Application, `main.py`, `core/config.py` | three graphs and one checkpointer, built at start-up | start, health | a failed start leaves a graph at None (503) |

How they interact: `main.py` builds the three graphs on one Postgres
checkpointer (an estimation id is the thread id, so the threads of two graphs
that are given the same id would share checkpoints; the supervisor flow prefixes
its ids with `s14:` in the script that drives it). The HTTP routers drive the
Session 13 graph and the multi-agent graph; the supervisor flow is driven by
`scripts/run_supervisor_s14.py` and the tests. All flows search the corpus
through `generation/rag` and call models through `services/llm_wrapper.py`. The
sessions router calls the estimation service, which calls no graph. Nothing in
the code locks a thread, a session or a source path.

What makes each part correct:

- *Supervisor flow.* A router that answers anything must not make an agent act
  twice or before its inputs exist, must not exceed the step budget, and must
  not keep the run from ending. An estimate that leaves without a human answer
  must be one that the last verdict is about. What a run writes must be what a
  human approved in that run; section 9 has the one case in which it is not. The
  trail is append-only.
- *Multi-agent flow.* A low-confidence estimate is not released before a human
  ruled. A failed search is not released as an estimate. A ruling and a
  rejection, once there, stay. Every request is answered.
- *Session 13 pipeline.* The estimate has a searched row for each approved task
  that has a name, and for this transcript. A completed run carries the word of the human who saw
  its estimate. A gate takes only the answers given to it. Every leg comes to
  rest.
- *Sessions.* The history is the most recent turns, each whole; a turn that left
  the window is in the summary; what a turn said is not lost to another that
  overlaps it.
- *Estimation service.* A cached answer was generated for the same options and
  the same or a near transcript, however it got there.
- *Corpus.* A committed document is whole. An id that an ingest was told is that
  of a committed document of its path, also after a crash. Ingests of one path
  that do not overlap leave one document. Every request ends although the pool
  may be empty.
- *Recovery agent.* The loop is bounded, the model gets an output for every call,
  recovery takes no hours away, and a task's row is its own.
- *Retrieval.* No branch's order is inverted by the fusion, what was recalled is
  not lost to a worse chunk, and hours that nobody reviews rest on a neighbour
  under the threshold.

`PROJECT.json` lists every component with its status, and every hazard at the
line where it bites with the property that would catch it.

## 2. Modules

| Module | Models | Used by |
|---|---|---|
| `Supervisor` | the supervisor flow with its guarded writes, one thread over several invocations | `MCSupervisor`, `SupervisorProofs` |
| `ReviewedWrite` | abstract: what a run promises about an irreversible write | `Supervisor` (refinement) |
| `MultiAgent` | the multi-agent flow behind its endpoints, several requests on one thread | `MCMultiAgent`, `MultiAgentProofs` |
| `EstimationGraph` | the Session 13 pipeline behind its blocking and streaming endpoints | `MCEstimationGraph`, `EstimationGraphProofs` |
| `Conversation` | the turns of one session and one-off estimates, with both caches | `MCConversation`, `ConversationProofs` |
| `BoundedWindow` | abstract: what the history of a session promises | `Conversation` (refinement) |
| `Corpus` | ingests, searches, statistics and index runs on one database and pool | `MCCorpus`, `CorpusProofs` |
| `Catalogue` | abstract: what an ingest promises to its client | `Corpus` (refinement) |
| `HoursRecovery` | the searches of a list of tasks and the bounded agent loop after them | `MCHoursRecovery`, `HoursRecoveryProofs` |
| `Retrieval` | one search for the hours of a task, while chunks are committed | `MCRetrieval`, `RetrievalProofs` |
| `FiniteData` | lemmas: induction, sums and rankings of finite sets | `RetrievalProofs` |
| `...Proofs` | theorems about the module they are named for | |
| `MC...` | constants and symmetry for TLC | the `.cfg` files |

The modules compose by what one takes from another as given. `EstimationGraph`
and `HoursRecovery` take a search to end with nothing, doubtful or sound hours,
which is what `Retrieval` computes (`finding`); `EstimationGraph` takes the
recovery to leave a row for each task, which is what `HoursRecovery` checks
(`RowsAreTheirTasks`); `Retrieval` takes its chunks from what `Corpus` commits.

Conventions. A checkpoint is a value: the channels of the thread and the node to
run next. `mode`/`stage` says what a run or a request is doing. Data is reduced
to what decides control: an estimate to the components it prices or to the
transcript it came from, an LLM answer to any member of a small set or an error.
Where the channel holds a row per key (the routing trail, the task hours) the
model keeps the key and the merge. Definitions named `...Unset`, `...Missing`,
`...Rerun` and so on next to a definition are plausible slips of that code, kept
to show that the properties can tell the difference; no specification uses them.

LangGraph itself is external and modelled from how the code uses it (version
1.2.6): a superstep applies its updates and saves a checkpoint; a new input
writes its channels and restarts the graph with every other channel kept;
`Command(resume=...)` reaches the interrupt of the first superstep only;
`interrupt()` without an answer ends the run with its node pending; a failing
node leaves the checkpoint as it was, with the writes of the sibling branches
that finished attached to it; a call stops at its recursion limit.

## 3. The three graphs

### Supervisor

`src/src/domain/graph/supervisor/*.py`. One thread, several invocations.

| Variable | Code |
|---|---|
| `mode`, `next` | whether a run is in flight, and the node the checkpoint holds as next |
| `runs` | invocations so far (bound `MaxRuns`) |
| `sandboxed` | `build(sandboxed=...)` together with `supervisor_persistence_enabled` for this run |
| `steps`, `history` | `supervisor_steps`, `routing_history` keyed by step |
| `components`, `matched`, `estimate`, `penalty` | the channels the agents fill, `penalty` being what the divergence of the competition takes off the confidence |
| `facts`, `persistRequested`, `status` | the validator's verdict |
| `reasons`, `decision` | the gate's `review_reasons` and `human_decision` |
| `saved`, `store` | the guarded call's outcome, `PERSISTED[estimation_id]` |
| `ruling` | history variable: the answer of this run |

| Action | Code |
|---|---|
| `Invoke` | `graph.ainvoke(input)` on a thread that may hold anything |
| `RouteAtLimit`, `Route` | `supervisor()`: the limit; the answer if legal, else the ladder of `_ORDER` |
| `ExtractRequirements`, `SearchBudgets`, `GenerateEstimate`, `ValidateCoherence` | the agents and their edge back |
| `AgentRaises` | an LLM error in an agent: only the router has a fallback |
| `PassGate`, `Pause`, `Resume` | `gate.py`: the gate re-evaluates its reasons on resume |
| `ExecuteGuarded` | `persistence_agent` through `guard_action` and `execute_guarded` |
| `Crash` | the process dies: a run in flight stops, `PERSISTED` is gone |

`sandboxed` is chosen anew by every invocation, so a thread may have runs of both
kinds, in any order. `ReviewedWrite` sees it as `writing`, and as `waived` a
verdict that was given without asking for an approval of the write.

Confidence is kept exactly, scaled to integers: the code's
`base * grounded/lines - issues/10 - penalty` clamped to [0, 1] becomes a score
over a weight, compared with 0.6 by multiplication. The base scores of the
deployed configuration are 0.3, 0.6 and 0.9; an estimate priced out of range,
ungrounded or with issues about its total is one that `_validate` would flag.

Not in the model: the wording of reasons; the `agent_contributions` channel,
which nobody reads; the privilege table, whose only state is its audit rows; the
branch of the script that calls `ainvoke(None)`, which no state reaches (a run
that is neither paused nor finished has raised).

### MultiAgent

`src/src/domain/multi_agent/*.py` behind
`src/src/api/routers/estimate_multi_agent.py`. A request runs the graph on a
copy of the latest checkpoint (`work[r]`) and saves after every superstep
(`thread`), so with two requests the last to save wins. `CheckPaused` and
`Resume` are separate steps because there is an await between them.
`StartState` is what the start's input really resets: the transcript and the
requirements; the empty lists it passes for `budget_matches` and `agent_actions`
go to `operator.add` channels, to which they add nothing.

The gate has both a `Command(goto="finalize")` and an edge to the supervisor, so
the superstep after it runs finalize and the supervisor together and finalize
runs a second time (`FinalizeAndRoute`, then `Finalize`). That is harmless only
because finalize marks a rejection in the estimate itself, which is what
`RejectionSticks` checks.

A search that fails leaves `{"search_errors": ...}` in the estimate channel. The
router takes it for an estimate and skips generation; the validator finds no
total, so the verdict is invalid; the router then formats a missing confidence,
raises, and the request fails, as does every retry. The error record is therefore
never released: `ReleasedIsGenerated` holds, by accident of that format string,
and the operator named `RouterTolerates` shows what a more tolerant router would do.

### EstimationGraph

`src/src/domain/graph/*.py` behind `src/src/api/routers/estimate_graph.py`. A
*leg* is one run of the graph from an accepted request to the next pause, the
end or a failure. `Accept...` is the request's handler up to its answer (202) and
`Begin...` the background task's first superstep; a blocking request is the
interleaving in which nothing happens in between. `work[l]` is the checkpoint a
leg works on, `thread` the latest one, and `current` the legs for which they are
the same: the writes of a finished branch are stored with the checkpoint of its
leg, so only those of a leg in `current` are found again by a retry.

| Action | Code |
|---|---|
| `Classify`, `ProposeStructure` | `classifier_agent`, `structure_agent` |
| `Pause`, `ReviewStructure`, `ReviewAnalysis` | the gates, without and with an answer |
| `SearchTask`, `JoinHours` | one branch of the fan-out; the superstep's end and `merge_task_hours` |
| `Recover` | `recover_and_handover`: flagged rows, the agent's derivations, `build_estimate` |
| `Analyze`, `DraftProposal` | `analysis_agent`, `proposal_agent` |
| `NodeRaises` | any node's exception: 502, or an error line in the feed |
| `Crash` | the process dies, accepted background tasks included |

`fan_out_hours` sends a branch for each approved task that has a name
(`build.py:63`): a task without one, a member of `Nameless`, is approved like the
others and gets no branch and no row. `overtaken` is a history variable, the legs
that were accepted with an answer and saw another leg move before they began.
A gate may raise too, on a decision it cannot read (`NodeRaises`).

A row of task hours is reduced to the transcript it was searched for and whether
`flag_reason` would find it doubtful. The recovery agent may derive any task, as
its tool does not check. Answers are tagged with the gate and the transcript the
client was looking at, which no decision in the code carries: the tags are how
the properties speak about who answered what. `AnswersToThread` is what a client
that looks at the thread can send; an empty module list counts as none sent, as
in the code, while a list of modules without tasks is a tree without tasks.

Left out: complexity, the analysis report, the numbers a human overrides at gate
2 (they are the human's own), and the totals recomputed from them; what gate 1
records of a human's `approved`, which goes to the audit log and decides nothing.

## 4. Conversation

`src/src/routers/sessions.py`, `src/src/routers/estimation.py`,
`src/src/services/{sessions,estimation,summarizer,metadata_extractor,tier_resolver}.py`,
`src/src/cache/semantic.py`. One session and any number of requests on one event
loop. A turn gives the loop up at two places only: the call of the model and,
when the window is full, the call that summarises it. Everything between two
awaits is one action.

| Variable | Code |
|---|---|
| `open`, `history`, `summary` | the session in the manager's dictionary, its window, `accumulated_summary` (as the turns its text covers) |
| `metadata`, `anchors`, `tier` | `ProjectMetadata`, the anchored facts, the last resolved tier |
| `memory`, `semantic` | the dictionary of the process; the entries in Redis |
| `stage`, `request`, `answer` | where each request is, what it asks, the result it was given (with the request it was generated for) |
| `brief` | the metadata the prompt of a turn at the model was rendered with |
| `gist` | the turns the summary prompt of a turn shows |
| `recorded`, `spoiled` | history variables: the turns of this session; a summary call failed, was empty or overlapped another |

| Action | Code |
|---|---|
| `CreateSession` | `POST /sessions` |
| `Receive` | the handler up to the model's call: 404, guardrails, semantic cache, in-process cache, an unknown prompt version |
| `LlmAnswers` | store in both caches, resolve the tier, update the metadata, anchor what two consecutive turns agree on; append the turn, or go on to the summary |
| `SummaryEnds` | `update_summary` returned a text, an empty text or an error; the turn is appended, evicting the oldest |
| `LlmFails`, `Expire`, `Crash` | a model error, the TTL of a semantic entry, the end of the process (sessions and `memory` are its memory, Redis is not) |

The facts of a session are updated from the metadata as it is *after* the await
(`UpdateFromResult`), not from the copy the prompt was rendered with
(`UpdateFromBrief`, the slip a reader expects): that is why no overlapping turn
is lost, and `EveryTurnCounts` and `KnownFactsStick` check it.

`BoundedWindow` is the promise of the history: the most recent turns, at most
`Size`, each whole. `InTwos` cuts the list of messages in twos; a turn is a
question with its own reply. The two appends of a turn have no await between
them, and eviction removes a question with the message after it, so overlapping
turns never interleave in the window: `WindowIsRecent` is the refinement.

A message is its role and turn. What a transcript says (a name, technologies)
is a function of it. `Near` stands for the similarity search of the semantic
cache; it need not be symmetric or transitive. Costs are numbers, since the tier
table has edges.

## 5. Corpus, HoursRecovery and Retrieval

### Corpus

`src/src/generation/rag/{ingest_service,retriever}.py`,
`src/src/generation/rag/store/repository.py`,
`src/src/generation/rag/embedding/embedder.py`,
`src/src/{routers/embeddings,routers/search,api/routers/corpus_index}.py`,
`src/src/database.py`. Clients are coroutines that take turns at the database.

| Action | Code |
|---|---|
| `ReceiveIngest`, `Check` | the request; the first statement, which takes a connection, and its three outcomes: none, one (409), two rows (`MultipleResultsFound`, 500) |
| `EmbedBatch`, `RateLimited` | one call per batch of chunks with its retries, the transaction open all the while |
| `Persist`, `Commit` | the flush that gives the document its id; the commit and the answer |
| `Receive`, `EmbedQuery`, `Rank` | a search embeds before it takes a connection, and ranks in one statement; which rows it is answered is left open |
| `CountChunks`, `CountDocuments` | `corpus_stats`: two statements |
| `CreateRun`, `RunExpansion` | a job row, pending; the background task, which raises on a name that is not imported |
| `PoolTimesOut`, `Raise`, `Crash` | no connection in time; any error, with rollback; the end of the process, where a commit on its way may or may not land |

A chunk is known by the component its vector is of, so that a batch lost,
repeated or misaligned shows in the document. `known` is what was committed of its
path when an ingest was received. The plain search sorts by the distance that
migration `0005_session11_hnsw_multi_index.py` indexes: its rows are those an
approximate scan comes by, of which nothing is promised, so here a search only
takes its place in the pool and its time; its rows are the matter of `Retrieval`.

### HoursRecovery

`src/src/domain/agent_estimation.py`, `src/src/generation/agentic/*.py`. Searches
of all tasks end in any order; then the rows are flagged (`Flag`), and the model
is asked and answers with tool calls until it stops or is cut off
(`ModelAnswers`, `Dispatch`, `Ask`). A tool call that raises has an output too.
The model may name any key, flagged or not, and derive a key twice: a later
derivation replaces an earlier one, also with nothing. The merge takes a
derivation only if it found hours. An exception is a 502 at any stage before the
end (`Fail`), also while the calls of an answer are dispatched: what is outside
the dispatcher's `try` (a step recorded with arguments that are no object, a
result that is no JSON) ends the loop.

### Retrieval

`src/src/generation/rag/{task_hours,retriever}.py`,
`src/src/generation/rag/retrieval/*.py`. A search is four statements and
one computation. `SearchLexical` takes the best rows committed by then, ties in
any order: its index on the words of a chunk is exact. `SearchVector` takes the
best rows of *any* part of those that pass filters and threshold (`Scans`). The
statement sorts by the expression which migration `0005` has an HNSW index for,
nothing sets `hnsw.ef_search`, so a scan of the index comes by about 40 rows,
approximately the nearest, and filters and threshold are applied to those: it
may miss any chunk, and return fewer than asked for while there are more. Where
the planner scans the table instead, as it may while the corpus is small,
nothing is missed, which is one of the outcomes. `Rank` is fusion, cut, cross-encoder, cut,
consensus and flag, which share no await. Distances are tenths; a chunk that
only the text search found has the sentinel distance 1.0 (`Far`). The fused
scores, sums of `1/(k + position)`, are exact fractions compared by
cross-multiplication, where the code adds floats: two different pairs of
positions with one sum (1/60 + 1/84 = 2/70) tie in the model, and the code may
order them by a rounding error instead of the id. No property is about such
ties. The standard
deviation in the reliability and in the contradiction test is compared by its
square, with the sign of both sides kept. Rounding to two or three digits is left
out. Filters, text ranks, distances and scores are given per chunk
(`Corpora`), as the database, the embedding model and the cross-encoder decide
them.

## 6. What the runs check

| Run | Instance | Shows |
|---|---|---|
| `supervisor` | 1 component, base score 0.9, with and without divergence, limit 5, 3 invocations, each sandboxed or not | types, `DispatchOrder`, `StepBudget`, `UnattendedEstimateIsSound`, `TrailOnlyGrows`, `WritesAreReviewed` (refinement of `ReviewedWrite`), `RunsComeToRest` |
| `multi_agent_in_turn` | 3 requests one at a time, 2 transcripts, recursion limit 12 | types, `DecisionSticks`, `RejectionSticks`, `RequestsAreAnswered` |
| `multi_agent_overlap` | 3 requests two at a time, 1 transcript, recursion limit 10 | `LowConfidenceIsReviewed`, `ReleasedIsGenerated` |
| `estimation_in_turn` | 1 leg serving any number of requests, 1 task, 2 transcripts | types, `CompletedIsReviewed`, `HoursAreSearched`, `LegsComeToRest` |
| `estimation_overlap` | 3 legs at once, each serving one request, 3 tasks of which one has no name, 1 transcript | `HoursAreSearched`, `GatesTakeTheirAnswers` |
| `estimation_wrong_gate` | 2 legs, 1 task | `FinalReviewIsItsOwn` is violated |
| `conversation` | 5 requests two at a time, turns and one-offs, 2 transcripts, a window of two turns, Redis on | types, `EveryTurnCounts`, `EvictedIsSummarised`, `AnswersFit`, `WindowIsRecent` (refinement of `BoundedWindow`), `KnownFactsStick` |
| `conversation_version` | the same | `PromptVersionKept` is violated |
| `corpus` | 3 ingests and a reader, 2 paths, budgets of 1 and 3 components embedded two at a time, 2 attempts, pool of 2 | types, `AnswersAreTrue`, `OneDocumentPerPath`, `IngestsAreAtomic` (refinement of `Catalogue`), `RequestsEnd` |
| `corpus_guard` | the same | `GuardAnswers` is violated |
| `hours_recovery` | 3 tasks, two with one key, at most 3 calls to the model with at most 2 tool calls each | types, `CallsAreAnswered`, `HoursAreNotLost`, `RowsAreTheirTasks`, `RunEnds` |
| `retrieval` | 4 chunks, one of them late, recall 3, top 2, threshold 0.6, any scan, the deployed smoothing constant 60 | types, `FusionIsFair`, `NothingBetterIsLeftOut`, `HoursAreGrounded` |

What the properties say and why they could be wrong:

- `DispatchOrder` speaks of the whole trail of a thread, so it relates the
  router's answers of one run to those of the runs before. Failing agents count
  as having run (`_already_ran` reads the trail, not the outcomes), so a resumed
  run skips them; the order holds all the same.
- `UnattendedEstimateIsSound` relates what the gate reads to what the validator
  computed several steps earlier and to what the estimate is now, in every run of
  a thread on which no human has ruled yet: runs whose agents raised, were skipped
  ever after or were cut off by the limit, sandboxed (where the gate always asks)
  and not. Once a human has adjusted the estimate a later run may let a draft out
  on the old verdict (section 9).
- `WritesAreReviewed` is a refinement: the sink changes only by losing what it has
  in a crash, or by storing the document as it is, in a run started to write, in
  which a human approved it. `ReviewedWrite` names the one exception the code has:
  a document whose verdict was given in a run that was not to write, on a thread
  whose last ruling is an approval. The run mixes sandboxed and plain invocations
  and meets the exception.
- `LowConfidenceIsReviewed` is about the *surviving* checkpoint when two
  requests overwrite each other. `DecisionSticks` does not survive an overlap
  (section 9); it is checked in turn.
- `HoursAreSearched` relates the estimate to the approved tree and to the
  transcript through branches that fail and are retried one by one, rows of
  another transcript in the accumulator (`estimation_in_turn`), and legs that
  overwrite each other (`estimation_overlap`, where one task has no name and
  gets no row).
- `CompletedIsReviewed` relates status, ruling and transcript of a completed
  run; a restart resets none of the three.
- `GatesTakeTheirAnswers` is about three legs at once: an answer reaches only the
  gate and the transcript it was given for, unless another leg moved between its
  acceptance and its first step. That an answer no interrupt takes is forgotten,
  and never reaches a later gate of the same leg, is part of it.
  `estimation_wrong_gate` shows the legs it excepts: two resumes accepted for one
  gate.
- `EveryTurnCounts` and `KnownFactsStick` are the absence of lost updates
  between turns that each read, replace and compare the metadata.
- `EvictedIsSummarised` relates three things that are updated at different
  awaits: the window, the summary, and the turns there were. It excepts, by
  `spoiled`, sessions in which a summary call failed, came back empty (the
  code takes the empty text) or overlapped another (the later text replaces the
  earlier one); those sessions do lose turns (section 9).
- `AnswersFit` says that hits do not drift: a hit is never stored again under the
  transcript it was a hit for, so two near transcripts never chain to a far one.
- `IngestsAreAtomic` follows each vector from its batch, through retries and
  rollbacks, to its row: documents only appear, whole, with an id nobody else has
  and for a budget that was asked for, and a request is told an id once. That an
  ingest takes a dozen steps, holds a transaction open over calls to a model and
  may die between the commit and the answer, `Catalogue` does not know.
- `AnswersAreTrue` says that the id an ingest is told is that of a committed
  document of its own path, whether the ingest made it or the guard found it, and
  whatever was rolled back or lost in between.
- `OneDocumentPerPath` is what the duplicate guard gives without a constraint:
  for paths whose ingests never overlapped, also when an answer was lost and the
  ingest is sent again.
- `CallsAreAnswered` is the protocol of the model's API: each call of the last
  answer has one output, in order, whichever raised.
- `HoursAreNotLost` holds although a task that was not flagged may be derived, and
  a derivation may find nothing.
- `NothingBetterIsLeftOut` relates four statements and two cuts to what could be
  recalled: what the vector scan did return, whatever it missed, and all that the
  text matches. A chunk of these that was there when the search began is answered,
  or gave way to chunks the cross-encoder scored no lower. With more of them than
  `RecallK` it does not hold, and with fusion alone the order is by position and
  not by score: both are excepted by name.
- `HoursAreGrounded` is a property of the numbers 1.0, 0.35 and the floor of the
  similarity *together*: a chunk found by its text alone has no similarity, and
  the consensus of such chunks is always flagged.

The bounds, and why they are enough:

- *Three invocations* of a supervisor thread, each sandboxed or not, are a run
  that waives the write, one in which a human rules, and one that writes. The step
  limit is 5 rather than the deployed 8, so that the second run meets it: one full
  dispatch takes 5 steps. One component is grounded or is not, which is on either
  side of the precedent threshold; that the threshold is half of several is
  arithmetic in `ReviewReasons`, and the theorems are for any number.
- *Three requests, two at a time* are a start and two resumes, the shortest
  history with a double resume, or a start, a failure and a retry with a
  second request in flight. Limit 12 is the longest complete run of the
  multi-agent flow in one call, limit 10 a start up to its gate and a resume
  after it; the loop on an empty extraction exceeds both.
- *Two transcripts* separate a row, an estimate or a ruling of this run from
  one of another; *two named tasks* separate a branch that failed from one that
  finished, and one without a name has no branch. The overlap run has the tasks,
  the legs and one transcript, and of the trees a human may approve three: all
  tasks, one named task, none that has a name. The run in turn has both
  transcripts and unbounded requests.
- *A window of two turns and five requests*: two kept turns have an order, and the
  third turn and those after it evict, the second time with a summary that already
  covers a turn. Two at a time is the overlap at either await. The two
  transcripts are near in one direction only. The one draft has a large team at
  a cost on the edge of a tier, so that the tier depends on the turn before.
- *Three ingests on a pool of two* make a path whose ingests overlap, one whose
  do not, and a client that finds the pool empty; three components in batches of
  two end in a partial batch.
- *Two tasks of one key and one of another, three iterations, two calls* give a
  key derived twice, in one answer and in two, and the cut at the bound with
  calls pending.
- *Four chunks with recall 3 and top 2* make both cuts bite; the profiles give
  ties in distance, in rank and in score, a neighbour without hours, hours that
  contradict each other, and a chunk the filters stop.
- Symmetry is used only in runs without a liveness property: of requests in
  `conversation`, of legs and named tasks in `estimation_overlap`, whose
  specifications, refinement and trees are closed under it.

`CHECK_DEADLOCK FALSE` is set everywhere because the system may stop: a thread
may be left at a gate for ever, and the requests of an instance are finite.

## 7. Fairness

- `Supervisor`: weak fairness on `Step`. A run in flight is one coroutine that
  awaits calls with timeouts; nothing but a crash keeps it from its next node.
- `MultiAgent`: weak fairness on `Serve(r)` for each request: each is served by
  its own coroutine of the event loop.
- `EstimationGraph`: weak fairness on `Advance(l)` for each leg, foreground or
  background. `NodeRaises` is not part of `Advance`: a leg may fail, but a leg
  that could only go on by failing counts as stuck.
- `Corpus`: weak fairness on `Advance(c)` for each client: its next statement,
  its next call, or the pool's timeout, which is an event of the engine's clock.
  `Raise` and `Crash` are not part of it. A rate-limited call is an outcome like
  another, since attempts are bounded.
- `HoursRecovery`: weak fairness on `Proceed`; the model always answers something,
  and may call tools for ever. `Fail` is not part of it.
- `Conversation` and `Retrieval` have no liveness property: no turn waits for
  another, and a search is four steps of one coroutine.

No fairness is assumed for clients (`Invoke`, `Resume`, `Start`, `CheckPaused`,
`AcceptStart`, `AcceptResume`, `CreateSession`, `Receive...`, `CreateRun`), for
crashes, for which branch of the fan-out or which search finishes, or for what an
LLM answers. A human need never answer.

## 8. What is proved

Proved with TLAPS for every value of the constants that satisfies the named
assumptions of the modules (any finite set of components or requests, any
limits, any number of runs, legs, tasks and transcripts):

| Theorem | Statement |
|---|---|
| `SupervisorProofs!TypeCorrect` | `Spec => []TypeOK` |
| `DispatchOrderHolds` | `Spec => []DispatchOrder` |
| `TrailOnlyGrowsHolds` | `Spec => TrailOnlyGrows` |
| `StepBudgetHolds` | `Spec => []StepBudget` |
| `UnattendedEstimateIsSoundHolds` | `Spec => []UnattendedEstimateIsSound` |
| `WritesAreReviewedHolds` | `Spec => WritesAreReviewed`, whatever runs are sandboxed |
| `SandboxedThreadsWaiveNothing` | `Spec => []NothingIsWaived`, assuming `Sandboxing \subseteq {TRUE}`: there the exception of `ReviewedWrite` does not arise |
| `MultiAgentProofs!TypeCorrect` | `Spec => []TypeOK` |
| `LowConfidenceIsReviewedHolds` | `Spec => []LowConfidenceIsReviewed` |
| `ReleasedIsGeneratedHolds` | `Spec => []ReleasedIsGenerated` |
| `DecisionSticksHolds`, `RejectionSticksHolds` | `Spec =>` the property, assuming `MaxOverlap <= 1` |
| `EstimationGraphProofs!TypeCorrect` | `Spec => []TypeOK` |
| `HoursAreSearchedHolds`, `GatesTakeTheirAnswersHolds` | `Spec => []` the invariant, for any legs |
| `CompletedIsReviewedHolds` | `Spec => []CompletedIsReviewed`, assuming a single leg |
| `ConversationProofs!TypeCorrect` | `Spec => []TypeOK` |
| `EveryTurnCountsHolds`, `EvictedIsSummarisedHolds`, `AnswersFitHolds` | `Spec => []` the invariant |
| `KnownFactsStickHolds` | `Spec => KnownFactsStick` |
| `WindowIsRecentHolds` | `Spec => WindowIsRecent`: the history implements `BoundedWindow` |
| `CorpusProofs!TypeCorrect` | `Spec => []TypeOK` |
| `DocumentsAreWholeHolds`, `AnswersAreTrueHolds`, `OneDocumentPerPathHolds` | `Spec => []` the invariant |
| `IngestsAreAtomicHolds` | `Spec => IngestsAreAtomic`: the corpus implements `Catalogue` |
| `HoursRecoveryProofs!TypeCorrect` | `Spec => []TypeOK` |
| `CallsAreAnsweredHolds`, `HoursAreNotLostHolds`, `RowsAreTheirTasksHolds` | `Spec => []` the invariant |
| `RetrievalProofs!InvariantHolds`, `TypeCorrect` | `Spec => []IInv`, `Spec => []TypeOK` |
| `FusionIsFairHolds`, `NothingBetterIsLeftOutHolds`, `HoursAreGroundedHolds` | `Spec => []` the invariant |
| `AnswerIsDeterminedHolds` | what has been recalled has one answer |
| `SupervisorProofs!RunsAreBoundedHolds`, `MultiAgentProofs!RequestsAreBoundedHolds`, `CorpusProofs!RequestsAreBoundedHolds`, `HoursRecoveryProofs!RunIsBoundedHolds` | bounded progress, below |
| `EstimationGraphProofs!LegsAreBoundedHolds` | the same, assuming `IsFiniteSet(Tasks)` |

Every invariant and every action property a passing run checks is the statement
of one of these theorems, and so are the three refinements.

### Supervisor: the argument

The argument is layered; each layer is an inductive invariant relative to the
ones below it.

1. *Routing lemmas.* `FallbackIsLegal`: the ladder returns a legal target.
   `RoutingIsLegal`: hence every routing step, whatever the model answered, is
   the dispatch of a legal target, and past the limit of `finish`.
   `TrailGrowsByOne`: a dispatch adds one row under a new key.
2. *`Typing`* is `TypeOK` with `ValidatorHasEstimate`. The type of the verdict
   needs it: the validator reads fields of the estimate, so its output has a
   type only because the router never sends it a thread without one.
3. *`OrderInv`* adds that an agent at work is in the trail, and that what the
   next agents read exists only if its producer is in the trail.
   `DispatchOrder` alone is not inductive: it says nothing of why the
   components or the estimate exist.
4. *`BudgetInv`* separates the steps before and after the last routing step of a
   run: an agent is only at work below the limit.
5. *`SoundInv`* carries, for as long as no human has ruled on the thread, that
   facts are absent or are those of the estimate as it stands, from the validator
   through the routing steps to the gate, also through runs that fail and start
   again. It uses `OrderInv`: after the validator no agent can change what it
   validated, since generation comes before it and never twice.
6. *`ReviewInv`*: unless the write was waived, a decision in the channel is this
   run's ruling, or an old one on a thread that cannot pass the gate without
   asking again, because its verdict asked for the write, or because it has
   components and no verdict. `StepsAreReviewed` then maps every step to a step
   of `ReviewedWrite` or a stutter.

### MultiAgent: the argument

Overlapping requests overwrite each other's checkpoints, so an invariant that
relates the thread to the requests' copies would be false. The invariant says
instead that every checkpoint there is, in the thread or in a copy, is
`Consistent` by itself, and each superstep makes a consistent checkpoint of the
one it works on; which of them is saved last does not matter. `StateInv` relates
the channels (a ruling only about a generated estimate, an estimate only after
the only search), `NextInv` the channels to the pending node (what it reads is
there, what it makes is not yet). For requests in turn, `TurnInv` adds that a
running request's copy is the thread, and `Sticks` is what each superstep keeps.

### EstimationGraph: the argument

The same pattern. `Consistent` follows one checkpoint along the pipeline: the
rows written by finished branches are for its transcript, at the join there is
one for each approved task, after the recovery the estimate is made of them. The
one relation between checkpoints it needs is that a leg in `current` has the
channels and the node of the latest one, since its branches write there too.
`AnswerInv` is for answers on their way, of any number of legs: one that was
accepted and not overtaken fits the gate that is pending, if one is. A leg that
moves the thread overtakes every other that waits (`MovingOvertakes`). For
`CompletedIsReviewed`, which holds in turn only, `TurnInv` adds that the running
leg's checkpoint is the thread.

### Conversation: the argument

`HistoryInv` is the centre: the history is `Pairs(history, w)` for some sequence
`w` of at most `MaxTurns` turns, a question and its reply for each. It is proved
once for the two appends and the eviction of a turn (`WithTurnPairs`: they slide
`w`), and every other step leaves the history alone or empties it. `PairsInTwos`
says that cutting such a history in twos gives back the turns, and `Sliding` that
sliding `w` is the abstract step; `WindowStep` puts them together for the
refinement. `FactsInv` holds because an update keeps or extends every fact
(`FactsAfter`) from whatever the metadata has become meanwhile; `CacheInv` says
under which key and near which transcript a result may lie, which `AnswerInv`
needs at a hit. `EvictedIsSummarised` needs `SummaryInv`: while a turn is being
summarised the window is full, and in an unspoiled session its prompt covers
every turn recorded so far, because no other turn can have been appended
without a summary of its own.

### Corpus: the argument

`IngestInv` says of an ingest under way that its vectors are those of the first
chunks of its budget, as many as its batches cover, and that a flushed id is
below the sequence, used by no committed document and by no other ingest.
Commit and the commits that land in a crash are then one lemma (`LandInv`):
adding a set of such documents keeps `DocInv`. `AnswerInv` ties the id an ingest
was told to a corpus that only grows. `PathInv`
carries the duplicate guard: of a path whose ingests never overlapped, at most
one is being served, and none of them is past the guard once the path has a
document.

### HoursRecovery: the argument

The invariant follows the outputs of the calls dispatched so far (one each, in
order), the derivations to the keys for which hours were found, and, once
done, the result to the merge. `MergeOfNothing` covers the early return, which
answers the rows without a merge.

### Retrieval: the argument

The inductive invariant says of each branch what its ranking holds (rows of its
own kind, as many as its limit at most), and of the text branch what it left out
of what was `known` when the search began: if anything, the ranking is full. Of
what the vector branch left out it says nothing, since its scan may miss
anything. All is kept while other chunks are committed, because `known` stays.
Once done, the answer is one of `Finals` and the finding is the finding of its
neighbours. What follows is about values:

- *Fusion.* `Shares`: a chunk that stands higher in a ranking has a larger
  fraction of it. `SumOfFractions`: a fraction no smaller and one larger add up
  to a larger one. With `FusesAbove` sorting by the sum, `FusionIsFairHolds`.
- *Recall.* If what the scan returned and what the text matches fit together in
  `RecallK`, a text branch that is full left nothing out (`FullBranch`, a matter of
  cardinalities), so all of it that was known reaches the last sort
  (`AllIsRecalled`), and a cut leaves out only what comes
  after what it keeps (`CutOfRanking`).
- *Consensus.* If no neighbour was found under the threshold, each is at the
  sentinel distance and has similarity zero; then so has the sum
  (`SumOfNaturals`), while the sum of the weights is positive, and the
  reliability is below its limit whatever the hours are.
- *The answer.* `AnswerIsDeterminedHolds`: the fused order and the
  cross-encoder's are total with their tie-breaks, and a finite set has exactly
  one ranking in such an order (`SortedRanking`, `SortedRankingIsUnique`). So a
  search never lacks an answer, and answers differ only by what was recalled.

`FiniteData` holds what this needs of data. The induction theorems of the library
take an operator as a parameter; `LeastNatural`, `NaturalsByInduction` and
`FiniteSetsByInduction` take the property as a *set* instead, which every prover
can instantiate, and the sums and rankings are proved with them.

### Corpus implements Catalogue

`Books!Ask` is the request, `Books!Add` the commit with its answer, `Books!Recall`
the answer of the duplicate guard, `Books!AddUnanswered` a crash in which commits
land; batches, retries, flushes and rollbacks are stutters. `BookInv` adds to
the invariant of the corpus what the map needs, that a request is answered once
and that what is flushed was asked for and is not answered; `LandAppears` is the
counterpart of `LandInv`: documents that land appear in the catalogue.

### Bounded progress

The liveness properties have a safety half that is provable: a measure
`StepsLeft` in the naturals, of a run, a request or a leg, which its own steps
decrease and no step of another gives back. So a run takes boundedly many steps
whatever the models answer, whatever fails and however requests overlap; that it
takes them, which is fairness, is TLC's part. The measures are

- `Supervisor`: two steps for each turn below the limit, and the way to the end;
  at most `2 * MaxSteps + 3`. A trail longer than the limit, of a thread that was
  invoked before, has no turns left.
- `MultiAgent`: the supersteps that remain of the recursion limit, and the check,
  the admission and the answer; at most `RecursionLimit + 4`.
- `EstimationGraph`: the tasks without a row, and the nodes after them; at most
  one step for each task and nine. The list of tasks in a request being finite,
  `IsFiniteSet(Tasks)` is what the theorem assumes. A leg answered by a gate is a
  new leg.
- `Corpus`: for each component not embedded yet, the attempts that its batch may
  take; at most `MaxTries` for each, and three. `Products` has the arithmetic.
- `HoursRecovery`: the searches that remain, and for each iteration a call of the
  model, the outputs of its tool calls and the end of the round. Here the number
  at the start is exact, and the measure is zero only when the run is over.

### Only model-checked

- Liveness (`RunsComeToRest`, `RequestsAreAnswered`, `LegsComeToRest`,
  `RequestsEnd`, `RunEnds`): fairness and `ENABLED` are
  beyond the prover. The bounds above are the half of it that is not.
- The disagreements of section 9, which are counterexamples.

## 9. Disagreements between the code and its documentation

Each of these is a run that TLC finds violated; `PROJECT.json` quotes the lines:

- *The answer to the structure review is taken by the final review*
  (`estimation_wrong_gate`).
- *A result is served under another prompt version* (`conversation_version`).
- *The duplicate guard raises for good once a path has two documents*
  (`corpus_guard`).

These were met while modelling, and are recorded without a run:

- A broken LLM ends a supervisor run: `supervisor/supervisor.py:20` promises a
  fallback, which only the router has (`supervisor/agents.py:84`). With the
  shipped wrapper every run is affected, because `complete_structured`
  (`services/llm_wrapper.py:100`) is a coroutine function called through
  `asyncio.to_thread`; the tests and demos replace it.
- An old approval authorises a new write (`supervisor/sandbox.py:19`, `:122`)
  when the thread's verdict was given in a run without the persistence agent, as
  `scripts/run_supervisor_s14.py:334` allows. `ReviewedWrite` has this as its one
  exception, by name; `SandboxedThreadsWaiveNothing` says when it cannot arise.
- A run may end unattended on a stale verdict: when a human put an estimate in
  at the gate before any was drafted, a later run may validate it, then draft
  its own, and release the draft on the verdict about the other, although the
  gate is to stop "exactly when they are not" well grounded
  (`supervisor/gate.py:1-7`). `UnattendedEstimateIsSound` ends at the first
  ruling.
- A thread reports a stored estimate after the process that stored it is gone: the
  sink is a dictionary (`supervisor/sandbox.py:184`), the checkpoint is not. In
  `ReviewedWrite` the store may lose what it has.
- A second resume replaces a ruling (`estimate_multi_agent.py:143-145`):
  `DecisionSticks` fails with `MaxOverlap = 2`.
- A second start is answered with the first transcript's estimate
  (`estimate_multi_agent.py:82`, `:98`): the empty lists of its input add nothing
  to `operator.add` channels (`multi_agent/state.py:59`, `:69`).
- An approved task without a name is not searched and gets no row
  (`graph/build.py:63`), and the estimate does not say so.
- Progress says completed before the first checkpoint exists, though the comment
  says running (`estimate_graph.py:316`, `:219`), and running for ever after a leg
  that failed.
- A proposal is drafted from an estimate nobody validated (`graph/build.py:76`);
  the docstring of the proposal agent says it is of a validated one
  (`proposal.py:3`).
- An index job never leaves pending, although `persistence/repositories/jobs.py:3`
  names the states it goes through: `corpus_index.py:53` calls `SessionLocal`,
  which the module does not import, and which `database.py:55` defines to return
  a session factory; `set_documents_count`, whose count is keyword-only, is
  called with it by position at `:79`.
- The corpus statistics are two statements and no snapshot
  (`store/repository.py:44`): an ingest may commit between them.
- The filters of a vector search are said to narrow the candidates *before* the
  ranking (`store/repository.py:157-158`), and the plain search to be a sequential
  scan (`:116`). With the HNSW index of migration `0005` both scans may go through
  the index: at pgvector's default `ef_search` of 40, below the 50 rows a recall or
  a request may ask for, and with filters and threshold applied to what it returns. A
  search may be answered with fewer rows than there are, or none, and not the
  nearest.
- Turns are forgotten when a summary call fails, comes back empty or overlaps
  another, although "the evicted context is not lost entirely"
  (`services/summarizer.py:3-5`): `spoiled` in `EvictedIsSummarised`.
- A later derivation that finds nothing replaces one that found hours
  (`agent_loop.py:281`); the merge then keeps the search's row.
- `task_hours.py:13-14` promises no hours past the distance threshold; in hybrid
  mode a chunk found by its text alone is a match at the sentinel distance, with
  reliability 0. It is always flagged (`HoursAreGrounded`).
- The pool for the cross-encoder is cut to `recall_k` after a fusion that may have
  twice as many rows, so a better chunk may be dropped before it is scored
  (`pipeline.py`); `NothingBetterIsLeftOut` names this exception.
- Two attachments of legal size exceed the length of a request
  (`routers/sessions.py:155`, `document_extractor.py:74-75`): the validation error
  is raised inside the handler, and answered 500.
- The rendered prompts are not what the model is sent
  (`services/estimation.py:250-251`); the streaming variant calls
  `render_estimation_prompt`, which its module does not import.
- A prompt version without a template is an error on a miss and is answered on a
  hit.

## 10. What is not modelled

*Settings the code names and does not define.* The shipped `config.py` has
`extra="ignore"` and no field for several groups of settings. `GRAPH_*` and
`AGENT_*` are among them: as shipped every leg of the Session 13 graph fails
in its first node (502, or an error line), `/v1/estimate/agent/hours` fails when
it builds its retrieval configuration, and `/v1/estimate/agent/structure` works
only for a payload that names its model and effort. No test runs these legs on
the shipped settings. `EstimationGraph` and `HoursRecovery` take the code with the
settings it names; the supervisor and multi-agent flows read `core/config.py`,
which has theirs.

*Parts left out*, and why:

- The activity log, whose sequence number is read before the push, and the
  proposal endpoint of the Session 13 router: neither changes a checkpoint.
- `index_service.expand` and the transitions of `JobsRepository`: no execution
  reaches them (section 9). No migration creates the table of jobs.
- The structure endpoint of the agent: one model call, no state.
- The streaming variant of an estimate: it always fails (section 9).
- The output guard of an estimate changes wording only. Document extraction and
  PII cleaning are pure data transformation.
- Start-up builds graphs once and has no state afterwards; the runtime overrides
  in Redis (`llm/runtime_config.py`) fall back to the defaults on any failure.
- The LLM wrapper is external: retries and pricing are inside one call.
- Front ends.
- Code that the application does not import, or that imports modules which do not
  exist: `api/{config,ingestion}`,
  `api/routers/{estimate,estimate_stages,estimate_tasks,retrieval,retrieval_advanced}`,
  `advanced_pipeline`, `query_transform`, `router` and `temporal` of
  `generation/rag/retrieval` and its `round_robin_merge`, `attachments/extractor`,
  `domain/estimation_service`, `generation/agentic/{boss,critic}`,
  `generation/{cag,conversation}`, `generation/rag/{analysis,estimator}`,
  `chunking/strategies`, `rag/idempotency`, the context assembler, validation and
  hallucination modules, `persistence/repositories/mappings`,
  `services/{anthropic_provider,base_llm,cache,openai_provider}`, `src/ingest`.

Much of the repository by size is outside any model for these reasons: the
stress harness under `src/evals` (about 3,400 lines of scenarios and reports),
schemas, the unreachable code above, clients and scripts. What the models cover
is most of the code that keeps state and can be reached.

*Behaviour that is modelled and deliberately not stated as a property*, since
neither code nor documents promise anything of it: gate 1 ignores `approved`
(`gates.py:45`); a resume that meets a failed node loses its decision
(`estimate_multi_agent.py:154`); recovery may derive hours for a task that was
not flagged (`hours.py:131`); chunks ingested through the API have the type
`budget_component` and are never found by the task search, which filters for
`historical_task` (in `Retrieval`, a chunk that does not pass).

## 11. Plan

Done: the three graphs, the conversation, the corpus, the recovery loop and
retrieval, each with its runs; proofs of all their invariants, action properties
and refinements, and of bounded progress. Left, in order of what they would add:

1. A composition of `MultiAgent` and `EstimationGraph` on one thread: both use
   the bare estimation id on the same checkpointer.
2. The activity log, with the sequence number read before the push.
3. The proposal endpoint.

## 12. Running it

Every `.cfg` belongs to the `MC` module of the same component; `PROJECT.json`
pairs them:

    tlc -config MCSupervisor.cfg MCSupervisor
    tlc -config MultiAgentInTurn.cfg MCMultiAgent
    tlc -config MultiAgentOverlap.cfg MCMultiAgent
    tlc -config EstimationGraphInTurn.cfg MCEstimationGraph
    tlc -config EstimationGraphOverlap.cfg MCEstimationGraph
    tlc -config EstimationGraphWrongGate.cfg MCEstimationGraph   # a violation
    tlc -config Conversation.cfg MCConversation
    tlc -config ConversationVersion.cfg MCConversation           # a violation
    tlc -config Corpus.cfg MCCorpus
    tlc -config CorpusGuard.cfg MCCorpus                         # a violation
    tlc -config HoursRecovery.cfg MCHoursRecovery
    tlc -config Retrieval.cfg MCRetrieval

    tlapm SupervisorProofs.tla       # and MultiAgentProofs, EstimationGraphProofs,
                                     # ConversationProofs, CorpusProofs,
                                     # HoursRecoveryProofs, RetrievalProofs,
                                     # FiniteData

The largest run, `multi_agent_overlap`, has some 762,000 distinct states;
`estimation_overlap`, `supervisor`, `retrieval`, `conversation` and
`hours_recovery` have between 249,000 and 450,000, the rest fewer than 200,000.
No run takes more than two minutes, and no proof module more than a few.
