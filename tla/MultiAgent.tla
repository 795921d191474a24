----------------------------- MODULE MultiAgent -----------------------------
(***************************************************************************)
(* The multi-agent flow of Session 14 (src/src/domain/multi_agent) behind  *)
(* its HTTP endpoints (src/src/api/routers/estimate_multi_agent.py): a     *)
(* deterministic supervisor routes four agents over one checkpointed       *)
(* thread, pauses for a human when confidence is low and finalizes.  A     *)
(* request runs the graph on a copy of the latest checkpoint and saves a   *)
(* checkpoint after every superstep; nothing keeps two requests off one    *)
(* thread, so the last to save wins.                                       *)
(***************************************************************************)
EXTENDS Integers, FiniteSets

CONSTANTS
  Requests,          \* HTTP requests addressed to the thread
  Texts,             \* transcripts
  None,              \* no transcript
  MaxOverlap,        \* bound: requests served at the same time
  RecursionLimit     \* supersteps LangGraph allows one call

ASSUME MultiAgentAssumption ==
  /\ IsFiniteSet(Requests)
  /\ None \notin Texts
  /\ MaxOverlap \in Nat
  /\ RecursionLimit \in Nat

Decisions == {"approve", "adjust", "reject", "other"}
Nodes == {"supervisor", "requirements_extractor", "budget_searcher", "estimate_generator",
          "coherence_validator", "human_review_gate", "finalize"}

(***************************************************************************)
(* An estimate: the transcript whose requirements it prices, whether it    *)
(* only records failed searches, and what a human's decision added.        *)
(***************************************************************************)
Estimates == [basis : Texts, failed : BOOLEAN, adjusted : BOOLEAN, rejected : BOOLEAN]
NoEstimate == [none |-> "estimate"]
Draft(text, failed) ==
  [basis |-> text, failed |-> failed, adjusted |-> FALSE, rejected |-> FALSE]

\* The channels of a thread.  "requirements" and "searched" name the transcript the
\* non-empty requirements came from and the one whose requirements were searched
\* (None: budget_searcher is not among agent_actions).
Channels ==
  [transcript : Texts \cup {None}, requirements : Texts \cup {None},
   searched : Texts \cup {None}, matched : BOOLEAN,
   estimate : Estimates \cup {NoEstimate}, validation : {"none", "valid", "invalid"},
   confidence : {"none", "low", "high"}, decision : Decisions \cup {"none"},
   status : {"none", "validated", "needs_review", "rejected"}]

Fresh ==
  [transcript |-> None, requirements |-> None, searched |-> None, matched |-> FALSE,
   estimate |-> NoEstimate, validation |-> "none", confidence |-> "none",
   decision |-> "none", status |-> "none"]
NewThread == [state |-> Fresh, next |-> {}]

VARIABLES
  thread,            \* latest checkpoint: [state, next]
  stage,             \* of each request: idle, checked, running, ran, answered, failed, lost
  work,              \* the copy a running request works on: [state, next]
  answer,            \* the human's decision a resume request carries ("none": consumed)
  left               \* supersteps a request has left

vars == <<thread, stage, work, answer, left>>

Init ==
  /\ thread = NewThread
  /\ stage = [r \in Requests |-> "idle"]
  /\ work = [r \in Requests |-> NewThread]
  /\ answer = [r \in Requests |-> "none"]
  /\ left = [r \in Requests |-> 0]

Serving == {r \in Requests : stage[r] \in {"checked", "running", "ran"}}
Admitted == Cardinality(Serving) < MaxOverlap

-----------------------------------------------------------------------------
(***************************************************************************)
(* The endpoints.                                                          *)
(***************************************************************************)
\* graph.ainvoke on the latest checkpoint.
Run(r, state, next) ==
  /\ stage' = [stage EXCEPT ![r] = "running"]
  /\ work' = [work EXCEPT ![r] = [state |-> state, next |-> next]]
  /\ left' = [left EXCEPT ![r] = RecursionLimit]

\* The request is over: its copy of the thread is gone.
Leave(r, outcome) ==
  /\ stage' = [stage EXCEPT ![r] = outcome]
  /\ work' = [work EXCEPT ![r] = NewThread]
  /\ answer' = [answer EXCEPT ![r] = "none"]
  /\ left' = [left EXCEPT ![r] = 0]

\* POST: the input overwrites the transcript and the requirements; the empty lists
\* it passes for budget_matches and agent_actions add nothing to those channels.
StartState(text) == [thread.state EXCEPT !.transcript = text, !.requirements = None]

Start(r, text) ==
  /\ stage[r] = "idle" /\ Admitted
  /\ thread' = [state |-> StartState(text), next |-> {"supervisor"}]
  /\ Run(r, StartState(text), {"supervisor"})
  /\ UNCHANGED answer

\* POST resume: refused with 409 when nothing is pending, and only then.
CheckPaused(r, action) ==
  /\ stage[r] = "idle" /\ Admitted
  /\ IF thread.next = {}
     THEN Leave(r, "answered")
     ELSE /\ stage' = [stage EXCEPT ![r] = "checked"]
          /\ answer' = [answer EXCEPT ![r] = action]
          /\ UNCHANGED <<work, left>>
  /\ UNCHANGED thread

Resume(r) ==
  /\ stage[r] = "checked"
  /\ Run(r, thread.state, thread.next)
  /\ UNCHANGED <<thread, answer>>

\* aget_state, then the response.
Respond(r) ==
  /\ stage[r] = "ran"
  /\ Leave(r, "answered")
  /\ UNCHANGED thread

-----------------------------------------------------------------------------
(***************************************************************************)
(* One superstep of a running request.                                     *)
(***************************************************************************)
At(r, nodes) == stage[r] = "running" /\ left[r] > 0 /\ work[r].next = nodes

\* The superstep's updates are applied and a checkpoint is saved.  A decision not
\* taken by an interrupt of the first superstep is forgotten.
CommitUncounted(r, state, next) ==
  /\ work' = [work EXCEPT ![r] = [state |-> state, next |-> next]]
  /\ thread' = [state |-> state, next |-> next]
  /\ stage' = [stage EXCEPT ![r] = IF next = {} THEN "ran" ELSE "running"]
  /\ answer' = [answer EXCEPT ![r] = "none"]
  /\ UNCHANGED left
Commit(r, state, next) ==
  /\ work' = [work EXCEPT ![r] = [state |-> state, next |-> next]]
  /\ thread' = [state |-> state, next |-> next]
  /\ stage' = [stage EXCEPT ![r] = IF next = {} THEN "ran" ELSE "running"]
  /\ answer' = [answer EXCEPT ![r] = "none"]
  /\ left' = [left EXCEPT ![r] = @ - 1]

\* A node raises or the limit is hit: 502, with the checkpoint as it was.
Raise(r) == Leave(r, "failed") /\ UNCHANGED thread

RouteOfUnextracted(s) ==
  IF s.searched = None THEN "budget_searcher"
  ELSE IF s.requirements = None THEN "requirements_extractor"
  ELSE IF s.estimate = NoEstimate THEN "estimate_generator"
  ELSE IF s.validation = "none" THEN "coherence_validator"
  ELSE IF s.decision = "none" /\ s.confidence = "low" THEN "human_review_gate"
  ELSE "finalize"
RouteOfUnreviewed(s) ==
  IF s.requirements = None THEN "requirements_extractor"
  ELSE IF s.searched = None THEN "budget_searcher"
  ELSE IF s.estimate = NoEstimate THEN "estimate_generator"
  ELSE IF s.validation = "none" THEN "coherence_validator"
  ELSE "finalize"
RouteOfAskingAgain(s) ==
  IF s.requirements = None THEN "requirements_extractor"
  ELSE IF s.searched = None THEN "budget_searcher"
  ELSE IF s.estimate = NoEstimate THEN "estimate_generator"
  ELSE IF s.validation = "none" THEN "coherence_validator"
  ELSE IF s.confidence = "low" THEN "human_review_gate"
  ELSE "finalize"
RouteOf(s) ==
  IF s.requirements = None THEN "requirements_extractor"
  ELSE IF s.searched = None THEN "budget_searcher"
  ELSE IF s.estimate = NoEstimate THEN "estimate_generator"
  ELSE IF s.validation = "none" THEN "coherence_validator"
  ELSE IF s.decision # "none" THEN "finalize"
  ELSE IF s.confidence = "low" THEN "human_review_gate"
  ELSE "finalize"

\* The reason of the last branch formats the confidence, which may be missing.
RouterTolerates(s) == s.estimate = NoEstimate /\ s.validation # "none"
RouterRaises(s) ==
  /\ None \notin {s.requirements, s.searched}
  /\ s.estimate # NoEstimate /\ s.validation # "none"
  /\ s.decision = "none" /\ s.confidence = "none"

Route(r) ==
  /\ At(r, {"supervisor"})
  /\ IF RouterRaises(work[r].state)
     THEN Raise(r)
     ELSE Commit(r, work[r].state, {RouteOf(work[r].state)})

\* The LLM may find no requirement at all.
ExtractRequirements(r) ==
  /\ At(r, {"requirements_extractor"})
  /\ \E found \in {None, work[r].state.transcript} :
       Commit(r, [work[r].state EXCEPT !.requirements = found], {"supervisor"})

\* A search that fails soft-fails its requirement and leaves its error in the
\* estimate channel.
SearchBudgets(r, failed, found) ==
  /\ At(r, {"budget_searcher"})
  /\ LET s == work[r].state
     IN Commit(r, [s EXCEPT !.searched = s.requirements,
                            !.matched = @ \/ found,
                            !.estimate = IF failed THEN Draft(s.requirements, TRUE) ELSE @],
               {"supervisor"})

\* The estimate prices the matches; without any its confidence is 0.
GenerateEstimate(r, level) ==
  /\ At(r, {"estimate_generator"})
  /\ work[r].state.matched \/ level = "low"
  /\ Commit(r, [work[r].state EXCEPT !.estimate = Draft(work[r].state.searched, FALSE),
                                     !.confidence = level],
            {"supervisor"})

\* Without a total, or without references, there is always an issue.
Validate(r, verdict) ==
  /\ At(r, {"coherence_validator"})
  /\ verdict = "valid" => work[r].state.matched /\ ~work[r].state.estimate.failed
  /\ Commit(r, [work[r].state EXCEPT !.validation = verdict], {"supervisor"})

\* The gate goes to finalize by its Command, and to the supervisor by its edge.
ReviewGate(r) ==
  /\ At(r, {"human_review_gate"})
  /\ answer[r] # "none"
  /\ Commit(r, [work[r].state EXCEPT !.decision = answer[r]], {"finalize", "supervisor"})

Pause(r) ==
  /\ At(r, {"human_review_gate"})
  /\ answer[r] = "none"
  /\ stage' = [stage EXCEPT ![r] = "ran"]
  /\ UNCHANGED <<thread, work, answer, left>>

\* finalize: a decision that is none of the known ones, or adjusts nothing, changes
\* nothing; a rejection stays in the estimate.
Judged(s) == [s.estimate EXCEPT !.adjusted = @ \/ s.decision = "adjust",
                                !.rejected = @ \/ s.decision = "reject"]

FinalizedOnce(s) ==
  [s EXCEPT !.decision = "none",
            !.status = IF s.decision = "reject" THEN "rejected"
                       ELSE IF s.validation = "valid" THEN "validated" ELSE "needs_review"]
Finalized(s) ==
  [s EXCEPT !.estimate = Judged(s),
            !.status = IF Judged(s).rejected THEN "rejected"
                       ELSE IF s.validation = "valid" THEN "validated" ELSE "needs_review"]

Finalize(r) ==
  /\ At(r, {"finalize"})
  /\ Commit(r, Finalized(work[r].state), {})

\* After the gate both run in one superstep, and the supervisor sends the flow to
\* finalize a second time.
FinalizeAndRoute(r) ==
  /\ At(r, {"finalize", "supervisor"})
  /\ Commit(r, Finalized(work[r].state), {RouteOf(work[r].state)})

\* The call to the model fails.
LlmRaises(r) ==
  /\ At(r, {"requirements_extractor"}) \/ At(r, {"estimate_generator"})
  /\ Raise(r)

LimitReached(r) ==
  /\ stage[r] = "running" /\ left[r] = 0 /\ work[r].next # {}
  /\ Raise(r)

\* A resume that finds the thread completed since it was checked.
NothingPending(r) ==
  /\ stage[r] = "running" /\ work[r].next = {}
  /\ stage' = [stage EXCEPT ![r] = "ran"]
  /\ UNCHANGED <<thread, work, answer, left>>

-----------------------------------------------------------------------------
Serve(r) ==
  \/ Resume(r)
  \/ Route(r)
  \/ ExtractRequirements(r)
  \/ \E failed, found \in BOOLEAN : SearchBudgets(r, failed, found)
  \/ \E level \in {"low", "high"} : GenerateEstimate(r, level)
  \/ \E verdict \in {"valid", "invalid"} : Validate(r, verdict)
  \/ ReviewGate(r)
  \/ Pause(r)
  \/ Finalize(r)
  \/ FinalizeAndRoute(r)
  \/ LlmRaises(r)
  \/ LimitReached(r)
  \/ NothingPending(r)
  \/ Respond(r)

\* The process dies: its requests are lost, the checkpoint stays.
Crash ==
  /\ Serving # {}
  /\ stage' = [r \in Requests |-> IF r \in Serving THEN "lost" ELSE stage[r]]
  /\ work' = [r \in Requests |-> NewThread]
  /\ answer' = [r \in Requests |-> "none"]
  /\ left' = [r \in Requests |-> 0]
  /\ UNCHANGED thread

Next ==
  \/ \E r \in Requests, text \in Texts : Start(r, text)
  \/ \E r \in Requests, action \in Decisions : CheckPaused(r, action)
  \/ \E r \in Requests : Serve(r)
  \/ Crash

Spec == Init /\ [][Next]_vars
FairSpec == Spec /\ \A r \in Requests : WF_vars(Serve(r))

-----------------------------------------------------------------------------
Checkpoints == [state : Channels, next : SUBSET Nodes]

TypeOK ==
  /\ thread \in Checkpoints
  /\ stage \in [Requests -> {"idle", "checked", "running", "ran", "answered", "failed", "lost"}]
  /\ work \in [Requests -> Checkpoints]
  /\ answer \in [Requests -> Decisions \cup {"none"}]
  /\ left \in [Requests -> 0..RecursionLimit]

\* A finished thread: nothing pending, and a final status.
Released == thread.next = {} /\ thread.state.status # "none"

\* A low-confidence estimate is never released before a human has ruled, however
\* requests overlap, fail and are repeated.
LowConfidenceIsReviewed ==
  Released /\ thread.state.confidence = "low" => thread.state.decision # "none"

\* What is released was generated from references: a failed search, which the
\* validator sees as an estimate, never reaches the client as one.
ReleasedIsGenerated ==
  Released => ~thread.state.estimate.failed /\ thread.state.confidence # "none"

\* Requests that do not overlap leave a thread with one human ruling: no later
\* request asks for another or replaces it.
DecisionSticks ==
  [][thread.state.decision # "none" => thread'.state.decision = thread.state.decision]_vars

\* A rejected estimate is never shown as anything else, by the second finalize of
\* the same run or by later runs of the thread.
RejectionSticks ==
  [][thread.state.status = "rejected" => thread'.state.status = "rejected"]_vars

\* Every request is answered, refused or fails, unless the process dies: the
\* router's loop on an empty extraction ends at the recursion limit.
RequestsAreAnswered ==
  \A r \in Requests : (stage[r] = "checked" \/ stage[r] = "running") ~>
                      stage[r] \in {"answered", "failed", "lost"}
====
