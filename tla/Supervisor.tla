----------------------------- MODULE Supervisor -----------------------------
(***************************************************************************)
(* The supervisor flow of Session 14 (src/src/domain/graph/supervisor): a  *)
(* star graph in which a routing node, helped by an LLM, dispatches four   *)
(* agents one at a time and then hands over to a human review gate and,    *)
(* when the graph was built "sandboxed", to the agent that saves the       *)
(* estimate.  The state of one thread lives in a checkpoint: it survives   *)
(* a failed node, a killed process and a new invocation of the thread.     *)
(***************************************************************************)
EXTENDS Integers, FiniteSets

CONSTANTS
  Components,        \* names the extractor may find in a transcript
  Levels,            \* 10 * the base score of the model's self-reported confidence
  TotalIssues,       \* issues _validate may raise about the total alone
  Penalties,         \* 10 * supervisor_divergence_penalty * min(ratio, 1); {0}: no competition
  MaxSteps,          \* settings.supervisor_max_steps
  Sandboxing,        \* the values of "sandboxed" under which a thread is invoked
  LlmAnswers,        \* FALSE: every LLM call raises (what LLMWrapper does to these callers)
  MaxRuns            \* bound: invocations of the thread

ASSUME SupervisorAssumption ==
  /\ IsFiniteSet(Components)
  /\ Levels \subseteq Nat
  /\ TotalIssues \subseteq Nat
  /\ Penalties \subseteq Nat
  /\ MaxSteps \in Nat
  /\ Sandboxing \subseteq BOOLEAN
  /\ LlmAnswers \in BOOLEAN
  /\ MaxRuns \in Nat

Order == <<"requirements_extractor", "budget_searcher",
           "estimate_generator", "coherence_validator">>
Agents == {Order[i] : i \in 1..4}
Targets == Agents \cup {"finish"}
Nodes == Agents \cup {"supervisor", "human_review_gate", "persistence_agent", "END"}

(***************************************************************************)
(* An estimate, reduced to what _validate and the confidence score read:   *)
(* the components it prices, those priced outside the range of their       *)
(* references, the model's confidence and the issues of the total.  None   *)
(* and {} are both NoEstimate: every reader tests truthiness.              *)
(***************************************************************************)
Estimates == {e \in [lines : SUBSET Components, wild : SUBSET Components,
                     level : Levels, totals : TotalIssues] : e.wild \subseteq e.lines}
NoEstimate == [none |-> "estimate"]
NoFacts == [none |-> "facts"]

VARIABLES
  mode,              \* "idle" | "running" | "paused" | "failed" | "killed" | "done"
  next,              \* node the checkpoint holds as next
  runs,              \* invocations so far
  sandboxed,         \* this run: build(sandboxed) and supervisor_persistence_enabled
  transcript,        \* is the transcript non-empty?
  steps,             \* supervisor_steps
  history,           \* routing_history: target by step (reason and source are wording)
  components,        \* names in the components channel
  matched,           \* names with at least one row in budget_matches
  estimate,          \* the estimate channel
  penalty,           \* what divergence takes off the confidence
  facts,             \* confidence, out_of_range, grounded_components
  persistRequested,  \* persist_requested
  status,
  reasons,           \* review_reasons
  decision,          \* human_decision: its "decision" or "action" entry
  saved,             \* outcome of the last save_estimate on the thread
  store,             \* PERSISTED[estimation_id]: the sink
  ruling             \* history variable: the human decision of this run

control == <<mode, next, runs, sandboxed, transcript>>
routing == <<steps, history>>
work    == <<components, matched, estimate, penalty>>
verdict == <<facts, persistRequested, status>>
review  == <<reasons, decision, ruling>>
sink    == <<saved, store>>
vars    == <<control, routing, work, verdict, review, sink>>

Init ==
  /\ mode = "idle" /\ next = "END" /\ runs = 0
  /\ sandboxed = FALSE /\ transcript = FALSE
  /\ steps = 0 /\ history = [s \in {} |-> "finish"]
  /\ components = {} /\ matched = {} /\ estimate = NoEstimate /\ penalty = 0
  /\ facts = NoFacts /\ persistRequested = FALSE /\ status = "none"
  /\ reasons = {} /\ decision = "none" /\ ruling = "none"
  /\ saved = "none" /\ store = NoEstimate

At(node) == mode = "running" /\ next = node
Goto(node) ==
  /\ next' = node
  /\ mode' = IF node = "END" THEN "done" ELSE "running"
  /\ UNCHANGED <<runs, sandboxed, transcript>>

(***************************************************************************)
(* graph.ainvoke(input) on the thread: a fresh run on a new thread, or a   *)
(* new input to a thread whose checkpoint keeps every channel of the       *)
(* earlier runs, whether it ended, paused or failed.                       *)
(***************************************************************************)
InvokeRecounting(text, sandbox) ==
  /\ mode # "running"
  /\ runs < MaxRuns
  /\ mode' = "running" /\ next' = "supervisor"
  /\ runs' = runs + 1 /\ sandboxed' = sandbox /\ transcript' = text
  /\ ruling' = "none" /\ steps' = 0
  /\ UNCHANGED <<history, work, verdict, reasons, decision, sink>>
Invoke(text, sandbox) ==
  /\ mode # "running"
  /\ runs < MaxRuns
  /\ mode' = "running" /\ next' = "supervisor"
  /\ runs' = runs + 1 /\ sandboxed' = sandbox /\ transcript' = text
  /\ ruling' = "none"
  /\ UNCHANGED <<routing, work, verdict, reasons, decision, sink>>

-----------------------------------------------------------------------------
(***************************************************************************)
(* supervisor.py: routing.                                                 *)
(***************************************************************************)
AlreadyRan(agent) == \E s \in DOMAIN history : history[s] = agent

InputsReady(agent) ==
  CASE agent = "requirements_extractor" -> transcript
    [] agent = "budget_searcher"        -> components # {}
    [] agent = "estimate_generator"     -> components # {} /\ AlreadyRan("budget_searcher")
    [] agent = "coherence_validator"    -> estimate # NoEstimate

IsLegalRerun(target) == target = "finish" \/ InputsReady(target)
IsLegal(target) ==
  \/ target = "finish"
  \/ target \in Agents /\ InputsReady(target) /\ ~AlreadyRan(target)

FallbackNext ==
  IF \A agent \in Agents : ~IsLegal(agent)
  THEN "finish"
  ELSE Order[CHOOSE i \in 1..4 : /\ IsLegal(Order[i])
                                 /\ \A j \in 1..4 : j < i => ~IsLegal(Order[j])]

\* What the router's LLM may do: name any target, or raise.
RouterAnswers == (IF LlmAnswers THEN Targets ELSE {}) \cup {"error"}

\* append_routing: a row replaces the row of the same step.
KeyedPut(f, key, row) == [k \in DOMAIN f \cup {key} |-> IF k = key THEN row ELSE f[k]]

DispatchUncounted(target) ==
  /\ Goto(IF target = "finish" THEN "human_review_gate" ELSE target)
  /\ steps' = steps
  /\ history' = KeyedPut(history, steps, target)
  /\ UNCHANGED <<work, verdict, review, sink>>
Dispatch(target) ==
  /\ Goto(IF target = "finish" THEN "human_review_gate" ELSE target)
  /\ steps' = steps + 1
  /\ history' = KeyedPut(history, steps, target)
  /\ UNCHANGED <<work, verdict, review, sink>>

RouteUnchecked ==
  /\ At("supervisor") /\ steps >= MaxSteps
  /\ \E target \in Targets : Dispatch(target)
RouteAtLimit ==
  /\ At("supervisor") /\ steps >= MaxSteps
  /\ Dispatch("finish")

Route(answer) ==
  /\ At("supervisor") /\ steps < MaxSteps
  /\ IF answer # "error" /\ IsLegal(answer)
     THEN Dispatch(answer)
     ELSE Dispatch(FallbackNext)

-----------------------------------------------------------------------------
(***************************************************************************)
(* agents.py: each agent's update, then its static edge to the supervisor. *)
(* An LLM error in an agent leaves the run failed with the node as next.   *)
(***************************************************************************)
ExtractRequirements(names) ==
  /\ At("requirements_extractor") /\ LlmAnswers
  /\ components' = names
  /\ Goto("supervisor")
  /\ UNCHANGED <<routing, matched, estimate, penalty, verdict, review, sink>>

\* budget_matches is an operator.add channel; a search that fails or finds
\* nothing for a component only leaves that component unmatched.
SearchBudgets(found) ==
  /\ At("budget_searcher")
  /\ found \subseteq components
  /\ matched' = matched \cup found
  /\ Goto("supervisor")
  /\ UNCHANGED <<routing, components, estimate, penalty, verdict, review, sink>>

GenerateEstimate(draft, cut) ==
  /\ At("estimate_generator") /\ LlmAnswers
  /\ estimate' = draft /\ penalty' = cut
  /\ Goto("supervisor")
  /\ UNCHANGED <<routing, components, matched, verdict, review, sink>>

AgentRaises ==
  /\ At("requirements_extractor") \/ At("estimate_generator")
  /\ mode' = "failed"
  /\ UNCHANGED <<next, runs, sandboxed, transcript, routing, work, verdict, review, sink>>

\* _validate: an issue per line without references, per line out of range,
\* and those of the total.
Issues(e, refs) ==
  Cardinality(e.lines \ refs) + Cardinality(e.wild \cap refs) + e.totals

Grounded(e, refs) == Cardinality(e.lines \cap refs)

\* _confidence_score and _apply_divergence_penalty: base * grounded/lines less
\* a tenth per issue and the penalty, clamped; here times 10 * weight.
Confidence(e, refs, cut) ==
  LET weight == IF e.lines = {} THEN 1 ELSE Cardinality(e.lines)
      score  == e.level * Grounded(e, refs) - (Issues(e, refs) + cut) * weight
  IN [score  |-> IF score < 0 THEN 0 ELSE score, weight |-> weight]

FactsOf(e, refs, cut) ==
  [confidence |-> Confidence(e, refs, cut),
   outOfRange |-> e.wild \cap refs # {},
   grounded   |-> Grounded(e, refs)]

ValidateCoherence ==
  /\ At("coherence_validator")
  /\ facts' = FactsOf(estimate, matched, penalty)
  /\ status' = IF Issues(estimate, matched) = 0 THEN "validated" ELSE "needs_review"
  /\ persistRequested' = (persistRequested \/ sandboxed)
  /\ Goto("supervisor")
  /\ UNCHANGED <<routing, work, review, sink>>

-----------------------------------------------------------------------------
(***************************************************************************)
(* gate.py: the conditional pause.                                         *)
(***************************************************************************)
LowConfidence(f) == f.confidence.score < 6 * f.confidence.weight

ReviewReasonsIgnoringPrecedent ==
  {r \in {"confidence", "range", "persist"} :
     \/ r = "confidence" /\ facts # NoFacts /\ LowConfidence(facts)
     \/ r = "range"      /\ facts # NoFacts /\ facts.outOfRange
     \/ r = "persist"    /\ persistRequested}
ReviewReasons ==
  LET grounded == IF facts = NoFacts THEN 0 ELSE facts.grounded
  IN {r \in {"confidence", "range", "precedent", "persist"} :
        \/ r = "confidence" /\ facts # NoFacts /\ LowConfidence(facts)
        \/ r = "range"      /\ facts # NoFacts /\ facts.outOfRange
        \/ r = "precedent"  /\ components # {} /\ 2 * grounded < Cardinality(components)
        \/ r = "persist"    /\ persistRequested}

AfterGate == IF sandboxed THEN "persistence_agent" ELSE "END"

PassGate ==
  /\ At("human_review_gate") /\ ReviewReasons = {}
  /\ reasons' = {}
  /\ Goto(AfterGate)
  /\ UNCHANGED <<routing, work, verdict, decision, ruling, sink>>

Pause ==
  /\ At("human_review_gate") /\ ReviewReasons # {}
  /\ mode' = "paused"
  /\ UNCHANGED <<next, runs, sandboxed, transcript, routing, work, verdict, review, sink>>

\* Command(resume=...): the gate runs again from its first line.  The answer
\* may lack an action ("empty") or carry one the code does not know ("other");
\* only "adjust" merges the human's overrides into the estimate.
Actions == {"approve", "adjust", "reject", "empty", "other"}

Resume(action) ==
  /\ mode = "paused" /\ next = "human_review_gate"
  /\ estimate' \in {estimate} \cup (IF action = "adjust" THEN Estimates ELSE {})
  /\ status' = IF action = "reject" THEN "rejected" ELSE "validated"
  /\ reasons' = ReviewReasons /\ decision' = action /\ ruling' = action
  /\ Goto(AfterGate)
  /\ UNCHANGED <<routing, components, matched, penalty, facts, persistRequested, sink>>

-----------------------------------------------------------------------------
(***************************************************************************)
(* agents.persistence_agent through sandbox.guard_action/execute_guarded.  *)
(* The agent builds its request from the state, so the checks on the       *)
(* grant, the arguments and the estimation id always pass.                 *)
(***************************************************************************)
AnyDecision == decision # "none"
HumanApproved == decision = "approve"

GuardAction ==
  IF estimate = NoEstimate THEN "denied"
  ELSE IF ~HumanApproved THEN "deferred"
  ELSE "ok"

ExecuteGuarded ==
  /\ At("persistence_agent")
  /\ saved' = GuardAction
  /\ store' = IF GuardAction = "ok" THEN estimate ELSE store
  /\ Goto("END")
  /\ UNCHANGED <<routing, work, verdict, review>>

\* The process dies.  The checkpoint keeps the channels and the next node;
\* PERSISTED, a dict of the process, is gone.
Crash ==
  /\ mode # "idle"
  /\ mode' = IF mode = "running" THEN "killed" ELSE mode
  /\ store' = NoEstimate
  /\ UNCHANGED <<next, runs, sandboxed, transcript, routing, work, verdict, review, saved>>

-----------------------------------------------------------------------------
Step ==
  \/ RouteAtLimit
  \/ \E answer \in RouterAnswers : Route(answer)
  \/ \E names \in SUBSET Components : ExtractRequirements(names)
  \/ \E found \in SUBSET Components : SearchBudgets(found)
  \/ \E draft \in Estimates, cut \in Penalties : GenerateEstimate(draft, cut)
  \/ AgentRaises
  \/ ValidateCoherence
  \/ PassGate
  \/ Pause
  \/ ExecuteGuarded

Next ==
  \/ \E text \in BOOLEAN, sandbox \in Sandboxing : Invoke(text, sandbox)
  \/ Step
  \/ \E action \in Actions : Resume(action)
  \/ Crash

Spec == Init /\ [][Next]_vars
FairSpec == Spec /\ WF_vars(Step)

-----------------------------------------------------------------------------
Fact == [confidence : [score : Nat, weight : Nat], outOfRange : BOOLEAN, grounded : Nat]

TypeOK ==
  /\ mode \in {"idle", "running", "paused", "failed", "killed", "done"}
  /\ next \in Nodes
  /\ runs \in 0..MaxRuns
  /\ sandboxed \in BOOLEAN /\ transcript \in BOOLEAN
  /\ steps \in Nat
  /\ history \in [0..(steps - 1) -> Targets]
  /\ components \subseteq Components /\ matched \subseteq Components
  /\ estimate \in Estimates \cup {NoEstimate}
  /\ penalty \in Nat
  /\ facts \in Fact \cup {NoFacts}
  /\ persistRequested \in BOOLEAN
  /\ status \in {"none", "validated", "needs_review", "rejected"}
  /\ reasons \subseteq {"confidence", "range", "precedent", "persist"}
  /\ decision \in Actions \cup {"none"} /\ ruling \in Actions \cup {"none"}
  /\ saved \in {"none", "denied", "deferred", "ok"}
  /\ store \in Estimates \cup {NoEstimate}

\* No agent acts twice on a thread, and none before the agent whose output it
\* reads, however often the thread is invoked again: the order the router's
\* legality guard promises.  (A human may supply the estimate that a later run
\* validates, so the validator's turn is fixed on the first run only.)
DispatchOrder ==
  LET Before(s, agent) == \E t \in DOMAIN history : t < s /\ history[t] = agent
  IN \A s \in DOMAIN history :
       LET a == history[s]
       IN /\ a \in Agents => ~Before(s, a)
          /\ a = "budget_searcher" => Before(s, "requirements_extractor")
          /\ a = "estimate_generator" => Before(s, "budget_searcher")
          /\ a = "coherence_validator" /\ runs = 1 => Before(s, "estimate_generator")

\* The keyed reducer never replaces a row of the routing trail: the step counter
\* outlives the runs, so a later run of the thread writes under new keys.
TrailOnlyGrows ==
  [][\A s \in DOMAIN history : s \in DOMAIN history' /\ history'[s] = history[s]]_vars

\* The step budget bounds what the thread spends: once it is used up a run takes
\* one more routing step, which finishes it.
StepBudget == steps <= MaxSteps + runs

\* An estimate that leaves any run of a thread on which no human has yet ruled was
\* validated as it stands, and none of the facts asks for a review: no agent that
\* failed, was killed or was left out of a run by the router, and no later run,
\* lets an estimate out under a verdict on something else.  (A human who adjusts
\* an estimate supplies one that no agent drafted: a later run may then let out a
\* draft that its verdict is not about.)
UnattendedEstimateIsSound ==
  (mode = "done" /\ decision = "none" /\ estimate # NoEstimate) =>
     /\ facts = FactsOf(estimate, matched, penalty)
     /\ ~LowConfidence(facts) /\ ~facts.outOfRange
     /\ 2 * facts.grounded >= Cardinality(components)

\* What the sink stores is the document a human approved in the same run, unless
\* the verdict on it was given in a run that was not to write; then an approval of
\* an earlier run is enough (see ReviewedWrite).
Reviewed == INSTANCE ReviewedWrite
              WITH Docs <- Estimates, NoDoc <- NoEstimate, Rulings <- Actions, doc <- estimate,
                   last <- decision, writing <- sandboxed,
                   waived <- facts # NoFacts /\ ~persistRequested
WritesAreReviewed == Reviewed!Spec

\* Every run comes to rest: it ends, waits for a human or fails, whatever the
\* router answers.
RunsComeToRest == (mode = "running") ~> (mode # "running")
====
