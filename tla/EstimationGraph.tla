-------------------------- MODULE EstimationGraph ---------------------------
(***************************************************************************)
(* The estimation pipeline of Session 13 (src/src/domain/graph) behind its *)
(* blocking and streaming endpoints (src/src/api/routers/                  *)
(* estimate_graph.py): classifier, structure, human gate, one search per   *)
(* approved task, recovery, analysis, human gate, optional proposal.  A    *)
(* leg is one run of the graph, from an accepted request to the next       *)
(* pause, the end or a failure; nothing keeps two legs off one thread.     *)
(***************************************************************************)
EXTENDS Naturals

CONSTANTS
  Legs,               \* the runs of the graph that can be in flight together
  Tasks,              \* (module, task) keys
  Nameless,           \* those whose task has no name
  Trees,              \* bound: the sets of tasks that agents and humans come up with
  Texts,              \* transcripts
  None,               \* nothing
  ProposalEnabled,    \* GRAPH_PROPOSAL_ENABLED
  Reused              \* bound: whether a leg that is over serves further requests

ASSUME EstimationGraphAssumption ==
  /\ None \notin Texts
  /\ Nameless \subseteq Tasks /\ Trees \subseteq SUBSET Tasks
  /\ ProposalEnabled \in BOOLEAN
  /\ Reused \in BOOLEAN

Nodes == {"classifier_agent", "structure_agent", "human_gate_structure", "estimate_task_hours",
          "recover_and_handover", "analysis_agent", "human_gate_analysis", "proposal_agent"}
Gates == {"human_gate_structure", "human_gate_analysis"}

\* A row of task_hours: the transcript it was searched for, and whether flag_reason
\* finds it doubtful (no analog, contradictory or unreliable).
Hours == {"doubtful", "sound"}
Rows == [text : Texts, hours : Hours]
NoRow == [none |-> "row"]
NoRows == [t \in Tasks |-> NoRow]
Accumulators == [Tasks -> Rows \cup {NoRow}]

\* The modules of an estimate: a row for each approved task.
Estimates == UNION {[approved -> Rows \cup {NoRow}] : approved \in SUBSET Tasks}

(***************************************************************************)
(* What a client sends to resume: the gate and the transcript it was       *)
(* looking at, the tree it edited at gate 1 if it sends one, whether it    *)
(* validates the estimate and whether it wants a proposal.  Gate 1's       *)
(* "approved" is only logged and kept for audit.                           *)
(***************************************************************************)
Answers ==
  [gate : Gates \cup {None}, text : Texts \cup {None}, sends : BOOLEAN,
   modules : SUBSET Tasks, agreed : BOOLEAN, wanted : BOOLEAN]
StructureAnswers(text) ==
  {a \in Answers : a.gate = "human_gate_structure" /\ a.text = text /\ ~a.agreed /\ ~a.wanted
                  /\ a.modules \in IF a.sends THEN Trees ELSE {{}}}
AnalysisAnswers(text) ==
  {a \in Answers : a.gate = "human_gate_analysis" /\ a.text = text /\ ~a.sends /\ a.modules = {}}
BlindAnswer ==
  [gate |-> None, text |-> None, sends |-> FALSE, modules |-> {}, agreed |-> FALSE,
   wanted |-> FALSE]
\* What is kept of an answer in gate2_decision.
Rulings == [gate : Gates \cup {None}, text : Texts \cup {None}, agreed : BOOLEAN]
Ruling(answer) == [gate |-> answer.gate, text |-> answer.text, agreed |-> answer.agreed]

ASSUME InputAssumption == None \notin Answers \cup Rulings /\ Texts \cap Answers = {}

Channels ==
  [text : Texts \cup {None}, structure : SUBSET Tasks, approved : SUBSET Tasks,
   rows : Accumulators, estimate : Estimates \cup {None},
   gate2 : Rulings \cup {None}, status : {"none", "validated", "needs_review"},
   proposal : BOOLEAN]

Fresh ==
  [text |-> None, structure |-> {}, approved |-> {}, rows |-> NoRows,
   estimate |-> None, gate2 |-> None, status |-> "none", proposal |-> FALSE]

\* A checkpoint: the channels, the node to run ("end": none), the rows its finished
\* branches have already written, and whether it holds an interrupt.
Checkpoints ==
  [state : Channels, next : Nodes \cup {"end"}, writes : Accumulators, interrupted : BOOLEAN]
Checkpoint(state, next) ==
  [state |-> state, next |-> next, writes |-> NoRows, interrupted |-> FALSE]
NewThread == Checkpoint(Fresh, "end")

VARIABLES
  thread,             \* the latest checkpoint
  stage,              \* of each leg: idle, accepted, running, refused, paused, done, failed, lost
  input,              \* what it was accepted with: a transcript, an answer, or None
  work,               \* the checkpoint a running leg works on
  current,            \* the legs that work on the latest checkpoint
  overtaken           \* history: the legs whose answer waited while another leg moved
                      \* the thread on

vars == <<thread, stage, input, work, current, overtaken>>

Init ==
  /\ thread = NewThread
  /\ stage = [l \in Legs |-> "idle"]
  /\ input = [l \in Legs |-> None]
  /\ work = [l \in Legs |-> NewThread]
  /\ current = {}
  /\ overtaken = {}

Serving == {l \in Legs : stage[l] \in {"accepted", "running"}}
Waiting == {l \in Legs : stage[l] = "accepted" /\ input[l] \in Answers}
Free(l) == IF Reused THEN l \notin Serving ELSE stage[l] = "idle"

-----------------------------------------------------------------------------
(***************************************************************************)
(* The endpoints.  A streaming request is answered when it is accepted and *)
(* its leg begins later; a blocking one begins at once, which is one of    *)
(* the interleavings.                                                      *)
(***************************************************************************)
Accept(l, with) ==
  /\ stage' = [stage EXCEPT ![l] = "accepted"]
  /\ input' = [input EXCEPT ![l] = with]
  /\ overtaken' = overtaken \ {l}
  /\ UNCHANGED <<thread, work, current>>

\* The leg is over.
Leave(l, outcome) ==
  /\ stage' = [stage EXCEPT ![l] = outcome]
  /\ input' = [input EXCEPT ![l] = None]
  /\ work' = [work EXCEPT ![l] = NewThread]
  /\ current' = current \ {l}
  /\ overtaken' = overtaken \ {l}

AcceptStart(l, text) ==
  /\ Free(l)
  /\ Accept(l, text)

\* What the client can be answering: the gate it sees, or a stopped run.
AnswersToThread ==
  CASE thread.next = "human_gate_structure" -> StructureAnswers(thread.state.text)
    [] thread.next = "human_gate_analysis"  -> AnalysisAnswers(thread.state.text)
    [] OTHER                                -> {BlindAnswer}

\* 409 when nothing is pending, and only then.
AcceptResume(l, answer) ==
  /\ Free(l)
  /\ IF thread.next = "end"
     THEN Leave(l, "refused") /\ UNCHANGED thread
     ELSE Accept(l, answer)

\* A start writes its input into a new checkpoint of the thread; everything the
\* earlier runs of this estimation left in the other channels stays.
StartStateUnset(text) == thread.state
StartState(text) == [thread.state EXCEPT !.text = text]
BeginStart(l) ==
  /\ stage[l] = "accepted" /\ input[l] \in Texts
  /\ thread' = Checkpoint(StartState(input[l]), "classifier_agent")
  /\ work' = [work EXCEPT ![l] = thread']
  /\ stage' = [stage EXCEPT ![l] = "running"]
  /\ input' = [input EXCEPT ![l] = None]
  /\ current' = {l}
  /\ overtaken' = overtaken \cup Waiting

\* The graph goes on from its latest checkpoint; nothing to do if another leg ended
\* the run between the check and this one.
BeginResume(l) ==
  /\ stage[l] = "accepted" /\ input[l] \in Answers
  /\ IF thread.next = "end"
     THEN Leave(l, "done")
     ELSE /\ work' = [work EXCEPT ![l] = thread]
          /\ stage' = [stage EXCEPT ![l] = "running"]
          /\ current' = current \cup {l}
          /\ UNCHANGED <<input, overtaken>>
  /\ UNCHANGED thread

-----------------------------------------------------------------------------
(***************************************************************************)
(* The supersteps of a leg.                                                *)
(***************************************************************************)
At(l, node) == stage[l] = "running" /\ work[l].next = node

\* The updates are applied and a checkpoint is saved, whoever saved the one before.
\* An answer that no interrupt of the first superstep took is forgotten.
CommitKeepingAnswer(l, state, next) ==
  /\ thread' = Checkpoint(state, next)
  /\ work' = [work EXCEPT ![l] = IF next = "end" THEN NewThread ELSE Checkpoint(state, next)]
  /\ stage' = [stage EXCEPT ![l] = IF next = "end" THEN "done" ELSE @]
  /\ current' = IF next = "end" THEN {} ELSE {l}
  /\ overtaken' = overtaken \cup Waiting
  /\ UNCHANGED input
Commit(l, state, next) ==
  /\ thread' = Checkpoint(state, next)
  /\ work' = [work EXCEPT ![l] = IF next = "end" THEN NewThread ELSE Checkpoint(state, next)]
  /\ stage' = [stage EXCEPT ![l] = IF next = "end" THEN "done" ELSE @]
  /\ input' = [input EXCEPT ![l] = None]
  /\ current' = IF next = "end" THEN {} ELSE {l}
  /\ overtaken' = (overtaken \cup Waiting) \ {l}

Classify(l) ==
  /\ At(l, "classifier_agent")
  /\ Commit(l, work[l].state, "structure_agent")

ProposeStructure(l, tasks) ==
  /\ At(l, "structure_agent")
  /\ Commit(l, [work[l].state EXCEPT !.structure = tasks], "human_gate_structure")

\* interrupt() without an answer: the leg ends; the next checkpoint is still the
\* gate's, and the interrupt is written to the one the leg works on.
Pause(l) ==
  /\ \E gate \in Gates : At(l, gate)
  /\ input[l] = None
  /\ thread' = [thread EXCEPT !.interrupted = @ \/ l \in current]
  /\ Leave(l, "paused")

\* Gate 1.  A tree that was sent replaces the proposed one, which is taken without its
\* nameless tasks.
Approved(s, answer) == IF answer.sends THEN answer.modules ELSE s.structure \ Nameless

\* One branch per approved task that has a name, or straight to the join.
Sends(s) == s.approved \ Nameless
FanOutAlways(s) == "estimate_task_hours"
FanOut(s) == IF Sends(s) = {} THEN "recover_and_handover" ELSE "estimate_task_hours"

ReviewStructure(l) ==
  /\ At(l, "human_gate_structure")
  /\ input[l] \in Answers
  /\ LET s == [work[l].state EXCEPT !.approved = Approved(work[l].state, input[l])]
     IN Commit(l, s, FanOut(s))

\* A branch finishes: its row is kept with the checkpoint the leg works on, where the
\* first write of a branch stays.
SearchTask(l, task, hours) ==
  /\ At(l, "estimate_task_hours")
  /\ task \in Sends(work[l].state) /\ work[l].writes[task] = NoRow
  /\ LET row == [text |-> work[l].state.text, hours |-> hours]
     IN /\ work' = [work EXCEPT ![l].writes[task] = row]
        /\ thread' = IF l \in current /\ thread.writes[task] = NoRow
                     THEN [thread EXCEPT !.writes[task] = row] ELSE thread
  /\ UNCHANGED <<stage, input, current, overtaken>>

\* The superstep ends when every branch has, and there is none without a branch:
\* merge_task_hours replaces by key.
AwaitedNone(s) == {}
Awaited(s) == Sends(s)
MergedKeepingFirst(existing, new) ==
  [t \in Tasks |-> IF existing[t] # NoRow THEN existing[t] ELSE new[t]]
Merged(existing, new) == [t \in Tasks |-> IF new[t] # NoRow THEN new[t] ELSE existing[t]]
JoinHours(l) ==
  /\ At(l, "estimate_task_hours")
  /\ Sends(work[l].state) # {}
  /\ \A t \in Awaited(work[l].state) : work[l].writes[t] # NoRow
  /\ Commit(l, [work[l].state EXCEPT !.rows = Merged(work[l].state.rows, work[l].writes)],
            "recover_and_handover")

\* The recovery agent is run when any row is doubtful, old ones included; it may
\* derive hours for any task, and its derivations replace the rows.
Flagged(rows) == {t \in Tasks : rows[t] # NoRow /\ rows[t].hours = "doubtful"}
Derived(s, derivations) ==
  [t \in Tasks |-> IF t \in DOMAIN derivations
                   THEN [text |-> s.text, hours |-> derivations[t]] ELSE s.rows[t]]
BuildEstimate(approved, rows) == [t \in approved |-> rows[t]]

Recover(l, derivations) ==
  /\ At(l, "recover_and_handover")
  /\ DOMAIN derivations # {} => Flagged(work[l].state.rows) # {}
  /\ LET rows == Derived(work[l].state, derivations)
     IN Commit(l, [work[l].state EXCEPT !.rows = rows,
                                        !.estimate = BuildEstimate(work[l].state.approved, rows)],
               "analysis_agent")

AfterAnalysisSkippingReview == "end"
AfterAnalysis == "human_gate_analysis"
Analyze(l) ==
  /\ At(l, "analysis_agent")
  /\ Commit(l, work[l].state, AfterAnalysis)

\* Gate 2.  The overrides are the human's own numbers and are left out.  An answer
\* without the field this gate reads counts as not validated, not wanted.
RouteAfterGate2(answer) ==
  IF ProposalEnabled /\ answer.wanted THEN "proposal_agent" ELSE "end"
Validates(answer) == answer.gate = "human_gate_analysis" /\ answer.agreed
ReviewAnalysis(l) ==
  /\ At(l, "human_gate_analysis")
  /\ input[l] \in Answers
  /\ Commit(l, [work[l].state EXCEPT
                  !.gate2 = Ruling(input[l]),
                  !.status = IF Validates(input[l]) THEN "validated" ELSE "needs_review"],
            RouteAfterGate2(input[l]))

DraftProposal(l) ==
  /\ At(l, "proposal_agent")
  /\ Commit(l, [work[l].state EXCEPT !.proposal = TRUE], "end")

\* A node raises, or the edge out of it, a gate that has its answer too: 502, or an
\* error line in the feed.  The checkpoint stays, with the rows of the branches that
\* had finished.
NodeRaises(l) ==
  /\ stage[l] = "running"
  /\ work[l].next \in Gates => input[l] \in Answers
  /\ Leave(l, "failed")
  /\ UNCHANGED thread

-----------------------------------------------------------------------------
Derivations == UNION {[tasks -> Hours] : tasks \in SUBSET Tasks}

Advance(l) ==
  \/ BeginStart(l)
  \/ BeginResume(l)
  \/ Classify(l)
  \/ \E tasks \in Trees : ProposeStructure(l, tasks)
  \/ Pause(l)
  \/ ReviewStructure(l)
  \/ \E task \in Tasks, hours \in Hours : SearchTask(l, task, hours)
  \/ JoinHours(l)
  \/ \E derivations \in Derivations : Recover(l, derivations)
  \/ Analyze(l)
  \/ ReviewAnalysis(l)
  \/ DraftProposal(l)

\* The process dies; accepted background legs are lost with the running ones.
Crash ==
  /\ Serving # {}
  /\ stage' = [l \in Legs |-> IF l \in Serving THEN "lost" ELSE stage[l]]
  /\ input' = [l \in Legs |-> None]
  /\ work' = [l \in Legs |-> NewThread]
  /\ current' = {}
  /\ overtaken' = {}
  /\ UNCHANGED thread

Next ==
  \/ \E l \in Legs, text \in Texts : AcceptStart(l, text)
  \/ \E l \in Legs : \E answer \in AnswersToThread : AcceptResume(l, answer)
  \/ \E l \in Legs : Advance(l)
  \/ \E l \in Legs : NodeRaises(l)
  \/ Crash

Spec == Init /\ [][Next]_vars
FairSpec == Spec /\ \A l \in Legs : WF_vars(Advance(l))

-----------------------------------------------------------------------------
TypeOK ==
  /\ thread \in Checkpoints
  /\ stage \in [Legs -> {"idle", "accepted", "running", "refused", "paused", "done", "failed",
                         "lost"}]
  /\ input \in [Legs -> Texts \cup Answers \cup {None}]
  /\ work \in [Legs -> Checkpoints]
  /\ current \subseteq {l \in Legs : stage[l] = "running"}
  /\ overtaken \subseteq Legs

Started == thread.state.text # None

\* From the analysis on, the estimate has exactly the approved tasks, and each of
\* them that has a name a row that was searched for the transcript of this run:
\* branches that failed and were retried, and rows that earlier runs and their
\* transcripts left in the accumulator, change nothing.
HoursAreSearched ==
  Started /\ thread.next \in {"analysis_agent", "human_gate_analysis", "proposal_agent", "end"} =>
    /\ DOMAIN thread.state.estimate = thread.state.approved
    /\ \A t \in Sends(thread.state) :
         thread.state.estimate[t] \in [text : {thread.state.text}, hours : Hours]

\* A completed run was reviewed at gate 2 by a human who saw its estimate, and its
\* status is that human's word.
CompletedIsReviewed ==
  Started /\ thread.next = "end" =>
    /\ thread.state.gate2 # None /\ thread.state.gate2.text = thread.state.text
    /\ thread.state.status = "validated" <=> Validates(thread.state.gate2)

\* A gate only takes an answer that was given to it, by somebody who saw its
\* transcript, however legs overlap: the one way to another gate's answer is that
\* another leg moved the thread on while the answer waited to be begun.  Failed and
\* refused legs, crashes and the supersteps of a leg leave no answer behind.
GatesTakeTheirAnswers ==
  \A l \in Legs :
    stage[l] = "running" /\ work[l].next \in Gates /\ input[l] \in Answers /\ l \notin overtaken =>
      input[l].gate = work[l].next /\ input[l].text = work[l].state.text

\* Every leg comes to rest at a gate, the end or a failure, unless the process dies.
LegsComeToRest ==
  \A l \in Legs : stage[l] = "accepted" ~> stage[l] \in {"paused", "done", "failed", "lost"}

\* The answer to the structure review never answers the final review: only a run that
\* is paused can be resumed, and the decision is for the gate it is paused at.
FinalReviewIsItsOwn ==
  [][thread'.state.gate2 # thread.state.gate2 =>
       thread'.state.gate2.gate # "human_gate_structure"]_vars
====
