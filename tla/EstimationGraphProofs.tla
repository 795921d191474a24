----------------------- MODULE EstimationGraphProofs ------------------------
(***************************************************************************)
(* Theorems about EstimationGraph, for any number of legs, tasks and       *)
(* transcripts.                                                            *)
(*                                                                         *)
(* First what every checkpoint keeps by itself, however legs overwrite     *)
(* each other: an estimate is made of rows searched for its transcript.    *)
(* Then which answer reaches which gate, whatever overlaps, and what only  *)
(* legs in turn keep: whose word ends a run.                               *)
(***************************************************************************)
EXTENDS EstimationGraph, FiniteSetTheorems, TLAPS

\* A row searched for the transcript of this state.
SearchedFor(s) == [text : {s.text}, hours : Hours]

\* An estimate of exactly the approved tasks, with such a row for each that has a name.
Grafted(s) ==
  /\ s.estimate \in [s.approved -> Rows \cup {NoRow}]
  /\ \A t \in Sends(s) : s.estimate[t] \in SearchedFor(s)

AfterRecovery == {"analysis_agent", "human_gate_analysis", "proposal_agent", "end"}

Consistent(c) ==
  /\ c \in Checkpoints
  /\ c.next # "end" => c.state.text # None
  /\ c.next = "estimate_task_hours" =>
       \A t \in Tasks : c.writes[t] # NoRow => c.writes[t] \in SearchedFor(c.state)
  /\ c.next = "recover_and_handover" =>
       \A t \in Sends(c.state) : c.state.rows[t] \in SearchedFor(c.state)
  /\ c.next \in AfterRecovery /\ c.state.text # None => Grafted(c.state)

IInv ==
  /\ TypeOK
  /\ Consistent(thread)
  /\ \A l \in Legs : Consistent(work[l])
  /\ \A l \in current : work[l].state = thread.state /\ work[l].next = thread.next

-----------------------------------------------------------------------------
(***************************************************************************)
(* Checkpoints.                                                            *)
(***************************************************************************)
LEMMA NewIsConsistent == Consistent(NewThread)
BY DEF Consistent, NewThread, Checkpoint, Checkpoints, Channels, Fresh, Accumulators, NoRows

LEMMA CheckpointType ==
  ASSUME NEW s \in Channels, NEW next \in Nodes \cup {"end"}
  PROVE  /\ Checkpoint(s, next) \in Checkpoints
         /\ Checkpoint(s, next).state = s /\ Checkpoint(s, next).next = next
         /\ \A t \in Tasks : Checkpoint(s, next).writes[t] = NoRow
BY DEF Checkpoint, Checkpoints, Accumulators, NoRows

\* What a superstep has to establish of the channels it leaves.
Leaves(s, next) ==
  /\ s \in Channels /\ next \in Nodes \cup {"end"} /\ s.text # None
  /\ next = "recover_and_handover" => \A t \in Sends(s) : s.rows[t] \in SearchedFor(s)
  /\ next \in AfterRecovery => Grafted(s)

LEMMA LeftIsConsistent ==
  ASSUME NEW s, NEW next, Leaves(s, next)
  PROVE  Consistent(Checkpoint(s, next))
BY CheckpointType DEF Leaves, Consistent

LEMMA CommitKeeps ==
  ASSUME IInv, NEW l \in Legs, stage[l] = "running", NEW s, NEW next, Leaves(s, next),
         Commit(l, s, next)
  PROVE  IInv'
<1>1. Checkpoint(s, next) \in Checkpoints /\ NewThread \in Checkpoints
  BY CheckpointType, NewIsConsistent DEF Leaves, Consistent
<1>2. TypeOK'
  <2>1. thread' \in Checkpoints /\ work' \in [Legs -> Checkpoints]
    BY <1>1 DEF Commit, IInv, TypeOK
  <2>2. /\ stage' \in [Legs -> {"idle", "accepted", "running", "refused", "paused", "done",
                                "failed", "lost"}]
        /\ input' \in [Legs -> Texts \cup Answers \cup {None}]
    BY DEF Commit, IInv, TypeOK
  <2>3. current' \subseteq {k \in Legs : stage'[k] = "running"} /\ overtaken' \subseteq Legs
    BY DEF Commit, IInv, TypeOK, Waiting
  <2>4. QED BY <2>1, <2>2, <2>3 DEF TypeOK
<1>3. \A k \in Legs : work'[k] = IF k = l THEN IF next = "end" THEN NewThread
                                               ELSE Checkpoint(s, next)
                                 ELSE work[k]
  BY DEF Commit, IInv, TypeOK
<1>4. thread' = Checkpoint(s, next) /\ Consistent(thread')
  BY LeftIsConsistent DEF Commit
<1>5. \A k \in Legs : Consistent(work'[k])
  BY <1>3, LeftIsConsistent, NewIsConsistent DEF IInv
<1>6. \A k \in current' : work'[k] = thread'
  BY <1>3, <1>4 DEF Commit
<1>7. QED BY <1>2, <1>4, <1>5, <1>6 DEF IInv, Consistent

LEMMA LeaveKeeps ==
  ASSUME IInv, NEW l \in Legs, NEW outcome \in {"refused", "paused", "done", "failed"},
         Leave(l, outcome),
         UNCHANGED thread \/ \E b \in BOOLEAN : thread' = [thread EXCEPT !.interrupted = b]
  PROVE  IInv'
<1>1. NewThread \in Checkpoints
  BY NewIsConsistent DEF Consistent
<1>2. /\ thread' \in Checkpoints /\ thread'.state = thread.state
      /\ thread'.next = thread.next /\ thread'.writes = thread.writes
  BY DEF IInv, TypeOK, Checkpoints
<1>3. TypeOK'
  BY <1>1, <1>2 DEF Leave, IInv, TypeOK
<1>4. \A k \in Legs : work'[k] = IF k = l THEN NewThread ELSE work[k]
  BY DEF Leave, IInv, TypeOK
<1>5. Consistent(thread')
  BY <1>2 DEF IInv, Consistent
<1>6. \A k \in Legs : Consistent(work'[k])
  BY <1>4, NewIsConsistent DEF IInv
<1>7. \A k \in current' : k \in current /\ work'[k] = work[k]
  BY <1>4 DEF Leave, IInv, TypeOK
<1>8. QED BY <1>2, <1>3, <1>5, <1>6, <1>7 DEF IInv, Consistent

-----------------------------------------------------------------------------
(***************************************************************************)
(* The endpoints.                                                          *)
(***************************************************************************)
LEMMA AnswersHaveAType == AnswersToThread \subseteq Answers
<1>1. BlindAnswer \in Answers
  BY DEF BlindAnswer, Answers
<1>2. \A text : StructureAnswers(text) \subseteq Answers /\ AnalysisAnswers(text) \subseteq Answers
  BY DEF StructureAnswers, AnalysisAnswers
<1>3. QED BY <1>1, <1>2 DEF AnswersToThread

LEMMA AcceptKeeps ==
  ASSUME IInv, NEW l \in Legs, l \notin Serving, NEW with \in Texts \cup Answers, Accept(l, with)
  PROVE  IInv'
<1>1. l \notin current
  BY DEF IInv, TypeOK, Serving
<1>2. TypeOK'
  BY <1>1 DEF Accept, IInv, TypeOK
<1>3. QED BY <1>2 DEF Accept, IInv, Consistent

LEMMA AcceptStartKeeps ==
  ASSUME IInv, NEW l \in Legs, NEW text \in Texts, AcceptStart(l, text)
  PROVE  IInv'
<1>1. l \notin Serving
  BY DEF AcceptStart, Free, Serving
<1>2. QED BY <1>1, AcceptKeeps DEF AcceptStart

LEMMA AcceptResumeKeeps ==
  ASSUME IInv, NEW l \in Legs, NEW answer \in AnswersToThread, AcceptResume(l, answer)
  PROVE  IInv'
<1>1. l \notin Serving
  BY DEF AcceptResume, Free, Serving
<1>2. CASE thread.next = "end"
  BY <1>2, LeaveKeeps DEF AcceptResume
<1>3. CASE thread.next # "end"
  BY <1>1, <1>3, AcceptKeeps, AnswersHaveAType DEF AcceptResume
<1>4. QED BY <1>2, <1>3

LEMMA BeginStartKeeps ==
  ASSUME IInv, NEW l \in Legs, BeginStart(l)
  PROVE  IInv'
<1> DEFINE s == StartState(input[l])
<1>1. Leaves(s, "classifier_agent")
  BY EstimationGraphAssumption
     DEF Leaves, StartState, BeginStart, IInv, Consistent, Checkpoints, Channels, Nodes,
         AfterRecovery
<1>2. Checkpoint(s, "classifier_agent") \in Checkpoints
      /\ Consistent(Checkpoint(s, "classifier_agent"))
  BY <1>1, CheckpointType, LeftIsConsistent DEF Leaves
<1>3. thread' = Checkpoint(s, "classifier_agent")
  BY DEF BeginStart
<1>4. \A k \in Legs : work'[k] = IF k = l THEN thread' ELSE work[k]
  BY DEF BeginStart, IInv, TypeOK
<1>5. TypeOK'
  BY <1>2, <1>3 DEF BeginStart, IInv, TypeOK, Waiting
<1>6. Consistent(thread') /\ \A k \in Legs : Consistent(work'[k])
  BY <1>2, <1>3, <1>4 DEF IInv
<1>7. \A k \in current' : work'[k] = thread'
  BY <1>4 DEF BeginStart
<1>8. QED BY <1>5, <1>6, <1>7 DEF IInv, Consistent

LEMMA BeginResumeKeeps ==
  ASSUME IInv, NEW l \in Legs, BeginResume(l)
  PROVE  IInv'
<1>1. CASE thread.next = "end"
  BY <1>1, LeaveKeeps DEF BeginResume
<1>2. CASE thread.next # "end"
  <2>1. /\ work' = [work EXCEPT ![l] = thread]
        /\ stage' = [stage EXCEPT ![l] = "running"]
        /\ current' = current \cup {l}
        /\ UNCHANGED <<input, thread, overtaken>>
    BY <1>2 DEF BeginResume
  <2>2. TypeOK'
    BY <2>1 DEF IInv, TypeOK
  <2>3. \A k \in Legs : work'[k] = IF k = l THEN thread ELSE work[k]
    BY <2>1 DEF IInv, TypeOK
  <2>4. Consistent(thread') /\ \A k \in Legs : Consistent(work'[k])
    BY <2>1, <2>3 DEF IInv
  <2>5. \A k \in current' : work'[k].state = thread'.state /\ work'[k].next = thread'.next
    BY <2>1, <2>3 DEF IInv, TypeOK
  <2>6. QED BY <2>2, <2>4, <2>5 DEF IInv, Consistent
<1>3. QED BY <1>1, <1>2

-----------------------------------------------------------------------------
(***************************************************************************)
(* The supersteps.                                                         *)
(***************************************************************************)
LEMMA Superstep ==
  ASSUME IInv, NEW l \in Legs, NEW node \in Nodes, At(l, node)
  PROVE  /\ stage[l] = "running" /\ work[l].next = node /\ Consistent(work[l])
         /\ work[l] \in Checkpoints /\ work[l].state \in Channels /\ work[l].state.text # None
BY DEF IInv, Consistent, At, Checkpoints, Nodes

LEMMA ProposalKeeps ==
  ASSUME IInv, NEW l \in Legs, Classify(l) \/ \E tasks \in Trees : ProposeStructure(l, tasks)
  PROVE  IInv'
<1> DEFINE s == work[l].state
<1>1. CASE Classify(l)
  <2>1. stage[l] = "running" /\ s \in Channels /\ s.text # None
    BY <1>1, Superstep DEF Classify, Nodes
  <2>2. Leaves(s, "structure_agent")
    BY <2>1 DEF Leaves, Nodes, AfterRecovery
  <2>3. QED BY <1>1, <2>1, <2>2, CommitKeeps DEF Classify
<1>2. CASE \E tasks \in Trees : ProposeStructure(l, tasks)
  <2>1. PICK tasks \in Trees : ProposeStructure(l, tasks)
    BY <1>2
  <2>2. stage[l] = "running" /\ s \in Channels /\ s.text # None
    BY <2>1, Superstep DEF ProposeStructure, Nodes
  <2>3. Leaves([s EXCEPT !.structure = tasks], "human_gate_structure")
    BY <2>2, EstimationGraphAssumption DEF Leaves, Nodes, AfterRecovery, Channels
  <2>4. QED BY <2>1, <2>2, <2>3, CommitKeeps DEF ProposeStructure
<1>3. QED BY <1>1, <1>2

\* A tree without a named task goes straight to the join and leaves nothing to search.
LEMMA ReviewStructureKeeps ==
  ASSUME IInv, NEW l \in Legs, ReviewStructure(l)
  PROVE  IInv'
<1> DEFINE s == work[l].state
           t == [s EXCEPT !.approved = Approved(s, input[l])]
<1>1. stage[l] = "running" /\ s \in Channels /\ s.text # None /\ input[l] \in Answers
  BY Superstep DEF ReviewStructure, Nodes
<1>2. Approved(s, input[l]) \in SUBSET Tasks
  BY <1>1 DEF Approved, Answers, Channels
<1>3. t \in Channels /\ t.text # None
  BY <1>1, <1>2 DEF Channels
<1>4. FanOut(t) \in {"recover_and_handover", "estimate_task_hours"}
      /\ (FanOut(t) = "recover_and_handover" => Sends(t) = {})
  BY DEF FanOut
<1>5. Leaves(t, FanOut(t))
  BY <1>3, <1>4 DEF Leaves, Nodes, AfterRecovery
<1>6. Commit(l, t, FanOut(t))
  BY DEF ReviewStructure
<1>7. QED BY <1>1, <1>5, <1>6, CommitKeeps

\* The row of a finished branch is for the transcript of the checkpoint it is kept with.
LEMMA SearchTaskKeeps ==
  ASSUME IInv, NEW l \in Legs, NEW task \in Tasks, NEW hours \in Hours, SearchTask(l, task, hours)
  PROVE  IInv'
<1> DEFINE s == work[l].state
           row == [text |-> s.text, hours |-> hours]
           Written(c) == [c EXCEPT !.writes[task] = row]
<1>1. /\ work[l].next = "estimate_task_hours" /\ Consistent(work[l])
      /\ s \in Channels /\ s.text # None
  BY Superstep DEF SearchTask, Nodes
<1>2. row \in Rows /\ row \in SearchedFor(s)
  BY <1>1 DEF Rows, SearchedFor, Channels
<1>3. ASSUME NEW c \in Checkpoints, Consistent(c), c.state = s, c.next = "estimate_task_hours"
      PROVE  /\ Written(c) \in Checkpoints /\ Consistent(Written(c))
             /\ Written(c).state = c.state /\ Written(c).next = c.next
  <2>1. /\ Written(c) \in Checkpoints
        /\ Written(c).state = c.state /\ Written(c).next = c.next
    BY <1>2 DEF Checkpoints, Accumulators
  <2>2. \A t \in Tasks : Written(c).writes[t] = IF t = task THEN row ELSE c.writes[t]
    BY DEF Checkpoints, Accumulators
  <2>3. \A t \in Tasks : Written(c).writes[t] # NoRow =>
          Written(c).writes[t] \in SearchedFor(c.state)
    BY <1>2, <1>3, <2>2 DEF Consistent
  <2>4. QED BY <1>3, <2>1, <2>3 DEF Consistent, AfterRecovery
<1>4. /\ work' = [work EXCEPT ![l] = Written(work[l])]
      /\ thread' = thread \/ (thread' = Written(thread) /\ l \in current)
      /\ UNCHANGED <<stage, input, current, overtaken>>
  BY DEF SearchTask
<1>5. /\ Consistent(thread') /\ thread' \in Checkpoints
      /\ thread'.state = thread.state /\ thread'.next = thread.next
  <2>1. CASE thread' = thread
    BY <2>1 DEF IInv, TypeOK
  <2>2. CASE thread' = Written(thread) /\ l \in current
    <3>1. thread.state = s /\ thread.next = "estimate_task_hours" /\ Consistent(thread)
          /\ thread \in Checkpoints
      BY <1>1, <2>2 DEF IInv, TypeOK
    <3>2. QED BY <1>3, <2>2, <3>1
  <2>3. QED BY <1>4, <2>1, <2>2
<1>6. /\ Written(work[l]) \in Checkpoints /\ Consistent(Written(work[l]))
      /\ Written(work[l]).state = s /\ Written(work[l]).next = work[l].next
  BY <1>1, <1>3 DEF IInv, TypeOK
<1>7. \A k \in Legs : work'[k] = IF k = l THEN Written(work[l]) ELSE work[k]
  BY <1>4 DEF IInv, TypeOK
<1>8. TypeOK'
  BY <1>4, <1>5, <1>6 DEF IInv, TypeOK
<1>9. \A k \in Legs : /\ Consistent(work'[k])
                      /\ work'[k].state = work[k].state /\ work'[k].next = work[k].next
  BY <1>6, <1>7 DEF IInv
<1>10. \A k \in current' : work'[k].state = thread'.state /\ work'[k].next = thread'.next
  BY <1>4, <1>5, <1>9 DEF IInv, TypeOK
<1>11. QED BY <1>5, <1>8, <1>9, <1>10 DEF IInv, Consistent

\* The superstep of the fan-out ends with a row of this transcript for each task.
LEMMA JoinHoursKeeps ==
  ASSUME IInv, NEW l \in Legs, JoinHours(l)
  PROVE  IInv'
<1> DEFINE s == work[l].state
           rows == Merged(s.rows, work[l].writes)
           t == [s EXCEPT !.rows = rows]
<1>1. /\ stage[l] = "running" /\ work[l].next = "estimate_task_hours" /\ Consistent(work[l])
      /\ work[l] \in Checkpoints /\ s \in Channels /\ s.text # None
  BY Superstep DEF JoinHours, Nodes
<1>2. work[l].writes \in Accumulators /\ s.rows \in Accumulators /\ s.approved \subseteq Tasks
  BY <1>1 DEF Checkpoints, Channels
<1>3. rows \in Accumulators
  BY <1>2 DEF Merged, Accumulators
<1>4. t \in Channels /\ t.text = s.text /\ t.approved = s.approved /\ t.rows = rows
  BY <1>1, <1>3 DEF Channels
<1>5. \A k \in Sends(s) : work[l].writes[k] # NoRow
  BY DEF JoinHours, Awaited
<1>6. \A k \in Sends(s) : rows[k] \in SearchedFor(s)
  BY <1>1, <1>2, <1>5 DEF Merged, Consistent, Sends
<1>7. Leaves(t, "recover_and_handover")
  BY <1>1, <1>4, <1>6 DEF Leaves, Nodes, AfterRecovery, SearchedFor, Sends
<1>8. Commit(l, t, "recover_and_handover")
  BY DEF JoinHours
<1>9. QED BY <1>1, <1>7, <1>8, CommitKeeps

\* Whatever the recovery agent derives is for this transcript too.
LEMMA RecoverKeeps ==
  ASSUME IInv, NEW l \in Legs, NEW derivations \in Derivations, Recover(l, derivations)
  PROVE  IInv'
<1> DEFINE s == work[l].state
           rows == Derived(s, derivations)
           estimate == BuildEstimate(s.approved, rows)
           t == [s EXCEPT !.rows = rows, !.estimate = estimate]
<1>1. /\ stage[l] = "running" /\ work[l].next = "recover_and_handover" /\ Consistent(work[l])
      /\ s \in Channels /\ s.text # None
  BY Superstep DEF Recover, Nodes
<1>2. s.rows \in Accumulators /\ s.approved \subseteq Tasks /\ s.text \in Texts
  BY <1>1 DEF Channels
<1>3. \A k \in DOMAIN derivations : derivations[k] \in Hours
  BY DEF Derivations
<1>4. \A k \in Tasks : rows[k] \in SearchedFor(s) \/ rows[k] = s.rows[k]
  BY <1>3 DEF Derived, SearchedFor
<1>5. SearchedFor(s) \subseteq Rows
  BY <1>2 DEF SearchedFor, Rows
<1>6. rows \in Accumulators
  BY <1>2, <1>4, <1>5 DEF Derived, Accumulators
<1>7. \A k \in Sends(s) : rows[k] \in SearchedFor(s)
  BY <1>1, <1>2, <1>4 DEF Consistent, Sends
<1>8. /\ estimate \in [s.approved -> Rows \cup {NoRow}]
      /\ \A k \in Sends(s) : estimate[k] \in SearchedFor(s)
  BY <1>2, <1>6, <1>7 DEF BuildEstimate, Accumulators, Sends
<1>9. estimate \in Estimates
  BY <1>2, <1>8 DEF Estimates
<1>10. t \in Channels /\ t.text = s.text /\ t.approved = s.approved /\ t.estimate = estimate
  BY <1>1, <1>6, <1>9 DEF Channels
<1>11. Leaves(t, "analysis_agent")
  BY <1>1, <1>8, <1>10 DEF Leaves, Grafted, Nodes, SearchedFor, Sends
<1>12. Commit(l, t, "analysis_agent")
  BY DEF Recover
<1>13. QED BY <1>1, <1>11, <1>12, CommitKeeps

\* The nodes after the recovery change neither the approved tree nor the estimate.
LEMMA ReportKeeps ==
  ASSUME IInv, NEW l \in Legs, Analyze(l) \/ ReviewAnalysis(l) \/ DraftProposal(l)
  PROVE  IInv'
<1> DEFINE s == work[l].state
<1>1. /\ stage[l] = "running" /\ s \in Channels /\ s.text # None
      /\ Grafted(s)
  BY Superstep DEF Analyze, ReviewAnalysis, DraftProposal, Nodes, Consistent, AfterRecovery
<1>2. CASE Analyze(l)
  <2>1. Leaves(s, AfterAnalysis)
    BY <1>1 DEF Leaves, AfterAnalysis, Nodes
  <2>2. QED BY <1>1, <1>2, <2>1, CommitKeeps DEF Analyze
<1>3. CASE DraftProposal(l)
  <2>1. Leaves([s EXCEPT !.proposal = TRUE], "end")
    BY <1>1 DEF Leaves, Grafted, Channels, SearchedFor, Sends
  <2>2. QED BY <1>1, <1>3, <2>1, CommitKeeps DEF DraftProposal
<1>4. CASE ReviewAnalysis(l)
  <2> DEFINE status == IF Validates(input[l]) THEN "validated" ELSE "needs_review"
             t == [s EXCEPT !.gate2 = Ruling(input[l]), !.status = status]
  <2>1. Ruling(input[l]) \in Rulings
    BY <1>4 DEF ReviewAnalysis, Ruling, Rulings, Answers
  <2>2. t \in Channels /\ t.text = s.text /\ t.approved = s.approved
        /\ t.estimate = s.estimate
    BY <1>1, <2>1 DEF Channels
  <2>3. RouteAfterGate2(input[l]) \in {"proposal_agent", "end"}
    BY DEF RouteAfterGate2
  <2>4. Leaves(t, RouteAfterGate2(input[l]))
    BY <1>1, <2>2, <2>3 DEF Leaves, Grafted, Nodes, SearchedFor, Sends
  <2>5. Commit(l, t, RouteAfterGate2(input[l]))
    BY <1>4 DEF ReviewAnalysis
  <2>6. QED BY <1>1, <2>4, <2>5, CommitKeeps
<1>5. QED BY <1>2, <1>3, <1>4

LEMMA PauseKeeps ==
  ASSUME IInv, NEW l \in Legs, Pause(l)
  PROVE  IInv'
<1>1. thread.interrupted \in BOOLEAN
  BY DEF IInv, TypeOK, Checkpoints
<1>2. (thread.interrupted \/ l \in current) \in BOOLEAN
  BY <1>1
<1>3. thread' = [thread EXCEPT !.interrupted = thread.interrupted \/ l \in current]
  BY DEF Pause
<1>4. QED BY <1>2, <1>3, LeaveKeeps DEF Pause

LEMMA CrashKeeps ==
  ASSUME IInv, Crash
  PROVE  IInv'
<1>1. NewThread \in Checkpoints
  BY NewIsConsistent DEF Consistent
<1>2. TypeOK'
  BY <1>1 DEF Crash, IInv, TypeOK
<1>3. \A l \in Legs : Consistent(work'[l])
  BY NewIsConsistent DEF Crash
<1>4. QED BY <1>2, <1>3 DEF IInv, Consistent, Crash

-----------------------------------------------------------------------------
(***************************************************************************)
(* The invariant and what it gives.                                        *)
(***************************************************************************)
LEMMA InitIsConsistent == Init => IInv
<1> SUFFICES ASSUME Init PROVE IInv
  OBVIOUS
<1>1. TypeOK
  BY NewIsConsistent DEF Init, TypeOK, Consistent
<1>2. QED BY <1>1, NewIsConsistent DEF Init, IInv

LEMMA AdvanceKeeps ==
  ASSUME IInv, NEW l \in Legs, Advance(l)
  PROVE  IInv'
<1>1. CASE \E task \in Tasks, hours \in Hours : SearchTask(l, task, hours)
  BY <1>1, SearchTaskKeeps
<1>2. CASE \E derivations \in Derivations : Recover(l, derivations)
  BY <1>2, RecoverKeeps
<1>3. QED
  BY <1>1, <1>2, BeginStartKeeps, BeginResumeKeeps, ProposalKeeps, PauseKeeps,
     ReviewStructureKeeps, JoinHoursKeeps, ReportKeeps DEF Advance

LEMMA NextKeeps == IInv /\ [Next]_vars => IInv'
<1>1. ASSUME IInv, UNCHANGED vars PROVE IInv'
  BY <1>1 DEF vars, IInv, TypeOK, Consistent
<1>2. ASSUME IInv, NEW l \in Legs, NodeRaises(l) PROVE IInv'
  BY <1>2, LeaveKeeps DEF NodeRaises
<1>3. QED
  BY <1>1, <1>2, AcceptStartKeeps, AcceptResumeKeeps, AdvanceKeeps, CrashKeeps DEF Next

LEMMA Invariant == Spec => []IInv
BY InitIsConsistent, NextKeeps, PTL DEF Spec

\* Every checkpoint and leg keeps its type, however many legs overlap.
THEOREM TypeCorrect == Spec => []TypeOK
<1>1. IInv => TypeOK BY DEF IInv
<1>2. QED BY <1>1, Invariant, PTL

\* From the analysis on, the estimate has exactly the approved tasks, each that has a
\* name with a row searched for the transcript of the run, whatever fails, is retried
\* or overlaps, and whatever rows earlier transcripts left in the accumulator.
THEOREM HoursAreSearchedHolds == Spec => []HoursAreSearched
<1>1. IInv => HoursAreSearched
  BY DEF IInv, Consistent, AfterRecovery, Grafted, SearchedFor, HoursAreSearched, Started
<1>2. QED BY <1>1, Invariant, PTL

-----------------------------------------------------------------------------
(***************************************************************************)
(* Which answer reaches which gate.                                        *)
(***************************************************************************)
\* An answer that waits, and no other leg has moved the thread on, is for the gate the
\* thread is at.
AnswerInv ==
  /\ \A l \in Legs :
       stage[l] = "accepted" /\ input[l] \in Answers /\ l \notin overtaken
         /\ thread.next \in Gates =>
           input[l].gate = thread.next /\ input[l].text = thread.state.text
  /\ GatesTakeTheirAnswers

\* A leg of which nothing changes that its answer depends on.
Keeps(l) ==
  /\ stage'[l] = stage[l] /\ input'[l] = input[l]
  /\ work'[l].state = work[l].state /\ work'[l].next = work[l].next
  /\ l \in overtaken => l \in overtaken'

\* A leg that has no answer, or one that was overtaken.
HasNone(l) ==
  \/ stage'[l] \notin {"accepted", "running"}
  \/ input'[l] \notin Answers
  \/ l \in overtaken'

\* Legs keep their answers while the thread stays where it is.
LEMMA AnswersStay ==
  ASSUME AnswerInv, thread'.state = thread.state, thread'.next = thread.next,
         \A l \in Legs : Keeps(l) \/ HasNone(l)
  PROVE  AnswerInv'
BY DEF AnswerInv, GatesTakeTheirAnswers, Keeps, HasNone

\* Whoever moves it on has no answer left, and every answer that waits is overtaken.
LEMMA MovingOvertakes ==
  ASSUME TypeOK, AnswerInv, NEW l \in Legs, HasNone(l),
         \A k \in Legs : k # l => Keeps(k),
         Waiting \ {l} \subseteq overtaken'
  PROVE  AnswerInv'
<1>1. ASSUME NEW k \in Legs, k # l, stage'[k] = "accepted", input'[k] \in Answers
      PROVE  k \in overtaken'
  BY <1>1 DEF Keeps, Waiting
<1>2. ASSUME NEW k \in Legs, k # l, stage'[k] = "running", input'[k] \in Answers,
             k \notin overtaken', work'[k].next \in Gates
      PROVE  input'[k].gate = work'[k].next /\ input'[k].text = work'[k].state.text
  BY <1>2 DEF Keeps, AnswerInv, GatesTakeTheirAnswers
<1>3. QED BY <1>1, <1>2 DEF AnswerInv, GatesTakeTheirAnswers, HasNone

LEMMA CommitAnswers ==
  ASSUME TypeOK, AnswerInv, NEW l \in Legs, NEW s, NEW next, Commit(l, s, next)
  PROVE  AnswerInv'
<1>1. \A k \in Legs : k # l => Keeps(k)
  BY DEF Commit, TypeOK, Keeps
<1>2. input'[l] \notin Answers
  BY InputAssumption DEF Commit, TypeOK
<1>3. Waiting \ {l} \subseteq overtaken'
  BY DEF Commit
<1>4. QED BY <1>1, <1>2, <1>3, MovingOvertakes DEF HasNone

LEMMA LeaveAnswers ==
  ASSUME TypeOK, AnswerInv, NEW l \in Legs,
         NEW outcome \in {"refused", "paused", "done", "failed"}, Leave(l, outcome),
         thread'.state = thread.state /\ thread'.next = thread.next
  PROVE  AnswerInv'
<1>1. \A k \in Legs : k # l => Keeps(k)
  BY DEF Leave, TypeOK, Keeps
<1>2. stage'[l] = outcome
  BY DEF Leave, TypeOK
<1>3. QED BY <1>1, <1>2, AnswersStay DEF HasNone

\* A request that is accepted answers the gate its client sees.
LEMMA AcceptAnswers ==
  ASSUME TypeOK, AnswerInv, NEW l \in Legs,
         \/ \E text \in Texts : AcceptStart(l, text)
         \/ \E answer \in AnswersToThread : AcceptResume(l, answer)
  PROVE  AnswerInv'
<1>1. CASE thread.next = "end" /\ \E answer \in AnswersToThread : AcceptResume(l, answer)
  BY <1>1, LeaveAnswers DEF AcceptResume
<1>2. ASSUME NEW with \in Texts \cup AnswersToThread, Accept(l, with)
      PROVE  AnswerInv'
  <2>1. \A k \in Legs : k # l => Keeps(k)
    BY <1>2 DEF Accept, TypeOK, Keeps
  <2>2. stage'[l] = "accepted" /\ input'[l] = with /\ UNCHANGED thread
    BY <1>2 DEF Accept, TypeOK
  <2>3. with \in Answers /\ thread.next \in Gates =>
          with.gate = thread.next /\ with.text = thread.state.text
    BY InputAssumption DEF AnswersToThread, StructureAnswers, AnalysisAnswers, Gates
  <2>4. QED BY <2>1, <2>2, <2>3 DEF AnswerInv, GatesTakeTheirAnswers, Keeps
<1>3. QED BY <1>1, <1>2 DEF AcceptStart, AcceptResume

LEMMA BeginAnswers ==
  ASSUME TypeOK, AnswerInv, NEW l \in Legs, BeginStart(l) \/ BeginResume(l)
  PROVE  AnswerInv'
<1>1. CASE BeginStart(l)
  <2>1. \A k \in Legs : k # l => Keeps(k)
    BY <1>1 DEF BeginStart, TypeOK, Keeps
  <2>2. input'[l] \notin Answers /\ Waiting \subseteq overtaken'
    BY <1>1, InputAssumption DEF BeginStart, TypeOK
  <2>3. QED BY <2>1, <2>2, MovingOvertakes DEF HasNone
<1>2. CASE BeginResume(l) /\ thread.next = "end"
  BY <1>2, LeaveAnswers DEF BeginResume
<1>3. CASE BeginResume(l) /\ thread.next # "end"
  <2>1. \A k \in Legs : k # l => Keeps(k)
    BY <1>3 DEF BeginResume, TypeOK, Keeps
  <2>2. /\ stage[l] = "accepted" /\ stage'[l] = "running" /\ work'[l] = thread
        /\ UNCHANGED <<thread, input, overtaken>>
    BY <1>3 DEF BeginResume, TypeOK
  <2>3. QED BY <2>1, <2>2 DEF AnswerInv, GatesTakeTheirAnswers, Keeps
<1>4. QED BY <1>1, <1>2, <1>3

LEMMA AdvanceAnswers ==
  ASSUME TypeOK, AnswerInv, NEW l \in Legs, Advance(l) \/ NodeRaises(l)
  PROVE  AnswerInv'
<1>1. CASE BeginStart(l) \/ BeginResume(l)
  BY <1>1, BeginAnswers
<1>2. CASE Pause(l)
  <2>1. thread'.state = thread.state /\ thread'.next = thread.next
    BY <1>2 DEF Pause, TypeOK, Checkpoints
  <2>2. QED BY <1>2, <2>1, LeaveAnswers DEF Pause
<1>3. CASE NodeRaises(l)
  BY <1>3, LeaveAnswers DEF NodeRaises
<1>4. CASE \E task \in Tasks, hours \in Hours : SearchTask(l, task, hours)
  <2>1. /\ thread'.state = thread.state /\ thread'.next = thread.next
        /\ UNCHANGED <<stage, input, overtaken>>
    BY <1>4 DEF SearchTask, TypeOK, Checkpoints
  <2>2. \A k \in Legs : work'[k].state = work[k].state /\ work'[k].next = work[k].next
    BY <1>4 DEF SearchTask, TypeOK, Checkpoints
  <2>3. QED BY <2>1, <2>2, AnswersStay DEF Keeps
<1>5. CASE \/ Classify(l) \/ \E tasks \in Trees : ProposeStructure(l, tasks)
           \/ ReviewStructure(l) \/ JoinHours(l)
           \/ \E derivations \in Derivations : Recover(l, derivations)
           \/ Analyze(l) \/ ReviewAnalysis(l) \/ DraftProposal(l)
  <2>1. \E s, next : Commit(l, s, next)
    BY <1>5 DEF Classify, ProposeStructure, ReviewStructure, JoinHours, Recover, Analyze,
         ReviewAnalysis, DraftProposal
  <2>2. QED BY <2>1, CommitAnswers
<1>6. QED BY <1>1, <1>2, <1>3, <1>4, <1>5 DEF Advance

LEMMA NextAnswers == TypeOK /\ AnswerInv /\ [Next]_vars => AnswerInv'
<1>1. ASSUME AnswerInv, UNCHANGED vars PROVE AnswerInv'
  BY <1>1 DEF vars, AnswerInv, GatesTakeTheirAnswers
<1>2. ASSUME TypeOK, AnswerInv, Crash PROVE AnswerInv'
  <2>1. \A l \in Legs : stage'[l] \notin {"accepted", "running"}
    BY <1>2 DEF Crash, Serving
  <2>2. QED BY <1>2, <2>1, AnswersStay DEF Crash, HasNone
<1>3. QED BY <1>1, <1>2, AcceptAnswers, AdvanceAnswers DEF Next

\* However legs overlap, fail and crash, a gate takes no answer that was given to the
\* other gate or to a run stopped elsewhere, unless another leg moved the thread on
\* while the answer waited to be begun.
THEOREM GatesTakeTheirAnswersHolds == Spec => []GatesTakeTheirAnswers
<1>1. Init => AnswerInv
  BY DEF Init, AnswerInv, GatesTakeTheirAnswers
<1>2. AnswerInv => GatesTakeTheirAnswers
  BY DEF AnswerInv
<1>3. IInv => TypeOK
  BY DEF IInv
<1>4. QED BY <1>1, <1>2, <1>3, NextAnswers, Invariant, PTL DEF Spec

-----------------------------------------------------------------------------
(***************************************************************************)
(* Legs in turn.  With a single leg the run works on the latest checkpoint *)
(* and an accepted answer still meets the gate it was given to.            *)
(***************************************************************************)
InTurn == \A k, l \in Legs : k = l

\* The human's last word in this state is about its transcript, and is its status.
Reviewed(s) ==
  /\ s.gate2 # None /\ s.gate2.text = s.text
  /\ s.status = "validated" <=> Validates(s.gate2)

TurnInv ==
  /\ \A l \in Legs : stage[l] = "running" =>
       work[l].state = thread.state /\ work[l].next = thread.next
  /\ \A l \in Legs : l \in Serving /\ input[l] \in Answers /\ thread.next \in Gates =>
       input[l].gate = thread.next /\ input[l].text = thread.state.text
  /\ thread.next \in {"proposal_agent", "end"} /\ thread.state.text # None =>
       Reviewed(thread.state)

LEMMA CommitInTurn ==
  ASSUME InTurn, TypeOK, TurnInv, NEW l \in Legs, stage[l] = "running",
         NEW s, NEW next, Commit(l, s, next),
         next \in {"proposal_agent", "end"} => Reviewed(s)
  PROVE  TurnInv'
<1>1. thread' = Checkpoint(s, next) /\ thread'.state = s /\ thread'.next = next
  BY DEF Commit, Checkpoint
<1>2. \A k \in Legs : /\ k = l
                      /\ stage'[k] = "running" => work'[k] = thread'
                      /\ input'[k] \notin Answers
  BY <1>1, InputAssumption DEF InTurn, Commit, TypeOK
<1>3. QED BY <1>1, <1>2 DEF TurnInv, Reviewed

\* Nothing happens to the channels and no answer is taken on.
LEMMA QuietInTurn ==
  ASSUME InTurn, TurnInv,
         thread'.state = thread.state /\ thread'.next = thread.next,
         \A k \in Legs :
           /\ stage'[k] = "running" =>
                work'[k].state = thread.state /\ work'[k].next = thread.next
           /\ k \in Serving' /\ input'[k] \in Answers =>
                \/ k \in Serving /\ input'[k] = input[k]
                \/ input'[k] \in AnswersToThread
  PROVE  TurnInv'
<1>1. \A answer \in AnswersToThread : thread.next \in Gates =>
        answer.gate = thread.next /\ answer.text = thread.state.text
  BY DEF AnswersToThread, StructureAnswers, AnalysisAnswers, Gates
<1>2. \A k \in Legs : k \in Serving' /\ input'[k] \in Answers /\ thread'.next \in Gates =>
        input'[k].gate = thread'.next /\ input'[k].text = thread'.state.text
  BY <1>1 DEF TurnInv
<1>3. QED BY <1>2 DEF TurnInv, Reviewed

LEMMA LeaveInTurn ==
  ASSUME InTurn, TypeOK, TurnInv, NEW l \in Legs,
         NEW outcome \in {"refused", "paused", "done", "failed"}, Leave(l, outcome),
         thread'.state = thread.state /\ thread'.next = thread.next
  PROVE  TurnInv'
<1>1. \A k \in Legs : k = l /\ stage'[k] = outcome
  BY DEF InTurn, Leave, TypeOK
<1>2. \A k \in Legs : k \notin Serving' /\ stage'[k] # "running"
  BY <1>1 DEF Serving
<1>3. QED BY <1>2, QuietInTurn

LEMMA EndpointsInTurn ==
  ASSUME InTurn, IInv, TurnInv, NEW l \in Legs,
         \/ \E text \in Texts : AcceptStart(l, text)
         \/ \E answer \in AnswersToThread : AcceptResume(l, answer)
         \/ BeginResume(l)
         \/ NodeRaises(l)
         \/ Pause(l)
  PROVE  TurnInv'
<1>1. TypeOK
  BY DEF IInv
<1>2. CASE \E text \in Texts : AcceptStart(l, text)
  <2>1. PICK text \in Texts : Accept(l, text)
    BY <1>2 DEF AcceptStart
  <2>2. \A k \in Legs : k = l /\ stage'[k] = "accepted" /\ input'[k] \notin Answers
    BY <1>1, <2>1, InputAssumption DEF InTurn, Accept, TypeOK
  <2>3. QED BY <2>1, <2>2, QuietInTurn DEF Accept
<1>3. CASE \E answer \in AnswersToThread : AcceptResume(l, answer)
  <2>1. CASE thread.next = "end"
    BY <1>1, <1>3, <2>1, LeaveInTurn DEF AcceptResume
  <2>2. CASE thread.next # "end"
    <3>1. PICK answer \in AnswersToThread : Accept(l, answer)
      BY <1>3, <2>2 DEF AcceptResume
    <3>2. \A k \in Legs : k = l /\ stage'[k] = "accepted" /\ input'[k] \in AnswersToThread
      BY <1>1, <3>1 DEF InTurn, Accept, TypeOK
    <3>3. QED BY <3>1, <3>2, QuietInTurn DEF Accept
  <2>3. QED BY <2>1, <2>2
<1>4. CASE BeginResume(l)
  <2>1. CASE thread.next = "end"
    BY <1>1, <1>4, <2>1, LeaveInTurn DEF BeginResume
  <2>2. CASE thread.next # "end"
    <3>1. /\ work' = [work EXCEPT ![l] = thread]
          /\ UNCHANGED <<input, thread>> /\ l \in Serving
      BY <1>4, <2>2 DEF BeginResume, Serving
    <3>2. \A k \in Legs : k = l /\ work'[k] = thread
      BY <1>1, <3>1 DEF InTurn, TypeOK
    <3>3. QED BY <3>1, <3>2, QuietInTurn
  <2>3. QED BY <2>1, <2>2
<1>5. CASE NodeRaises(l)
  BY <1>1, <1>5, LeaveInTurn DEF NodeRaises
<1>6. CASE Pause(l)
  <2>1. thread'.state = thread.state /\ thread'.next = thread.next
    BY <1>1, <1>6 DEF Pause, TypeOK, Checkpoints
  <2>2. QED BY <1>1, <1>6, <2>1, LeaveInTurn DEF Pause
<1>7. QED BY <1>2, <1>3, <1>4, <1>5, <1>6

LEMMA BeginStartInTurn ==
  ASSUME InTurn, IInv, NEW l \in Legs, BeginStart(l)
  PROVE  TurnInv'
<1> DEFINE s == StartState(input[l])
<1>1. TypeOK /\ thread.state \in Channels
  BY DEF IInv, TypeOK, Checkpoints
<1>2. s \in Channels
  BY <1>1 DEF BeginStart, StartState, Channels
<1>3. thread' = Checkpoint(s, "classifier_agent")
  BY DEF BeginStart
<1>4. thread'.state = s /\ thread'.next = "classifier_agent"
  BY <1>2, <1>3, CheckpointType DEF Nodes
<1>5. \A k \in Legs : k = l /\ work'[k] = thread'
  BY <1>1 DEF InTurn, BeginStart, TypeOK
<1>6. QED BY <1>4, <1>5 DEF TurnInv, Gates

\* A node other than a gate hands on what the humans said, and only the last one ends
\* the run.
HandsOn(l, t, next) ==
  /\ Commit(l, t, next) /\ stage[l] = "running"
  /\ t.gate2 = work[l].state.gate2
  /\ t.status = work[l].state.status /\ t.text = work[l].state.text
  /\ next \in {"proposal_agent", "end"} => next = "end" /\ work[l].next = "proposal_agent"

LEMMA NodesInTurn ==
  ASSUME InTurn, IInv, TurnInv, NEW l \in Legs,
         \/ Classify(l)
         \/ \E tasks \in Trees : ProposeStructure(l, tasks)
         \/ JoinHours(l)
         \/ \E derivations \in Derivations : Recover(l, derivations)
         \/ Analyze(l)
         \/ DraftProposal(l)
  PROVE  TurnInv'
<1> DEFINE s == work[l].state
<1>1. TypeOK /\ s \in Channels
  BY DEF IInv, TypeOK, Checkpoints
<1>2. PICK t, next : HandsOn(l, t, next)
  <2>1. CASE Classify(l) \/ Analyze(l)
    <3>1. HandsOn(l, s, "structure_agent") \/ HandsOn(l, s, AfterAnalysis)
      BY <2>1 DEF Classify, Analyze, AfterAnalysis, At, HandsOn
    <3>2. QED BY <3>1
  <2>2. CASE \E tasks \in Trees : ProposeStructure(l, tasks)
    <3>1. PICK tasks \in Trees :
            Commit(l, [s EXCEPT !.structure = tasks], "human_gate_structure")
      BY <2>2 DEF ProposeStructure
    <3>2. stage[l] = "running"
      BY <2>2 DEF ProposeStructure, At
    <3>3. HandsOn(l, [s EXCEPT !.structure = tasks], "human_gate_structure")
      BY <1>1, <3>1, <3>2 DEF Channels, HandsOn
    <3>4. QED BY <3>3
  <2>3. CASE JoinHours(l)
    <3> DEFINE t == [s EXCEPT !.rows = Merged(s.rows, work[l].writes)]
    <3>1. Commit(l, t, "recover_and_handover") /\ stage[l] = "running"
      BY <2>3 DEF JoinHours, At
    <3>2. t.gate2 = s.gate2 /\ t.status = s.status /\ t.text = s.text
      BY <1>1 DEF Channels
    <3>3. HandsOn(l, t, "recover_and_handover")
      BY <3>1, <3>2 DEF HandsOn
    <3>4. QED BY <3>3
  <2>4. CASE \E derivations \in Derivations : Recover(l, derivations)
    <3>1. PICK derivations \in Derivations : Recover(l, derivations)
      BY <2>4
    <3> DEFINE rows == Derived(s, derivations)
               t == [s EXCEPT !.rows = rows, !.estimate = BuildEstimate(s.approved, rows)]
    <3>2. Commit(l, t, "analysis_agent") /\ stage[l] = "running"
      BY <3>1 DEF Recover, At
    <3>3. t.gate2 = s.gate2 /\ t.status = s.status /\ t.text = s.text
      BY <1>1 DEF Channels
    <3>4. HandsOn(l, t, "analysis_agent")
      BY <3>2, <3>3 DEF HandsOn
    <3>5. QED BY <3>4
  <2>5. CASE DraftProposal(l)
    <3>1. Commit(l, [s EXCEPT !.proposal = TRUE], "end") /\ At(l, "proposal_agent")
      BY <2>5 DEF DraftProposal
    <3>2. HandsOn(l, [s EXCEPT !.proposal = TRUE], "end")
      BY <1>1, <3>1 DEF Channels, At, HandsOn
    <3>3. QED BY <3>2
  <2>6. QED BY <2>1, <2>2, <2>3, <2>4, <2>5
<1>3. next \in {"proposal_agent", "end"} => Reviewed(t)
  <2>1. SUFFICES ASSUME work[l].next = "proposal_agent" PROVE Reviewed(t)
    BY <1>2 DEF HandsOn
  <2>2. s.text # None
    BY <2>1 DEF IInv, Consistent
  <2>3. Reviewed(s)
    BY <1>2, <2>1, <2>2 DEF TurnInv, HandsOn
  <2>4. QED BY <1>2, <2>3 DEF Reviewed, HandsOn
<1>4. QED BY <1>1, <1>2, <1>3, CommitInTurn DEF HandsOn

\* The answer a gate takes is the one given to it, by somebody who saw its transcript.
LEMMA GatesInTurn ==
  ASSUME InTurn, IInv, TurnInv, NEW l \in Legs, ReviewStructure(l) \/ ReviewAnalysis(l)
  PROVE  TurnInv'
<1> DEFINE s == work[l].state
           a == input[l]
<1>1. TypeOK /\ s \in Channels
  BY DEF IInv, TypeOK, Checkpoints
<1>2. /\ stage[l] = "running" /\ a \in Answers
      /\ a.gate = work[l].next /\ a.text = s.text
  BY DEF ReviewStructure, ReviewAnalysis, At, TurnInv, Serving, Gates
<1>3. CASE ReviewStructure(l)
  <2> DEFINE t == [s EXCEPT !.approved = Approved(s, a)]
  <2>1. Commit(l, t, FanOut(t))
    BY <1>3 DEF ReviewStructure
  <2>2. FanOut(t) \notin {"proposal_agent", "end"}
    BY DEF FanOut
  <2>3. QED BY <1>1, <1>2, <2>1, <2>2, CommitInTurn
<1>4. CASE ReviewAnalysis(l)
  <2> DEFINE status == IF Validates(a) THEN "validated" ELSE "needs_review"
             t == [s EXCEPT !.gate2 = Ruling(a), !.status = status]
  <2>1. Commit(l, t, RouteAfterGate2(a)) /\ a.gate = "human_gate_analysis"
    BY <1>2, <1>4 DEF ReviewAnalysis, At
  <2>2. /\ t.gate2 = Ruling(a) /\ t.status = status /\ t.text = s.text
    BY <1>1 DEF Channels
  <2>3. Ruling(a) \in Rulings /\ Ruling(a).gate = a.gate /\ Ruling(a).text = a.text
        /\ Ruling(a).agreed = a.agreed
    BY <1>2 DEF Ruling, Rulings, Answers
  <2>4. Reviewed(t)
    <3>1. Validates(t.gate2) <=> Validates(a)
      BY <2>2, <2>3 DEF Validates
    <3>2. t.gate2 # None /\ t.gate2.text = t.text
      BY <1>2, <2>2, <2>3, InputAssumption
    <3>3. QED BY <2>2, <3>1, <3>2 DEF Reviewed
  <2>5. QED BY <1>1, <1>2, <2>1, <2>4, CommitInTurn
<1>5. QED BY <1>3, <1>4

LEMMA SearchInTurn ==
  ASSUME InTurn, IInv, TurnInv, NEW l \in Legs, NEW task \in Tasks, NEW hours \in Hours,
         SearchTask(l, task, hours)
  PROVE  TurnInv'
<1>1. TypeOK /\ l \in Serving
  BY DEF IInv, SearchTask, At, Serving
<1>2. thread'.state = thread.state /\ thread'.next = thread.next
  BY <1>1 DEF SearchTask, TypeOK, Checkpoints
<1>3. \A k \in Legs : /\ k = l /\ input'[k] = input[k]
                      /\ work'[k].state = work[k].state /\ work'[k].next = work[k].next
  BY <1>1 DEF InTurn, SearchTask, TypeOK, Checkpoints
<1>4. \A k \in Legs : work'[k].state = thread.state /\ work'[k].next = thread.next
  BY <1>3 DEF SearchTask, At, TurnInv
<1>5. QED BY <1>1, <1>2, <1>3, <1>4, QuietInTurn

LEMMA NextInTurn ==
  ASSUME InTurn, IInv, TurnInv, [Next]_vars
  PROVE  TurnInv'
<1>1. CASE UNCHANGED vars
  BY <1>1 DEF vars, TurnInv, Serving
<1>2. CASE Crash
  <2>1. \A k \in Legs : k \notin Serving' /\ stage'[k] # "running"
    BY <1>2 DEF Crash, Serving, IInv, TypeOK
  <2>2. QED BY <1>2, <2>1, QuietInTurn DEF Crash
<1>3. CASE \E l \in Legs : Advance(l)
  <2>1. PICK l \in Legs : Advance(l)
    BY <1>3
  <2>2. CASE \E task \in Tasks, hours \in Hours : SearchTask(l, task, hours)
    BY <2>2, SearchInTurn
  <2>3. QED
    BY <2>1, <2>2, EndpointsInTurn, BeginStartInTurn, NodesInTurn, GatesInTurn DEF Advance
<1>4. QED BY <1>1, <1>2, <1>3, EndpointsInTurn DEF Next

LEMMA InitInTurn == Init => TurnInv
BY DEF Init, TurnInv, Serving, NewThread, Checkpoint, Fresh

LEMMA InvariantInTurn ==
  ASSUME InTurn
  PROVE  Spec => []TurnInv
<1>1. IInv /\ TurnInv /\ [Next]_vars => TurnInv'
  BY NextInTurn
<1>2. QED BY <1>1, InitInTurn, Invariant, PTL DEF Spec

\* With one leg at a time a completed run carries the word of a human who was shown
\* the estimate of its transcript, whatever earlier runs left in the thread.
THEOREM CompletedIsReviewedHolds ==
  ASSUME InTurn
  PROVE  Spec => []CompletedIsReviewed
<1>1. TurnInv => CompletedIsReviewed
  BY DEF TurnInv, Reviewed, CompletedIsReviewed, Started
<1>2. QED BY <1>1, InvariantInTurn, PTL

-----------------------------------------------------------------------------
(***************************************************************************)
(* How many steps a leg has left, at most: its beginning, the nodes from   *)
(* the one it is at to the proposal, and the branches without a row.       *)
(***************************************************************************)
N == Cardinality(Tasks)
Unsearched(c) == {t \in Sends(c.state) : c.writes[t] = NoRow}

NodesLeft(c) ==
  CASE c.next = "classifier_agent"     -> N + 8
    [] c.next = "structure_agent"      -> N + 7
    [] c.next = "human_gate_structure" -> N + 6
    [] c.next = "estimate_task_hours"  -> Cardinality(Unsearched(c)) + 5
    [] c.next = "recover_and_handover" -> 4
    [] c.next = "analysis_agent"       -> 3
    [] c.next = "human_gate_analysis"  -> 2
    [] OTHER                           -> 1

StepsLeft(l) ==
  CASE stage[l] = "accepted" -> N + 9
    [] stage[l] = "running"  -> NodesLeft(work[l])
    [] OTHER                 -> 0

\* A step of a leg at work that touches no other.
Counts(l) ==
  /\ l \in Serving
  /\ StepsLeft(l)' \in Nat /\ StepsLeft(l)' < StepsLeft(l)
  /\ \A k \in Legs : k # l => StepsLeft(k)' = StepsLeft(k)

LEMMA UnsearchedIsFinite ==
  ASSUME IsFiniteSet(Tasks), NEW c \in Checkpoints
  PROVE  /\ N \in Nat /\ IsFiniteSet(Unsearched(c))
         /\ Cardinality(Unsearched(c)) \in 0..N
<1>1. Unsearched(c) \subseteq Tasks
  BY DEF Unsearched, Sends, Checkpoints, Channels
<1>2. /\ IsFiniteSet(Unsearched(c)) /\ Cardinality(Unsearched(c)) <= Cardinality(Tasks)
      /\ Cardinality(Unsearched(c)) \in Nat /\ Cardinality(Tasks) \in Nat
  BY <1>1, FS_Subset, FS_CardinalityType
<1> QED
  BY <1>2 DEF N

LEMMA NodesLeftType ==
  ASSUME IsFiniteSet(Tasks), NEW c \in Checkpoints
  PROVE  NodesLeft(c) \in 1..(N + 8)
<1>1. c.next \in Nodes \cup {"end"}
  BY DEF Checkpoints
<1> QED
  BY <1>1, UnsearchedIsFinite DEF NodesLeft, Nodes

LEMMA StepsLeftType ==
  ASSUME IsFiniteSet(Tasks), TypeOK, NEW l \in Legs
  PROVE  /\ StepsLeft(l) \in 0..(N + 9) /\ N \in Nat
         /\ StepsLeft(l) = 0 <=> l \notin Serving
<1>1. work[l] \in Checkpoints
  BY DEF TypeOK
<1>2. NodesLeft(work[l]) \in 1..(N + 8) /\ N \in Nat
  BY <1>1, NodesLeftType, UnsearchedIsFinite
<1> QED
  BY <1>2 DEF StepsLeft, Serving

LEMMA OthersWait ==
  ASSUME NEW l \in Legs, \A k \in Legs : k # l => stage'[k] = stage[k] /\ work'[k] = work[k]
  PROVE  \A k \in Legs : k # l => StepsLeft(k)' = StepsLeft(k)
BY DEF StepsLeft, NodesLeft, Unsearched, N

\* The leg is over.
LEMMA LeaveCounts ==
  ASSUME IsFiniteSet(Tasks), TypeOK, NEW l \in Serving,
         NEW outcome \in {"refused", "paused", "done", "failed"}, Leave(l, outcome)
  PROVE  Counts(l)
<1>1. l \in Legs
  BY DEF Serving
<1>2. \A k \in Legs : k # l => stage'[k] = stage[k] /\ work'[k] = work[k]
  BY DEF Leave, TypeOK
<1>3. StepsLeft(l)' = 0
  BY <1>1 DEF Leave, TypeOK, StepsLeft
<1>4. StepsLeft(l) \in Nat /\ StepsLeft(l) # 0
  BY <1>1, StepsLeftType
<1> QED
  BY <1>1, <1>2, <1>3, <1>4, OthersWait DEF Counts

\* The leg begins on the checkpoint it was given.
LEMMA BeginCounts ==
  ASSUME IsFiniteSet(Tasks), IInv, NEW l \in Legs, BeginStart(l) \/ BeginResume(l)
  PROVE  Counts(l)
<1>1. stage[l] = "accepted" /\ l \in Serving
  BY DEF BeginStart, BeginResume, Serving
<1>2. CASE BeginResume(l) /\ thread.next = "end"
  BY <1>1, <1>2, LeaveCounts DEF BeginResume, IInv
<1>3. CASE BeginStart(l) \/ thread.next # "end"
  <2>1. \A k \in Legs : k # l => stage'[k] = stage[k] /\ work'[k] = work[k]
    BY <1>3 DEF BeginStart, BeginResume, IInv, TypeOK
  <2>2. stage'[l] = "running" /\ work'[l] = thread'
    BY <1>3 DEF BeginStart, BeginResume, IInv, TypeOK
  <2>3. thread' \in Checkpoints
    <3>1. CASE BeginStart(l)
      BY <3>1, BeginStartKeeps DEF IInv, TypeOK
    <3>2. CASE BeginResume(l)
      BY <3>2, BeginResumeKeeps DEF IInv, TypeOK
    <3> QED
      BY <3>1, <3>2
  <2>4. StepsLeft(l)' = NodesLeft(thread')
    BY <2>2 DEF StepsLeft, NodesLeft, Unsearched, N
  <2>5. NodesLeft(thread') \in 1..(N + 8) /\ N \in Nat
    BY <2>3, NodesLeftType, UnsearchedIsFinite
  <2>6. StepsLeft(l) = N + 9
    BY <1>1 DEF StepsLeft
  <2> QED
    BY <1>1, <2>1, <2>4, <2>5, <2>6, OthersWait DEF Counts
<1> QED
  BY <1>2, <1>3

LEMMA SearchTaskCounts ==
  ASSUME IsFiniteSet(Tasks), IInv, NEW l \in Legs, NEW task \in Tasks, NEW hours \in Hours,
         SearchTask(l, task, hours)
  PROVE  Counts(l)
<1> DEFINE c == work[l]
<1>1. /\ stage[l] = "running" /\ c.next = "estimate_task_hours" /\ c \in Checkpoints
      /\ l \in Serving /\ task \in Unsearched(c)
  BY DEF SearchTask, At, IInv, TypeOK, Serving, Unsearched
<1>2. PICK row : row # NoRow /\ work' = [work EXCEPT ![l].writes[task] = row]
  <2>1. [text |-> c.state.text, hours |-> hours] # NoRow
    BY DEF NoRow
  <2> QED
    BY <2>1 DEF SearchTask
<1>3. /\ \A k \in Legs : k # l => stage'[k] = stage[k] /\ work'[k] = work[k]
      /\ stage'[l] = "running"
  BY <1>1, <1>2 DEF SearchTask, IInv, TypeOK
<1>4. /\ work'[l].next = c.next /\ work'[l].state = c.state
      /\ work'[l].writes = [c.writes EXCEPT ![task] = row]
  BY <1>1, <1>2 DEF IInv, TypeOK, Checkpoints
<1>5. Unsearched(work'[l]) = Unsearched(c) \ {task}
  BY <1>1, <1>2, <1>4 DEF Unsearched, Sends, Checkpoints, Channels, Accumulators
<1>6. /\ Cardinality(Unsearched(work'[l])) = Cardinality(Unsearched(c)) - 1
      /\ Cardinality(Unsearched(c)) \in Nat /\ Cardinality(Unsearched(work'[l])) \in Nat
  BY <1>1, <1>5, UnsearchedIsFinite, FS_RemoveElement, FS_CardinalityType
<1>7. StepsLeft(l) = Cardinality(Unsearched(c)) + 5
  BY <1>1 DEF StepsLeft, NodesLeft
<1>8. StepsLeft(l)' = Cardinality(Unsearched(work'[l])) + 5
  BY <1>1, <1>3, <1>4 DEF StepsLeft, NodesLeft, Unsearched
<1> QED
  BY <1>1, <1>3, <1>6, <1>7, <1>8, OthersWait DEF Counts


\* Each node names a node further on.
Onward(c, next) ==
  \/ c.next = "classifier_agent" /\ next = "structure_agent"
  \/ c.next = "structure_agent" /\ next = "human_gate_structure"
  \/ c.next = "human_gate_structure" /\ next \in {"estimate_task_hours", "recover_and_handover"}
  \/ c.next = "estimate_task_hours" /\ next = "recover_and_handover"
  \/ c.next = "recover_and_handover" /\ next = "analysis_agent"
  \/ c.next = "analysis_agent" /\ next = "human_gate_analysis"
  \/ c.next = "human_gate_analysis" /\ next = "proposal_agent"

LEMMA OnwardCounts ==
  ASSUME IsFiniteSet(Tasks), NEW c \in Checkpoints, NEW d \in Checkpoints, Onward(c, d.next)
  PROVE  NodesLeft(d) < NodesLeft(c)
<1>1. /\ N \in Nat
      /\ Cardinality(Unsearched(c)) \in 0..N /\ Cardinality(Unsearched(d)) \in 0..N
  BY UnsearchedIsFinite
<1>2. CASE c.next = "classifier_agent" /\ d.next = "structure_agent"
  BY <1>1, <1>2 DEF NodesLeft
<1>3. CASE c.next = "structure_agent" /\ d.next = "human_gate_structure"
  BY <1>1, <1>3 DEF NodesLeft
<1>4. CASE c.next = "human_gate_structure"
           /\ d.next \in {"estimate_task_hours", "recover_and_handover"}
  BY <1>1, <1>4 DEF NodesLeft
<1>5. CASE c.next = "estimate_task_hours" /\ d.next = "recover_and_handover"
  BY <1>1, <1>5 DEF NodesLeft
<1>6. CASE \/ c.next = "recover_and_handover" /\ d.next = "analysis_agent"
           \/ c.next = "analysis_agent" /\ d.next = "human_gate_analysis"
           \/ c.next = "human_gate_analysis" /\ d.next = "proposal_agent"
  BY <1>6 DEF NodesLeft
<1> QED
  BY <1>2, <1>3, <1>4, <1>5, <1>6 DEF Onward

\* A superstep saves a checkpoint from which fewer nodes are left, or ends the run.
LEMMA CommitCounts ==
  ASSUME IsFiniteSet(Tasks), TypeOK, thread' \in Checkpoints, NEW l \in Legs,
         stage[l] = "running", NEW s, NEW next, Commit(l, s, next),
         next = "end" \/ Onward(work[l], next)
  PROVE  Counts(l)
<1>1. \A k \in Legs : k # l => stage'[k] = stage[k] /\ work'[k] = work[k]
  BY DEF Commit, TypeOK
<1>2. StepsLeft(l) = NodesLeft(work[l]) /\ l \in Serving /\ work[l] \in Checkpoints
  BY DEF StepsLeft, Serving, TypeOK
<1>3. StepsLeft(l) \in Nat /\ StepsLeft(l) # 0
  BY <1>2, StepsLeftType
<1>4. CASE next = "end"
  <2>1. stage'[l] = "done"
    BY <1>4 DEF Commit, TypeOK
  <2>2. StepsLeft(l)' = 0
    BY <2>1 DEF StepsLeft
  <2> QED
    BY <1>1, <1>2, <1>3, <2>2, OthersWait DEF Counts
<1>5. CASE next # "end"
  <2>1. stage'[l] = "running" /\ work'[l] = thread' /\ thread'.next = next
    BY <1>5 DEF Commit, Checkpoint, TypeOK
  <2>2. StepsLeft(l)' = NodesLeft(thread')
    BY <2>1 DEF StepsLeft, NodesLeft, Unsearched, N
  <2>3. NodesLeft(thread') \in Nat /\ NodesLeft(work[l]) \in Nat
    BY <1>2, NodesLeftType, UnsearchedIsFinite
  <2>4. NodesLeft(thread') < NodesLeft(work[l])
    BY <1>2, <1>5, <2>1, OnwardCounts
  <2> QED
    BY <1>1, <1>2, <2>2, <2>3, <2>4, OthersWait DEF Counts
<1> QED
  BY <1>4, <1>5

LEMMA NodeCounts ==
  ASSUME IsFiniteSet(Tasks), IInv, IInv', NEW l \in Legs,
         \/ Classify(l)
         \/ \E tasks \in Trees : ProposeStructure(l, tasks)
         \/ ReviewStructure(l)
         \/ JoinHours(l)
         \/ \E derivations \in Derivations : Recover(l, derivations)
         \/ Analyze(l)
         \/ ReviewAnalysis(l)
         \/ DraftProposal(l)
  PROVE  Counts(l)
<1>1. TypeOK /\ thread' \in Checkpoints
  BY DEF IInv, TypeOK
<1>2. \E s, next : /\ stage[l] = "running" /\ Commit(l, s, next)
                   /\ next = "end" \/ Onward(work[l], next)
  BY DEF Classify, ProposeStructure, ReviewStructure, JoinHours, Recover, Analyze,
         ReviewAnalysis, DraftProposal, At, Onward, FanOut, AfterAnalysis, RouteAfterGate2
<1> QED
  BY <1>1, <1>2, CommitCounts

LEMMA StopCounts ==
  ASSUME IsFiniteSet(Tasks), TypeOK, NEW l \in Legs, Pause(l) \/ NodeRaises(l)
  PROVE  Counts(l)
<1>1. l \in Serving
  BY DEF Pause, NodeRaises, At, Serving
<1> QED
  BY <1>1, LeaveCounts DEF Pause, NodeRaises

LEMMA LegCounts ==
  ASSUME IsFiniteSet(Tasks), IInv, IInv', NEW l \in Legs, Advance(l) \/ NodeRaises(l)
  PROVE  Counts(l)
<1>1. TypeOK
  BY DEF IInv
<1> QED
  BY <1>1, BeginCounts, NodeCounts, SearchTaskCounts, StopCounts DEF Advance

\* A request is served by a leg that serves none.
Arrives(l) ==
  /\ l \notin Serving /\ stage'[l] \in {"accepted", "refused"}
  /\ \A k \in Legs : k # l => StepsLeft(k)' = StepsLeft(k)

LEMMA AcceptArrives ==
  ASSUME TypeOK, NEW l \in Legs,
         \/ \E text \in Texts : AcceptStart(l, text)
         \/ \E answer \in AnswersToThread : AcceptResume(l, answer)
  PROVE  Arrives(l)
<1>1. l \notin Serving
  BY DEF AcceptStart, AcceptResume, Free, Serving
<1>2. stage'[l] \in {"accepted", "refused"}
  BY DEF AcceptStart, AcceptResume, Accept, Leave, TypeOK
<1>3. \A k \in Legs : k # l => stage'[k] = stage[k] /\ work'[k] = work[k]
  BY DEF AcceptStart, AcceptResume, Accept, Leave, TypeOK
<1> QED
  BY <1>1, <1>2, <1>3, OthersWait DEF Arrives

\* Legs are bounded by the number of tasks, however they overlap, pause and fail: of
\* the steps a leg at work has left, at most, no step of the system gives any back, and
\* each takes one or more from some leg at work, unless it is the arrival of a request
\* at a leg that has none.
LegsAreBounded ==
  /\ [](\A l \in Legs : /\ StepsLeft(l) \in 0..(Cardinality(Tasks) + 9)
                        /\ StepsLeft(l) = 0 <=> l \notin Serving)
  /\ [][/\ \A l \in Serving : StepsLeft(l)' <= StepsLeft(l)
        /\ \/ \E l \in Serving : StepsLeft(l)' < StepsLeft(l)
           \/ \E l \in Legs \ Serving : stage'[l] \in {"accepted", "refused"}]_vars
THEOREM LegsAreBoundedHolds ==
  ASSUME IsFiniteSet(Tasks)
  PROVE  Spec => LegsAreBounded
<1> DEFINE Fewer == /\ \A l \in Serving : StepsLeft(l)' <= StepsLeft(l)
                    /\ \/ \E l \in Serving : StepsLeft(l)' < StepsLeft(l)
                       \/ \E l \in Legs \ Serving : stage'[l] \in {"accepted", "refused"}
<1>1. ASSUME TypeOK, NEW l \in Legs, Counts(l) \/ Arrives(l)
      PROVE  Fewer
  <2>1. \A k \in Legs : StepsLeft(k) \in Nat
    BY <1>1, StepsLeftType
  <2>2. \A k \in Serving : k \in Legs
    BY DEF Serving
  <2>3. CASE Counts(l)
    <3>1. \A k \in Serving : StepsLeft(k)' <= StepsLeft(k)
      BY <1>1, <2>1, <2>2, <2>3 DEF Counts
    <3> QED
      BY <2>3, <3>1 DEF Counts
  <2>4. CASE Arrives(l)
    <3>1. \A k \in Serving : StepsLeft(k)' <= StepsLeft(k)
      BY <1>1, <2>1, <2>2, <2>4 DEF Arrives
    <3> QED
      BY <2>4, <3>1 DEF Arrives
  <2> QED
    BY <1>1, <2>3, <2>4
<1>2. ASSUME TypeOK, Crash
      PROVE  Fewer
  <2>1. ASSUME NEW l \in Serving
        PROVE  StepsLeft(l) \in Nat /\ StepsLeft(l) # 0
    <3>1. l \in Legs
      BY DEF Serving
    <3> QED
      BY <1>2, <3>1, StepsLeftType
  <2>2. \A l \in Serving : StepsLeft(l)' = 0
    BY <1>2 DEF Crash, Serving, StepsLeft
  <2>3. Serving # {}
    BY <1>2 DEF Crash
  <2> QED
    BY <2>1, <2>2, <2>3
<1>3. IInv /\ IInv' /\ [Next]_vars => [Fewer]_vars
  <2> HIDE DEF Fewer
  <2>1. IInv => TypeOK
    BY DEF IInv
  <2> QED
    BY <1>1, <1>2, <2>1, AcceptArrives, LegCounts DEF Next
<1>4. IInv => \A l \in Legs : /\ StepsLeft(l) \in 0..(Cardinality(Tasks) + 9)
                              /\ StepsLeft(l) = 0 <=> l \notin Serving
  BY StepsLeftType DEF IInv, N
<1> QED
  BY <1>3, <1>4, Invariant, PTL DEF Spec, LegsAreBounded
====
