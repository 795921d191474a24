------------------------- MODULE HoursRecoveryProofs ------------------------
(***************************************************************************)
(* Theorems about HoursRecovery, for any tasks and keys, any limit on the  *)
(* calls to the model and any number of tool calls in an answer.           *)
(***************************************************************************)
EXTENDS HoursRecovery, FiniteSetTheorems, TLAPS

\* The outputs of the first n calls of an answer.
FirstOutputs(n) == [i \in 1..n |-> i]

\* The rows of the searches: made by a search, and all there once the searches are over.
RowsInv ==
  /\ \A t \in Tasks : row[t] # NoRow => row[t].by = "search"
  /\ stage \in {"asking", "dispatching", "done"} => \A t \in Tasks : row[t] # NoRow

\* What the model was sent: an output for each call that was run.
LoopInv ==
  /\ stage = "dispatching" =>
       position <= Len(calls) + 1 /\ outputs = FirstOutputs(position - 1)
         /\ iterations \in 1..(MaxIterations - 1)
  /\ stage = "asking" => iterations > 0
  /\ stage = "asking" /\ iterations > 1 => outputs = FirstOutputs(Len(calls))
  /\ stage \in {"searching", "asking", "dispatching"} => stoppedReason = None
  /\ stoppedReason = "completed" => calls = <<>>
  /\ stoppedReason = "max_iterations" => iterations = MaxIterations /\ calls # <<>>

\* What was derived, and what is answered once the run is over.
MergeInv ==
  /\ stage = "searching" => derivations = [k \in Keys |-> None]
  /\ \A k \in Keys : derivations[k] # None /\ HasHours(derivations[k]) => k \in derived
  /\ stage = "done" => result = Merge

IInv == TypeOK /\ RowsInv /\ LoopInv /\ MergeInv

-----------------------------------------------------------------------------
(***************************************************************************)
(* The operators of the model.                                             *)
(***************************************************************************)
LEMMA TasksAsk ==
  ASSUME NEW t \in Tasks
  PROVE  Asked[t] \in Keys
BY HoursRecoveryAssumption DEF Tasks

LEMMA AnswersAreSequences ==
  ASSUME NEW answer \in Answers
  PROVE  /\ Len(answer) \in 0..MaxCalls
         /\ answer \in [1..Len(answer) -> Calls]
         /\ answer \in Seq(Calls)
<1>1. PICK n \in 0..MaxCalls : answer \in [1..n -> Calls]
  BY DEF Answers
<1>2. n \in Nat /\ Len(answer) = n
  BY <1>1, HoursRecoveryAssumption
<1> QED
  BY <1>1, <1>2

LEMMA NextOutput ==
  ASSUME NEW n \in Nat
  PROVE  FirstOutputs(n) \o <<n + 1>> = FirstOutputs(n + 1)
BY DEF FirstOutputs

LEMMA OutputsFit ==
  ASSUME NEW n \in 0..MaxCalls
  PROVE  FirstOutputs(n) \in UNION {[1..m -> 1..MaxCalls] : m \in 0..MaxCalls}
<1>1. FirstOutputs(n) \in [1..n -> 1..MaxCalls]
  BY HoursRecoveryAssumption DEF FirstOutputs
<1> QED
  BY <1>1

LEMMA MergeType ==
  ASSUME TypeOK, \A t \in Tasks : row[t] # NoRow
  PROVE  Merge \in [Tasks -> Rows]
<1>1. ASSUME NEW t \in Tasks
      PROVE  (IF Derivation(t) # None /\ HasHours(Derivation(t)) THEN FromAgent(t) ELSE row[t])
               \in Rows
  <2>1. row[t] \in Rows
    BY DEF TypeOK
  <2>2. Derivation(t) \in Findings \cup {None}
    BY TasksAsk DEF TypeOK, Derivation
  <2>3. Derivation(t) # None => FromAgent(t) \in Rows
    BY <2>2 DEF FromAgent, Rows
  <2> QED
    BY <2>1, <2>3
<1> QED
  BY <1>1 DEF Merge

-----------------------------------------------------------------------------
(***************************************************************************)
(* The initial states, and one lemma for each action.                      *)
(***************************************************************************)
LEMMA InitInv == Init => IInv
<1> SUFFICES ASSUME Init PROVE IInv
  OBVIOUS
<1> USE DEF Init
<1>1. <<>> \in Answers
  <2>1. <<>> \in [1..0 -> Calls] /\ 0 \in 0..MaxCalls
    BY HoursRecoveryAssumption
  <2> QED
    BY <2>1 DEF Answers
<1>2. <<>> \in UNION {[1..m -> 1..MaxCalls] : m \in 0..MaxCalls}
  <2>1. <<>> \in [1..0 -> 1..MaxCalls] /\ 0 \in 0..MaxCalls
    BY HoursRecoveryAssumption
  <2> QED
    BY <2>1
<1>3. TypeOK
  BY <1>1, <1>2, HoursRecoveryAssumption DEF TypeOK
<1>4. RowsInv
  BY DEF RowsInv
<1>5. LoopInv
  BY DEF LoopInv, None
<1>6. MergeInv
  BY DEF MergeInv
<1> QED
  BY <1>3, <1>4, <1>5, <1>6 DEF IInv

LEMMA SearchInv ==
  ASSUME IInv, NEW t \in Tasks, NEW finding \in Findings, Search(t, finding)
  PROVE  IInv'
<1> USE DEF Search
<1>1. TypeOK'
  BY DEF IInv, TypeOK, Rows
<1>2. RowsInv'
  BY DEF IInv, TypeOK, RowsInv
<1>3. LoopInv'
  BY DEF IInv, LoopInv
<1>4. MergeInv'
  BY DEF IInv, MergeInv
<1> QED
  BY <1>1, <1>2, <1>3, <1>4 DEF IInv

\* Nothing was derived yet: the rows as they are, are the merge.
LEMMA MergeOfNothing ==
  ASSUME TypeOK, derivations = [k \in Keys |-> None]
  PROVE  row = Merge
<1>1. \A t \in Tasks : Derivation(t) = None
  BY TasksAsk DEF Derivation
<1> QED
  BY <1>1 DEF TypeOK, Merge

LEMMA FlagInv ==
  ASSUME IInv, Flag
  PROVE  IInv'
<1> USE DEF Flag
<1>0. row \in [Tasks -> Rows]
  BY DEF IInv, TypeOK
<1>1. TypeOK'
  BY <1>0, HoursRecoveryAssumption DEF IInv, TypeOK
<1>2. RowsInv'
  BY DEF IInv, RowsInv
<1>3. LoopInv'
  BY DEF IInv, LoopInv, None
<1>4. MergeInv'
  <2>1. Merge' = Merge
    BY DEF Merge, Derivation, FromAgent
  <2>2. row = Merge
    BY MergeOfNothing DEF IInv, MergeInv
  <2> QED
    BY <2>1, <2>2 DEF IInv, MergeInv
<1> QED
  BY <1>1, <1>2, <1>3, <1>4 DEF IInv

LEMMA ModelAnswersInv ==
  ASSUME IInv, NEW given \in Answers, ModelAnswers(given)
  PROVE  IInv'
<1> USE DEF ModelAnswers
<1>0. Merge' = Merge
  BY DEF Merge, Derivation, FromAgent
<1>a. Merge \in [Tasks -> Rows]
  BY MergeType DEF IInv, RowsInv
<1>b. Len(given) \in 0..MaxCalls
  BY AnswersAreSequences
<1>1. CASE \E reason \in {"completed", "max_iterations"} :
             /\ Stop(reason)
             /\ reason = "completed" => given = <<>>
             /\ reason = "max_iterations" => given # <<>> /\ AtLimit
  <2>1. PICK reason \in {"completed", "max_iterations"} :
             /\ Stop(reason)
             /\ reason = "completed" => given = <<>>
             /\ reason = "max_iterations" => given # <<>> /\ AtLimit
    BY <1>1
  <2>2. stage' = "done" /\ stoppedReason' = reason /\ result' = Merge
        /\ UNCHANGED <<position, outputs>>
    BY <2>1 DEF Stop
  <2>3. TypeOK'
    BY <1>a, <2>2 DEF IInv, TypeOK
  <2>4. RowsInv'
    BY <2>2 DEF IInv, RowsInv
  <2>5. LoopInv'
    BY <2>1, <2>2, HoursRecoveryAssumption DEF IInv, LoopInv, AtLimit, TypeOK, None
  <2>6. MergeInv'
    BY <2>2, <1>0 DEF IInv, MergeInv
  <2> QED
    BY <2>3, <2>4, <2>5, <2>6 DEF IInv
<1>2. CASE /\ given # <<>> /\ ~AtLimit
           /\ stage' = "dispatching"
           /\ position' = 1 /\ outputs' = <<>>
           /\ UNCHANGED <<stoppedReason, result>>
  <2>0. outputs' = FirstOutputs(0) /\ 0 \in 0..MaxCalls
    BY <1>2, HoursRecoveryAssumption DEF FirstOutputs
  <2>1. outputs' \in UNION {[1..m -> 1..MaxCalls] : m \in 0..MaxCalls}
    BY <2>0, OutputsFit
  <2>2. TypeOK'
    <3>1. position' \in 1..(MaxCalls + 1)
      BY <1>2, HoursRecoveryAssumption
    <3> QED
      BY <1>2, <2>1, <3>1 DEF IInv, TypeOK
  <2>3. RowsInv'
    BY <1>2 DEF IInv, RowsInv
  <2>4. LoopInv'
    <3>1. position' - 1 = 0 /\ position' <= Len(calls') + 1
      BY <1>2, <1>b
    <3>2. iterations' \in 1..(MaxIterations - 1)
      BY <1>2, HoursRecoveryAssumption DEF IInv, LoopInv, TypeOK, AtLimit
    <3> QED
      BY <1>2, <2>0, <3>1, <3>2 DEF IInv, LoopInv, None
  <2>5. MergeInv'
    BY <1>2 DEF IInv, MergeInv
  <2> QED
    BY <2>2, <2>3, <2>4, <2>5 DEF IInv
<1> QED
  BY <1>1, <1>2

LEMMA DispatchInv ==
  ASSUME IInv, Dispatch
  PROVE  IInv'
<1> USE DEF Dispatch
<1>0. /\ Len(calls) \in 0..MaxCalls
      /\ position \in 1..Len(calls)
      /\ Call \in Calls
  <2>1. Len(calls) \in 0..MaxCalls /\ calls \in [1..Len(calls) -> Calls]
    BY AnswersAreSequences DEF IInv, TypeOK
  <2>2. position \in 1..Len(calls)
    BY <2>1, HoursRecoveryAssumption DEF IInv, TypeOK
  <2> QED
    BY <2>1, <2>2 DEF Call
<1>1. outputs' = FirstOutputs(position' - 1)
  <2>1. outputs = FirstOutputs(position - 1)
    BY DEF IInv, LoopInv
  <2>2. position - 1 \in Nat /\ (position - 1) + 1 = position /\ position' - 1 = position
    BY <1>0, HoursRecoveryAssumption
  <2>3. FirstOutputs(position - 1) \o <<position>> = FirstOutputs(position)
    BY <2>2, NextOutput
  <2> QED
    BY <2>1, <2>2, <2>3 DEF Output
<1>2. Call.tool = "derive_task_hours" => Call.key \in Keys /\ Call.finding \in Findings
  BY <1>0 DEF Calls
<1>3. TypeOK'
  <2>1. outputs' \in UNION {[1..m -> 1..MaxCalls] : m \in 0..MaxCalls}
    <3>1. position' - 1 \in 0..MaxCalls
      BY <1>0, HoursRecoveryAssumption
    <3> QED
      BY <1>1, <3>1, OutputsFit
  <2>2. position' \in 1..(MaxCalls + 1)
    BY <1>0, HoursRecoveryAssumption
  <2>3. derivations' \in [Keys -> Findings \cup {None}] /\ derived' \subseteq Keys
    BY <1>2 DEF IInv, TypeOK
  <2> QED
    BY <2>1, <2>2, <2>3 DEF IInv, TypeOK
<1>4. RowsInv'
  BY DEF IInv, RowsInv
<1>5. LoopInv'
  <2>1. position' <= Len(calls') + 1
    BY <1>0, HoursRecoveryAssumption
  <2> QED
    BY <1>1, <2>1 DEF IInv, LoopInv
<1>6. MergeInv'
  <2>1. \A k \in Keys : derivations'[k] # None /\ HasHours(derivations'[k]) => k \in derived'
    BY <1>2 DEF IInv, TypeOK, MergeInv
  <2> QED
    BY <2>1 DEF MergeInv
<1> QED
  BY <1>3, <1>4, <1>5, <1>6 DEF IInv

LEMMA AskInv ==
  ASSUME IInv, Ask
  PROVE  IInv'
<1> USE DEF Ask
<1>0. Len(calls) \in 0..MaxCalls
  BY AnswersAreSequences DEF IInv, TypeOK
<1>1. outputs = FirstOutputs(Len(calls)) /\ iterations \in 1..(MaxIterations - 1)
  <2>1. position - 1 = Len(calls)
    BY <1>0, HoursRecoveryAssumption DEF IInv, TypeOK, LoopInv
  <2> QED
    BY <2>1 DEF IInv, LoopInv
<1>2. iterations' \in 2..MaxIterations
  BY <1>1, HoursRecoveryAssumption DEF NextIteration
<1>3. TypeOK'
  <2>1. iterations' \in 0..MaxIterations
    BY <1>2, HoursRecoveryAssumption
  <2> QED
    BY <2>1 DEF IInv, TypeOK
<1>4. RowsInv'
  BY DEF IInv, RowsInv
<1>5. LoopInv'
  BY <1>1, <1>2, HoursRecoveryAssumption DEF IInv, LoopInv, None
<1>6. MergeInv'
  BY DEF IInv, MergeInv
<1> QED
  BY <1>3, <1>4, <1>5, <1>6 DEF IInv

LEMMA FailInv ==
  ASSUME IInv, Fail
  PROVE  IInv'
BY DEF Fail, IInv, TypeOK, RowsInv, LoopInv, MergeInv

LEMMA StepInv == IInv /\ [Next]_vars => IInv'
<1> SUFFICES ASSUME IInv, [Next]_vars PROVE IInv'
  OBVIOUS
<1>1. CASE UNCHANGED vars
  BY <1>1 DEF vars, IInv, TypeOK, RowsInv, LoopInv, MergeInv, Merge, Derivation, FromAgent
<1>2. CASE Next
  BY <1>2, SearchInv, FlagInv, ModelAnswersInv, DispatchInv, AskInv, FailInv DEF Next, Proceed
<1> QED
  BY <1>1, <1>2

-----------------------------------------------------------------------------
(***************************************************************************)
(* The theorems.                                                           *)
(***************************************************************************)
\* The invariant the others follow from holds of every run.
THEOREM InvHolds == Spec => []IInv
BY InitInv, StepInv, PTL DEF Spec

\* Every variable keeps its type, the iterations their limit (run_task_hours_recovery_agent).
THEOREM TypeCorrect == Spec => []TypeOK
<1>1. IInv => TypeOK
  BY DEF IInv
<1> QED
  BY <1>1, InvHolds, PTL

\* However many calls an answer has and whichever of them raise, the model is asked again
\* with one output for each, and no run says it completed with calls pending.
THEOREM CallsAreAnsweredHolds == Spec => []CallsAreAnswered
<1>1. IInv => CallsAreAnswered
  BY DEF IInv, LoopInv, CallsAreAnswered, FirstOutputs
<1> QED
  BY <1>1, InvHolds, PTL

\* The merge (agent_estimate_task_hours) never takes hours away, whatever was derived.
THEOREM HoursAreNotLostHolds == Spec => []HoursAreNotLost
<1>1. IInv => HoursAreNotLost
  BY DEF IInv, MergeInv, HoursAreNotLost, Merge, FromAgent
<1> QED
  BY <1>1, InvHolds, PTL

\* Every row is the task's own search or a derivation of its own key that found hours, and
\* tasks that share a key share the derivation.
THEOREM RowsAreTheirTasksHolds == Spec => []RowsAreTheirTasks
<1>1. IInv => RowsAreTheirTasks
  <2> SUFFICES ASSUME IInv, stage = "done", NEW t \in Tasks
               PROVE  /\ result[t] = row[t] \/ (result[t].by = "agent" /\ Asked[t] \in derived)
                      /\ \A u \in Tasks :
                           Asked[t] = Asked[u] /\ result[t].by = "agent" => result[u] = result[t]
    BY DEF RowsAreTheirTasks
  <2>1. result = Merge /\ row[t] # NoRow /\ row[t].by = "search"
    BY DEF IInv, MergeInv, RowsInv
  <2>2. CASE Derivation(t) # None /\ HasHours(Derivation(t))
    <3>1. Asked[t] \in derived
      BY <2>2, TasksAsk DEF IInv, MergeInv, Derivation
    <3>2. \A u \in Tasks : Asked[u] = Asked[t] => Merge[u] = FromAgent(t)
      BY <2>2 DEF Merge, FromAgent, Derivation
    <3> QED
      BY <2>1, <3>1, <3>2 DEF FromAgent
  <2>3. CASE ~(Derivation(t) # None /\ HasHours(Derivation(t)))
    BY <2>1, <2>3 DEF Merge
  <2> QED
    BY <2>2, <2>3
<1> QED
  BY <1>1, InvHolds, PTL

-----------------------------------------------------------------------------
(***************************************************************************)
(* How many steps a run has left, at most: a search for each task that has *)
(* no row yet, and for each call to the model its answer, the tool calls   *)
(* of the answer and the sending of their outputs.                         *)
(***************************************************************************)
Unsearched == {t \in Tasks : row[t] = NoRow}
Round == MaxCalls + 2
RoundsAfter(n) == (MaxIterations - n) * Round
StepsLeft ==
  CASE stage = "searching" -> Cardinality(Unsearched) + 1 + RoundsAfter(0)
    [] stage = "asking" -> RoundsAfter(iterations) + Round
    [] stage = "dispatching" -> RoundsAfter(iterations) + (Len(calls) + 2 - position)
    [] OTHER -> 0

LEMMA RoundsType ==
  ASSUME NEW n \in 0..MaxIterations
  PROVE  /\ RoundsAfter(n) \in Nat /\ Round \in Nat /\ Round > 1
         /\ n < MaxIterations => RoundsAfter(n) = RoundsAfter(n + 1) + Round
<1>1. MaxIterations \in Nat /\ Round \in Nat /\ Round > 1 /\ n \in Nat /\ n <= MaxIterations
  BY HoursRecoveryAssumption DEF Round
<1>2. \A k, m \in Nat : k * m \in Nat /\ (k > 0 => k * m = (k - 1) * m + m)
  OBVIOUS
<1>3. MaxIterations - n \in Nat
  BY <1>1
<1>4. RoundsAfter(n) \in Nat
  BY <1>1, <1>2, <1>3 DEF RoundsAfter
<1>5. ASSUME n < MaxIterations
      PROVE  RoundsAfter(n) = RoundsAfter(n + 1) + Round
  <2>1. MaxIterations - n > 0 /\ (MaxIterations - n) - 1 = MaxIterations - (n + 1)
    BY <1>1, <1>5
  <2> QED
    BY <1>1, <1>2, <1>3, <2>1 DEF RoundsAfter
<1> QED
  BY <1>1, <1>4, <1>5

LEMMA UnsearchedIsFinite == IsFiniteSet(Unsearched) /\ Cardinality(Unsearched) \in Nat
<1>1. IsFiniteSet(Tasks)
  <2>1. Tasks = 1..Len(Asked) /\ Len(Asked) \in Nat
    BY HoursRecoveryAssumption DEF Tasks
  <2> QED
    BY <2>1, FS_Interval
<1>2. Unsearched \subseteq Tasks
  BY DEF Unsearched
<1> QED
  BY <1>1, <1>2, FS_Subset, FS_CardinalityType

LEMMA Ranges ==
  ASSUME IInv
  PROVE  /\ Len(calls) \in 0..MaxCalls /\ position \in Nat /\ MaxIterations \in Nat
         /\ iterations \in 0..MaxIterations
         /\ stage = "asking" => iterations > 0
         /\ stage = "dispatching" => position <= Len(calls) + 1 /\ position > 0
                                     /\ iterations \in 1..(MaxIterations - 1)
         /\ RoundsAfter(iterations) \in Nat /\ Round \in Nat
<1>1. Len(calls) \in 0..MaxCalls
  BY AnswersAreSequences DEF IInv, TypeOK
<1>2. position \in Nat /\ position > 0 /\ MaxIterations \in Nat
  BY HoursRecoveryAssumption DEF IInv, TypeOK
<1>3. iterations \in 0..MaxIterations
  BY DEF IInv, TypeOK
<1> QED
  BY <1>1, <1>2, <1>3, RoundsType DEF IInv, LoopInv

LEMMA StepsLeftType ==
  ASSUME IInv
  PROVE  StepsLeft \in Nat /\ (StepsLeft = 0 <=> stage \in {"done", "failed"})
<1>1. CASE stage = "searching"
  <2>1. StepsLeft = Cardinality(Unsearched) + 1 + RoundsAfter(0)
    BY <1>1 DEF StepsLeft
  <2>2. RoundsAfter(0) \in Nat
    BY RoundsType, HoursRecoveryAssumption
  <2> QED
    BY <1>1, <2>1, <2>2, UnsearchedIsFinite
<1>2. CASE stage = "asking"
  <2>1. StepsLeft = RoundsAfter(iterations) + Round
    BY <1>2 DEF StepsLeft
  <2> QED
    BY <1>2, <2>1, Ranges, RoundsType
<1>3. CASE stage = "dispatching"
  <2>1. StepsLeft = RoundsAfter(iterations) + (Len(calls) + 2 - position)
    BY <1>3 DEF StepsLeft
  <2>2. Len(calls) + 2 - position \in Nat /\ Len(calls) + 2 - position > 0
    BY <1>3, Ranges
  <2>3. RoundsAfter(iterations) \in Nat
    BY Ranges
  <2> QED
    BY <1>3, <2>1, <2>2, <2>3
<1>4. CASE stage \in {"done", "failed"}
  BY <1>4 DEF StepsLeft
<1> QED
  BY <1>1, <1>2, <1>3, <1>4 DEF IInv, TypeOK

\* Every step is one fewer, whatever the model answers.
LEMMA SearchCounts ==
  ASSUME IInv, NEW t \in Tasks, NEW finding \in Findings, Search(t, finding)
  PROVE  StepsLeft' < StepsLeft
<1>1. stage = "searching" /\ stage' = "searching" /\ t \in Unsearched
  BY DEF Search, Unsearched
<1>2. Unsearched' = Unsearched \ {t}
  <2>1. row \in [Tasks -> Rows \cup {NoRow}]
    BY DEF IInv, TypeOK
  <2>2. [finding |-> finding, by |-> "search"] # NoRow
    BY DEF NoRow
  <2> QED
    BY <2>1, <2>2 DEF Search, Unsearched
<1>3. Cardinality(Unsearched') = Cardinality(Unsearched) - 1
  BY <1>1, <1>2, UnsearchedIsFinite, FS_RemoveElement
<1>4. StepsLeft = Cardinality(Unsearched) + 1 + RoundsAfter(0)
      /\ StepsLeft' = Cardinality(Unsearched') + 1 + RoundsAfter(0)
  BY <1>1 DEF StepsLeft, RoundsAfter, Round
<1>5. RoundsAfter(0) \in Nat
  BY RoundsType, HoursRecoveryAssumption
<1> QED
  BY <1>3, <1>4, <1>5, UnsearchedIsFinite

LEMMA FlagCounts ==
  ASSUME IInv, Flag
  PROVE  StepsLeft' < StepsLeft
<1>1. stage = "searching" /\ StepsLeft = Cardinality(Unsearched) + 1 + RoundsAfter(0)
  BY DEF Flag, StepsLeft
<1>2. /\ RoundsAfter(0) \in Nat /\ RoundsAfter(0) = RoundsAfter(1) + Round
      /\ RoundsAfter(1) \in Nat /\ Round \in Nat
  BY RoundsType, HoursRecoveryAssumption
<1>3. CASE stage' = "done"
  <2>1. StepsLeft' = 0
    BY <1>3 DEF StepsLeft
  <2> QED
    BY <1>1, <1>2, <2>1, UnsearchedIsFinite
<1>4. CASE stage' = "asking" /\ iterations' = 1
  <2>1. StepsLeft' = RoundsAfter(1) + Round
    BY <1>4 DEF StepsLeft, RoundsAfter, Round
  <2> QED
    BY <1>1, <1>2, <2>1, UnsearchedIsFinite
<1> QED
  BY <1>3, <1>4 DEF Flag

LEMMA ModelAnswersCounts ==
  ASSUME IInv, NEW given \in Answers, ModelAnswers(given)
  PROVE  StepsLeft' < StepsLeft
<1>1. stage = "asking" /\ StepsLeft = RoundsAfter(iterations) + Round
  BY DEF ModelAnswers, StepsLeft
<1>2. RoundsAfter(iterations) \in Nat /\ Round = MaxCalls + 2 /\ MaxCalls \in Nat
  BY Ranges, HoursRecoveryAssumption DEF Round
<1>3. CASE stage' = "done"
  <2>1. StepsLeft' = 0
    BY <1>3 DEF StepsLeft
  <2> QED
    BY <1>1, <1>2, <2>1
<1>4. CASE stage' = "dispatching" /\ position' = 1
  <2>1. StepsLeft' = RoundsAfter(iterations) + (Len(given) + 2 - 1)
    BY <1>4 DEF StepsLeft, ModelAnswers, RoundsAfter, Round
  <2>2. Len(given) \in 0..MaxCalls
    BY AnswersAreSequences
  <2> QED
    BY <1>1, <1>2, <2>1, <2>2
<1> QED
  BY <1>3, <1>4 DEF ModelAnswers, Stop

LEMMA DispatchCounts ==
  ASSUME IInv, Dispatch
  PROVE  StepsLeft' < StepsLeft
<1>1. /\ StepsLeft = RoundsAfter(iterations) + (Len(calls) + 2 - position)
      /\ StepsLeft' = RoundsAfter(iterations) + (Len(calls) + 2 - (position + 1))
  BY DEF Dispatch, StepsLeft, RoundsAfter, Round
<1> QED
  BY <1>1, Ranges

LEMMA AskCounts ==
  ASSUME IInv, Ask
  PROVE  StepsLeft' < StepsLeft
<1>1. /\ stage = "dispatching" /\ position > Len(calls)
      /\ StepsLeft = RoundsAfter(iterations) + (Len(calls) + 2 - position)
      /\ StepsLeft' = RoundsAfter(iterations + 1) + Round
  BY DEF Ask, NextIteration, StepsLeft, RoundsAfter, Round
<1>2. Len(calls) \in Nat /\ position = Len(calls) + 1 /\ iterations \in 1..(MaxIterations - 1)
  BY <1>1, Ranges
<1>3. RoundsAfter(iterations) = RoundsAfter(iterations + 1) + Round
  BY <1>2, Ranges, RoundsType
<1>4. Len(calls) + 2 - position = 1
  BY <1>2
<1> QED
  BY <1>1, <1>3, <1>4, Ranges

LEMMA FailCounts ==
  ASSUME IInv, Fail
  PROVE  StepsLeft' < StepsLeft
<1>1. StepsLeft' = 0 /\ StepsLeft \in Nat /\ StepsLeft # 0
  BY StepsLeftType DEF Fail, StepsLeft
<1> QED
  BY <1>1

\* The run is bounded (run_task_hours_recovery_agent's max_iterations): of the steps it can
\* take at first, a number fixed by the request and the limits, each step leaves fewer,
\* whatever the model answers and whatever fails; none are left once it is over, and only
\* then.
RunIsBounded ==
  /\ StepsLeft = Len(Asked) + 1 + MaxIterations * (MaxCalls + 2)
  /\ [](StepsLeft \in Nat /\ (StepsLeft = 0 <=> stage \in {"done", "failed"}))
  /\ [][StepsLeft' < StepsLeft]_vars
THEOREM RunIsBoundedHolds == Spec => RunIsBounded
<1>1. Init => StepsLeft = Len(Asked) + 1 + MaxIterations * (MaxCalls + 2)
  <2> SUFFICES ASSUME Init
               PROVE  StepsLeft = Len(Asked) + 1 + MaxIterations * (MaxCalls + 2)
    OBVIOUS
  <2>1. StepsLeft = Cardinality(Unsearched) + 1 + RoundsAfter(0)
    BY DEF Init, StepsLeft
  <2>2. Unsearched = 1..Len(Asked) /\ Len(Asked) \in Nat
    BY HoursRecoveryAssumption DEF Init, Unsearched, Tasks
  <2>3. Cardinality(Unsearched) = Len(Asked)
    <3>1. \A n \in Nat : Cardinality(1..n) = n
      BY FS_Interval
    <3> QED
      BY <2>2, <3>1
  <2>4. RoundsAfter(0) = MaxIterations * (MaxCalls + 2)
    BY HoursRecoveryAssumption DEF RoundsAfter, Round
  <2> QED
    BY <2>1, <2>3, <2>4
<1>2. IInv => StepsLeft \in Nat /\ (StepsLeft = 0 <=> stage \in {"done", "failed"})
  BY StepsLeftType
<1>3. IInv /\ [Next]_vars => [StepsLeft' < StepsLeft]_vars
  BY SearchCounts, FlagCounts, ModelAnswersCounts, DispatchCounts, AskCounts, FailCounts
     DEF Next, Proceed
<1> QED
  BY <1>1, <1>2, <1>3, InvHolds, PTL DEF Spec, RunIsBounded
=============================================================================
