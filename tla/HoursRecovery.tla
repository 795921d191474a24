---------------------------- MODULE HoursRecovery ---------------------------
(***************************************************************************)
(* The hours of a list of tasks (src/src/domain/agent_estimation.py): one  *)
(* search per task, all at once, then the agent loop (src/src/generation/  *)
(* agentic/agent_loop.py) over the tasks the searches left doubtful.  The  *)
(* model is an actor of its own: it answers each call with the tool calls  *)
(* it likes, names any task and writes any neighbours.                     *)
(***************************************************************************)
EXTENDS Naturals, Sequences

CONSTANTS
  Keys,              \* (module, task) pairs the model may name
  Asked,             \* the key of each task of the request, in its order
  HasClient,         \* there is a client for the model
  MaxIterations,     \* calls to the model
  MaxCalls           \* bound: tool calls in one answer of the model

ASSUME HoursRecoveryAssumption ==
  /\ Asked \in Seq(Keys)
  /\ HasClient \in BOOLEAN
  /\ MaxIterations \in Nat \ {0} /\ MaxCalls \in Nat

Tasks == DOMAIN Asked

\* What is known of a task: nothing under the threshold, or hours, which contradict
\* each other or are unreliable, or not.
Findings == {"nothing", "doubtful", "sound"}
HasHours(finding) == finding # "nothing"

\* A row of hours, and where it comes from.
Rows == [finding : Findings, by : {"search", "agent"}]
NoRow == [none |-> "row"]

\* A tool call: one that returns what the model reads, one that raises (arguments, an
\* unknown tool, its search), a derivation, which finds nothing without neighbours.
Calls ==
  [tool : {"search_budgets, validate_estimate", "raises"}]
  \cup [tool : {"derive_task_hours"}, key : Keys, finding : Findings]
Answers == UNION {[1..n -> Calls] : n \in 0..MaxCalls}

VARIABLES
  stage,             \* searching, asking, dispatching, done, failed
  row,               \* what the search of each task found
  iterations,        \* calls made to the model
  calls, position,   \* the tool calls of its last answer, and the next one to run
  outputs,           \* the outputs to send for them, by the position of the call
  derivations,       \* the finding derived for each key, or None
  stoppedReason,
  result,            \* the rows answered
  derived            \* history variable: the keys hours were derived for

vars == <<stage, row, iterations, calls, position, outputs, derivations, stoppedReason, result,
          derived>>

None == "none"

Init ==
  /\ stage = "searching"
  /\ row = [t \in Tasks |-> NoRow]
  /\ iterations = 0
  /\ calls = <<>> /\ position = 1 /\ outputs = <<>>
  /\ derivations = [k \in Keys |-> None]
  /\ stoppedReason = None
  /\ result = <<>>
  /\ derived = {}

-----------------------------------------------------------------------------
\* One search of estimate_all ends.
Search(t, finding) ==
  /\ stage = "searching" /\ row[t] = NoRow
  /\ row' = [row EXCEPT ![t] = [finding |-> finding, by |-> "search"]]
  /\ UNCHANGED <<stage, iterations, calls, position, outputs, derivations, stoppedReason, result,
                 derived>>

\* flag_reason: no match, a range, or a low reliability.
Flagged == {t \in Tasks : row[t].finding # "sound"}

\* The merge: a row whose key has a derivation with hours takes them.
Derivation(t) == derivations[Asked[t]]
FromAgent(t) == [finding |-> Derivation(t), by |-> "agent"]
MergeAll ==
  [t \in Tasks |-> IF Derivation(t) # None THEN FromAgent(t) ELSE row[t]]
MergeFirst ==
  [t \in Tasks |->
     IF /\ Derivation(t) # None /\ HasHours(Derivation(t))
        /\ \A u \in Tasks : Asked[u] = Asked[t] => t <= u
     THEN FromAgent(t) ELSE row[t]]
Merge ==
  [t \in Tasks |->
     IF Derivation(t) # None /\ HasHours(Derivation(t)) THEN FromAgent(t) ELSE row[t]]

\* The searches are back: the first call to the model, or the rows as they are.
Flag ==
  /\ stage = "searching" /\ \A t \in Tasks : row[t] # NoRow
  /\ IF Flagged = {} \/ ~HasClient
     THEN stage' = "done" /\ result' = row /\ UNCHANGED iterations
     ELSE stage' = "asking" /\ iterations' = 1 /\ UNCHANGED result
  /\ UNCHANGED <<row, calls, position, outputs, derivations, stoppedReason, derived>>

Stop(reason) ==
  /\ stage' = "done"
  /\ stoppedReason' = reason
  /\ result' = Merge
  /\ UNCHANGED <<position, outputs>>

\* The model answers.  No tool call ends the run; at the limit, the calls are not run.
AtLimitLate == iterations > MaxIterations
AtLimit == iterations >= MaxIterations
ModelAnswers(answer) ==
  /\ stage = "asking"
  /\ calls' = answer
  /\ \/ answer = <<>> /\ Stop("completed")
     \/ answer # <<>> /\ AtLimit /\ Stop("max_iterations")
     \/ /\ answer # <<>> /\ ~AtLimit
        /\ stage' = "dispatching"
        /\ position' = 1 /\ outputs' = <<>>
        /\ UNCHANGED <<stoppedReason, result>>
  /\ UNCHANGED <<row, iterations, derivations, derived>>

\* The next call is run and its output kept, an error too; a derivation is recorded,
\* one that found nothing too.
Call == calls[position]
OutputOfSuccess == IF Call.tool = "raises" THEN <<>> ELSE <<position>>
Output == <<position>>
Dispatch ==
  /\ stage = "dispatching" /\ position <= Len(calls)
  /\ position' = position + 1
  /\ outputs' = outputs \o Output
  /\ IF Call.tool = "derive_task_hours"
     THEN /\ derivations' = [derivations EXCEPT ![Call.key] = Call.finding]
          /\ derived' = IF HasHours(Call.finding) THEN derived \cup {Call.key} ELSE derived
     ELSE UNCHANGED <<derivations, derived>>
  /\ UNCHANGED <<stage, row, iterations, calls, stoppedReason, result>>

\* The outputs are sent: the next call to the model.
NextIterationSame == iterations
NextIteration == iterations + 1
Ask ==
  /\ stage = "dispatching" /\ position > Len(calls)
  /\ stage' = "asking"
  /\ iterations' = NextIteration
  /\ UNCHANGED <<row, calls, position, outputs, derivations, stoppedReason, result, derived>>

\* A search raises, or a call to the model, or the bookkeeping around a tool call (a
\* call whose arguments are no object): 502, and none of the rows is answered.
Fail ==
  /\ stage \in {"searching", "asking", "dispatching"}
  /\ stage' = "failed"
  /\ UNCHANGED <<row, iterations, calls, position, outputs, derivations, stoppedReason, result,
                 derived>>

Proceed ==
  \/ \E t \in Tasks, finding \in Findings : Search(t, finding)
  \/ Flag
  \/ \E answer \in Answers : ModelAnswers(answer)
  \/ Dispatch
  \/ Ask

Next == Proceed \/ Fail

Spec == Init /\ [][Next]_vars
FairSpec == Spec /\ WF_vars(Proceed)

-----------------------------------------------------------------------------
\* The type of every variable.
TypeOK ==
  /\ stage \in {"searching", "asking", "dispatching", "done", "failed"}
  /\ row \in [Tasks -> Rows \cup {NoRow}]
  /\ iterations \in 0..MaxIterations
  /\ calls \in Answers /\ position \in 1..(MaxCalls + 1)
  /\ outputs \in UNION {[1..n -> 1..MaxCalls] : n \in 0..MaxCalls}
  /\ derivations \in [Keys -> Findings \cup {None}]
  /\ stoppedReason \in {None, "completed", "max_iterations"}
  /\ result \in {<<>>} \cup [Tasks -> Rows]
  /\ derived \subseteq Keys

\* No call of the model is left in the air.  Whenever it is asked again it is sent one output
\* for each call of its last answer, in their order, whichever of them raised
\* (function_call_output).  A run that says it completed has none pending; one cut off has
\* used all its iterations.
CallsAreAnswered ==
  /\ stage = "asking" /\ iterations > 1 => outputs = [i \in 1..Len(calls) |-> i]
  /\ stoppedReason = "completed" => calls = <<>>
  /\ stoppedReason = "max_iterations" => iterations = MaxIterations /\ calls # <<>>

\* Recovery never takes the hours of a task away, whatever the model derives.
HoursAreNotLost ==
  stage = "done" => \A t \in Tasks : HasHours(row[t].finding) => HasHours(result[t].finding)

\* The answer has the row of each task, from its own search or a derivation of its own key
\* that found hours; tasks with one key take the same derivation.
RowsAreTheirTasks ==
  stage = "done" =>
    \A t \in Tasks :
      /\ result[t] = row[t] \/ (result[t].by = "agent" /\ Asked[t] \in derived)
      /\ \A u \in Tasks :
           Asked[t] = Asked[u] /\ result[t].by = "agent" => result[u] = result[t]

\* The loop ends, although the model may go on calling tools for ever.
RunEnds == <>(stage \in {"done", "failed"})
====
