-------------------------- MODULE SupervisorProofs --------------------------
(***************************************************************************)
(* Theorems about Supervisor, for every value of its constants.  The       *)
(* invariants are proved in layers: the types; then the order in which     *)
(* agents are dispatched; then, on top of both, what an unattended         *)
(* estimate and a stored estimate satisfy.                                 *)
(***************************************************************************)
EXTENDS Supervisor, FiniteSetTheorems, TLAPS

USE SupervisorAssumption

(***************************************************************************)
(* The legality guard and the routing step.                                *)
(***************************************************************************)
LEMMA OrderedAgents ==
  /\ Agents = {"requirements_extractor", "budget_searcher",
               "estimate_generator", "coherence_validator"}
  /\ \A i \in 1..4 : Order[i] \in Agents
BY DEF Agents, Order

\* The deterministic fallback of the router obeys the guard it falls back from.
LEMMA FallbackIsLegal == FallbackNext \in Targets /\ IsLegal(FallbackNext)
<1>1. CASE \A agent \in Agents : ~IsLegal(agent)
  BY <1>1 DEF FallbackNext, Targets, IsLegal
<1>2. CASE \E agent \in Agents : IsLegal(agent)
  <2> DEFINE First(i) == IsLegal(Order[i]) /\ \A j \in 1..4 : j < i => ~IsLegal(Order[j])
  <2>1. \E i \in 1..4 : First(i)
    <3>1. \E i \in 1..4 : IsLegal(Order[i])
      BY <1>2 DEF Agents
    <3>2. CASE IsLegal(Order[1])
      BY <3>2
    <3>3. CASE ~IsLegal(Order[1]) /\ IsLegal(Order[2])
      BY <3>3
    <3>4. CASE ~IsLegal(Order[1]) /\ ~IsLegal(Order[2]) /\ IsLegal(Order[3])
      BY <3>4
    <3>5. CASE ~IsLegal(Order[1]) /\ ~IsLegal(Order[2]) /\ ~IsLegal(Order[3])
      BY <3>1, <3>5
    <3>6. QED BY <3>2, <3>3, <3>4, <3>5
  <2>2. PICK i \in 1..4 : First(i) /\ FallbackNext = Order[i]
    BY <1>2, <2>1 DEF FallbackNext
  <2>3. QED BY <2>2, OrderedAgents DEF Targets
<1>3. QED BY <1>1, <1>2

\* Whatever the router's LLM answers, and at the limit, the supervisor dispatches
\* a legal target, and past the limit only "finish".
Routing == RouteAtLimit \/ \E answer \in RouterAnswers : Route(answer)

LegalDispatch(target) ==
  /\ At("supervisor")
  /\ IsLegal(target)
  /\ steps < MaxSteps \/ target = "finish"
  /\ Dispatch(target)

LEMMA RoutingIsLegal ==
  ASSUME Routing
  PROVE  \E target \in Targets : LegalDispatch(target)
<1>1. CASE RouteAtLimit
  BY <1>1 DEF RouteAtLimit, LegalDispatch, IsLegal, Targets
<1>2. CASE \E answer \in RouterAnswers : Route(answer)
  <2>1. PICK answer \in RouterAnswers : Route(answer)
    BY <1>2
  <2>2. CASE answer # "error" /\ IsLegal(answer)
    BY <2>1, <2>2 DEF Route, LegalDispatch, RouterAnswers, Targets
  <2>3. CASE ~(answer # "error" /\ IsLegal(answer))
    BY <2>1, <2>3, FallbackIsLegal DEF Route, LegalDispatch
  <2>4. QED BY <2>2, <2>3
<1>3. QED BY <1>1, <1>2 DEF Routing

\* One row is added to the trail, under a new key.
LEMMA TrailGrowsByOne ==
  ASSUME TypeOK, NEW target \in Targets, Dispatch(target)
  PROVE  /\ steps' = steps + 1 /\ steps' \in Nat
         /\ history' \in [0..(steps' - 1) -> Targets]
         /\ DOMAIN history = 0..(steps - 1) /\ DOMAIN history' = 0..steps
         /\ history'[steps] = target
         /\ \A s \in DOMAIN history : s \in DOMAIN history' /\ history'[s] = history[s]
         /\ \A a : AlreadyRan(a)' <=> AlreadyRan(a) \/ a = target
<1>1. steps' = steps + 1 /\ steps' \in Nat /\ DOMAIN history = 0..(steps - 1)
  BY DEF TypeOK, Dispatch
<1>2. history' = KeyedPut(history, steps, target)
  BY DEF Dispatch
<1>3. DOMAIN history \cup {steps} = 0..steps
  BY <1>1 DEF TypeOK
<1>4. history' = [k \in 0..steps |-> IF k = steps THEN target ELSE history[k]]
  BY <1>2, <1>3 DEF KeyedPut
<1>5. \A k \in 0..(steps - 1) : history[k] \in Targets
  BY DEF TypeOK
<1>6. history' \in [0..(steps' - 1) -> Targets]
  <2>1. steps' - 1 = steps
    BY <1>1 DEF TypeOK
  <2>2. \A k \in 0..steps : k = steps \/ k \in 0..(steps - 1)
    BY <1>1 DEF TypeOK
  <2>3. QED BY <2>1, <2>2, <1>4, <1>5
<1>7. history'[steps] = target /\ DOMAIN history' = 0..steps
  BY <1>4 DEF TypeOK
<1>8. \A s \in DOMAIN history : s \in DOMAIN history' /\ history'[s] = history[s]
  BY <1>1, <1>4 DEF TypeOK
<1>9. \A a : AlreadyRan(a)' <=> AlreadyRan(a) \/ a = target
  <2>1. \A s \in DOMAIN history' : s \in DOMAIN history \/ s = steps
    BY <1>1, <1>7 DEF TypeOK
  <2>2. steps \in DOMAIN history'
    BY <1>7 DEF TypeOK
  <2>3. QED BY <2>1, <2>2, <1>7, <1>8 DEF AlreadyRan
<1>10. QED BY <1>1, <1>6, <1>7, <1>8, <1>9

(***************************************************************************)
(* Types.  The validator reads the estimate's fields, so the type of its   *)
(* verdict rests on the router never dispatching it without an estimate.   *)
(***************************************************************************)
ValidatorHasEstimate == next = "coherence_validator" => estimate # NoEstimate
Typing == TypeOK /\ ValidatorHasEstimate

LEMMA CountsAreNat == \A S \in SUBSET Components : Cardinality(S) \in Nat
BY FS_Subset, FS_CardinalityType

LEMMA ProductIsNat == \A m, n \in Nat : m * n \in Nat
OBVIOUS

LEMMA FactsType ==
  ASSUME NEW e \in Estimates, NEW refs \in SUBSET Components, NEW cut \in Nat
  PROVE  FactsOf(e, refs, cut) \in Fact
<1> DEFINE weight == IF e.lines = {} THEN 1 ELSE Cardinality(e.lines)
           score  == e.level * Grounded(e, refs) - (Issues(e, refs) + cut) * weight
<1>1. /\ e.lines \in SUBSET Components /\ e.wild \in SUBSET Components
      /\ e.level \in Nat /\ e.totals \in Nat
  BY DEF Estimates
<1>2. weight \in Nat
  BY <1>1, CountsAreNat
<1>3. Grounded(e, refs) \in Nat
  <2>1. e.lines \cap refs \in SUBSET Components
    BY <1>1
  <2>2. QED BY <2>1, CountsAreNat DEF Grounded
<1>4. Issues(e, refs) \in Nat
  <2>1. e.lines \ refs \in SUBSET Components /\ e.wild \cap refs \in SUBSET Components
    BY <1>1
  <2>2. Cardinality(e.lines \ refs) \in Nat /\ Cardinality(e.wild \cap refs) \in Nat
    BY <2>1, CountsAreNat
  <2>3. QED BY <2>2, <1>1 DEF Issues
<1>5. score \in Int
  <2>1. e.level * Grounded(e, refs) \in Nat
    BY <1>1, <1>3, ProductIsNat
  <2>2. Issues(e, refs) + cut \in Nat
    BY <1>4
  <2>3. (Issues(e, refs) + cut) * weight \in Nat
    BY <2>2, <1>2, ProductIsNat
  <2>4. QED BY <2>1, <2>3
<1>6. (IF score < 0 THEN 0 ELSE score) \in Nat
  BY <1>5
<1>7. Confidence(e, refs, cut) = [score |-> IF score < 0 THEN 0 ELSE score, weight |-> weight]
  BY DEF Confidence
<1> HIDE DEF weight, score
<1>8. QED BY <1>2, <1>3, <1>6, <1>7 DEF FactsOf, Fact

LEMMA TypingInit == Init => Typing
<1> SUFFICES ASSUME Init PROVE Typing
  OBVIOUS
<1>1. history \in [0..(steps - 1) -> Targets]
  BY DEF Init
<1>2. mode = "idle" /\ next = "END" /\ sandboxed \in BOOLEAN /\ transcript \in BOOLEAN
  BY DEF Init
<1>3. steps \in Nat /\ runs \in 0..MaxRuns
  BY SMT DEF Init
<1>4. /\ components \subseteq Components /\ matched \subseteq Components
      /\ estimate \in Estimates \cup {NoEstimate} /\ penalty \in Nat
      /\ facts \in Fact \cup {NoFacts} /\ store \in Estimates \cup {NoEstimate}
  BY DEF Init
<1>5. QED BY <1>1, <1>2, <1>3, <1>4 DEF Init, Typing, TypeOK, ValidatorHasEstimate, Nodes

LEMMA TypingNext == Typing /\ [Next]_vars => Typing'
<1> SUFFICES ASSUME Typing, [Next]_vars PROVE Typing'
  OBVIOUS
<1> USE DEF Typing
<1>1. ASSUME NEW text \in BOOLEAN, NEW sandbox \in Sandboxing, Invoke(text, sandbox)
      PROVE  Typing'
  BY <1>1 DEF Invoke, TypeOK, ValidatorHasEstimate, Nodes, routing, work, verdict, sink
<1>2. CASE Routing
  <2>1. PICK target \in Targets : LegalDispatch(target)
    BY <1>2, RoutingIsLegal
  <2>2. history' \in [0..(steps' - 1) -> Targets] /\ steps' \in Nat
    BY <2>1, TrailGrowsByOne DEF LegalDispatch
  <2>3. TypeOK'
    BY <2>1, <2>2 DEF LegalDispatch, Dispatch, Goto, TypeOK, Targets, Nodes,
                      work, verdict, review, sink
  <2>4. ValidatorHasEstimate'
    BY <2>1 DEF LegalDispatch, Dispatch, Goto, IsLegal, InputsReady, ValidatorHasEstimate, work
  <2>5. QED BY <2>3, <2>4
<1>3. ASSUME NEW names \in SUBSET Components, ExtractRequirements(names)
      PROVE  Typing'
  BY <1>3 DEF ExtractRequirements, Goto, TypeOK, ValidatorHasEstimate, Nodes,
              routing, verdict, review, sink
<1>4. ASSUME NEW found \in SUBSET Components, SearchBudgets(found)
      PROVE  Typing'
  BY <1>4 DEF SearchBudgets, Goto, TypeOK, ValidatorHasEstimate, Nodes,
              routing, verdict, review, sink
<1>5. ASSUME NEW draft \in Estimates, NEW cut \in Penalties, GenerateEstimate(draft, cut)
      PROVE  Typing'
  BY <1>5 DEF GenerateEstimate, Goto, TypeOK, ValidatorHasEstimate, Nodes,
              routing, verdict, review, sink
<1>6. CASE AgentRaises
  BY <1>6 DEF AgentRaises, TypeOK, ValidatorHasEstimate, routing, work, verdict, review, sink
<1>7. CASE ValidateCoherence
  <2>1. facts' \in Fact
    BY <1>7, FactsType DEF ValidateCoherence, At, TypeOK, ValidatorHasEstimate
  <2>2. QED BY <1>7, <2>1 DEF ValidateCoherence, Goto, TypeOK, ValidatorHasEstimate, Nodes,
                              routing, work, review, sink
<1>8. CASE PassGate
  BY <1>8 DEF PassGate, AfterGate, Goto, TypeOK, ValidatorHasEstimate, Nodes,
              routing, work, verdict, sink
<1>9. CASE Pause
  BY <1>9 DEF Pause, TypeOK, ValidatorHasEstimate, routing, work, verdict, review, sink
<1>10. ASSUME NEW action \in Actions, Resume(action)
       PROVE  Typing'
  BY <1>10 DEF Resume, ReviewReasons, AfterGate, Goto, TypeOK, ValidatorHasEstimate, Nodes,
               routing, sink
<1>11. CASE ExecuteGuarded
  BY <1>11 DEF ExecuteGuarded, GuardAction, Goto, TypeOK, ValidatorHasEstimate, Nodes,
               routing, work, verdict, review
<1>12. CASE Crash
  BY <1>12 DEF Crash, TypeOK, ValidatorHasEstimate, routing, work, verdict, review
<1>13. CASE UNCHANGED vars
  BY <1>13 DEF vars, control, routing, work, verdict, review, sink, TypeOK, ValidatorHasEstimate
<1>14. QED
  BY <1>1, <1>2, <1>3, <1>4, <1>5, <1>6, <1>7, <1>8, <1>9, <1>10, <1>11, <1>12, <1>13
     DEF Next, Step, Routing

LEMMA TypingInvariant == Spec => []Typing
<1>1. QED BY TypingInit, TypingNext, PTL DEF Spec

\* Every variable keeps its type, for any sets of components and estimates and any
\* number of runs: the validator never meets a thread without an estimate.
THEOREM TypeCorrect == Spec => []TypeOK
<1>1. Typing => TypeOK
  BY DEF Typing
<1>2. QED BY <1>1, TypingInvariant, PTL

(***************************************************************************)
(* The order of dispatches.  DispatchOrder speaks of the trail; what makes *)
(* it inductive ties each channel an agent reads to the dispatch of the    *)
(* agent that fills it.                                                    *)
(***************************************************************************)
InFlight == Agents \cup {"supervisor"}

OrderInv ==
  /\ next \in Agents => AlreadyRan(next)
  /\ components # {} => AlreadyRan("requirements_extractor")
  /\ runs = 0 => estimate = NoEstimate /\ DOMAIN history = {}
  /\ next # "END" => runs > 0
  /\ (runs = 1 /\ next \in InFlight /\ estimate # NoEstimate) => AlreadyRan("estimate_generator")
  /\ DispatchOrder

LEMMA OrderInit == Init => OrderInv
BY OrderedAgents DEF Init, OrderInv, DispatchOrder, InFlight

\* Steps other than a routing step leave the trail alone.
LEMMA TrailKept ==
  ASSUME UNCHANGED history
  PROVE  \A a : AlreadyRan(a)' <=> AlreadyRan(a)
BY DEF AlreadyRan

LEMMA OrderKept ==
  ASSUME UNCHANGED history, DispatchOrder, runs' = runs \/ runs' # 1
  PROVE  DispatchOrder'
BY DEF DispatchOrder

LEMMA OrderRouting ==
  ASSUME TypeOK, OrderInv, NEW target \in Targets, LegalDispatch(target)
  PROVE  OrderInv'
<1> DEFINE Before(s, a) == \E t \in DOMAIN history : t < s /\ history[t] = a
<1> DEFINE BeforeP(s, a) == \E t \in DOMAIN history' : t < s /\ history'[t] = a
<1>1. /\ DOMAIN history = 0..(steps - 1) /\ DOMAIN history' = 0..steps
      /\ history'[steps] = target
      /\ \A s \in DOMAIN history : s \in DOMAIN history' /\ history'[s] = history[s]
      /\ \A a : AlreadyRan(a)' <=> AlreadyRan(a) \/ a = target
  BY TrailGrowsByOne DEF LegalDispatch
<1>2. /\ next = "supervisor" /\ next' = IF target = "finish" THEN "human_review_gate" ELSE target
      /\ UNCHANGED <<runs, components, matched, estimate, penalty>>
  BY DEF LegalDispatch, At, Dispatch, Goto, work
<1>3. target \in Agents => InputsReady(target) /\ ~AlreadyRan(target)
  BY OrderedAgents DEF LegalDispatch, IsLegal
<1>4. \A a : AlreadyRan(a) => BeforeP(steps, a)
  BY <1>1 DEF AlreadyRan, TypeOK
<1>5. \A a, s : s \in DOMAIN history => (BeforeP(s, a) <=> Before(s, a))
  BY <1>1 DEF TypeOK
<1>6. ASSUME NEW s \in DOMAIN history', NEW a, a = history'[s]
      PROVE  /\ a \in Agents => ~BeforeP(s, a)
             /\ a = "budget_searcher" => BeforeP(s, "requirements_extractor")
             /\ a = "estimate_generator" => BeforeP(s, "budget_searcher")
             /\ a = "coherence_validator" /\ runs' = 1 => BeforeP(s, "estimate_generator")
  <2>1. CASE s = steps
    <3>1. a = target
      BY <1>1, <1>6, <2>1
    <3>2. a \in Agents => ~BeforeP(s, a)
      BY <1>1, <1>3, <2>1, <3>1 DEF AlreadyRan, TypeOK
    <3>3. a = "budget_searcher" => AlreadyRan("requirements_extractor")
      BY <1>3, <3>1, OrderedAgents DEF InputsReady, OrderInv
    <3>4. a = "estimate_generator" => AlreadyRan("budget_searcher")
      BY <1>3, <3>1, OrderedAgents DEF InputsReady
    <3>5. a = "coherence_validator" /\ runs' = 1 => AlreadyRan("estimate_generator")
      BY <1>2, <1>3, <3>1, OrderedAgents DEF InputsReady, OrderInv, InFlight
    <3>6. QED BY <2>1, <3>2, <3>3, <3>4, <3>5, <1>4
  <2>2. CASE s \in DOMAIN history
    <3>1. a = history[s]
      BY <1>1, <1>6, <2>2
    <3>2. /\ a \in Agents => ~Before(s, a)
          /\ a = "budget_searcher" => Before(s, "requirements_extractor")
          /\ a = "estimate_generator" => Before(s, "budget_searcher")
          /\ a = "coherence_validator" /\ runs' = 1 => Before(s, "estimate_generator")
      BY <1>2, <2>2, <3>1 DEF OrderInv, DispatchOrder
    <3>3. QED BY <2>2, <3>2, <1>5
  <2>3. QED BY <1>1, <2>1, <2>2 DEF TypeOK
<1>7. DispatchOrder'
  BY <1>6 DEF DispatchOrder
<1>8. target \notin Agents => target = "finish"
  BY DEF Targets
<1>9. QED
  BY <1>1, <1>2, <1>7, <1>8, OrderedAgents DEF OrderInv, InFlight

LEMMA OrderNext == Typing /\ OrderInv /\ [Next]_vars => OrderInv'
<1> SUFFICES ASSUME Typing, OrderInv, [Next]_vars PROVE OrderInv'
  OBVIOUS
<1> USE OrderedAgents DEF OrderInv
<1>1. ASSUME NEW text \in BOOLEAN, NEW sandbox \in Sandboxing, Invoke(text, sandbox)
      PROVE  OrderInv'
  <2>1. UNCHANGED <<history, components, estimate>> /\ runs' = runs + 1 /\ next' = "supervisor"
    BY <1>1 DEF Invoke, routing, work
  <2>2. runs \in Nat
    BY DEF Typing, TypeOK
  <2>3. DispatchOrder'
    <3>1. CASE runs = 0
      BY <3>1, <2>1 DEF DispatchOrder
    <3>2. CASE runs # 0
      BY <3>2, <2>1, <2>2, OrderKept
    <3>3. QED BY <3>1, <3>2
  <2>4. QED BY <2>1, <2>2, <2>3, TrailKept
<1>2. CASE Routing
  BY <1>2, RoutingIsLegal, OrderRouting DEF Typing
<1>3. ASSUME NEW names \in SUBSET Components, ExtractRequirements(names)
      PROVE  OrderInv'
  <2>1. /\ UNCHANGED <<history, runs, estimate>>
        /\ next = "requirements_extractor" /\ next' = "supervisor"
    BY <1>3 DEF ExtractRequirements, At, Goto, routing
  <2>2. QED BY <2>1, TrailKept, OrderKept DEF InFlight
<1>4. ASSUME NEW found \in SUBSET Components, SearchBudgets(found)
      PROVE  OrderInv'
  <2>1. /\ UNCHANGED <<history, runs, components, estimate>>
        /\ next = "budget_searcher" /\ next' = "supervisor"
    BY <1>4 DEF SearchBudgets, At, Goto, routing
  <2>2. QED BY <2>1, TrailKept, OrderKept DEF InFlight
<1>5. ASSUME NEW draft \in Estimates, NEW cut \in Penalties, GenerateEstimate(draft, cut)
      PROVE  OrderInv'
  <2>1. /\ UNCHANGED <<history, runs, components>>
        /\ next = "estimate_generator" /\ next' = "supervisor"
    BY <1>5 DEF GenerateEstimate, At, Goto, routing
  <2>2. QED BY <2>1, TrailKept, OrderKept DEF InFlight, Typing, TypeOK
<1>6. CASE AgentRaises
  BY <1>6, TrailKept, OrderKept DEF AgentRaises, routing, work
<1>7. CASE ValidateCoherence
  <2>1. /\ UNCHANGED <<history, runs, components, estimate>>
        /\ next = "coherence_validator" /\ next' = "supervisor"
    BY <1>7 DEF ValidateCoherence, At, Goto, routing, work
  <2>2. QED BY <2>1, TrailKept, OrderKept DEF InFlight
<1>8. CASE PassGate
  <2>1. /\ UNCHANGED <<history, runs, components, estimate>>
        /\ next = "human_review_gate" /\ next' \in {"persistence_agent", "END"}
    BY <1>8 DEF PassGate, AfterGate, At, Goto, routing, work
  <2>2. QED BY <2>1, TrailKept, OrderKept DEF InFlight
<1>9. CASE Pause
  BY <1>9, TrailKept, OrderKept DEF Pause, routing, work
<1>10. ASSUME NEW action \in Actions, Resume(action)
       PROVE  OrderInv'
  <2>1. /\ UNCHANGED <<history, runs, components>>
        /\ next = "human_review_gate" /\ next' \in {"persistence_agent", "END"}
    BY <1>10 DEF Resume, AfterGate, Goto, routing
  <2>2. QED BY <2>1, TrailKept, OrderKept DEF InFlight, Typing, TypeOK
<1>11. CASE ExecuteGuarded
  <2>1. /\ UNCHANGED <<history, runs, components, estimate>> /\ next' = "END"
    BY <1>11 DEF ExecuteGuarded, At, Goto, routing, work
  <2>2. QED BY <2>1, TrailKept, OrderKept DEF InFlight
<1>12. CASE Crash
  BY <1>12, TrailKept, OrderKept DEF Crash, routing, work
<1>13. CASE UNCHANGED vars
  BY <1>13, TrailKept, OrderKept DEF vars, control, routing, work
<1>14. QED
  BY <1>1, <1>2, <1>3, <1>4, <1>5, <1>6, <1>7, <1>8, <1>9, <1>10, <1>11, <1>12, <1>13
     DEF Next, Step, Routing

LEMMA OrderInvariant == Spec => []OrderInv
<1>1. QED BY OrderInit, OrderNext, TypingInvariant, PTL DEF Spec

\* No agent is dispatched twice on a thread, nor before the one whose output it
\* reads, whatever the router answers and however often the thread is invoked.
THEOREM DispatchOrderHolds == Spec => []DispatchOrder
<1>1. OrderInv => DispatchOrder
  BY DEF OrderInv
<1>2. QED BY <1>1, OrderInvariant, PTL

(***************************************************************************)
(* The routing trail is append-only.                                       *)
(***************************************************************************)
\* The keyed reducer never meets a key it already holds: no step of any run
\* replaces or drops a row of the trail.
THEOREM TrailOnlyGrowsHolds == Spec => TrailOnlyGrows
<1> DEFINE Grows == \A s \in DOMAIN history : s \in DOMAIN history' /\ history'[s] = history[s]
<1>1. Typing /\ [Next]_vars => Grows \/ UNCHANGED vars
  <2> SUFFICES ASSUME Typing, [Next]_vars PROVE Grows \/ UNCHANGED vars
    OBVIOUS
  <2>1. CASE Routing
    BY <2>1, RoutingIsLegal, TrailGrowsByOne DEF LegalDispatch, Typing
  <2>2. CASE Next /\ ~Routing
    <3>1. UNCHANGED history
      BY <2>2 DEF Next, Step, Routing, Invoke, ExtractRequirements, SearchBudgets,
                  GenerateEstimate, AgentRaises, ValidateCoherence, PassGate, Pause, Resume,
                  ExecuteGuarded, Crash, routing
    <3>2. QED BY <3>1
  <2>3. QED BY <2>1, <2>2
<1>2. QED BY <1>1, TypingInvariant, PTL DEF Spec, TrailOnlyGrows

(***************************************************************************)
(* The step budget.  An agent at work was dispatched below the limit; a    *)
(* run that starts at or above it spends one step and leaves the loop.     *)
(***************************************************************************)
BudgetInv ==
  /\ next \in Agents => steps <= MaxSteps
  /\ next = "supervisor" => runs > 0 /\ steps <= MaxSteps + runs - 1
  /\ next # "END" => runs > 0
  /\ StepBudget

LEMMA BudgetNext == Typing /\ BudgetInv /\ [Next]_vars => BudgetInv'
<1> SUFFICES ASSUME Typing, BudgetInv, [Next]_vars PROVE BudgetInv'
  OBVIOUS
<1> USE OrderedAgents DEF BudgetInv, StepBudget
<1>0. steps \in Nat /\ runs \in Nat /\ MaxSteps \in Nat
  BY DEF Typing, TypeOK
<1>1. ASSUME NEW text \in BOOLEAN, NEW sandbox \in Sandboxing, Invoke(text, sandbox)
      PROVE  BudgetInv'
  BY <1>0, <1>1 DEF Invoke, routing
<1>2. CASE Routing
  <2>1. PICK target \in Targets : LegalDispatch(target)
    BY <1>2, RoutingIsLegal
  <2>2. /\ steps' = steps + 1 /\ runs' = runs /\ next = "supervisor"
        /\ next' = IF target = "finish" THEN "human_review_gate" ELSE target
        /\ steps < MaxSteps \/ target = "finish"
    BY <2>1 DEF LegalDispatch, At, Dispatch, Goto
  <2>3. target \in Agents \/ target = "finish"
    BY DEF Targets
  <2>4. QED BY <1>0, <2>2, <2>3
<1>3. CASE \/ \E names \in SUBSET Components : ExtractRequirements(names)
           \/ \E found \in SUBSET Components : SearchBudgets(found)
           \/ \E draft \in Estimates, cut \in Penalties : GenerateEstimate(draft, cut)
           \/ ValidateCoherence
  <2>1. next \in Agents /\ next' = "supervisor" /\ UNCHANGED <<runs, steps>>
    BY <1>3 DEF ExtractRequirements, SearchBudgets, GenerateEstimate, ValidateCoherence,
                At, Goto, routing
  <2>2. QED BY <1>0, <2>1
<1>4. CASE PassGate \/ ExecuteGuarded \/ \E action \in Actions : Resume(action)
  <2>1. /\ next \in {"human_review_gate", "persistence_agent"}
        /\ next' \in {"persistence_agent", "END"} /\ UNCHANGED <<runs, steps>>
    BY <1>4 DEF PassGate, ExecuteGuarded, Resume, AfterGate, At, Goto, routing
  <2>2. QED BY <1>0, <2>1
<1>5. CASE AgentRaises \/ Pause \/ Crash \/ UNCHANGED vars
  BY <1>5 DEF AgentRaises, Pause, Crash, vars, control, routing
<1>6. QED
  BY <1>1, <1>2, <1>3, <1>4, <1>5 DEF Next, Step, Routing

\* However many runs a thread sees, it takes at most one routing step per run
\* beyond supervisor_max_steps.
THEOREM StepBudgetHolds == Spec => []StepBudget
<1>1. Init => BudgetInv
  BY SMT, OrderedAgents DEF Init, BudgetInv, StepBudget
<1>2. BudgetInv => StepBudget
  BY DEF BudgetInv
<1>3. QED BY <1>1, <1>2, BudgetNext, TypingInvariant, PTL DEF Spec

(***************************************************************************)
(* The estimate of an unattended thread.  Its verdict cannot be stale:     *)
(* every agent has one turn on the thread, the only estimate there is to   *)
(* validate is the generator's, and the generator waits for the searcher,  *)
(* so both have had their turns when the validator has its own.            *)
(***************************************************************************)
ValidatedAsItStands == facts = FactsOf(estimate, matched, penalty)

NeedsNoReview ==
  /\ ValidatedAsItStands
  /\ ~LowConfidence(facts) /\ ~facts.outOfRange
  /\ 2 * facts.grounded >= Cardinality(components)

FreshVerdict ==
  facts # NoFacts => /\ ValidatedAsItStands
                     /\ AlreadyRan("estimate_generator")
                     /\ AlreadyRan("budget_searcher")
                     /\ next \notin {"budget_searcher", "estimate_generator"}

SoundInv ==
  /\ next = "requirements_extractor" => components = {}
  /\ next = "estimate_generator" => components # {}
  /\ mode = "done" => next = "END"
  /\ decision = "none" =>
       /\ estimate # NoEstimate => components # {} /\ AlreadyRan("estimate_generator")
       /\ FreshVerdict
       /\ next \in {"persistence_agent", "END"} /\ estimate # NoEstimate => NeedsNoReview

LEMMA SoundRouting ==
  ASSUME Typing, OrderInv, SoundInv, NEW target \in Targets, LegalDispatch(target)
  PROVE  SoundInv'
<1> USE OrderedAgents DEF SoundInv
<1>1. /\ next = "supervisor" /\ next' = IF target = "finish" THEN "human_review_gate" ELSE target
      /\ mode' = "running"
      /\ UNCHANGED <<components, matched, estimate, penalty, facts, decision>>
      /\ \A a : AlreadyRan(a)' <=> AlreadyRan(a) \/ a = target
  BY TrailGrowsByOne DEF LegalDispatch, At, Dispatch, Goto, work, verdict, review, Typing, Targets
<1>2. target \in Agents => InputsReady(target) /\ ~AlreadyRan(target)
  BY DEF LegalDispatch, IsLegal
<1>3. target = "estimate_generator" => components # {}
  BY <1>2 DEF InputsReady
<1>9. target = "requirements_extractor" => components = {}
  BY <1>2 DEF OrderInv
<1>5. UNCHANGED ValidatedAsItStands
  BY <1>1 DEF ValidatedAsItStands, FactsOf, Confidence, Issues, Grounded
<1>6. decision = "none" => FreshVerdict'
  BY <1>1, <1>2, <1>5 DEF FreshVerdict
<1>7. target \in Agents \/ target = "finish"
  BY DEF Targets
<1>8. QED BY <1>1, <1>3, <1>6, <1>7, <1>9

LEMMA SoundPassGate ==
  ASSUME Typing, OrderInv, SoundInv, PassGate
  PROVE  SoundInv'
<1> USE OrderedAgents DEF SoundInv
<1>1. /\ next = "human_review_gate" /\ next' \in {"persistence_agent", "END"}
      /\ UNCHANGED <<history, components, matched, estimate, penalty, facts, decision>>
      /\ mode' = "done" => next' = "END"
  BY DEF PassGate, At, AfterGate, Goto, routing, work, verdict
<1>2. ReviewReasons = {}
  BY DEF PassGate
<1>3. ASSUME estimate # NoEstimate, decision = "none"
      PROVE  NeedsNoReview
  <2>1. Cardinality(components) \in Nat /\ Cardinality(components) # 0
    BY <1>3, FS_Subset, FS_EmptySet, CountsAreNat DEF Typing, TypeOK
  <2>2. facts # NoFacts
    <3>1. SUFFICES ASSUME facts = NoFacts PROVE "precedent" \in ReviewReasons
      BY <1>2
    <3>2. 2 * 0 < Cardinality(components) /\ components # {}
      BY <1>3, <2>1
    <3>3. QED BY <3>1, <3>2 DEF ReviewReasons
  <2>3. facts \in Fact
    BY <2>2 DEF Typing, TypeOK
  <2>4. ~LowConfidence(facts) /\ ~facts.outOfRange
    <3>1. "confidence" \notin ReviewReasons /\ "range" \notin ReviewReasons
      BY <1>2
    <3>2. QED BY <2>2, <3>1 DEF ReviewReasons
  <2>5. ~(2 * facts.grounded < Cardinality(components))
    <3>1. "precedent" \notin ReviewReasons
      BY <1>2
    <3>2. QED BY <1>3, <2>2, <3>1 DEF ReviewReasons
  <2>6. facts.grounded \in Nat
    BY <2>3 DEF Fact
  <2>7. 2 * facts.grounded >= Cardinality(components)
    BY <2>1, <2>5, <2>6
  <2>8. ValidatedAsItStands
    BY <1>3, <2>2 DEF FreshVerdict
  <2>9. QED BY <2>4, <2>7, <2>8 DEF NeedsNoReview
<1>4. UNCHANGED <<ValidatedAsItStands, NeedsNoReview>> /\ \A a : AlreadyRan(a)' <=> AlreadyRan(a)
  BY <1>1, TrailKept DEF NeedsNoReview, ValidatedAsItStands, FactsOf, Confidence, Issues,
                         Grounded, LowConfidence
<1>5. FreshVerdict => FreshVerdict'
  BY <1>1, <1>4 DEF FreshVerdict
<1>6. QED BY <1>1, <1>3, <1>4, <1>5 DEF InFlight

LEMMA SoundNext == Typing /\ OrderInv /\ SoundInv /\ [Next]_vars => SoundInv'
<1> SUFFICES ASSUME Typing, OrderInv, SoundInv, [Next]_vars PROVE SoundInv'
  OBVIOUS
<1> USE OrderedAgents DEF SoundInv
<1>1. ASSUME NEW text \in BOOLEAN, NEW sandbox \in Sandboxing, Invoke(text, sandbox)
      PROVE  SoundInv'
  <2>1. /\ next' = "supervisor" /\ mode' = "running"
        /\ UNCHANGED <<history, components, matched, estimate, penalty, facts, decision>>
    BY <1>1 DEF Invoke, routing, work, verdict
  <2>2. UNCHANGED ValidatedAsItStands
    BY <2>1 DEF ValidatedAsItStands, FactsOf, Confidence, Issues, Grounded
  <2>3. QED BY <2>1, <2>2, TrailKept DEF FreshVerdict
<1>2. CASE Routing
  BY <1>2, RoutingIsLegal, SoundRouting
<1>3. ASSUME NEW names \in SUBSET Components, ExtractRequirements(names)
      PROVE  SoundInv'
  \* The extractor ran before the generator, so there is no estimate yet.
  <2>1. /\ next = "requirements_extractor" /\ next' = "supervisor" /\ mode' = "running"
        /\ UNCHANGED <<history, runs, estimate, matched, penalty, facts, decision>>
    BY <1>3 DEF ExtractRequirements, At, Goto, routing, verdict, review
  <2>2. decision = "none" => estimate = NoEstimate
    BY <2>1
  <2>3. decision = "none" => FreshVerdict'
    BY <2>1, TrailKept DEF FreshVerdict, ValidatedAsItStands, FactsOf, Confidence, Issues,
                           Grounded, InFlight
  <2>4. QED BY <2>1, <2>2, <2>3
<1>4. ASSUME NEW found \in SUBSET Components, SearchBudgets(found)
      PROVE  SoundInv'
  <2>1. /\ next = "budget_searcher" /\ next' = "supervisor" /\ mode' = "running"
        /\ UNCHANGED <<history, components, estimate, facts, decision>>
    BY <1>4 DEF SearchBudgets, At, Goto, routing, verdict, review
  <2>2. decision = "none" => facts = NoFacts
    BY <2>1 DEF FreshVerdict
  <2>3. QED BY <2>1, <2>2, TrailKept DEF FreshVerdict
<1>5. ASSUME NEW draft \in Estimates, NEW cut \in Penalties, GenerateEstimate(draft, cut)
      PROVE  SoundInv'
  <2>1. /\ next = "estimate_generator" /\ next' = "supervisor" /\ mode' = "running"
        /\ UNCHANGED <<history, components, facts, decision>>
    BY <1>5 DEF GenerateEstimate, At, Goto, routing, verdict, review
  <2>2. decision = "none" => facts = NoFacts
    BY <2>1 DEF FreshVerdict
  <2>3. AlreadyRan("estimate_generator")
    BY <2>1 DEF OrderInv
  <2>4. QED BY <2>1, <2>2, <2>3, TrailKept DEF FreshVerdict
<1>6. CASE AgentRaises \/ Pause \/ Crash \/ UNCHANGED vars
  <2>1. /\ UNCHANGED <<next, history, components, estimate, matched, penalty, facts, decision>>
        /\ mode' = "done" => mode = "done"
    BY <1>6 DEF AgentRaises, Pause, Crash, vars, control, routing, work, verdict, review
  <2>2. UNCHANGED <<ValidatedAsItStands, NeedsNoReview>> /\ \A a : AlreadyRan(a)' <=> AlreadyRan(a)
    BY <2>1, TrailKept DEF NeedsNoReview, ValidatedAsItStands, FactsOf, Confidence, Issues,
                           Grounded, LowConfidence
  <2>3. FreshVerdict => FreshVerdict'
    BY <2>1, <2>2 DEF FreshVerdict
  <2>4. QED BY <2>1, <2>2, <2>3
<1>7. CASE ValidateCoherence
  <2>1. /\ next = "coherence_validator" /\ next' = "supervisor" /\ mode' = "running"
        /\ UNCHANGED <<history, components, estimate, matched, penalty, decision>>
        /\ facts' = FactsOf(estimate, matched, penalty)
    BY <1>7 DEF ValidateCoherence, At, Goto, routing, work, review
  <2>2. decision = "none" => AlreadyRan("estimate_generator")
    BY <2>1 DEF Typing, ValidatorHasEstimate
  <2>3. decision = "none" => AlreadyRan("budget_searcher")
    BY <2>2 DEF OrderInv, DispatchOrder, AlreadyRan
  <2>4. ValidatedAsItStands'
    BY <2>1 DEF ValidatedAsItStands, FactsOf, Confidence, Issues, Grounded
  <2>5. decision = "none" => FreshVerdict'
    BY <2>1, <2>2, <2>3, <2>4, TrailKept DEF FreshVerdict
  <2>6. QED BY <2>1, <2>5, TrailKept
<1>8. CASE PassGate
  BY <1>8, SoundPassGate
<1>9. ASSUME NEW action \in Actions, Resume(action)
      PROVE  SoundInv'
  <2>1. /\ next = "human_review_gate" /\ next' \in {"persistence_agent", "END"}
        /\ decision' # "none"
        /\ mode' = "done" => next' = "END"
    BY <1>9 DEF Resume, AfterGate, Goto, Actions
  <2>2. QED BY <2>1
<1>10. CASE ExecuteGuarded
  <2>1. /\ next = "persistence_agent" /\ next' = "END"
        /\ UNCHANGED <<history, components, estimate, matched, penalty, facts, decision>>
    BY <1>10 DEF ExecuteGuarded, At, Goto, routing, work, verdict, review
  <2>2. UNCHANGED <<ValidatedAsItStands, NeedsNoReview>> /\ \A a : AlreadyRan(a)' <=> AlreadyRan(a)
    BY <2>1, TrailKept DEF NeedsNoReview, ValidatedAsItStands, FactsOf, Confidence, Issues,
                           Grounded, LowConfidence
  <2>3. FreshVerdict => FreshVerdict'
    BY <2>1, <2>2 DEF FreshVerdict
  <2>4. QED BY <2>1, <2>2, <2>3 DEF InFlight
<1>11. QED
  BY <1>1, <1>2, <1>3, <1>4, <1>5, <1>6, <1>7, <1>8, <1>9, <1>10 DEF Next, Step, Routing

LEMMA SoundInit == Init => SoundInv
<1>1. Init => next = "END" /\ mode = "idle" /\ facts = NoFacts /\ estimate = NoEstimate
  BY DEF Init
<1>2. QED BY <1>1, OrderedAgents DEF SoundInv, FreshVerdict

\* What leaves any run of a thread on which no human has ruled was validated as it
\* stands, with enough confidence and precedent, whatever the router answered,
\* whichever agents failed and however the runs were invoked.
THEOREM UnattendedEstimateIsSoundHolds == Spec => []UnattendedEstimateIsSound
<1>1. SoundInv => UnattendedEstimateIsSound
  BY DEF SoundInv, UnattendedEstimateIsSound, NeedsNoReview, ValidatedAsItStands
<1>2. QED BY <1>1, SoundInit, SoundNext, TypingInvariant, OrderInvariant, PTL DEF Spec

(***************************************************************************)
(* Writes are reviewed.  human_decision outlives its run; what keeps an    *)
(* old approval from authorising a new write is that a thread which once   *)
(* paused pauses again, unless its verdict was given in a run that was not *)
(* to write: otherwise its verdict asked for the write, or it still has no *)
(* verdict and its components lack a precedent.                            *)
(***************************************************************************)
Waived == facts # NoFacts /\ ~persistRequested

ReviewInv ==
  /\ next = "requirements_extractor" => components = {}
  /\ decision # "none" \/ mode = "paused" => Waived \/ persistRequested \/ components # {}
  /\ next \in InFlight \cup {"human_review_gate"} => ruling = "none"
  /\ next = "persistence_agent" => sandboxed /\ (ruling = decision \/ (ruling = "none" /\ Waived))

\* Unless the write was waived, a thread whose verdict asked for a write, or one
\* without a verdict and with components, never passes the gate unattended.
LEMMA GatePausesAgain ==
  ASSUME Typing, ~Waived, persistRequested \/ components # {}
  PROVE  ReviewReasons # {}
<1>1. CASE persistRequested
  <2>1. "persist" \in ReviewReasons
    BY <1>1 DEF ReviewReasons
  <2>2. QED BY <2>1
<1>2. CASE ~persistRequested
  <2>1. facts = NoFacts /\ components # {}
    BY <1>2 DEF Waived
  <2>2. Cardinality(components) \in Nat /\ Cardinality(components) # 0
    BY <2>1, FS_Subset, FS_EmptySet, CountsAreNat DEF Typing, TypeOK
  <2>3. 2 * 0 < Cardinality(components)
    BY <2>2
  <2>4. "precedent" \in ReviewReasons
    BY <2>1, <2>3 DEF ReviewReasons
  <2>5. QED BY <2>4
<1>3. QED BY <1>1, <1>2

\* And a thread that pauses is of that kind.
LEMMA PausedForGood ==
  ASSUME ReviewReasons # {}
  PROVE  Waived \/ persistRequested \/ components # {}
BY DEF ReviewReasons, Waived

LEMMA ReviewNext ==
  ASSUME Typing, OrderInv, ReviewInv, [Next]_vars
  PROVE  ReviewInv'
<1> USE OrderedAgents DEF ReviewInv, Waived
<1>1. ASSUME NEW text \in BOOLEAN, NEW sandbox \in Sandboxing, Invoke(text, sandbox)
      PROVE  ReviewInv'
  BY <1>1 DEF Invoke, work, verdict
<1>2. CASE Routing
  <2>1. PICK target \in Targets : LegalDispatch(target)
    BY <1>2, RoutingIsLegal
  <2>2. /\ next = "supervisor" /\ next' = IF target = "finish" THEN "human_review_gate" ELSE target
        /\ mode' = "running"
        /\ UNCHANGED <<sandboxed, components, facts, persistRequested, decision, ruling>>
    BY <2>1 DEF LegalDispatch, At, Dispatch, Goto, work, verdict, review, Targets, Agents, Order
  <2>3. target = "requirements_extractor" => components = {}
    BY <2>1 DEF LegalDispatch, IsLegal, OrderInv
  <2>4. target \in Agents \/ target = "finish"
    BY DEF Targets
  <2>5. QED BY <2>2, <2>3, <2>4 DEF InFlight
<1>3. ASSUME NEW names \in SUBSET Components, ExtractRequirements(names)
      PROVE  ReviewInv'
  <2>1. /\ next = "requirements_extractor" /\ next' = "supervisor" /\ mode' = "running"
        /\ UNCHANGED <<sandboxed, facts, persistRequested, decision, ruling>>
    BY <1>3 DEF ExtractRequirements, At, Goto, verdict, review
  <2>2. decision # "none" => Waived \/ persistRequested
    BY <2>1
  <2>3. QED BY <2>1, <2>2 DEF InFlight
<1>4. CASE \/ \E found \in SUBSET Components : SearchBudgets(found)
           \/ \E draft \in Estimates, cut \in Penalties : GenerateEstimate(draft, cut)
  <2>1. /\ next \in Agents /\ next' = "supervisor" /\ mode' = "running"
        /\ UNCHANGED <<sandboxed, components, facts, persistRequested, decision, ruling>>
    BY <1>4 DEF SearchBudgets, GenerateEstimate, At, Goto, verdict, review
  <2>2. QED BY <2>1 DEF InFlight
<1>5. CASE AgentRaises \/ Pause \/ Crash \/ UNCHANGED vars
  <2>1. /\ UNCHANGED <<next, sandboxed, components, facts, persistRequested, decision, ruling>>
        /\ Pause \/ (mode' = "paused" => mode = "paused")
    BY <1>5 DEF AgentRaises, Pause, Crash, vars, control, routing, work, verdict, review
  <2>2. Pause => Waived \/ persistRequested \/ components # {}
    BY PausedForGood DEF Pause
  <2>3. QED BY <2>1, <2>2
<1>6. CASE ValidateCoherence
  <2>1. /\ next = "coherence_validator" /\ next' = "supervisor" /\ mode' = "running"
        /\ UNCHANGED <<sandboxed, components, decision, ruling>>
        /\ facts' = FactsOf(estimate, matched, penalty)
    BY <1>6 DEF ValidateCoherence, At, Goto, work, review
  <2>2. facts' # NoFacts
    BY <2>1 DEF FactsOf, NoFacts
  <2>3. QED BY <2>1, <2>2 DEF InFlight
<1>7. CASE PassGate
  <2>1. /\ next = "human_review_gate"
        /\ next' = IF sandboxed THEN "persistence_agent" ELSE "END"
        /\ mode' \in {"running", "done"}
        /\ UNCHANGED <<sandboxed, components, facts, persistRequested, decision, ruling>>
    BY <1>7 DEF PassGate, AfterGate, At, Goto, work, verdict
  <2>2. ruling = "none"
    BY <2>1
  <2>3. decision = "none" \/ Waived
    BY <1>7, GatePausesAgain DEF PassGate
  <2>4. QED BY <2>1, <2>2, <2>3 DEF InFlight
<1>8. ASSUME NEW action \in Actions, Resume(action)
      PROVE  ReviewInv'
  <2>1. /\ next = "human_review_gate"
        /\ next' = IF sandboxed THEN "persistence_agent" ELSE "END"
        /\ UNCHANGED <<sandboxed, components, facts, persistRequested>>
        /\ decision' = ruling'
    BY <1>8 DEF Resume, AfterGate, Goto
  <2>2. Waived \/ persistRequested \/ components # {}
    BY <1>8 DEF Resume
  <2>3. QED BY <2>1, <2>2 DEF InFlight
<1>9. CASE ExecuteGuarded
  <2>1. /\ next = "persistence_agent" /\ next' = "END" /\ mode' = "done"
        /\ UNCHANGED <<sandboxed, components, facts, persistRequested, decision, ruling>>
    BY <1>9 DEF ExecuteGuarded, At, Goto, work, verdict, review
  <2>2. QED BY <2>1 DEF InFlight
<1>10. QED
  BY <1>1, <1>2, <1>3, <1>4, <1>5, <1>6, <1>7, <1>8, <1>9 DEF Next, Step, Routing

LEMMA ReviewInit == Init => ReviewInv
BY OrderedAgents DEF Init, ReviewInv, InFlight

reviewed == <<estimate, ruling, decision, sandboxed, Waived, store>>

\* Every step is one of ReviewedWrite's, or leaves its variables alone.
LEMMA StepsAreReviewed ==
  ASSUME Typing, ReviewInv, [Next]_vars
  PROVE  [Reviewed!Next]_reviewed
<1> USE OrderedAgents DEF ReviewInv, reviewed, Waived
<1>1. ASSUME NEW text \in BOOLEAN, NEW sandbox \in Sandboxing, Invoke(text, sandbox)
      PROVE  Reviewed!Begin
  <2>1. sandboxed' \in BOOLEAN
    BY <1>1 DEF Invoke
  <2>2. QED BY <1>1, <2>1 DEF Invoke, work, verdict, sink, Reviewed!Begin
<1>2. CASE Routing
  BY <1>2, RoutingIsLegal DEF LegalDispatch, Dispatch, Goto, work, verdict, review, sink
<1>3. ASSUME NEW draft \in Estimates, NEW cut \in Penalties, GenerateEstimate(draft, cut)
      PROVE  Reviewed!Draft
  BY <1>3 DEF GenerateEstimate, At, Goto, InFlight, verdict, review, sink, Reviewed!Draft
<1>4. CASE \/ \E names \in SUBSET Components : ExtractRequirements(names)
           \/ \E found \in SUBSET Components : SearchBudgets(found)
           \/ AgentRaises \/ PassGate \/ Pause \/ UNCHANGED vars
  BY <1>4 DEF ExtractRequirements, SearchBudgets, AgentRaises, PassGate, Pause, Goto,
              vars, control, work, verdict, review, sink
<1>5. CASE ValidateCoherence
  <2>1. /\ next = "coherence_validator" /\ persistRequested' = (persistRequested \/ sandboxed)
        /\ UNCHANGED <<estimate, ruling, decision, sandboxed, store>>
    BY <1>5 DEF ValidateCoherence, At, Goto, work, review, sink
  <2>2. ruling = "none"
    BY <2>1 DEF InFlight
  <2>3. sandboxed \in BOOLEAN /\ persistRequested \in BOOLEAN
    BY DEF Typing, TypeOK
  <2>4. Waived' \in {FALSE, ~sandboxed}
    BY <2>1, <2>3
  <2>5. QED BY <2>1, <2>2, <2>4 DEF Reviewed!Next, Reviewed!Judge
<1>6. ASSUME NEW action \in Actions, Resume(action)
      PROVE  Reviewed!Rule(action)
  <2>1. /\ ruling = "none" /\ ruling' = action /\ decision' = action
        /\ UNCHANGED <<sandboxed, facts, persistRequested, store>>
        /\ estimate' \in {estimate} \cup (IF action = "adjust" THEN Estimates ELSE {})
    BY <1>6 DEF Resume, Goto, sink
  <2>2. QED BY <2>1 DEF Reviewed!Rule
<1>7. CASE ExecuteGuarded
  <2>1. /\ UNCHANGED <<estimate, ruling, decision, sandboxed, facts, persistRequested>>
        /\ store' = IF GuardAction = "ok" THEN estimate ELSE store
    BY <1>7 DEF ExecuteGuarded, Goto, work, verdict, review
  <2>2. GuardAction = "ok" =>
          /\ estimate # NoEstimate /\ sandboxed /\ decision = "approve"
          /\ ruling = "approve" \/ (ruling = "none" /\ Waived)
    BY <1>7 DEF GuardAction, HumanApproved, ExecuteGuarded, At
  <2>3. CASE GuardAction = "ok"
    BY <2>1, <2>2, <2>3 DEF Reviewed!Next, Reviewed!Write
  <2>4. CASE GuardAction # "ok"
    BY <2>1, <2>4
  <2>5. QED BY <2>3, <2>4
<1>8. CASE Crash
  BY <1>8 DEF Crash, work, verdict, review, Reviewed!Next, Reviewed!Lose
<1>9. QED
  BY <1>1, <1>2, <1>3, <1>4, <1>5, <1>6, <1>7, <1>8 DEF Next, Step, Routing, Reviewed!Next

\* However its runs were invoked, a thread stores nothing but the very estimate a
\* human approved in the run that stored it, or, when the verdict on it was given
\* in a run that was not to write, an estimate on a thread whose last ruling was
\* an approval: the supervisor flow implements ReviewedWrite.
THEOREM WritesAreReviewedHolds == Spec => WritesAreReviewed
<1>1. Typing /\ OrderInv /\ ReviewInv /\ [Next]_vars => ReviewInv'
  BY ReviewNext
<1>2. Spec => []ReviewInv
  BY <1>1, ReviewInit, TypingInvariant, OrderInvariant, PTL DEF Spec
<1>3. Typing /\ ReviewInv /\ [Next]_vars => [Reviewed!Next]_reviewed
  BY StepsAreReviewed
<1>4. Init => Reviewed!Init
  BY DEF Init, Reviewed!Init
<1>5. QED
  BY <1>2, <1>3, <1>4, TypingInvariant, PTL
     DEF Spec, WritesAreReviewed, Reviewed!Spec, reviewed, Waived

\* A thread that is only ever invoked sandboxed never waives: there the exception
\* does not arise, and an approval authorises the write of its own run alone.
AlwaysSandboxed == Sandboxing \subseteq {TRUE}
NothingIsWaived == facts # NoFacts => persistRequested
THEOREM SandboxedThreadsWaiveNothing ==
  ASSUME AlwaysSandboxed
  PROVE  Spec => []NothingIsWaived
<1> DEFINE Inv == NothingIsWaived /\ (next # "END" => sandboxed = TRUE)
<1>1. Init => Inv
  BY DEF Init, NothingIsWaived
<1>2. Typing /\ Inv /\ [Next]_vars => Inv'
  <2> SUFFICES ASSUME Typing, Inv, [Next]_vars PROVE Inv'
    OBVIOUS
  <2> USE DEF NothingIsWaived
  <2>1. ASSUME NEW text \in BOOLEAN, NEW sandbox \in Sandboxing, Invoke(text, sandbox)
        PROVE  Inv'
    BY <2>1 DEF Invoke, AlwaysSandboxed, verdict
  <2>2. CASE Routing
    BY <2>2, RoutingIsLegal DEF LegalDispatch, Dispatch, At, Goto, verdict
  <2>3. CASE ValidateCoherence
    <3>1. next = "coherence_validator" /\ UNCHANGED sandboxed
      BY <2>3 DEF ValidateCoherence, At, Goto
    <3>2. persistRequested' = (persistRequested \/ sandboxed) /\ sandboxed = TRUE
      BY <2>3, <3>1 DEF ValidateCoherence
    <3>3. QED BY <3>1, <3>2
  <2>4. CASE Next /\ ~Routing /\ ~ValidateCoherence
             /\ ~(\E text \in BOOLEAN, sandbox \in Sandboxing : Invoke(text, sandbox))
    <3>1. UNCHANGED <<facts, persistRequested, sandboxed>> /\ (next = "END" => next' = "END")
      BY <2>4 DEF Next, Step, Routing, ExtractRequirements, SearchBudgets, GenerateEstimate,
                  AgentRaises, PassGate, Pause, Resume, ExecuteGuarded, Crash, At, Goto, verdict
    <3>2. QED BY <3>1
  <2>5. CASE UNCHANGED vars
    BY <2>5 DEF vars, control, verdict
  <2>6. QED BY <2>1, <2>2, <2>3, <2>4, <2>5 DEF Next, Step, Routing
<1>3. QED BY <1>1, <1>2, TypingInvariant, PTL DEF Spec

(***************************************************************************)
(* How many steps a run has left, at most: two for each routing step below *)
(* the limit, and the way from the supervisor to the end.                  *)
(***************************************************************************)
Turns == IF steps >= MaxSteps THEN 0 ELSE MaxSteps - steps

StepsLeft ==
  CASE next \in Agents -> 4 + 2 * Turns
    [] next = "supervisor" -> 3 + 2 * Turns
    [] next = "human_review_gate" -> 2
    [] next = "persistence_agent" -> 1
    [] OTHER -> 0

MovingInv ==
  /\ mode = "running" => next # "END"
  /\ next \in Agents => steps \in 1..MaxSteps

LEMMA TurnsType == TypeOK => Turns \in 0..MaxSteps
BY DEF TypeOK, Turns

\* One lemma for each kind of step: it leaves fewer, or the run is over.
LEMMA RoutingCounts ==
  ASSUME TypeOK, NEW target \in Targets, LegalDispatch(target)
  PROVE  StepsLeft' < StepsLeft /\ MovingInv'
<1> USE OrderedAgents
<1>1. /\ steps' = steps + 1 /\ steps \in Nat /\ MaxSteps \in Nat
      /\ next = "supervisor" /\ next' = IF target = "finish" THEN "human_review_gate" ELSE target
      /\ steps < MaxSteps \/ target = "finish"
  BY DEF LegalDispatch, At, Dispatch, Goto, TypeOK
<1>2. StepsLeft = 3 + 2 * Turns /\ Turns \in 0..MaxSteps
  BY <1>1, TurnsType DEF StepsLeft
<1>3. CASE target = "finish"
  BY <1>1, <1>2, <1>3 DEF StepsLeft, MovingInv
<1>4. CASE target \in Agents
  <2>1. steps < MaxSteps /\ next' \in Agents
    BY <1>1, <1>4
  <2>2. Turns = MaxSteps - steps /\ Turns' = Turns - 1
    BY <1>1, <2>1 DEF Turns
  <2>3. StepsLeft' = 4 + 2 * Turns'
    BY <2>1 DEF StepsLeft
  <2>4. MovingInv'
    BY <1>1, <2>1 DEF MovingInv
  <2> QED
    BY <1>2, <2>2, <2>3, <2>4
<1> QED
  BY <1>3, <1>4 DEF Targets

AgentWorks ==
  \/ \E names \in SUBSET Components : ExtractRequirements(names)
  \/ \E found \in SUBSET Components : SearchBudgets(found)
  \/ \E draft \in Estimates, cut \in Penalties : GenerateEstimate(draft, cut)
  \/ ValidateCoherence

LEMMA AgentCounts ==
  ASSUME TypeOK, AgentWorks
  PROVE  StepsLeft' < StepsLeft /\ MovingInv'
<1>1. next \in Agents /\ next' = "supervisor" /\ UNCHANGED steps
  BY OrderedAgents
     DEF AgentWorks, ExtractRequirements, SearchBudgets, GenerateEstimate, ValidateCoherence,
         At, Goto, routing
<1>2. StepsLeft = 4 + 2 * Turns /\ StepsLeft' = 3 + 2 * Turns /\ Turns \in Nat
  BY <1>1, OrderedAgents, TurnsType DEF StepsLeft, Turns
<1>3. StepsLeft' < StepsLeft
  BY <1>2
<1>4. MovingInv'
  BY <1>1, OrderedAgents DEF MovingInv
<1> QED
  BY <1>3, <1>4

LEMMA GateCounts ==
  ASSUME TypeOK, PassGate \/ ExecuteGuarded \/ \E action \in Actions : Resume(action)
  PROVE  StepsLeft' < StepsLeft /\ MovingInv'
BY OrderedAgents
   DEF PassGate, ExecuteGuarded, Resume, AfterGate, At, Goto, StepsLeft, MovingInv

\* A run is bounded by supervisor_max_steps, whatever the router and the agents'
\* models answer: each step a running thread takes leaves fewer of the steps it
\* has left, which a new invocation sets to 2 * MaxSteps + 3 at the most, or it
\* is the run's last one.
RunsAreBounded ==
  /\ [](mode = "running" => StepsLeft \in 1..(2 * MaxSteps + 3))
  /\ [][mode = "running" => mode' # "running" \/ StepsLeft' < StepsLeft]_vars
THEOREM RunsAreBoundedHolds == Spec => RunsAreBounded
<1>1. Init => MovingInv
  BY OrderedAgents DEF Init, MovingInv
<1>2. ASSUME Typing, [Next]_vars
      PROVE  /\ MovingInv => MovingInv'
             /\ [mode = "running" => mode' # "running" \/ StepsLeft' < StepsLeft]_vars
  <2> USE DEF Typing
  <2>1. CASE Routing
    BY <1>2, <2>1, RoutingIsLegal, RoutingCounts
  <2>2. CASE AgentWorks
    BY <1>2, <2>2, AgentCounts
  <2>3. CASE PassGate \/ ExecuteGuarded \/ \E action \in Actions : Resume(action)
    BY <1>2, <2>3, GateCounts
  <2>4. CASE AgentRaises \/ Pause \/ Crash
    BY <2>4 DEF AgentRaises, Pause, Crash, MovingInv, routing
  <2>5. CASE \E text \in BOOLEAN, sandbox \in Sandboxing : Invoke(text, sandbox)
    BY <2>5, OrderedAgents DEF Invoke, MovingInv
  <2>6. CASE UNCHANGED vars
    BY <2>6 DEF vars, control, routing, MovingInv
  <2> QED
    BY <1>2, <2>1, <2>2, <2>3, <2>4, <2>5, <2>6 DEF Next, Step, Routing, AgentWorks
<1>3. Typing /\ MovingInv => (mode = "running" => StepsLeft \in 1..(2 * MaxSteps + 3))
  <2> SUFFICES ASSUME Typing, MovingInv, mode = "running"
               PROVE  StepsLeft \in 1..(2 * MaxSteps + 3)
    OBVIOUS
  <2>1. Turns \in 0..MaxSteps /\ MaxSteps \in Nat
    BY TurnsType DEF Typing
  <2>2. next \in Agents \cup {"supervisor", "human_review_gate", "persistence_agent"}
    BY DEF Typing, TypeOK, MovingInv, Nodes
  <2>3. CASE next \in Agents
    <3>1. StepsLeft = 4 + 2 * Turns
      BY <2>3, OrderedAgents DEF StepsLeft
    <3>2. steps \in 1..MaxSteps
      BY <2>3 DEF MovingInv
    <3>3. Turns \in 0..(MaxSteps - 1)
      BY <2>1, <3>2 DEF Turns
    <3> QED
      BY <2>1, <3>1, <3>3
  <2>4. CASE next \notin Agents
    <3>1. StepsLeft \in {1, 2, 3 + 2 * Turns}
      BY <2>2, <2>4, OrderedAgents DEF StepsLeft
    <3> QED
      BY <2>1, <3>1
  <2> QED
    BY <2>3, <2>4
<1> QED
  BY <1>1, <1>2, <1>3, TypingInvariant, PTL DEF Spec, RunsAreBounded

=============================================================================
