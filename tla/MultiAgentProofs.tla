-------------------------- MODULE MultiAgentProofs --------------------------
(***************************************************************************)
(* Theorems about MultiAgent, for any number of requests and transcripts.  *)
(*                                                                         *)
(* Requests overwrite each other's checkpoints, so nothing is said of how  *)
(* the thread and the copies relate: every checkpoint there is, in the     *)
(* thread or in a copy, is consistent by itself, and each superstep makes  *)
(* a consistent checkpoint of the one it works on.                         *)
(***************************************************************************)
EXTENDS MultiAgent, FiniteSetTheorems, TLAPS

\* The channels agree: a ruling was only asked for about a generated estimate, and
\* one was only generated after the only search.
StateInv(s) ==
  /\ s \in Channels
  /\ s.decision # "none" => s.confidence # "none"
  /\ s.confidence # "none" => s.estimate # NoEstimate /\ ~s.estimate.failed
  /\ s.estimate # NoEstimate => s.searched # None
  /\ s.status = "rejected" => s.estimate # NoEstimate /\ s.estimate.rejected

\* An estimate that may be finalized.
Releasable(s) ==
  /\ s.confidence # "none"
  /\ s.confidence = "low" => s.decision # "none"

\* A node is only pending where what it reads is there and what it makes is not.
NextInv(s, next) ==
  /\ next = {"budget_searcher"} => s.requirements # None /\ s.searched = None
  /\ next = {"estimate_generator"} => s.searched # None /\ s.estimate = NoEstimate
  /\ next = {"human_review_gate"} => s.confidence = "low" /\ s.decision = "none"
  /\ next = {"finalize", "supervisor"} => s.decision # "none"
  /\ next = {"finalize"} => Releasable(s)
  /\ next = {} /\ s.status # "none" => Releasable(s)

Consistent(c) ==
  /\ c \in Checkpoints
  /\ StateInv(c.state)
  /\ NextInv(c.state, c.next)

IInv ==
  /\ TypeOK
  /\ Consistent(thread)
  /\ \A r \in Requests : Consistent(work[r])

-----------------------------------------------------------------------------
(***************************************************************************)
(* Single checkpoints.                                                     *)
(***************************************************************************)
LEMMA NewIsConsistent == Consistent(NewThread)
BY MultiAgentAssumption
   DEF Consistent, NewThread, Checkpoints, Channels, Fresh, StateInv, NextInv, Nodes,
       Estimates, Decisions

LEMMA NewRecord ==
  ASSUME NEW s \in Channels, NEW next \in SUBSET Nodes
  PROVE  [state |-> s, next |-> next] \in Checkpoints
BY DEF Checkpoints

\* The node the ladder names finds what it needs; a state on which the router would
\* raise is not asked for.
LEMMA RouteIsConsistent ==
  ASSUME NEW s, StateInv(s), ~RouterRaises(s)
  PROVE  Consistent([state |-> s, next |-> {RouteOf(s)}])
<1>1. s \in Channels BY DEF StateInv
<1>2. RouteOf(s) \in Nodes BY DEF RouteOf, Nodes
<1>3. [state |-> s, next |-> {RouteOf(s)}] \in Checkpoints
  BY <1>1, <1>2, NewRecord
<1>4. NextInv(s, {RouteOf(s)})
  BY <1>1, MultiAgentAssumption
     DEF StateInv, NextInv, Releasable, RouteOf, RouterRaises, Channels
<1>5. QED BY <1>3, <1>4 DEF Consistent

\* A new start leaves the channels consistent: it forgets the requirements only.
LEMMA StartIsConsistent ==
  ASSUME Consistent(thread), NEW text \in Texts
  PROVE  Consistent([state |-> StartState(text), next |-> {"supervisor"}])
<1>1. StartState(text) \in Channels
  BY DEF Consistent, StateInv, StartState, Channels
<1>2. StateInv(StartState(text))
  BY <1>1 DEF Consistent, StateInv, StartState, Channels
<1>3. NextInv(StartState(text), {"supervisor"})
  BY DEF NextInv
<1>4. QED BY <1>1, <1>2, <1>3, NewRecord DEF Consistent, Nodes

LEMMA FinalizedIsSound ==
  ASSUME NEW s, StateInv(s), s.confidence # "none"
  PROVE  /\ StateInv(Finalized(s))
         /\ Finalized(s).status # "none"
         /\ \A f \in {"transcript", "requirements", "searched", "matched", "validation",
                      "confidence", "decision"} : Finalized(s)[f] = s[f]
         /\ Finalized(s).estimate # NoEstimate
<1>1. s \in Channels /\ s.estimate \in Estimates
  BY DEF StateInv, Channels
<1>2. Judged(s) \in Estimates /\ Judged(s).failed = s.estimate.failed
  BY <1>1 DEF Judged, Estimates
<1>3. Judged(s) # NoEstimate
  BY <1>2 DEF Estimates, NoEstimate
<1>4. /\ Finalized(s) \in Channels
      /\ Finalized(s).estimate = Judged(s)
      /\ Finalized(s).status # "none"
      /\ Finalized(s).status = "rejected" => Judged(s).rejected
  BY <1>1, <1>2 DEF Finalized, Channels
<1>5. \A f \in {"transcript", "requirements", "searched", "matched", "validation",
                "confidence", "decision"} : Finalized(s)[f] = s[f]
  BY <1>1 DEF Finalized, Channels
<1>6. QED BY <1>2, <1>3, <1>4, <1>5 DEF StateInv

-----------------------------------------------------------------------------
(***************************************************************************)
(* What a request does to the rest.                                        *)
(***************************************************************************)
LEMMA CommitKeeps ==
  ASSUME IInv, NEW r \in Requests, left[r] > 0,
         NEW s, NEW next, Consistent([state |-> s, next |-> next]),
         Commit(r, s, next)
  PROVE  IInv'
<1>1. [state |-> s, next |-> next] \in Checkpoints
  BY DEF Consistent
<1>2. TypeOK'
  <2>1. thread' \in Checkpoints /\ work' \in [Requests -> Checkpoints]
    BY <1>1 DEF Commit, IInv, TypeOK
  <2>2. /\ stage' \in [Requests -> {"idle", "checked", "running", "ran", "answered",
                                    "failed", "lost"}]
        /\ answer' \in [Requests -> Decisions \cup {"none"}]
    BY DEF Commit, IInv, TypeOK
  <2>3. left' \in [Requests -> 0..RecursionLimit]
    <3>1. left[r] - 1 \in 0..RecursionLimit
      BY MultiAgentAssumption DEF IInv, TypeOK
    <3>2. QED BY <3>1 DEF Commit, IInv, TypeOK
  <2>4. QED BY <2>1, <2>2, <2>3 DEF TypeOK
<1>3. Consistent(thread)'
  BY DEF Commit, Consistent
<1>4. \A q \in Requests : Consistent(work[q])'
  <2>1. \A q \in Requests : work'[q] = IF q = r THEN [state |-> s, next |-> next] ELSE work[q]
    BY DEF Commit, IInv, TypeOK
  <2>2. \A q \in Requests : Consistent(work'[q])
    BY <2>1 DEF IInv
  <2>3. QED BY <2>2 DEF Consistent
<1>5. QED BY <1>2, <1>3, <1>4 DEF IInv

LEMMA LeaveKeeps ==
  ASSUME IInv, NEW r \in Requests, NEW outcome \in {"answered", "failed"},
         Leave(r, outcome), UNCHANGED thread
  PROVE  IInv'
<1>1. NewThread \in Checkpoints
  BY NewIsConsistent DEF Consistent
<1>2. TypeOK'
  BY <1>1, MultiAgentAssumption DEF Leave, IInv, TypeOK
<1>3. \A q \in Requests : Consistent(work'[q])
  BY NewIsConsistent DEF Leave, IInv, TypeOK
<1>4. QED BY <1>2, <1>3 DEF IInv, Consistent

\* A request begins to run on a consistent checkpoint.
LEMMA RunKeeps ==
  ASSUME IInv, NEW r \in Requests, NEW s, NEW next,
         Consistent([state |-> s, next |-> next]), Run(r, s, next),
         UNCHANGED answer, thread' = thread \/ thread' = [state |-> s, next |-> next]
  PROVE  IInv'
<1>1. [state |-> s, next |-> next] \in Checkpoints
  BY DEF Consistent
<1>2. TypeOK'
  BY <1>1, MultiAgentAssumption DEF Run, IInv, TypeOK
<1>3. \A q \in Requests : Consistent(work'[q])
  BY DEF Run, IInv, TypeOK
<1>4. Consistent(thread')
  BY DEF IInv
<1>5. QED BY <1>2, <1>3, <1>4 DEF IInv, Consistent

LEMMA CheckpointParts ==
  ASSUME NEW c \in Checkpoints
  PROVE  c = [state |-> c.state, next |-> c.next]
BY DEF Checkpoints

-----------------------------------------------------------------------------
(***************************************************************************)
(* The supersteps: each makes a consistent checkpoint of its own.          *)
(***************************************************************************)
LEMMA Superstep ==
  ASSUME IInv, NEW r \in Requests, NEW nodes, At(r, nodes)
  PROVE  /\ left[r] > 0 /\ work[r].next = nodes
         /\ StateInv(work[r].state) /\ NextInv(work[r].state, nodes)
BY DEF IInv, Consistent, At

LEMMA ExtractKeeps ==
  ASSUME IInv, NEW r \in Requests, ExtractRequirements(r)
  PROVE  IInv'
<1> DEFINE s == work[r].state
           t(found) == [s EXCEPT !.requirements = found]
<1>1. left[r] > 0 /\ StateInv(s)
  BY Superstep DEF ExtractRequirements
<1>2. PICK found \in {None, s.transcript} : Commit(r, t(found), {"supervisor"})
  BY DEF ExtractRequirements
<1>3. StateInv(t(found))
  BY <1>1 DEF StateInv, Channels
<1>4. Consistent([state |-> t(found), next |-> {"supervisor"}])
  BY <1>3, NewRecord DEF Consistent, StateInv, NextInv, Nodes
<1>5. QED BY <1>1, <1>2, <1>4, CommitKeeps

LEMMA SearchKeeps ==
  ASSUME IInv, NEW r \in Requests, NEW failed \in BOOLEAN, NEW found \in BOOLEAN,
         SearchBudgets(r, failed, found)
  PROVE  IInv'
<1> DEFINE s == work[r].state
           t == [s EXCEPT !.searched = s.requirements, !.matched = @ \/ found,
                          !.estimate = IF failed THEN Draft(s.requirements, TRUE) ELSE @]
<1>1. left[r] > 0 /\ StateInv(s) /\ s.requirements # None /\ s.searched = None
  BY Superstep DEF SearchBudgets, NextInv
<1>2. s \in Channels /\ s.requirements \in Texts
  BY <1>1 DEF StateInv, Channels
<1>3. Draft(s.requirements, TRUE) \in Estimates
  BY <1>2 DEF Draft, Estimates
<1>4. t \in Channels
  BY <1>2, <1>3 DEF Channels
<1>5. s.estimate = NoEstimate /\ s.confidence = "none" /\ s.decision = "none"
      /\ s.status # "rejected"
  BY <1>1 DEF StateInv
<1>6. t.searched # None /\ t.confidence = "none" /\ t.decision = "none"
      /\ t.status # "rejected"
  BY <1>1, <1>2, <1>5 DEF Channels
<1>7. Consistent([state |-> t, next |-> {"supervisor"}])
  BY <1>4, <1>6, NewRecord DEF Consistent, StateInv, NextInv, Nodes
<1>8. Commit(r, t, {"supervisor"})
  BY DEF SearchBudgets
<1>9. QED BY <1>1, <1>7, <1>8, CommitKeeps

LEMMA GenerateKeeps ==
  ASSUME IInv, NEW r \in Requests, NEW level \in {"low", "high"}, GenerateEstimate(r, level)
  PROVE  IInv'
<1> DEFINE s == work[r].state
           t == [s EXCEPT !.estimate = Draft(s.searched, FALSE), !.confidence = level]
<1>1. left[r] > 0 /\ StateInv(s) /\ s.searched # None /\ s.estimate = NoEstimate
  BY Superstep DEF GenerateEstimate, NextInv
<1>2. s \in Channels /\ s.searched \in Texts
  BY <1>1 DEF StateInv, Channels
<1>3. /\ Draft(s.searched, FALSE) \in Estimates
      /\ ~Draft(s.searched, FALSE).failed
      /\ Draft(s.searched, FALSE) # NoEstimate
  BY <1>2 DEF Draft, Estimates, NoEstimate
<1>4. t \in Channels /\ t.confidence # "none" /\ t.estimate = Draft(s.searched, FALSE)
      /\ t.searched # None /\ t.status # "rejected"
  BY <1>1, <1>2, <1>3 DEF Channels, StateInv
<1>5. Consistent([state |-> t, next |-> {"supervisor"}])
  BY <1>3, <1>4, NewRecord DEF Consistent, StateInv, NextInv, Nodes
<1>6. Commit(r, t, {"supervisor"})
  BY DEF GenerateEstimate
<1>7. QED BY <1>1, <1>5, <1>6, CommitKeeps

LEMMA ValidateKeeps ==
  ASSUME IInv, NEW r \in Requests, NEW verdict \in {"valid", "invalid"}, Validate(r, verdict)
  PROVE  IInv'
<1> DEFINE s == work[r].state
           t == [s EXCEPT !.validation = verdict]
<1>1. left[r] > 0 /\ StateInv(s)
  BY Superstep DEF Validate
<1>2. StateInv(t)
  BY <1>1 DEF StateInv, Channels
<1>3. Consistent([state |-> t, next |-> {"supervisor"}])
  BY <1>2, NewRecord DEF Consistent, StateInv, NextInv, Nodes
<1>4. QED BY <1>1, <1>3, CommitKeeps DEF Validate

LEMMA GateKeeps ==
  ASSUME IInv, NEW r \in Requests, ReviewGate(r)
  PROVE  IInv'
<1> DEFINE s == work[r].state
           t == [s EXCEPT !.decision = answer[r]]
<1>1. left[r] > 0 /\ StateInv(s) /\ s.confidence = "low" /\ answer[r] \in Decisions
  BY Superstep DEF ReviewGate, NextInv, IInv, TypeOK
<1>2. StateInv(t) /\ t.decision # "none"
  BY <1>1 DEF StateInv, Channels, Decisions
<1>3. {"finalize", "supervisor"} # {"finalize"} /\ {"finalize", "supervisor"} # {}
  OBVIOUS
<1>4. Consistent([state |-> t, next |-> {"finalize", "supervisor"}])
  BY <1>2, <1>3, NewRecord DEF Consistent, StateInv, NextInv, Nodes
<1>5. QED BY <1>1, <1>4, CommitKeeps DEF ReviewGate

\* After the gate, the supervisor routes on what finalize has not changed.
LEMMA FinalizeKeeps ==
  ASSUME IInv, NEW r \in Requests, Finalize(r) \/ FinalizeAndRoute(r)
  PROVE  IInv'
<1> DEFINE s == work[r].state
           t == Finalized(s)
<1>1. CASE Finalize(r)
  <2>1. left[r] > 0 /\ StateInv(s) /\ Releasable(s)
    BY <1>1, Superstep DEF Finalize, NextInv
  <2>2. StateInv(t) /\ t.confidence = s.confidence /\ t.decision = s.decision
    BY <2>1, FinalizedIsSound DEF Releasable
  <2>3. Consistent([state |-> t, next |-> {}])
    BY <2>1, <2>2, NewRecord DEF Consistent, StateInv, NextInv, Releasable
  <2>4. Commit(r, t, {})
    BY <1>1 DEF Finalize
  <2>5. QED BY <2>1, <2>3, <2>4, CommitKeeps
<1>2. CASE FinalizeAndRoute(r)
  <2>1. left[r] > 0 /\ StateInv(s) /\ s.decision # "none" /\ s.confidence # "none"
    BY <1>2, Superstep DEF FinalizeAndRoute, NextInv, StateInv
  <2>2. /\ StateInv(t) /\ t.estimate # NoEstimate
        /\ t.confidence = s.confidence /\ t.decision = s.decision
        /\ t.requirements = s.requirements /\ t.searched = s.searched
        /\ t.validation = s.validation
    BY <2>1, FinalizedIsSound
  <2>3. RouteOf(t) = RouteOf(s) /\ ~RouterRaises(t)
    BY <2>1, <2>2 DEF RouteOf, RouterRaises, StateInv
  <2>4. Consistent([state |-> t, next |-> {RouteOf(s)}])
    BY <2>2, <2>3, RouteIsConsistent
  <2>5. Commit(r, t, {RouteOf(s)})
    BY <1>2 DEF FinalizeAndRoute
  <2>6. QED BY <2>1, <2>4, <2>5, CommitKeeps
<1>3. QED BY <1>1, <1>2

LEMMA RouteKeeps ==
  ASSUME IInv, NEW r \in Requests, Route(r)
  PROVE  IInv'
<1>1. left[r] > 0 /\ StateInv(work[r].state)
  BY Superstep DEF Route
<1>2. CASE RouterRaises(work[r].state)
  BY <1>2, LeaveKeeps DEF Route, Raise
<1>3. CASE ~RouterRaises(work[r].state)
  BY <1>1, <1>3, RouteIsConsistent, CommitKeeps DEF Route
<1>4. QED BY <1>2, <1>3

\* The steps that change no checkpoint.
LEMMA RestKeeps ==
  ASSUME IInv, NEW r \in Requests, Pause(r) \/ NothingPending(r)
  PROVE  IInv'
<1>1. UNCHANGED <<thread, work, answer, left>> /\ stage' = [stage EXCEPT ![r] = "ran"]
  BY DEF Pause, NothingPending
<1>2. TypeOK'
  BY <1>1 DEF IInv, TypeOK
<1>3. QED BY <1>1, <1>2 DEF IInv, Consistent

LEMMA ServeKeeps ==
  ASSUME IInv, NEW r \in Requests, Serve(r)
  PROVE  IInv'
<1>1. CASE Resume(r)
  <2>1. Consistent([state |-> thread.state, next |-> thread.next])
    BY CheckpointParts DEF IInv, Consistent
  <2>2. Run(r, thread.state, thread.next) /\ UNCHANGED <<thread, answer>>
    BY <1>1 DEF Resume
  <2>3. QED BY <2>1, <2>2, RunKeeps
<1>2. CASE Respond(r)
  BY <1>2, LeaveKeeps DEF Respond
<1>3. CASE LlmRaises(r) \/ LimitReached(r)
  BY <1>3, LeaveKeeps DEF LlmRaises, LimitReached, Raise
<1>4. CASE \E failed, found \in BOOLEAN : SearchBudgets(r, failed, found)
  BY <1>4, SearchKeeps
<1>5. CASE \E level \in {"low", "high"} : GenerateEstimate(r, level)
  BY <1>5, GenerateKeeps
<1>6. CASE \E verdict \in {"valid", "invalid"} : Validate(r, verdict)
  BY <1>6, ValidateKeeps
<1>7. QED
  BY <1>1, <1>2, <1>3, <1>4, <1>5, <1>6, RouteKeeps, ExtractKeeps, GateKeeps, RestKeeps,
     FinalizeKeeps DEF Serve

-----------------------------------------------------------------------------
(***************************************************************************)
(* The invariant and what it gives.                                        *)
(***************************************************************************)
LEMMA InitIsConsistent == Init => IInv
<1> SUFFICES ASSUME Init PROVE IInv
  OBVIOUS
<1>1. NewThread \in Checkpoints
  BY NewIsConsistent DEF Consistent
<1>2. TypeOK
  BY <1>1, MultiAgentAssumption DEF Init, TypeOK
<1>3. QED BY <1>2, NewIsConsistent DEF Init, IInv

LEMMA StartKeeps ==
  ASSUME IInv, NEW r \in Requests, NEW text \in Texts, Start(r, text)
  PROVE  IInv'
<1>1. Consistent([state |-> StartState(text), next |-> {"supervisor"}])
  BY StartIsConsistent DEF IInv
<1>2. QED BY <1>1, RunKeeps DEF Start

LEMMA CheckPausedKeeps ==
  ASSUME IInv, NEW r \in Requests, NEW action \in Decisions, CheckPaused(r, action)
  PROVE  IInv'
<1>1. CASE thread.next = {}
  BY <1>1, LeaveKeeps DEF CheckPaused
<1>2. CASE thread.next # {}
  <2>1. UNCHANGED <<thread, work, left>>
    BY <1>2 DEF CheckPaused
  <2>2. TypeOK'
    BY <1>2, <2>1 DEF CheckPaused, IInv, TypeOK
  <2>3. QED BY <2>1, <2>2 DEF IInv, Consistent
<1>3. QED BY <1>1, <1>2

LEMMA CrashKeeps ==
  ASSUME IInv, Crash
  PROVE  IInv'
<1>1. NewThread \in Checkpoints
  BY NewIsConsistent DEF Consistent
<1>2. TypeOK'
  BY <1>1, MultiAgentAssumption DEF Crash, IInv, TypeOK
<1>3. \A r \in Requests : Consistent(work'[r])
  BY NewIsConsistent DEF Crash
<1>4. QED BY <1>2, <1>3 DEF IInv, Consistent, Crash

LEMMA NextKeeps == IInv /\ [Next]_vars => IInv'
<1>1. ASSUME IInv, UNCHANGED vars PROVE IInv'
  BY <1>1 DEF vars, IInv, TypeOK, Consistent
<1>2. QED
  BY <1>1, StartKeeps, CheckPausedKeeps, ServeKeeps, CrashKeeps DEF Next

LEMMA Invariant == Spec => []IInv
BY InitIsConsistent, NextKeeps, PTL DEF Spec

\* Every checkpoint, request and counter keeps its type, however many requests
\* overlap.
THEOREM TypeCorrect == Spec => []TypeOK
<1>1. IInv => TypeOK BY DEF IInv
<1>2. QED BY <1>1, Invariant, PTL

\* Whatever overlaps, fails and is repeated, the thread never holds a released
\* estimate of low confidence without a ruling.
THEOREM LowConfidenceIsReviewedHolds == Spec => []LowConfidenceIsReviewed
<1>1. IInv => LowConfidenceIsReviewed
  BY DEF IInv, Consistent, NextInv, Releasable, LowConfidenceIsReviewed, Released
<1>2. QED BY <1>1, Invariant, PTL

\* The record of a failed search is never released as an estimate, and what is
\* released was generated.
THEOREM ReleasedIsGeneratedHolds == Spec => []ReleasedIsGenerated
<1>1. IInv => ReleasedIsGenerated
  BY DEF IInv, Consistent, StateInv, NextInv, Releasable, ReleasedIsGenerated, Released
<1>2. QED BY <1>1, Invariant, PTL

-----------------------------------------------------------------------------
(***************************************************************************)
(* Requests in turn.  With one request at a time a running request works   *)
(* on the latest checkpoint, and what one superstep keeps the thread keeps. *)
(***************************************************************************)
InTurn == MaxOverlap <= 1

TurnInv ==
  /\ \A p, q \in Serving : p = q
  /\ \A r \in Requests : stage[r] = "running" => work[r] = thread

\* What no superstep takes back: a ruling, a rejection.
Sticks(s, t) ==
  /\ s.decision # "none" => t.decision = s.decision
  /\ s.status = "rejected" => t.status = "rejected"

LEMMA NobodyIsServed ==
  ASSUME InTurn, Admitted
  PROVE  Serving = {}
<1>1. IsFiniteSet(Serving)
  BY MultiAgentAssumption, FS_Subset DEF Serving
<1>2. Cardinality(Serving) \in Nat /\ Cardinality(Serving) < 1
  BY <1>1, FS_CardinalityType, MultiAgentAssumption DEF InTurn, Admitted
<1>3. Cardinality(Serving) = 0
  BY <1>2
<1>4. QED BY <1>1, <1>3, FS_EmptySet

LEMMA CommitInTurn ==
  ASSUME TypeOK, TurnInv, NEW r \in Requests, NEW s, NEW next, stage[r] = "running",
         Commit(r, s, next)
  PROVE  TurnInv'
<1>1. \A q \in Requests : stage[q] = "running" => q = r
  BY DEF TurnInv, Serving
<1>2. \A q \in Requests :
        /\ q # r => stage'[q] = stage[q]
        /\ work'[q] = IF q = r THEN [state |-> s, next |-> next] ELSE work[q]
  BY DEF Commit, TypeOK
<1>3. thread' = [state |-> s, next |-> next]
  BY DEF Commit
<1>4. Serving' \subseteq Serving
  BY <1>2 DEF Serving
<1>5. \A q \in Requests : stage'[q] = "running" => work'[q] = thread'
  BY <1>1, <1>2, <1>3
<1>6. QED BY <1>4, <1>5 DEF TurnInv

LEMMA LeaveInTurn ==
  ASSUME TypeOK, TurnInv, NEW r \in Requests, NEW outcome \in {"answered", "failed"},
         Leave(r, outcome), UNCHANGED thread
  PROVE  TurnInv'
<1>1. \A q \in Requests : /\ stage'[q] = IF q = r THEN outcome ELSE stage[q]
                          /\ q # r => work'[q] = work[q]
  BY DEF Leave, TypeOK
<1>2. Serving' \subseteq Serving
  BY <1>1 DEF Serving
<1>3. QED BY <1>1, <1>2 DEF TurnInv

\* What a step of the graph does to the thread, in turn.
LEMMA CommitSticks ==
  ASSUME TurnInv, NEW r \in Requests, NEW s, NEW next, stage[r] = "running",
         Commit(r, s, next), Sticks(work[r].state, s)
  PROVE  Sticks(thread.state, thread'.state)
<1>1. thread = work[r] /\ thread'.state = s
  BY DEF TurnInv, Commit
<1>2. QED BY <1>1

LEMMA SticksItself == \A s : Sticks(s, s)
BY DEF Sticks

LEMMA FinalizedSticks ==
  ASSUME NEW s, StateInv(s), s.confidence # "none"
  PROVE  Sticks(s, Finalized(s))
<1>1. s \in Channels /\ s.estimate \in Estimates
  BY DEF StateInv, Channels
<1>2. Finalized(s).decision = s.decision
  BY <1>1 DEF Finalized, Channels
<1>3. s.status = "rejected" => Finalized(s).status = "rejected"
  <2>1. s.status = "rejected" => Judged(s).rejected
    BY <1>1 DEF Judged, Estimates, StateInv
  <2>2. QED BY <1>1, <2>1 DEF Finalized, Channels
<1>4. QED BY <1>2, <1>3 DEF Sticks

\* A request's step is a superstep that takes nothing back, or leaves the thread alone.
Committed(r) ==
  \E s, next : Commit(r, s, next) /\ stage[r] = "running" /\ Sticks(work[r].state, s)
Untouched(r) ==
  /\ UNCHANGED thread
  /\ \/ \E outcome \in {"answered", "failed"} : Leave(r, outcome)
     \/ Run(r, thread.state, thread.next)
     \/ stage' = [stage EXCEPT ![r] = "ran"] /\ UNCHANGED work /\ r \in Serving

LEMMA AgentSticks ==
  ASSUME IInv, NEW r \in Requests,
         \/ ExtractRequirements(r)
         \/ \E failed, found \in BOOLEAN : SearchBudgets(r, failed, found)
         \/ \E level \in {"low", "high"} : GenerateEstimate(r, level)
         \/ \E verdict \in {"valid", "invalid"} : Validate(r, verdict)
         \/ ReviewGate(r)
  PROVE  Committed(r)
<1> DEFINE s == work[r].state
<1>0. StateInv(s) /\ s \in Channels
  BY DEF IInv, Consistent, StateInv
<1>1. CASE ExtractRequirements(r)
  <2>1. PICK found \in {None, s.transcript} :
          Commit(r, [s EXCEPT !.requirements = found], {"supervisor"})
    BY <1>1 DEF ExtractRequirements
  <2>2. Sticks(s, [s EXCEPT !.requirements = found])
    BY <1>0 DEF Sticks, Channels
  <2>3. QED BY <1>1, <2>1, <2>2 DEF Committed, ExtractRequirements, At
<1>2. CASE \E failed, found \in BOOLEAN : SearchBudgets(r, failed, found)
  <2>1. PICK failed \in BOOLEAN, found \in BOOLEAN : SearchBudgets(r, failed, found)
    BY <1>2
  <2> DEFINE t == [s EXCEPT !.searched = s.requirements, !.matched = @ \/ found,
                          !.estimate = IF failed THEN Draft(s.requirements, TRUE) ELSE @]
  <2>2. s.searched = None
    BY <2>1, Superstep DEF SearchBudgets, NextInv
  <2>3. s.decision = "none" /\ s.estimate = NoEstimate /\ s.status # "rejected"
    BY <1>0, <2>2 DEF StateInv
  <2>4. Commit(r, t, {"supervisor"}) /\ stage[r] = "running"
    BY <2>1 DEF SearchBudgets, At
  <2>5. Sticks(s, t)
    BY <2>3 DEF Sticks
  <2>6. QED BY <2>4, <2>5 DEF Committed
<1>3. CASE \E level \in {"low", "high"} : GenerateEstimate(r, level)
  <2>1. PICK level \in {"low", "high"} : GenerateEstimate(r, level)
    BY <1>3
  <2> DEFINE t == [s EXCEPT !.estimate = Draft(s.searched, FALSE), !.confidence = level]
  <2>2. s.estimate = NoEstimate
    BY <2>1, Superstep DEF GenerateEstimate, NextInv
  <2>3. s.decision = "none" /\ s.status # "rejected"
    BY <1>0, <2>2 DEF StateInv
  <2>4. Commit(r, t, {"supervisor"}) /\ stage[r] = "running"
    BY <2>1 DEF GenerateEstimate, At
  <2>5. Sticks(s, t)
    BY <2>2, <2>3 DEF Sticks
  <2>6. QED BY <2>4, <2>5 DEF Committed
<1>4. CASE \E verdict \in {"valid", "invalid"} : Validate(r, verdict)
  <2>1. PICK verdict \in {"valid", "invalid"} : Validate(r, verdict)
    BY <1>4
  <2>2. Sticks(s, [s EXCEPT !.validation = verdict])
    BY <1>0 DEF Sticks, Channels
  <2>3. QED BY <2>1, <2>2 DEF Committed, Validate, At
<1>5. CASE ReviewGate(r)
  <2>1. s.decision = "none"
    BY <1>5, Superstep DEF ReviewGate, NextInv
  <2>2. Sticks(s, [s EXCEPT !.decision = answer[r]])
    BY <1>0, <2>1 DEF Sticks, Channels
  <2>3. QED BY <1>5, <2>2 DEF Committed, ReviewGate, At
<1>6. QED BY <1>1, <1>2, <1>3, <1>4, <1>5

LEMMA RoutingSticks ==
  ASSUME IInv, NEW r \in Requests, Route(r) \/ Finalize(r) \/ FinalizeAndRoute(r)
  PROVE  Committed(r) \/ Untouched(r)
<1> DEFINE s == work[r].state
<1>1. CASE Route(r) /\ RouterRaises(s)
  BY <1>1 DEF Route, Raise, Untouched
<1>2. CASE Route(r) /\ ~RouterRaises(s)
  BY <1>2, SticksItself DEF Route, Committed, At
<1>3. CASE Finalize(r)
  <2>1. StateInv(s) /\ s.confidence # "none"
    BY <1>3, Superstep DEF Finalize, NextInv, Releasable
  <2>2. QED BY <1>3, <2>1, FinalizedSticks DEF Finalize, Committed, At
<1>4. CASE FinalizeAndRoute(r)
  <2>1. StateInv(s) /\ s.confidence # "none"
    BY <1>4, Superstep DEF FinalizeAndRoute, NextInv, StateInv
  <2>2. QED BY <1>4, <2>1, FinalizedSticks DEF FinalizeAndRoute, Committed, At
<1>5. QED BY <1>1, <1>2, <1>3, <1>4

LEMMA ServeSplits ==
  ASSUME IInv, NEW r \in Requests, Serve(r)
  PROVE  r \in Serving /\ (Committed(r) \/ Untouched(r))
<1>1. r \in Serving
  BY DEF Serve, Serving, Resume, Route, ExtractRequirements, SearchBudgets, GenerateEstimate,
         Validate, ReviewGate, Pause, Finalize, FinalizeAndRoute, LlmRaises, LimitReached,
         NothingPending, Respond, At
<1>2. CASE \/ Resume(r) \/ Pause(r) \/ LlmRaises(r) \/ LimitReached(r) \/ NothingPending(r)
           \/ Respond(r)
  BY <1>1, <1>2 DEF Resume, Pause, LlmRaises, LimitReached, NothingPending, Respond, Raise,
                    Untouched
<1>3. QED BY <1>1, <1>2, AgentSticks, RoutingSticks DEF Serve

LEMMA UntouchedInTurn ==
  ASSUME TypeOK, TurnInv, NEW r \in Serving, Untouched(r)
  PROVE  TurnInv'
<1>0. r \in Requests
  BY DEF Serving
<1>1. CASE \E outcome \in {"answered", "failed"} : Leave(r, outcome)
  BY <1>0, <1>1, LeaveInTurn DEF Untouched
<1>2. CASE ~\E outcome \in {"answered", "failed"} : Leave(r, outcome)
  <2>1. \A q \in Requests : /\ q # r => stage'[q] = stage[q] /\ work'[q] = work[q]
                            /\ stage'[q] = "running" /\ q = r => work'[q] = thread
    <3>1. CASE Run(r, thread.state, thread.next)
      <4>1. thread = [state |-> thread.state, next |-> thread.next]
        BY CheckpointParts DEF TypeOK
      <4>2. QED BY <1>0, <3>1, <4>1 DEF Run, TypeOK
    <3>2. CASE stage' = [stage EXCEPT ![r] = "ran"] /\ UNCHANGED work
      BY <1>0, <3>2 DEF TypeOK
    <3>3. QED BY <1>2, <3>1, <3>2 DEF Untouched
  <2>2. Serving' \subseteq Serving
    BY <2>1 DEF Serving
  <2>3. UNCHANGED thread
    BY DEF Untouched
  <2>4. QED BY <2>1, <2>2, <2>3 DEF TurnInv
<1>3. QED BY <1>1, <1>2

LEMMA ServeInTurn ==
  ASSUME IInv, TurnInv, NEW r \in Requests, Serve(r)
  PROVE  TurnInv' /\ Sticks(thread.state, thread'.state)
<1>1. r \in Serving /\ (Committed(r) \/ Untouched(r)) /\ TypeOK
  BY ServeSplits DEF IInv
<1>2. CASE Committed(r)
  BY <1>1, <1>2, CommitInTurn, CommitSticks DEF Committed
<1>3. CASE Untouched(r)
  <2>1. UNCHANGED thread
    BY <1>3 DEF Untouched
  <2>2. QED BY <1>1, <1>3, <2>1, UntouchedInTurn, SticksItself
<1>4. QED BY <1>1, <1>2, <1>3

\* Nobody is served when a request is admitted.
LEMMA AdmittedInTurn ==
  ASSUME TypeOK, TurnInv, InTurn, NEW r \in Requests, Admitted,
         \A q \in Requests : q # r => stage'[q] = stage[q],
         stage'[r] = "running" => work'[r] = thread'
  PROVE  TurnInv'
<1>1. Serving = {}
  BY NobodyIsServed
<1>2. \A q \in Requests : q # r => stage'[q] \notin {"checked", "running", "ran"}
  BY <1>1 DEF Serving
<1>3. QED BY <1>2 DEF TurnInv, Serving

LEMMA StartInTurn ==
  ASSUME IInv, TurnInv, InTurn, NEW r \in Requests, NEW text \in Texts, Start(r, text)
  PROVE  TurnInv' /\ Sticks(thread.state, thread'.state)
<1>1. TypeOK /\ thread.state \in Channels
  BY DEF IInv, Consistent, StateInv
<1>2. /\ \A q \in Requests : q # r => stage'[q] = stage[q]
      /\ work'[r] = thread' /\ thread'.state = StartState(text)
  BY <1>1 DEF Start, Run, TypeOK
<1>3. Sticks(thread.state, StartState(text))
  BY <1>1 DEF Sticks, StartState, Channels
<1>4. QED BY <1>1, <1>2, <1>3, AdmittedInTurn DEF Start

LEMMA CheckPausedInTurn ==
  ASSUME IInv, TurnInv, InTurn, NEW r \in Requests, NEW action \in Decisions,
         CheckPaused(r, action)
  PROVE  TurnInv' /\ Sticks(thread.state, thread'.state)
<1>1. TypeOK
  BY DEF IInv
<1>2. \A q \in Requests : q # r => stage'[q] = stage[q]
  BY <1>1 DEF CheckPaused, Leave, TypeOK
<1>3. stage'[r] # "running" /\ UNCHANGED thread
  BY <1>1 DEF CheckPaused, Leave, TypeOK
<1>4. QED BY <1>1, <1>2, <1>3, AdmittedInTurn, SticksItself DEF CheckPaused

LEMMA CrashInTurn ==
  ASSUME TypeOK, Crash
  PROVE  TurnInv' /\ Sticks(thread.state, thread'.state)
<1>1. Serving' = {}
  BY DEF Crash, Serving, TypeOK
<1>2. \A r \in Requests : stage'[r] # "running"
  BY <1>1 DEF Serving
<1>3. QED BY <1>1, <1>2, SticksItself DEF Crash, TurnInv

LEMMA NextInTurn ==
  ASSUME InTurn, IInv, TurnInv, [Next]_vars
  PROVE  TurnInv' /\ Sticks(thread.state, thread'.state)
<1>1. CASE UNCHANGED vars
  <2>1. TurnInv' /\ thread' = thread
    BY <1>1 DEF vars, TurnInv, Serving
  <2>2. QED BY <2>1, SticksItself
<1>2. CASE Crash
  BY <1>2, CrashInTurn DEF IInv
<1>3. QED
  BY <1>1, <1>2, StartInTurn, CheckPausedInTurn, ServeInTurn DEF Next

LEMMA InitInTurn == Init => TurnInv
BY DEF Init, TurnInv, Serving

LEMMA NothingIsTakenBack ==
  ASSUME InTurn
  PROVE  Spec => [][Sticks(thread.state, thread'.state)]_vars
<1>1. IInv /\ TurnInv /\ [Next]_vars => TurnInv' /\ Sticks(thread.state, thread'.state)
  BY NextInTurn
<1>2. QED BY <1>1, InitInTurn, Invariant, PTL DEF Spec

\* Requests that do not overlap leave a thread with one ruling.
THEOREM DecisionSticksHolds ==
  ASSUME InTurn
  PROVE  Spec => DecisionSticks
<1>1. Sticks(thread.state, thread'.state) =>
        (thread.state.decision # "none" => thread'.state.decision = thread.state.decision)
  BY DEF Sticks
<1>2. QED BY <1>1, NothingIsTakenBack, PTL DEF DecisionSticks

\* A rejection is never shown as anything else, although finalize runs twice.
THEOREM RejectionSticksHolds ==
  ASSUME InTurn
  PROVE  Spec => RejectionSticks
<1>1. Sticks(thread.state, thread'.state) =>
        (thread.state.status = "rejected" => thread'.state.status = "rejected")
  BY DEF Sticks
<1>2. QED BY <1>1, NothingIsTakenBack, PTL DEF RejectionSticks

-----------------------------------------------------------------------------
(***************************************************************************)
(* How many steps a request has left, at most: its check, its admission    *)
(* and its answer, and the supersteps of its run.                          *)
(***************************************************************************)
StepsLeft(r) ==
  CASE stage[r] = "idle"    -> RecursionLimit + 4
    [] stage[r] = "checked" -> RecursionLimit + 3
    [] stage[r] = "running" -> left[r] + 2
    [] stage[r] = "ran"     -> 1
    [] OTHER                -> 0

Over == {"answered", "failed", "lost"}

\* A step of the request that touches no other.
Counts(r) ==
  /\ StepsLeft(r)' \in Nat /\ StepsLeft(r)' < StepsLeft(r)
  /\ \A q \in Requests : q # r => StepsLeft(q)' = StepsLeft(q)

LEMMA StepsLeftType ==
  ASSUME TypeOK, NEW r \in Requests
  PROVE  /\ StepsLeft(r) \in 0..(RecursionLimit + 4)
         /\ StepsLeft(r) = 0 <=> stage[r] \in Over
<1>1. left[r] \in 0..RecursionLimit /\ RecursionLimit \in Nat
  BY MultiAgentAssumption DEF TypeOK
<1>2. stage[r] \in {"idle", "checked", "running", "ran"} \cup Over
  BY DEF TypeOK, Over
<1> QED
  BY <1>1, <1>2 DEF StepsLeft, Over

LEMMA OthersWait ==
  ASSUME NEW r \in Requests, \A q \in Requests : q # r => stage'[q] = stage[q] /\ left'[q] = left[q]
  PROVE  \A q \in Requests : q # r => StepsLeft(q)' = StepsLeft(q)
BY DEF StepsLeft

LEMMA CommitCounts ==
  ASSUME TypeOK, NEW r \in Requests, NEW nodes, At(r, nodes), NEW s, NEW next, Commit(r, s, next)
  PROVE  Counts(r)
<1>1. \A q \in Requests : q # r => stage'[q] = stage[q] /\ left'[q] = left[q]
  BY DEF Commit, TypeOK
<1>2. /\ stage[r] = "running" /\ stage'[r] \in {"running", "ran"}
      /\ left[r] > 0 /\ left'[r] = left[r] - 1 /\ left[r] \in Nat
  BY DEF Commit, At, TypeOK
<1>3. StepsLeft(r)' \in Nat /\ StepsLeft(r)' < StepsLeft(r)
  BY <1>2 DEF StepsLeft
<1> QED
  BY <1>1, <1>3, OthersWait DEF Counts

LEMMA LeaveCounts ==
  ASSUME TypeOK, NEW r \in Requests, stage[r] \notin Over,
         NEW outcome \in {"answered", "failed"}, Leave(r, outcome)
  PROVE  Counts(r)
<1>1. \A q \in Requests : q # r => stage'[q] = stage[q] /\ left'[q] = left[q]
  BY DEF Leave, TypeOK
<1>2. StepsLeft(r)' = 0
  BY DEF Leave, TypeOK, StepsLeft
<1>3. StepsLeft(r) \in Nat /\ StepsLeft(r) # 0
  BY StepsLeftType, MultiAgentAssumption
<1> QED
  BY <1>1, <1>2, <1>3, OthersWait DEF Counts

\* Resume, Start: the run may take as many supersteps as the limit allows.
LEMMA RunCounts ==
  ASSUME TypeOK, NEW r \in Requests, stage[r] \in {"idle", "checked"},
         NEW s, NEW next, Run(r, s, next)
  PROVE  Counts(r)
<1>1. \A q \in Requests : q # r => stage'[q] = stage[q] /\ left'[q] = left[q]
  BY DEF Run, TypeOK
<1>2. StepsLeft(r)' = RecursionLimit + 2
  BY DEF Run, TypeOK, StepsLeft
<1>3. StepsLeft(r) \in {RecursionLimit + 3, RecursionLimit + 4} /\ RecursionLimit \in Nat
  BY MultiAgentAssumption DEF StepsLeft
<1> QED
  BY <1>1, <1>2, <1>3, OthersWait DEF Counts

LEMMA RestCounts ==
  ASSUME TypeOK, NEW r \in Requests, Pause(r) \/ NothingPending(r)
  PROVE  Counts(r)
<1>1. \A q \in Requests : q # r => stage'[q] = stage[q] /\ left'[q] = left[q]
  BY DEF Pause, NothingPending, TypeOK
<1>2. stage[r] = "running" /\ stage'[r] = "ran" /\ left[r] \in Nat
  BY DEF Pause, NothingPending, At, TypeOK
<1>3. StepsLeft(r) = left[r] + 2 /\ StepsLeft(r)' = 1
  BY <1>2 DEF StepsLeft
<1> QED
  BY <1>1, <1>2, <1>3, OthersWait DEF Counts

LEMMA ServeCounts ==
  ASSUME TypeOK, NEW r \in Requests, Serve(r)
  PROVE  Counts(r)
<1>1. CASE Resume(r)
  BY <1>1, RunCounts DEF Resume
<1>2. CASE Respond(r)
  BY <1>2, LeaveCounts DEF Respond, Over
<1>3. CASE LlmRaises(r) \/ LimitReached(r)
  BY <1>3, LeaveCounts DEF LlmRaises, LimitReached, Raise, At, Over
<1>4. CASE Route(r)
  <2>1. CASE RouterRaises(work[r].state)
    BY <1>4, <2>1, LeaveCounts DEF Route, Raise, At, Over
  <2>2. CASE ~RouterRaises(work[r].state)
    BY <1>4, <2>2, CommitCounts DEF Route
  <2> QED
    BY <2>1, <2>2
<1>5. CASE ExtractRequirements(r)
  BY <1>5, CommitCounts DEF ExtractRequirements
<1>6. CASE \E failed, found \in BOOLEAN : SearchBudgets(r, failed, found)
  BY <1>6, CommitCounts DEF SearchBudgets
<1>7. CASE \E level \in {"low", "high"} : GenerateEstimate(r, level)
  BY <1>7, CommitCounts DEF GenerateEstimate
<1>8. CASE \E verdict \in {"valid", "invalid"} : Validate(r, verdict)
  BY <1>8, CommitCounts DEF Validate
<1>9. CASE ReviewGate(r)
  BY <1>9, CommitCounts DEF ReviewGate
<1>10. CASE Finalize(r) \/ FinalizeAndRoute(r)
  BY <1>10, CommitCounts DEF Finalize, FinalizeAndRoute
<1> QED
  BY <1>1, <1>2, <1>3, <1>4, <1>5, <1>6, <1>7, <1>8, <1>9, <1>10, RestCounts DEF Serve

LEMMA CheckPausedCounts ==
  ASSUME TypeOK, NEW r \in Requests, NEW action \in Decisions, CheckPaused(r, action)
  PROVE  Counts(r)
<1>1. CASE thread.next = {}
  BY <1>1, LeaveCounts DEF CheckPaused, Over
<1>2. CASE thread.next # {}
  <2>1. \A q \in Requests : q # r => stage'[q] = stage[q] /\ left'[q] = left[q]
    BY <1>2 DEF CheckPaused, TypeOK
  <2>2. stage[r] = "idle" /\ stage'[r] = "checked"
    BY <1>2 DEF CheckPaused, TypeOK
  <2>3. StepsLeft(r) = RecursionLimit + 4 /\ StepsLeft(r)' = RecursionLimit + 3
    BY <2>2 DEF StepsLeft
  <2> QED
    BY <2>1, <2>3, OthersWait, MultiAgentAssumption DEF Counts
<1> QED
  BY <1>1, <1>2

\* Requests are bounded by the recursion limit, however they overlap, fail and send
\* the router round its loop: of the steps a request has left, at most, every step of
\* the system takes one or more from some request and gives none back to any, and a
\* request has none left when it was answered, has failed or was lost, and only then.
RequestsAreBounded ==
  /\ [](\A r \in Requests : /\ StepsLeft(r) \in 0..(RecursionLimit + 4)
                            /\ StepsLeft(r) = 0 <=> stage[r] \in Over)
  /\ [][/\ \A r \in Requests : StepsLeft(r)' <= StepsLeft(r)
        /\ \E r \in Requests : StepsLeft(r)' < StepsLeft(r)]_vars
THEOREM RequestsAreBoundedHolds == Spec => RequestsAreBounded
<1> DEFINE Fewer == /\ \A r \in Requests : StepsLeft(r)' <= StepsLeft(r)
                    /\ \E r \in Requests : StepsLeft(r)' < StepsLeft(r)
<1>1. ASSUME TypeOK, NEW r \in Requests, Counts(r)
      PROVE  Fewer
  <2>1. \A q \in Requests : StepsLeft(q) \in Nat
    BY <1>1, StepsLeftType, MultiAgentAssumption
  <2>2. ASSUME NEW q \in Requests
        PROVE  StepsLeft(q)' <= StepsLeft(q)
    <3>1. CASE q = r
      BY <1>1, <2>1, <3>1, StepsLeftType DEF Counts
    <3>2. CASE q # r
      BY <1>1, <2>1, <3>2 DEF Counts
    <3> QED
      BY <3>1, <3>2
  <2> QED
    BY <1>1, <2>2 DEF Counts
<1>2. ASSUME TypeOK, Crash
      PROVE  Fewer
  <2>1. \A q \in Requests : StepsLeft(q) \in Nat /\ (q \in Serving => StepsLeft(q) # 0)
    BY <1>2, StepsLeftType, MultiAgentAssumption DEF Serving, Over
  <2>2. \A q \in Serving : StepsLeft(q)' = 0
    BY <1>2 DEF Crash, Serving, StepsLeft
  <2>3. \A q \in Requests \ Serving : StepsLeft(q)' = StepsLeft(q)
    BY <1>2 DEF Crash, Serving, StepsLeft, TypeOK
  <2>4. PICK q \in Serving : q \in Requests
    BY <1>2 DEF Crash, Serving
  <2> QED
    BY <2>1, <2>2, <2>3, <2>4
<1>3. IInv /\ [Next]_vars => [Fewer]_vars
  <2> HIDE DEF Fewer
  <2>1. IInv => TypeOK
    BY DEF IInv
  <2>2. \A r \in Requests, text \in Texts : TypeOK /\ Start(r, text) => Counts(r)
    BY RunCounts DEF Start
  <2> QED
    BY <1>1, <1>2, <2>1, <2>2, CheckPausedCounts, ServeCounts DEF Next
<1>4. IInv => \A r \in Requests : /\ StepsLeft(r) \in 0..(RecursionLimit + 4)
                                  /\ StepsLeft(r) = 0 <=> stage[r] \in Over
  BY StepsLeftType DEF IInv
<1> QED
  BY <1>3, <1>4, Invariant, PTL DEF Spec, RequestsAreBounded
====
