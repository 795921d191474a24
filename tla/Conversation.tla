---------------------------- MODULE Conversation ----------------------------
(***************************************************************************)
(* The conversational estimation: the turns of one session                 *)
(* (src/src/routers/sessions.py) and one-off estimates                     *)
(* (src/src/routers/estimation.py) run the pipeline of the estimation      *)
(* service on one event loop.  A turn gives the loop up at two awaits: the *)
(* model's call and, with a full window, the call that summarises it.      *)
(* Turns of one session are not kept apart.                                *)
(***************************************************************************)
EXTENDS Integers, Sequences, FiniteSets

CONSTANTS
  Turns,             \* requests
  Texts,             \* transcripts, attachments included
  Options,           \* project type, detail level and output format of a request
  NoOption,          \* none given: the turns of a session
  Versions,          \* prompt versions a client may name
  Templates,         \* those that exist
  DefaultVersion,    \* settings.prompt_version
  Asked,             \* the requests clients send
  Drafts,            \* what a model answers: [team, techs, cost]
  Techs, Names, None,
  NameIn,            \* the project name a transcript gives, or None
  TechsIn,           \* the technologies a transcript mentions
  Blocked,           \* transcripts the guardrails, the attachment or length checks refuse
  Near,              \* the transcripts whose embedding is within the threshold of one's own
  UsesRedis,         \* REDIS_URL is set
  MaxTurns,          \* settings.max_conversation_turns
  MaxOverlap         \* bound: requests served at the same time

(***************************************************************************)
(* A request, and a result with the request it was generated for.          *)
(***************************************************************************)
Requests ==
  [oneOff : BOOLEAN, text : Texts, option : Options, version : Versions]
NoRequest == [none |-> "request"]
Results ==
  [text : Texts, option : Options, version : Versions,
   team : Nat, techs : SUBSET Techs, cost : Nat]
NoResult == [none |-> "result"]

ASSUME ConversationAssumption ==
  /\ IsFiniteSet(Turns)
  /\ NoOption \in Options /\ Templates \subseteq Versions /\ DefaultVersion \in Templates
  /\ Asked \subseteq Requests
  /\ \A r \in Asked : r.oneOff \/ (r.option = NoOption /\ r.version = DefaultVersion)
  /\ Drafts \subseteq [team : Nat, techs : SUBSET Techs, cost : Nat]
  /\ None \notin Names
  /\ NameIn \in [Texts -> Names \cup {None}] /\ TechsIn \in [Texts -> SUBSET Techs]
  /\ Near \in [Texts -> SUBSET Texts] /\ \A x \in Texts : x \in Near[x]
  /\ UsesRedis \in BOOLEAN
  /\ MaxTurns \in Nat \ {0} /\ MaxOverlap \in Nat

Messages == [role : {"user", "assistant"}, turn : Turns]
Metadata == [name : Names \cup {None}, team : Nat, techs : SUBSET Techs]
Unknown == [name |-> None, team |-> 0, techs |-> {}]
Anchors == [fact : {"name"}, value : Names] \cup [fact : {"team"}, value : Nat]
           \cup [fact : {"tech"}, value : Techs]
Tiers == {"unknown", "starter", "standard", "enterprise"}
Keys == Texts \X Options

VARIABLES
  open,              \* the session exists in this process
  history,           \* its window of messages
  metadata, anchors, \* its facts
  tier,              \* its last resolved tier
  summary,           \* the turns its accumulated summary covers
  memory,            \* the in-process cache
  semantic,          \* the entries of the semantic cache
  stage,             \* of each request
  request, answer,   \* what was asked, and the result it was answered with
  brief,             \* of a turn at the model: the metadata its prompt was rendered with
  gist,              \* of a turn being summarised: the turns its summary prompt shows
  recorded,          \* history variable: the turns recorded in this session
  spoiled            \* history variable: a summary call failed, was empty, or overlapped another

session == <<open, history, metadata, anchors, tier, summary>>
caches == <<memory, semantic>>
vars == <<session, caches, stage, request, answer, brief, gist, recorded, spoiled>>

Closed ==
  /\ open = FALSE /\ history = <<>> /\ metadata = Unknown /\ anchors = {}
  /\ tier = "unknown" /\ summary = {}

Init ==
  /\ Closed
  /\ memory = [k \in Keys |-> NoResult] /\ semantic = {}
  /\ stage = [t \in Turns |-> "idle"]
  /\ request = [t \in Turns |-> NoRequest]
  /\ answer = [t \in Turns |-> NoResult]
  /\ brief = [t \in Turns |-> Unknown]
  /\ gist = [t \in Turns |-> {}]
  /\ recorded = {} /\ spoiled = FALSE

Serving == {t \in Turns : stage[t] \in {"asked", "summarising"}}
Admitted == Cardinality(Serving) < MaxOverlap

-----------------------------------------------------------------------------
(***************************************************************************)
(* The window of messages.                                                 *)
(***************************************************************************)
UserMessages(h) == {i \in DOMAIN h : h[i].role = "user"}
DropAt(h, i) == SubSeq(h, 1, i - 1) \o SubSeq(h, i + 1, Len(h))

\* The oldest user message goes, and the message after it if that is a reply.
\* One round is enough: every append evicts, so the window is over by one at most.
OldestUser(h) == CHOOSE i \in UserMessages(h) : \A j \in UserMessages(h) : i <= j
DropOldestUserOnly(h) == DropAt(h, OldestUser(h))
DropOldest(h) ==
  LET i == OldestUser(h)
      rest == DropAt(h, i)
  IN  IF i <= Len(rest) /\ rest[i].role = "assistant" THEN DropAt(rest, i) ELSE rest
EvictIfNeeded(h) ==
  IF Cardinality(UserMessages(h)) > MaxTurns THEN DropOldest(h) ELSE h

\* add_user, which evicts, then add_assistant.
WithTurn(h, t) ==
  Append(EvictIfNeeded(Append(h, [role |-> "user", turn |-> t])),
         [role |-> "assistant", turn |-> t])
Full == Len(history) >= 2 * MaxTurns
TurnsIn(h) == {h[i].turn : i \in DOMAIN h}

\* What the summary prompt shows, and what the call makes of the summary: its text
\* replaces it, an empty text too; an error leaves it as it is.
GistOfWindow == TurnsIn(history)
Gist == summary \cup TurnsIn(history)
Outcomes == {"told", "empty", "error"}
SummaryAfter(t, outcome) ==
  CASE outcome = "told" -> gist[t]
    [] outcome = "empty" -> {}
    [] OTHER -> summary

-----------------------------------------------------------------------------
(***************************************************************************)
(* What a turn does to the facts of the session.                           *)
(***************************************************************************)
\* The first rule that matches, if any; the metadata is that of the turns before.
ResolveTierRule(known, result) ==
  IF known.team >= 8 THEN "large_team"
  ELSE CASE result.cost > 85000 -> "high_cost"
         [] result.cost \in 18000..85000 -> "medium_cost"
         [] result.cost < 18000 -> "small_scope"
         [] OTHER -> "no_match"
ResolveTier(known, result) ==
  IF known.team >= 8 THEN "enterprise"
  ELSE CASE result.cost > 85000 -> "enterprise"
         [] result.cost \in 18000..85000 -> "standard"
         [] result.cost < 18000 -> "starter"
         [] OTHER -> "unknown"

\* A known name stays, a team is the latest one given, technologies accumulate.
UpdateFromBrief(t, text, result) ==
  [name |-> IF brief[t].name # None THEN brief[t].name ELSE NameIn[text],
   team |-> IF result.team # 0 THEN result.team ELSE brief[t].team,
   techs |-> brief[t].techs \cup result.techs \cup TechsIn[text]]
UpdateLatestName(t, text, result) ==
  [name |-> IF NameIn[text] # None THEN NameIn[text] ELSE metadata.name,
   team |-> IF result.team # 0 THEN result.team ELSE metadata.team,
   techs |-> metadata.techs \cup result.techs \cup TechsIn[text]]
UpdateFromResult(t, text, result) ==
  [name |-> IF metadata.name # None THEN metadata.name ELSE NameIn[text],
   team |-> IF result.team # 0 THEN result.team ELSE metadata.team,
   techs |-> metadata.techs \cup result.techs \cup TechsIn[text]]

\* The facts two consecutive turns agree on.
StableFacts(previous, new) ==
  {[fact |-> "name", value |-> v] : v \in {previous.name} \cap ({new.name} \ {None})}
  \cup {[fact |-> "team", value |-> v] : v \in {previous.team} \cap ({new.team} \ {0})}
  \cup {[fact |-> "tech", value |-> v] : v \in previous.techs \cap new.techs}

RecordFacts(t, text, result) ==
  /\ tier' = ResolveTier(metadata, result)
  /\ metadata' = UpdateFromResult(t, text, result)
  /\ anchors' = anchors \cup StableFacts(metadata, UpdateFromResult(t, text, result))

\* The turn is appended and answered.
Commit(t) ==
  /\ history' = WithTurn(history, t)
  /\ stage' = [stage EXCEPT ![t] = "answered"]
  /\ gist' = [gist EXCEPT ![t] = {}]
  /\ recorded' = recorded \cup {t}
  /\ UNCHANGED open

\* A result is there, cached or new: a one-off is answered; a turn records its facts
\* and, before it is appended to a full window, has that window summarised.
Conclude(t, r, result) ==
  /\ answer' = [answer EXCEPT ![t] = result]
  /\ brief' = [brief EXCEPT ![t] = Unknown]
  /\ UNCHANGED <<summary, spoiled>>
  /\ \/ /\ r.oneOff
        /\ stage' = [stage EXCEPT ![t] = "answered"]
        /\ UNCHANGED <<open, history, metadata, anchors, tier, gist, recorded>>
     \/ /\ ~r.oneOff /\ ~Full
        /\ RecordFacts(t, r.text, result)
        /\ Commit(t)
     \/ /\ ~r.oneOff /\ Full
        /\ RecordFacts(t, r.text, result)
        /\ stage' = [stage EXCEPT ![t] = "summarising"]
        /\ gist' = [gist EXCEPT ![t] = Gist]
        /\ UNCHANGED <<open, history, recorded>>

End(t, outcome) ==
  /\ stage' = [stage EXCEPT ![t] = outcome]
  /\ brief' = [brief EXCEPT ![t] = Unknown]
  /\ UNCHANGED <<session, answer, gist, recorded, spoiled>>

-----------------------------------------------------------------------------
(***************************************************************************)
(* The two caches.                                                         *)
(***************************************************************************)
\* Neither key has the prompt version: the service never passes it on.
CacheKeyOfText(r) == <<r.text, NoOption>>
CacheKey(r) == <<r.text, r.option>>
BucketFor(r) == r.option

\* The semantic cache first (a failing Redis is a miss), then the in-process one.
SemanticHits(r) ==
  {e.result : e \in {e \in semantic : e.bucket = BucketFor(r) /\ r.text \in Near[e.text]}}
Lookups(r) ==
  IF UsesRedis
  THEN {memory[CacheKey(r)]} \cup SemanticHits(r)
  ELSE {memory[CacheKey(r)]}

StoreCache(r, result) ==
  /\ memory' = [memory EXCEPT ![CacheKey(r)] = result]
  /\ IF UsesRedis
     THEN semantic' \in {semantic, semantic \cup
                         {[bucket |-> BucketFor(r), text |-> r.text, result |-> result]}}
     ELSE UNCHANGED semantic

-----------------------------------------------------------------------------
(***************************************************************************)
(* The handlers, up to their awaits.                                       *)
(***************************************************************************)
CreateSession ==
  /\ ~open
  /\ open' = TRUE
  /\ UNCHANGED <<history, metadata, anchors, tier, summary, caches, stage, request, answer,
                 brief, gist, recorded, spoiled>>

\* Up to the model's call: 404 without the session, 4xx for a transcript that is refused,
\* a cached result, an error for a prompt version without a template.
Receive(t, r) ==
  /\ stage[t] = "idle" /\ Admitted
  /\ request' = [request EXCEPT ![t] = r]
  /\ UNCHANGED caches
  /\ \/ /\ r.text \in Blocked \/ (~r.oneOff /\ ~open)
        /\ End(t, "refused")
     \/ /\ r.text \notin Blocked /\ (r.oneOff \/ open)
        /\ \E hit \in Lookups(r) :
             \/ hit # NoResult /\ Conclude(t, r, hit)
             \/ /\ hit = NoResult /\ r.version \notin Templates
                /\ End(t, "failed")
             \/ /\ hit = NoResult /\ r.version \in Templates
                /\ stage' = [stage EXCEPT ![t] = "asked"]
                /\ brief' = [brief EXCEPT ![t] = metadata]
                /\ UNCHANGED <<session, answer, gist, recorded, spoiled>>

\* generate_estimation returns; the output guard leaves the facts of a result alone.
LlmAnswers(t, draft) ==
  LET r == request[t]
      result == [text |-> r.text, option |-> r.option, version |-> r.version,
                 team |-> draft.team, techs |-> draft.techs, cost |-> draft.cost]
  IN  /\ stage[t] = "asked"
      /\ StoreCache(r, result)
      /\ Conclude(t, r, result)
      /\ UNCHANGED request

LlmFails(t) ==
  /\ stage[t] = "asked"
  /\ End(t, "failed")
  /\ UNCHANGED <<caches, request>>

\* The summary call ends, and the turn is appended.
SummaryEnds(t, outcome) ==
  /\ stage[t] = "summarising"
  /\ summary' = SummaryAfter(t, outcome)
  /\ spoiled' = (spoiled \/ outcome # "told"
                  \/ \E u \in Turns \ {t} : stage[u] = "summarising")
  /\ Commit(t)
  /\ UNCHANGED <<metadata, anchors, tier, caches, request, answer, brief>>

\* TTL of a semantic entry.
Expire ==
  /\ \E e \in semantic : semantic' = semantic \ {e}
  /\ UNCHANGED <<session, memory, stage, request, answer, brief, gist, recorded, spoiled>>

\* The process dies: sessions and the in-process cache are its memory, Redis is not.
Crash ==
  /\ open' = FALSE /\ history' = <<>> /\ metadata' = Unknown /\ anchors' = {}
  /\ tier' = "unknown" /\ summary' = {}
  /\ memory' = [k \in Keys |-> NoResult]
  /\ stage' = [t \in Turns |-> IF t \in Serving THEN "lost" ELSE stage[t]]
  /\ brief' = [t \in Turns |-> Unknown] /\ gist' = [t \in Turns |-> {}]
  /\ recorded' = {} /\ spoiled' = FALSE
  /\ UNCHANGED <<semantic, request, answer>>

Proceed(t) ==
  (\E d \in Drafts : LlmAnswers(t, d))
  \/ (\E outcome \in Outcomes : SummaryEnds(t, outcome))

Next ==
  \/ CreateSession
  \/ \E t \in Turns : (\E r \in Asked : Receive(t, r)) \/ Proceed(t) \/ LlmFails(t)
  \/ Expire \/ Crash

Spec == Init /\ [][Next]_vars

-----------------------------------------------------------------------------
(***************************************************************************)
(* Properties.                                                             *)
(***************************************************************************)
\* The type of every variable.
TypeOK ==
  /\ open \in BOOLEAN
  /\ history \in Seq(Messages)
  /\ metadata \in Metadata /\ anchors \subseteq Anchors /\ tier \in Tiers
  /\ summary \subseteq Turns
  /\ memory \in [Keys -> Results \cup {NoResult}]
  /\ semantic \subseteq [bucket : Options, text : Texts, result : Results]
  /\ stage \in [Turns -> {"idle", "asked", "summarising", "answered", "refused", "failed",
                          "lost"}]
  /\ request \in [Turns -> Requests \cup {NoRequest}]
  /\ answer \in [Turns -> Results \cup {NoResult}]
  /\ brief \in [Turns -> Metadata]
  /\ gist \in [Turns -> SUBSET Turns]
  /\ recorded \subseteq Turns /\ spoiled \in BOOLEAN

\* The history of a session is the abstract window: its most recent turns, at most
\* MaxTurns of them, each a question followed by its own reply, whatever turns overlap.
\* (ConversationHistory's eviction, the two appends of a turn without an await between.)
Turn(t) == <<[role |-> "user", turn |-> t], [role |-> "assistant", turn |-> t]>>
InTwos(h) ==
  [i \in 1..((Len(h) + 1) \div 2) |->
    SubSeq(h, 2 * i - 1, IF 2 * i <= Len(h) THEN 2 * i ELSE Len(h))]
Window == INSTANCE BoundedWindow
  WITH Turns <- {Turn(t) : t \in Turns}, Size <- MaxTurns, window <- InTwos(history)
WindowIsRecent == Window!Spec

\* Within a session a known project name is never replaced and a technology never
\* forgotten, although turns that overlap all rewrite the metadata (update_from_result).
KnownFactsStick ==
  [][open' /\ open =>
       /\ metadata.name # None => metadata'.name = metadata.name
       /\ metadata.techs \subseteq metadata'.techs]_vars

\* Every turn of the session counts: what it and its answer mention is in the metadata,
\* and an anchor other than a team size is a fact of the metadata (no lost update).
EveryTurnCounts ==
  /\ \A t \in recorded : answer[t].techs \cup TechsIn[request[t].text] \subseteq metadata.techs
  /\ \A a \in anchors :
       /\ a.fact = "name" => a.value = metadata.name
       /\ a.fact = "tech" => a.value \in metadata.techs

\* Unless a summary call failed, came back empty or overlapped another, every turn of the
\* session is in its window or covered by its summary (update_summary runs before the
\* turn that evicts).
EvictedIsSummarised == ~spoiled => recorded \subseteq TurnsIn(history) \cup summary

\* A result served from a cache, directly or not, was generated for the same options and
\* for the same transcript, or one near it when Redis is used: hits do not drift.
AnswersFit ==
  \A t \in Turns :
    answer[t] # NoResult =>
      /\ answer[t].option = request[t].option
      /\ request[t].text = answer[t].text \/ (UsesRedis /\ request[t].text \in Near[answer[t].text])

\* A result is served under the prompt version that was asked for (cache/semantic.py:16:
\* "the cache never serves a result generated under a different prompt template").
PromptVersionKept ==
  \A t \in Turns : answer[t] # NoResult => answer[t].version = request[t].version
====
