----------------------------- MODULE Catalogue -----------------------------
(***************************************************************************)
(* What the corpus promises to those who add to it: an ingest happens all  *)
(* at once or not at all.  A document appears whole, under an id of its    *)
(* own, for a budget that was asked for, and stays as it is; a request is  *)
(* told one id, once, that of its own document or of one that had its path *)
(* already.  The answer may be lost with the document in.                  *)
(***************************************************************************)
CONSTANTS Requests, Budgets, NoBudget, Entries

VARIABLES documents, asked, answer

Init ==
  /\ documents = {}
  /\ asked = [r \in Requests |-> NoBudget]
  /\ answer = [r \in Requests |-> 0]

Ask(r) ==
  /\ asked[r] = NoBudget
  /\ \E b \in Budgets : asked' = [asked EXCEPT ![r] = b]
  /\ UNCHANGED <<documents, answer>>

Waits(r) == asked[r] # NoBudget /\ answer[r] = 0

\* New documents, each of a request that is not answered, none under a taken id.
Added == documents' \ documents
Appear ==
  /\ documents \subseteq documents'
  /\ \A d \in Added :
       /\ d \in Entries
       /\ \E r \in Requests : Waits(r) /\ asked[r] = d.budget
       /\ \A e \in documents' : e.id = d.id => e = d

\* A request is told the id of its document as it appears.
Add(r) ==
  /\ Appear
  /\ \E d \in Added : /\ Added = {d} /\ d.budget = asked[r]
                      /\ answer' = [answer EXCEPT ![r] = d.id]
  /\ answer[r] = 0 /\ UNCHANGED asked

Recall(r) ==
  /\ Waits(r)
  /\ \E d \in documents : /\ d.budget.path = asked[r].path
                          /\ answer' = [answer EXCEPT ![r] = d.id]
  /\ UNCHANGED <<documents, asked>>

\* A process that dies can leave several documents in, their requests unanswered.
AddUnanswered == Appear /\ UNCHANGED <<asked, answer>>

Next == AddUnanswered \/ \E r \in Requests : Ask(r) \/ Add(r) \/ Recall(r)

Spec == Init /\ [][Next]_<<documents, asked, answer>>
====
