----------------------------- MODULE MCRetrieval -----------------------------
(***************************************************************************)
(* A small instance: four chunks, each near the query or past the          *)
(* threshold, matching its text or not, the fourth past the filters or     *)
(* not; one of them may be committed during the search.                    *)
(***************************************************************************)
EXTENDS Retrieval

MCDistance == <<2, 2, 5, 5>>
MCRank == <<1, 2, 2, 3>>
MCScore == <<3, 1, 2, 2>>
MCHours == <<4, 5, NoHours, 12>>

MCProfile(i, near, matching, passing) ==
  [passes |-> i \in passing,
   distance |-> IF i \in near THEN MCDistance[i] ELSE 15,
   rank |-> IF i \in matching THEN MCRank[i] ELSE 0,
   score |-> MCScore[i],
   hours |-> MCHours[i]]
MCCorpora ==
  {[i \in Ids |-> MCProfile(i, near, matching, passing)] :
     near \in SUBSET Ids, matching \in SUBSET Ids, passing \in {Ids, Ids \ {4}}}
MCProfiles == {c[i] : c \in MCCorpora, i \in Ids}

\* 1 / (0.001 + distance), rounded.
MCWeight ==
  [d \in Distances |-> CASE d = 0 -> 1000 [] d > 0 /\ d <= 10 -> 10 \div d [] OTHER -> 1]
====
