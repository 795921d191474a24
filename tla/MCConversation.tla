--------------------------- MODULE MCConversation ---------------------------
(* Instances of Conversation for TLC. *)
EXTENDS Conversation, TLC

CONSTANTS first, second, alpha, beta, queue, table, v2, v9

MCNameIn == (first :> alpha) @@ (second :> beta)
MCTechsIn == (first :> {}) @@ (second :> {queue})
MCNear == (first :> {first, second}) @@ (second :> {second})
MCAsked ==
  {[oneOff |-> FALSE, text |-> x, option |-> NoOption, version |-> v2] : x \in {first, second}}
  \cup {[oneOff |-> TRUE, text |-> first, option |-> NoOption, version |-> v9],
        [oneOff |-> TRUE, text |-> first, option |-> table, version |-> v2]}
\* A large team at a cost on the edge of a tier.
MCDrafts == {[team |-> 8, techs |-> {}, cost |-> 18000]}

Symmetry == Permutations(Turns)
====
