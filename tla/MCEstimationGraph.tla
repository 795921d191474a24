-------------------------- MODULE MCEstimationGraph -------------------------
(* Instances of EstimationGraph for TLC. *)
EXTENDS EstimationGraph, TLC

EveryTree == SUBSET Tasks
\* Everything, one named task, none that has a name: closed under Symmetry.
SomeTrees == {Tasks, Nameless} \cup {{t} : t \in Tasks \ Nameless}

Symmetry == Permutations(Legs) \cup Permutations(Tasks \ Nameless)
====
