------------------------------ MODULE MCCorpus -------------------------------
(***************************************************************************)
(* A small instance: three ingests may give the same path, the last one    *)
(* another; a budget of three components is embedded two at a time.        *)
(***************************************************************************)
EXTENDS Corpus

CONSTANTS a, b, r3

MCSizes == {1, 3}
MCOffers ==
  [r \in Ingests |->
     {[path |-> a, size |-> 3]} \cup (IF r = r3 THEN {[path |-> b, size |-> 1]} ELSE {})]
====
