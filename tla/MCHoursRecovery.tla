-------------------------- MODULE MCHoursRecovery ---------------------------
(* A small instance: three tasks, two of them with one key. *)
EXTENDS HoursRecovery

CONSTANTS k1, k2

MCAsked == <<k1, k2, k1>>
====
