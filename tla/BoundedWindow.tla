--------------------------- MODULE BoundedWindow ---------------------------
(***************************************************************************)
(* What the history of a session promises: the most recent turns, at most  *)
(* Size of them, oldest first, each whole.  A new session starts empty.    *)
(***************************************************************************)
EXTENDS Integers, Sequences

CONSTANTS Turns, Size

VARIABLE window

Init == window = <<>>

Slide(s) == IF Len(s) > Size THEN Tail(s) ELSE s
Add(t) == window' = Slide(Append(window, t))
Restart == window' = <<>>

Next == (\E t \in Turns : Add(t)) \/ Restart

Spec == Init /\ [][Next]_window
====
