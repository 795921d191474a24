--------------------------- MODULE ReviewedWrite ---------------------------
(***************************************************************************)
(* What a thread promises about an irreversible write: a document is       *)
(* drafted, a human rules on it, and a run that was started to write       *)
(* stores only the very document a human approved in that run.  There is   *)
(* one exception: if the document was judged in a run that was not to      *)
(* write, nobody has asked for an approval of the write, and the last      *)
(* ruling on the thread may be an approval given in an earlier run, on an  *)
(* earlier document.                                                       *)
(***************************************************************************)
CONSTANTS Docs, NoDoc, Rulings

VARIABLES
  doc,      \* the document
  ruling,   \* what a human ruled in this run
  last,     \* what a human ruled last on the thread
  writing,  \* was this run started to write?
  waived,   \* was the document judged without asking for the write?
  store

Init ==
  /\ doc = NoDoc /\ ruling = "none" /\ last = "none"
  /\ writing = FALSE /\ waived = FALSE /\ store = NoDoc

Begin ==
  /\ ruling' = "none" /\ writing' \in BOOLEAN
  /\ UNCHANGED <<doc, last, waived, store>>

Draft ==
  /\ ruling = "none" /\ doc' \in Docs
  /\ UNCHANGED <<ruling, last, writing, waived, store>>

\* Only a run that is not to write judges without asking for the write.
Judge ==
  /\ ruling = "none" /\ waived' \in {FALSE, ~writing}
  /\ UNCHANGED <<doc, ruling, last, writing, store>>

\* Only a ruling other than an approval may rewrite the document.
Rule(r) ==
  /\ ruling = "none" /\ ruling' = r /\ last' = r
  /\ doc' = doc \/ (r # "approve" /\ doc' \in Docs)
  /\ UNCHANGED <<writing, waived, store>>

Write ==
  /\ writing /\ doc # NoDoc
  /\ ruling = "approve" \/ (ruling = "none" /\ waived /\ last = "approve")
  /\ store' = doc
  /\ UNCHANGED <<doc, ruling, last, writing, waived>>

Lose ==
  /\ store' = NoDoc
  /\ UNCHANGED <<doc, ruling, last, writing, waived>>

Next == Begin \/ Draft \/ Judge \/ (\E r \in Rulings : Rule(r)) \/ Write \/ Lose

Spec == Init /\ [][Next]_<<doc, ruling, last, writing, waived, store>>
====
