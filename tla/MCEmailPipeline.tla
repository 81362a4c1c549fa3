--------------------------- MODULE MCEmailPipeline ---------------------------
(* Small instances of EmailPipeline for TLC.                                 *)
EXTENDS EmailPipeline, TLC

CONSTANTS e1, e2, a1, a2

\* Every attachment belongs to the first email; the second has none.
OnFirst == [a \in Attachments |-> e1]

\* Worker processes run the same code.
WorkerSymmetry == Permutations(Workers)
=============================================================================
