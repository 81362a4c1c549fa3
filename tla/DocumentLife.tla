---------------------------- MODULE DocumentLife ----------------------------
(* What the attachment pipeline promises of its documents, whatever becomes of *)
(* the workers, jobs and sweeps that keep the promise: each gets at most one   *)
(* answer, for good, and is understood only from the text that answer stored.  *)
CONSTANT Files

VARIABLES
  answer,     \* answer[f]: none yet, parsed text, or that it cannot be parsed
  understood  \* the files something is known of

docVars == <<answer, understood>>

Init ==
  /\ answer = [f \in Files |-> "none"]
  /\ understood = {}

Answer(f) ==
  /\ answer[f] = "none"
  /\ answer' \in {[answer EXCEPT ![f] = a] : a \in {"parsed", "unparsable"}}
  /\ UNCHANGED understood

Understand(f) ==
  /\ answer[f] = "parsed"
  /\ understood' = understood \cup {f}
  /\ UNCHANGED answer

Next == \E f \in Files : Answer(f) \/ Understand(f)

Spec == Init /\ [][Next]_docVars
=============================================================================
