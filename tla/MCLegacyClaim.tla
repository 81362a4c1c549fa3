--------------------------- MODULE MCLegacyClaim ---------------------------
(* A small instance of LegacyClaim for TLC: two mailboxes, one message with a  *)
(* file in the first, one from before mailboxes were recorded, an event with   *)
(* its history; meanwhile a message and an event arrive.                       *)
EXTENDS LegacyClaim, TLC

Tree == ("box1" :> None) @@ ("box2" :> None)
     @@ ("mail1" :> "box1") @@ ("old" :> None) @@ ("mail2" :> "box2")
     @@ ("file1" :> "mail1") @@ ("file0" :> "old")
     @@ ("event1" :> None) @@ ("event2" :> None) @@ ("change1" :> "event1")

\* A message takes its owner from its mailbox, an event from the message it was read in.
Sources == ("mail2" :> "box2") @@ ("event2" :> "mail1")

BoxAddress == ("box1" :> "a") @@ ("box2" :> "b")

\* Ann has the first mailbox's address; cy has the second's, but a disabled account that
\* may be enabled and disabled again; bob signs in with either, in any order: so the
\* first mailbox has one claimant or two, and the second nobody, bob, cy or both.
Reported == ("ann" :> {"a"}) @@ ("bob" :> {"a", "b"}) @@ ("cy" :> {"b"})
AtFirst == ("ann" :> [address |-> "a", live |-> TRUE]) @@ ("bob" :> None)
        @@ ("cy" :> [address |-> "b", live |-> FALSE])

ClaimSymmetry == Permutations(Claims)
=============================================================================
