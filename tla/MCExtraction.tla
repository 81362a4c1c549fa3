---------------------------- MODULE MCExtraction ----------------------------
(* A small instance of Extraction for TLC: years of two months of four days.  *)
EXTENDS Extraction

Names == {"acme", "Acme.", "bolt", "hp", "the", "the.", "https", "unknown", "none"}

CanonName == [c \in Names |-> CASE c = "Acme." -> "acme"
                                [] c = "the." -> "the"
                                [] OTHER -> c]

Mention(d, m, y) == [day |-> d, month |-> m, year |-> y]
NewYear == Mention(1, 1, NoYear)
Spring == Mention(2, 2, 1)
Impossible == Mention(5, 1, 1)

Text(c, w, ds, rel, clk, v) ==
  [company |-> c, words |-> w, dates |-> ds, relative |-> rel, clock |-> clk, venue |-> v]

\* Texts that differ in what identifies an event, and in what makes it trusted.
Identities ==
  {Text(c, w, ds, rel, "10 am", {"stated"}) :
     c \in {"acme", "https", "unknown"},
     w \in {{}, {"test"}, {"interview", "test"}, {"ppt", "register"}, {"register"}},
     ds \in {<<>>, <<NewYear>>, <<Spring, NewYear>>, <<Impossible>>},
     rel \in {"none", "tomorrow"}}

Trusts ==
  {Text(c, {}, ds, rel, clk, v) :
     c \in {"acme", "hp"}, ds \in {<<>>, <<Spring>>},
     rel \in {"none", "today", "tomorrow", "next week"},
     clk \in {"none", "10 am", "12 am", "13 pm", "around 11 pm", "evening"},
     v \in {{}, {"platform"}, {"stated tba", "platform"}, {"at place"},
           {"at company", "location"}, {"location"}}}

Thread == Text("bolt", {"test"}, <<Mention(3, 2, 1)>>, "tomorrow", "10 am", {"stated"})

SomeMails ==
  {[head |-> h, quoted |-> Blank] : h \in Identities \cup Trusts}
  \cup {[head |-> h, quoted |-> Thread] : h \in Identities}
  \cup {[head |-> Blank, quoted |-> Thread]}

Says(c, s, d, t, v) == [company |-> c, stage |-> s, date |-> d, time |-> t, venue |-> v]

SomeAnswers ==
  {Says(c, s, d, 10, "none") :
     c \in {"none", "Acme.", "bolt", "the."}, s \in {"none", "OA", "exam"},
     d \in {NoDate, Mention(1, 1, 2), Mention(1, 2, 1), Spring, Impossible}}
  \cup {Says("none", "none", NoDate, t, v) : t \in {NoTime, 23, 99}, v \in {"none", "named"}}
=============================================================================
