--------------------------- MODULE MCEventCleanup ---------------------------
(* A small instance of EventCleanup for TLC: the two duplicate pairs, the      *)
(* event with a history, one more spelling to rewrite, one that is canonical,  *)
(* one excluded, and another owner's.                                          *)
EXTENDS EventCleanup, TLC

At(user, company, date, venue, updates) ==
  [user |-> user, company |-> company, date |-> date, venue |-> venue,
   key |-> [company |-> company, date |-> date], updates |-> updates, settled |-> FALSE]

Rows == (54 :> At(1, "least", 1, "campus", 1))
     @@ (68 :> At(1, "Hul.", 1, "campus", 0)) @@ (71 :> At(1, "hul", 1, "tpo", 0))
     @@ (72 :> At(1, "zan", 2, "campus", 0))  @@ (77 :> At(1, "Zan", 2, "tpo", 0))
     @@ (37 :> At(1, "TPO", 1, "campus", 0))  @@ (80 :> At(2, "zan", 2, "campus", 0))
     @@ (5 :> At(1, "Acme.", 2, "campus", 0))

Spelled == ("least" :> "least") @@ ("Hul." :> "hul") @@ ("hul" :> "hul")
        @@ ("zan" :> "zan") @@ ("Zan" :> "zan") @@ ("TPO" :> "tpo") @@ ("tpo" :> "tpo")
        @@ ("Acme." :> "acme") @@ ("acme" :> "acme")

Order == <<71, 77, 54>>
=============================================================================
