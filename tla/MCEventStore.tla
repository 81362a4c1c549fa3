---------------------------- MODULE MCEventStore ----------------------------
(* Small instances of EventStore for TLC.                                    *)
EXTENDS EventStore, TLC

\* One company, one round: announced, moved two days and given a room, moved a
\* month and its room cleared.
Moves == ("announce" :> [company |-> "acme", stage |-> "oa", date |-> 10,
                         venue |-> "silent", confidence |-> 70])
      @@ ("move"     :> [company |-> "acme", stage |-> "oa", date |-> 12,
                         venue |-> "hall", confidence |-> 70])
      @@ ("postpone" :> [company |-> "acme", stage |-> "oa", date |-> 40,
                         venue |-> "none", confidence |-> 90])

\* Two rounds on one day, a message that names no round, and a rumour.
Rounds == ("oa"     :> [company |-> "acme", stage |-> "oa", date |-> 10,
                        venue |-> "silent", confidence |-> 80])
       @@ ("gd"     :> [company |-> "acme", stage |-> "gd", date |-> 10,
                        venue |-> "silent", confidence |-> 80])
       @@ ("room"   :> [company |-> "acme", stage |-> "unknown", date |-> 10,
                        venue |-> "hall", confidence |-> 80])
       @@ ("later"  :> [company |-> "acme", stage |-> "gd", date |-> 12,
                        venue |-> "none", confidence |-> 90])
       @@ ("rumour" :> [company |-> "acme", stage |-> "gd", date |-> 12,
                        venue |-> "silent", confidence |-> 40])

ExecutorSymmetry == Permutations(Executors)
-----------------------------------------------------------------------------
(* Said of events by the repository, and not so: TLC finds it violated.        *)

\* "Once a person has settled an Event, machine conclusions do not silently override
\* it" (docs/01_Domain_Model/Event.md:534): confirmed stays confirmed.
ConfirmedIsFinal ==
  [][\A i \in Stored : events[i].status = "confirmed" => events'[i].status = "confirmed"]_vars
=============================================================================
