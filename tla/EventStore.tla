----------------------------- MODULE EventStore -----------------------------
(* The events of one user and their history, as email workers, the API and a *)
(* human reviewer change them.  A worker reads a row while matching and hands *)
(* that copy to updateEventService, which decides by the copy, inserts what   *)
(* changed into the history and updates the row, statement by statement, in   *)
(* a READ COMMITTED transaction; everything in between belongs to the others. *)
(* Every query carries the owner's id, so one tenant is the whole table.      *)
EXTENDS Matching, Sequences

CONSTANTS
  Executors,     \* concurrent runs of processEmail, or API requests
  Observations,  \* what extraction made of the emails
  Said,          \* Said[o]: the fields of observation o
  Companies, Stages, Dates, Venues,
  MaxRuns,       \* bound: runs of an observation, first ones and replays
  MaxEdits       \* bound: edits by the reviewer

\* "none" is a null venue.  An observation may clear the venue ("none", stated
\* explicitly) or say nothing of it ("silent").
Observation == [company : Companies, stage : Stages, date : Dates,
                venue : Venues \cup {"none", "silent"}, confidence : 0..100]

ASSUME StoreAssumption ==
  /\ Dates \subseteq Int
  /\ Said \in [Observations -> Observation]
  /\ "silent" \notin Venues
  /\ MaxRuns \in Nat /\ MaxEdits \in Nat

VARIABLES
  events,    \* the Event table, by id; rows are never deleted
  history,   \* EventUpdate as committed: the entries on dates, and those on venues
  serial,    \* the last id that the sequence of EventUpdate gave out
  task,      \* task[x]: where executor x is, and the row it read
  runs,      \* runs begun so far
  edits      \* edits made so far

vars == <<events, history, serial, task, runs, edits>>

Key == [company : Companies, stage : Stages, date : Dates]

Status == {"scheduled", "review", "rescheduled", "confirmed"}
Places == Venues \cup {"none"}

Row == [company : Companies, stage : Stages, date : Dates, venue : Places, key : Key,
        confidence : 0..100, status : Status]

\* An EventUpdate of the field whose values are V; ids rise in the order of insertion.
Entry(V) == [id : Nat \ {0}, event : Nat, old : V, new : V]
History == [date : SUBSET Entry(Dates), venue : SUBSET Entry(Places)]

Stored == DOMAIN events
NoRow == [status |-> "none"]

\* obs is what executor x works on; once a match is found, id is the event and row
\* the copy of it.  status is the one a created event would get.  dateId and venueId
\* are the ids of the entries that the open transaction has inserted, or 0.
Doing(pc, o, status, id, row) ==
  [pc |-> pc, obs |-> o, status |-> status, id |-> id, row |-> row,
   dateId |-> 0, venueId |-> 0]
Idle == Doing("idle", "none", "none", 0, NoRow)

Task == [pc     : {"idle", "exact", "soft", "loose", "update", "lookup", "insert", "reread"},
         obs    : Observations \cup {"none"},
         status : Status \cup {"none"},
         id     : Nat,
         row    : Row \cup {NoRow},
         dateId : Nat, venueId : Nat]

TaskOK(x) ==
  /\ task[x].pc # "idle" => task[x].obs \in Observations /\ task[x].status \in Status
  /\ task[x].pc = "update" => task[x].id \in Stored /\ task[x].row \in Row

TypeOK ==
  /\ events \in Seq(Row)
  /\ history \in History
  /\ serial \in Nat
  /\ task \in [Executors -> Task]
  /\ \A x \in Executors : TaskOK(x)
  /\ runs \in 0..MaxRuns
  /\ edits \in 0..MaxEdits

Obs(x) == Said[task[x].obs]
Goto(x, pc) == task' = [task EXCEPT ![x].pc = pc]
Done(x) == task' = [task EXCEPT ![x] = Idle]
-----------------------------------------------------------------------------
(* Recognition.  Each query is an await: the table may change between them.   *)

\* A worker starts on an observation, for the first time or as a replay.  Below
\* the threshold the match is made and its result discarded.
Begin(x, o) ==
  /\ task[x] = Idle /\ runs < MaxRuns
  /\ runs' = runs + 1
  /\ task' = [task EXCEPT ![x] =
       IF Said[o].confidence < CONFIDENCE_THRESHOLD
       THEN Doing("lookup", o, "review", 0, NoRow)
       ELSE Doing("exact", o, "scheduled", 0, NoRow)]
  /\ UNCHANGED <<events, history, serial, edits>>

\* POST /event creates without recognition; status and confidence are the caller's.
Post(x, o) ==
  /\ task[x] = Idle /\ runs < MaxRuns
  /\ runs' = runs + 1
  /\ \E status \in Status :
       task' = [task EXCEPT ![x] = Doing("lookup", o, status, 0, NoRow)]
  /\ UNCHANGED <<events, history, serial, edits>>

\* The row found is copied; the update decides by the copy.
Adopt(x, i) ==
  task' = [task EXCEPT ![x] =
             Doing("update", task[x].obs, task[x].status, i, events[i])]

MatchExact(x) ==
  /\ task[x].pc = "exact"
  /\ LET found == ExactMatches(events, Obs(x)) IN
       \/ \E i \in found : Adopt(x, i)
       \/ found = {} /\ Goto(x, "soft")
  /\ UNCHANGED <<events, history, serial, runs, edits>>

MatchSoft(x) ==
  /\ task[x].pc = "soft"
  /\ LET found == SoftMatches(events, Obs(x)) IN
       \/ \E i \in found : Adopt(x, i)
       \/ found = {} /\ Goto(x, "loose")
  /\ UNCHANGED <<events, history, serial, runs, edits>>

MatchLoose(x) ==
  /\ task[x].pc = "loose"
  /\ LET found == LooseMatches(events, Obs(x)) IN
       \/ \E i \in found : Adopt(x, i)
       \/ found = {} /\ Goto(x, "lookup")
  /\ UNCHANGED <<events, history, serial, runs, edits>>
-----------------------------------------------------------------------------
(* updateEventService.                                                       *)

\* detectChanges, for the date and the venue.  The time is treated as the venue
\* is, but cannot be cleared.
Moved(row, o) == o.date # row.date
Placed(row, o) == o.venue # "silent" /\ o.venue # row.venue
Differs(row, o) == Moved(row, o) \/ Placed(row, o)

\* Mutant of Declined: confidence is not compared.
DeclinedByStatus(row, o) == row.status = "confirmed" \/ ~Differs(row, o)

\* The guards, all on the copy: a human settled it, nothing differs, or what is
\* believed is believed more firmly.
Declined(row, o) ==
  \/ row.status = "confirmed"
  \/ ~Differs(row, o)
  \/ o.confidence < row.confidence

\* Mutant of MovedKey: the key of the date before.
MovedKeyNowhere(row, o) ==
  [company |-> row.company, stage |-> row.stage, date |-> row.date]

\* The key a reschedule gives: the copy's company and round, the new date.
MovedKey(row, o) == [company |-> row.company, stage |-> row.stage, date |-> o.date]

KeyFree(k, ids) == \A j \in ids : events[j].key # k

Collides(x) ==
  /\ Moved(task[x].row, Obs(x))
  /\ ~KeyFree(MovedKey(task[x].row, Obs(x)), Stored \ {task[x].id})

\* Mutant of Revised: a cleared venue is taken for one not mentioned.
RevisedKeepsVenue(cur, row, o) ==
  [company    |-> cur.company,
   stage      |-> cur.stage,
   date       |-> IF Moved(row, o) THEN o.date ELSE cur.date,
   venue      |-> IF Placed(row, o) /\ o.venue # "none" THEN o.venue ELSE cur.venue,
   key        |-> IF Moved(row, o) THEN MovedKey(row, o) ELSE cur.key,
   confidence |-> o.confidence,
   status     |-> IF Moved(row, o) THEN "rescheduled" ELSE cur.status]

\* What the update makes of the row as it is now, deciding by the copy.
Revised(cur, row, o) ==
  [company    |-> cur.company,
   stage      |-> cur.stage,
   date       |-> IF Moved(row, o) THEN o.date ELSE cur.date,
   venue      |-> IF Placed(row, o) THEN o.venue ELSE cur.venue,
   key        |-> IF Moved(row, o) THEN MovedKey(row, o) ELSE cur.key,
   confidence |-> o.confidence,
   status     |-> IF Moved(row, o) THEN "rescheduled" ELSE cur.status]

Decline(x) ==
  /\ task[x].pc = "update"
  /\ Declined(task[x].row, Obs(x))
  /\ Done(x)
  /\ UNCHANGED <<events, history, serial, runs, edits>>

\* The transaction.  One entry per changed field, its old value taken from the copy.
Updating(x) == task[x].pc = "update" /\ ~Declined(task[x].row, Obs(x))

RecordDate(x) ==
  /\ Updating(x) /\ Moved(task[x].row, Obs(x)) /\ task[x].dateId = 0
  /\ serial' = serial + 1
  /\ task' = [task EXCEPT ![x].dateId = serial + 1]
  /\ UNCHANGED <<events, history, runs, edits>>

Recorded(x) ==
  /\ Moved(task[x].row, Obs(x)) => task[x].dateId # 0
  /\ Placed(task[x].row, Obs(x)) => task[x].venueId # 0

RecordVenue(x) ==
  /\ Updating(x) /\ Placed(task[x].row, Obs(x)) /\ task[x].venueId = 0
  /\ Moved(task[x].row, Obs(x)) => task[x].dateId # 0
  /\ serial' = serial + 1
  /\ task' = [task EXCEPT ![x].venueId = serial + 1]
  /\ UNCHANGED <<events, history, runs, edits>>

\* What the transaction of x has inserted; nobody else sees it before COMMIT.
Dated(x) ==
  IF task[x].dateId = 0 THEN {}
  ELSE {[id |-> task[x].dateId, event |-> task[x].id,
         old |-> task[x].row.date, new |-> Obs(x).date]}

Housed(x) ==
  IF task[x].venueId = 0 THEN {}
  ELSE {[id |-> task[x].venueId, event |-> task[x].id,
         old |-> task[x].row.venue, new |-> Obs(x).venue]}

HistoryWith(x) == [date |-> history.date \cup Dated(x), venue |-> history.venue \cup Housed(x)]

\* The foreign key of an entry holds its event FOR KEY SHARE until the end.
Sharing(y, i) ==
  task[y].pc = "update" /\ task[y].id = i /\ (task[y].dateId # 0 \/ task[y].venueId # 0)

\* Only an update that changes a column of a unique key, the eventKey, waits for
\* those who share it.
Lockable(x) ==
  LET i == task[x].id IN
    Revised(events[i], task[x].row, Obs(x)).key # events[i].key
      => \A y \in Executors \ {x} : ~Sharing(y, i)

\* The row, as it is by now, is updated, and everything committed.
Write(x) ==
  /\ Updating(x) /\ Recorded(x) /\ ~Collides(x) /\ Lockable(x)
  /\ events' = [events EXCEPT ![task[x].id] =
                  Revised(events[task[x].id], task[x].row, Obs(x))]
  /\ history' = HistoryWith(x)
  /\ Done(x)
  /\ UNCHANGED <<serial, runs, edits>>

\* Mutant of RollBack: the entries are written outside the transaction.
RollBackKeepsHistory(x) ==
  /\ Updating(x)
  /\ history' = HistoryWith(x)
  /\ Done(x)
  /\ UNCHANGED <<events, serial, runs, edits>>

\* The new key belongs to another event (P2002), the database ends a deadlock of two
\* reschedules that share their event, or the transaction's time runs out: whichever
\* it is goes to the worker.
RollBack(x) ==
  /\ Updating(x)
  /\ Done(x)
  /\ UNCHANGED <<events, history, serial, runs, edits>>
-----------------------------------------------------------------------------
(* createEvent: look the key up, insert, and on a conflict look again.        *)

Lookup(x) ==
  /\ task[x].pc = "lookup"
  /\ IF ExactMatches(events, Obs(x)) # {} THEN Done(x) ELSE Goto(x, "insert")
  /\ UNCHANGED <<events, history, serial, runs, edits>>

\* Mutant of NewRow: an unmentioned venue is stored as it comes.
NewRowRaw(o, status) ==
  [company |-> o.company, stage |-> o.stage, date |-> o.date, venue |-> o.venue,
   key |-> KeyOf(o), confidence |-> o.confidence, status |-> status]

NewRow(o, status) ==
  [company |-> o.company, stage |-> o.stage, date |-> o.date,
   venue |-> IF o.venue = "silent" THEN "none" ELSE o.venue,
   key |-> KeyOf(o), confidence |-> o.confidence, status |-> status]

\* Mutant of Insert: only the lookup has asked for the key.
InsertAnyway(x) ==
  /\ task[x].pc = "insert"
  /\ events' = Append(events, NewRow(Obs(x), task[x].status))
  /\ Done(x)
  /\ UNCHANGED <<history, serial, runs, edits>>

\* The unique index on the key decides between racing inserts.
Insert(x) ==
  /\ task[x].pc = "insert"
  /\ KeyFree(KeyOf(Obs(x)), Stored)
  /\ events' = Append(events, NewRow(Obs(x), task[x].status))
  /\ Done(x)
  /\ UNCHANGED <<history, serial, runs, edits>>

InsertConflicts(x) ==
  /\ task[x].pc = "insert"
  /\ ~KeyFree(KeyOf(Obs(x)), Stored)
  /\ Goto(x, "reread")
  /\ UNCHANGED <<events, history, serial, runs, edits>>

\* The winner's row is the answer; if it has been rescheduled meanwhile, P2002
\* goes to the caller.
Reread(x) ==
  /\ task[x].pc = "reread"
  /\ Done(x)
  /\ UNCHANGED <<events, history, serial, runs, edits>>
-----------------------------------------------------------------------------
\* updateEventManuallyService: company and round only; the key stays.
Confirm(i) ==
  /\ edits < MaxEdits
  /\ edits' = edits + 1
  /\ \E c \in Companies, s \in Stages :
       events' = [events EXCEPT ![i] =
         [company |-> c, stage |-> s, date |-> events[i].date, venue |-> events[i].venue,
          key |-> events[i].key, confidence |-> 100, status |-> "confirmed"]]
  /\ UNCHANGED <<history, serial, task, runs>>
-----------------------------------------------------------------------------
Init ==
  /\ events = << >>
  /\ history = [date |-> {}, venue |-> {}]
  /\ serial = 0
  /\ task = [x \in Executors |-> Idle]
  /\ runs = 0 /\ edits = 0

Step(x) ==
  \/ \E o \in Observations : Begin(x, o) \/ Post(x, o)
  \/ MatchExact(x) \/ MatchSoft(x) \/ MatchLoose(x)
  \/ Decline(x) \/ RecordDate(x) \/ RecordVenue(x) \/ Write(x) \/ RollBack(x)
  \/ Lookup(x) \/ Insert(x) \/ InsertConflicts(x) \/ Reread(x)

Next == \/ \E x \in Executors : Step(x)
        \/ \E i \in Stored : Confirm(i)

Spec == Init /\ [][Next]_vars
-----------------------------------------------------------------------------
(* Properties.                                                               *)

\* Whatever races it, an event's key carries the date of its row: a reschedule
\* writes both, and nothing else writes either.
KeyFollowsDate == \A i \in Stored : events[i].key.date = events[i].date

\* Two workers racing for one round, or a reschedule onto another event's day, never
\* leave two rows with one company, round and day; only a reviewer's edit can.
TwinsOnlyByEdit ==
  edits = 0 => \A i, j \in Stored :
    /\ events[i].company = events[j].company
    /\ events[i].stage = events[j].stage /\ events[i].date = events[j].date
    => i = j

\* A change and its entry appear together or not at all, whoever else is writing to
\* the event, whatever the copy said, and whichever statement fails: a row that moves
\* is told of by a new entry, and a new entry names what its row now says.
HistoryTellsEveryChange ==
  [][/\ \A i \in Stored : events'[i].date # events[i].date =>
          \E e \in history'.date \ history.date : e.event = i /\ e.new = events'[i].date
     /\ \A i \in Stored : events'[i].venue # events[i].venue =>
          \E e \in history'.venue \ history.venue : e.event = i /\ e.new = events'[i].venue
     /\ \A e \in history'.date \ history.date : e.new = events'[e.event].date
     /\ \A e \in history'.venue \ history.venue : e.new = events'[e.event].venue]_vars

\* E are the entries of one field of one event, now what the row says.
Chained(E, now) ==
  /\ \A e, n \in E :
       e.id < n.id /\ (\A g \in E : g.id <= e.id \/ n.id <= g.id) => n.old = e.new
  /\ \A e \in E : (\A g \in E : g.id <= e.id) => e.new = now

About(E, i) == {e \in E : e.event = i}

\* With one executor, what a row says can be traced back: every entry starts from the
\* value the one before it left, and the last one ends at the row.  The reviewer edits
\* in between; those edits touch other columns.
HistoryChains ==
  \A i \in Stored : /\ Chained(About(history.date, i), events[i].date)
                    /\ Chained(About(history.venue, i), events[i].venue)

\* With one executor: an inference never lowers what another inference believed.
\* Only a human's certainty can be lowered, by an update matched before it.
TrustLostOnlyFromConfirmed ==
  [][\A i \in Stored :
       events'[i].confidence < events[i].confidence => events[i].status = "confirmed"]_vars
-----------------------------------------------------------------------------
(* The inductive invariant: for any number of executors the keys and the ids,  *)
(* and what makes HistoryChains and TrustLostOnlyFromConfirmed true of one.    *)

OneExecutor == \A x, y \in Executors : x = y

\* The unique index.
KeysDiffer == \A i, j \in Stored : events[i].key = events[j].key => i = j

\* Until a reviewer edits, a row and every copy of it are under the key they spell.
Spelled(x) ==
  task[x].pc = "update" =>
    /\ task[x].row.company = events[task[x].id].company
    /\ task[x].row.stage = events[task[x].id].stage

KeysSpell ==
  edits = 0 => /\ \A i \in Stored : events[i].key = KeyOf(events[i])
               /\ \A x \in Executors : Spelled(x)

\* What an open transaction has inserted is what the copy and the observation differ
\* in, under an id that nothing committed has.
Inserted(x) ==
  /\ task[x].dateId # 0 =>
       /\ Updating(x) /\ Moved(task[x].row, Obs(x)) /\ task[x].dateId <= serial
       /\ \A e \in history.date : e.id # task[x].dateId
  /\ task[x].venueId # 0 =>
       /\ Updating(x) /\ Placed(task[x].row, Obs(x)) /\ task[x].venueId <= serial
       /\ \A e \in history.venue : e.id # task[x].venueId

\* No id is given twice, and every entry is of an event there is.
IdsOK ==
  /\ \A e \in history.date \cup history.venue : e.id <= serial /\ e.event \in Stored
  /\ \A x \in Executors : Inserted(x)
  /\ \A x, y \in Executors : x # y =>
       /\ task[x].dateId # 0 => task[x].dateId # task[y].dateId
       /\ task[x].venueId # 0 => task[x].venueId # task[y].venueId

\* With one executor only a reviewer can come between reading a row and updating it,
\* and what it inserts comes after all that is committed.
Fresh(x) ==
  task[x].pc = "update" =>
    LET now == events[task[x].id]  row == task[x].row IN
      /\ now = row \/ (/\ now.status = "confirmed"
                      /\ now.date = row.date /\ now.venue = row.venue)
      /\ task[x].dateId # 0 => \A e \in history.date : e.id < task[x].dateId
      /\ task[x].venueId # 0 => \A e \in history.venue : e.id < task[x].venueId

IInv ==
  /\ TypeOK
  /\ KeyFollowsDate
  /\ KeysDiffer
  /\ KeysSpell
  /\ IdsOK
  /\ OneExecutor => HistoryChains /\ \A x \in Executors : Fresh(x)
=============================================================================
