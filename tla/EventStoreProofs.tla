-------------------------- MODULE EventStoreProofs --------------------------
(* What holds of the event store for any number of executors, observations   *)
(* and edits, and what one executor adds.                                    *)
EXTENDS EventStore, TLAPS

\* What the store keeps true for any number of executors, all of it together: an
\* update needs the types of the copy it decides by, and the keys the ids.
StoreInv == TypeOK /\ KeyFollowsDate /\ KeysDiffer /\ KeysSpell /\ IdsOK

\* The steps below are shown to keep two halves of it.  The rows and the history;
\* and how far they may change under the copies in other hands.
TableOK ==
  /\ events' \in Seq(Row) /\ history' \in History
  /\ serial' \in Nat /\ serial <= serial'
  /\ Stored \subseteq Stored'
  /\ KeyFollowsDate' /\ KeysDiffer'
  /\ \A e \in history'.date \cup history'.venue : e.id <= serial' /\ e.event \in Stored'
  /\ edits' = 0 =>
       /\ edits = 0
       /\ \A i \in Stored' : events'[i].key = KeyOf(events'[i])
       /\ \A i \in Stored : /\ events'[i].company = events[i].company
                            /\ events'[i].stage = events[i].stage

\* The work of the executors.
TasksOK ==
  /\ task' \in [Executors -> Task] /\ \A y \in Executors : TaskOK(y)'
  /\ edits' = 0 => \A y \in Executors : Spelled(y)'
  /\ \A y \in Executors : Inserted(y)'
  /\ \A y, z \in Executors : y # z =>
       /\ task'[y].dateId # 0 => task'[y].dateId # task'[z].dateId
       /\ task'[y].venueId # 0 => task'[y].venueId # task'[z].venueId

\* The two halves make the invariant, once the counters are seen to.
LEMMA Together ==
  ASSUME TableOK, TasksOK, runs' \in 0..MaxRuns, edits' \in 0..MaxEdits
  PROVE  StoreInv'
<1>1. TypeOK' BY DEF TableOK, TasksOK, TypeOK
<1>2. KeysSpell' BY DEF TableOK, TasksOK, KeysSpell
<1>3. IdsOK' BY DEF TableOK, TasksOK, IdsOK
<1> QED BY <1>1, <1>2, <1>3 DEF TableOK, StoreInv

\* Whoever is at work on an observation works on a well-formed one.
LEMMA ObsType ==
  ASSUME TypeOK, NEW x \in Executors, task[x].pc # "idle"
  PROVE  task[x].obs \in Observations /\ Obs(x) \in Observation
<1>1. task[x].obs \in Observations BY DEF TypeOK, TaskOK
<1> QED BY <1>1, StoreAssumption DEF Obs

\* What an update in progress has in hand.
LEMMA UpdatingType ==
  ASSUME TypeOK, NEW x \in Executors, task[x].pc = "update"
  PROVE  /\ task[x].id \in Stored /\ task[x].row \in Row /\ Obs(x) \in Observation
         /\ events[task[x].id] \in Row /\ task[x].id \in Nat
         /\ task[x].dateId \in Nat /\ task[x].venueId \in Nat
<1>1. task[x].id \in Stored /\ task[x].row \in Row BY DEF TypeOK, TaskOK
<1>2. Obs(x) \in Observation BY ObsType
<1>3. events[task[x].id] \in Row BY <1>1 DEF TypeOK, Stored
<1>4. task[x] \in Task BY DEF TypeOK
<1>5. task[x].id \in Nat /\ task[x].dateId \in Nat /\ task[x].venueId \in Nat
  BY <1>4 DEF Task
<1> QED BY <1>1, <1>2, <1>3, <1>5

\* A record of an executor's work outside a transaction.
LEMMA DoingType ==
  ASSUME NEW pc \in {"exact", "soft", "loose", "update", "lookup", "insert", "reread"},
         NEW o \in Observations, NEW status \in Status,
         NEW id \in Nat, NEW row \in Row \cup {NoRow}
  PROVE  /\ Doing(pc, o, status, id, row) \in Task
         /\ Doing(pc, o, status, id, row).pc = pc
         /\ Doing(pc, o, status, id, row).obs = o
         /\ Doing(pc, o, status, id, row).status = status
         /\ Doing(pc, o, status, id, row).id = id
         /\ Doing(pc, o, status, id, row).row = row
         /\ Doing(pc, o, status, id, row).dateId = 0
         /\ Doing(pc, o, status, id, row).venueId = 0
BY DEF Doing, Task

\* An idle executor's record is well formed.
LEMMA IdleType ==
  Idle \in Task /\ Idle.pc = "idle" /\ Idle.dateId = 0 /\ Idle.venueId = 0
BY DEF Idle, Doing, Task
-----------------------------------------------------------------------------
\* A step that gives one executor a well-formed record keeps the others' as good as
\* they were, if it keeps the table and adds to the history only what that executor
\* had inserted.
LEMMA TaskStep ==
  ASSUME StoreInv, TableOK, NEW x \in Executors, NEW r \in Task,
         task' = [task EXCEPT ![x] = r],
         r.pc # "idle" => r.obs \in Observations /\ r.status \in Status,
         r.pc = "update" => r.id \in Stored' /\ r.row \in Row,
         edits' = 0 /\ r.pc = "update" => /\ r.row.company = events'[r.id].company
                                          /\ r.row.stage = events'[r.id].stage,
         r.dateId # 0 => /\ r.pc = "update" /\ ~Declined(r.row, Said[r.obs])
                         /\ Moved(r.row, Said[r.obs]) /\ r.dateId <= serial'
                         /\ \A e \in history'.date : e.id # r.dateId
                         /\ r.dateId = task[x].dateId \/ r.dateId > serial,
         r.venueId # 0 => /\ r.pc = "update" /\ ~Declined(r.row, Said[r.obs])
                          /\ Placed(r.row, Said[r.obs]) /\ r.venueId <= serial'
                          /\ \A e \in history'.venue : e.id # r.venueId
                          /\ r.venueId = task[x].venueId \/ r.venueId > serial,
         \A e \in history'.date : e \in history.date
                                  \/ (task[x].dateId # 0 /\ e.id = task[x].dateId),
         \A e \in history'.venue : e \in history.venue
                                   \/ (task[x].venueId # 0 /\ e.id = task[x].venueId)
  PROVE  TasksOK
<1>1. TypeOK /\ KeysSpell /\ IdsOK BY DEF StoreInv
<1>2. task' \in [Executors -> Task] BY <1>1 DEF TypeOK
<1>3. task'[x] = r /\ \A y \in Executors \ {x} : task'[y] = task[y] BY <1>1 DEF TypeOK
<1>4. /\ serial \in Nat /\ serial' \in Nat /\ serial <= serial'
      /\ r.dateId \in Nat /\ r.venueId \in Nat
      /\ \A y \in Executors : task[y].dateId \in Nat /\ task[y].venueId \in Nat
  <2>1. \A y \in Executors : task[y] \in Task BY <1>1 DEF TypeOK
  <2>2. serial \in Nat /\ serial' \in Nat /\ serial <= serial' BY <1>1 DEF TypeOK, TableOK
  <2> QED BY <2>1, <2>2 DEF Task
<1>5. ASSUME NEW y \in Executors PROVE TaskOK(y)'
  BY <1>1, <1>3 DEF TaskOK, TypeOK, TableOK
<1>6. ASSUME edits' = 0, NEW y \in Executors PROVE Spelled(y)'
  <2>1. CASE y = x BY <1>3, <1>6, <2>1 DEF Spelled
  <2>2. CASE y # x
    <3>1. Spelled(y) /\ TaskOK(y) BY <1>1, <1>6 DEF KeysSpell, TypeOK, TableOK
    <3> QED BY <1>3, <1>6, <2>2, <3>1 DEF Spelled, TaskOK, TableOK
  <2> QED BY <2>1, <2>2
<1>7. ASSUME NEW y \in Executors PROVE Inserted(y)'
  <2>1. CASE y = x BY <1>3, <2>1 DEF Inserted, Updating, Obs
  <2>2. CASE y # x
    <3>1. task'[y] = task[y] /\ Inserted(y) BY <1>1, <1>3, <2>2 DEF IdsOK
    <3>2. task[y].dateId # 0 => \A e \in history'.date : e.id # task[y].dateId
      BY <1>1, <2>2, <3>1 DEF IdsOK, Inserted
    <3>3. task[y].venueId # 0 => \A e \in history'.venue : e.id # task[y].venueId
      BY <1>1, <2>2, <3>1 DEF IdsOK, Inserted
    <3>4. /\ task[y].dateId # 0 => task[y].dateId <= serial'
          /\ task[y].venueId # 0 => task[y].venueId <= serial'
      BY <1>4, <3>1 DEF Inserted
    <3> QED BY <3>1, <3>2, <3>3, <3>4 DEF Inserted, Updating, Obs
  <2> QED BY <2>1, <2>2
<1>8. ASSUME NEW y \in Executors, NEW z \in Executors, y # z
      PROVE  /\ task'[y].dateId # 0 => task'[y].dateId # task'[z].dateId
             /\ task'[y].venueId # 0 => task'[y].venueId # task'[z].venueId
  <2>1. \A v \in Executors : /\ task[v].dateId # 0 => task[v].dateId <= serial
                             /\ task[v].venueId # 0 => task[v].venueId <= serial
    BY <1>1 DEF IdsOK, Inserted
  <2>2. /\ task[y].dateId # 0 => task[y].dateId # task[z].dateId
        /\ task[y].venueId # 0 => task[y].venueId # task[z].venueId
        /\ task[z].dateId # 0 => task[z].dateId # task[y].dateId
        /\ task[z].venueId # 0 => task[z].venueId # task[y].venueId
    BY <1>1, <1>8 DEF IdsOK
  <2>3. CASE y = x
    <3>1. task'[y] = r /\ task'[z] = task[z] BY <1>3, <1>8, <2>3
    <3> QED BY <1>4, <2>1, <2>2, <2>3, <3>1
  <2>4. CASE z = x
    <3>1. task'[z] = r /\ task'[y] = task[y] BY <1>3, <1>8, <2>4
    <3> QED BY <1>4, <2>1, <2>2, <2>4, <3>1
  <2>5. CASE y # x /\ z # x BY <1>3, <2>2, <2>5
  <2> QED BY <2>3, <2>4, <2>5
<1> QED BY <1>2, <1>5, <1>6, <1>7, <1>8 DEF TasksOK

\* Outside a transaction nothing is inserted.
LEMMA QuietTask ==
  ASSUME StoreInv, TableOK, NEW x \in Executors, NEW r \in Task,
         task' = [task EXCEPT ![x] = r], history' = history,
         r.pc # "idle" => r.obs \in Observations /\ r.status \in Status,
         r.pc = "update" => r.id \in Stored' /\ r.row \in Row,
         edits' = 0 /\ r.pc = "update" => /\ r.row.company = events'[r.id].company
                                          /\ r.row.stage = events'[r.id].stage,
         r.dateId = 0, r.venueId = 0
  PROVE  TasksOK
<1>1. /\ \A e \in history'.date : e \in history.date
                                      \/ (task[x].dateId # 0 /\ e.id = task[x].dateId)
      /\ \A e \in history'.venue : e \in history.venue
                                      \/ (task[x].venueId # 0 /\ e.id = task[x].venueId)
  OBVIOUS
<1>2. /\ r.dateId # 0 =>
           /\ r.pc = "update" /\ ~Declined(r.row, Said[r.obs])
           /\ Moved(r.row, Said[r.obs]) /\ r.dateId <= serial'
           /\ \A e \in history'.date : e.id # r.dateId
           /\ r.dateId = task[x].dateId \/ r.dateId > serial
      /\ r.venueId # 0 =>
           /\ r.pc = "update" /\ ~Declined(r.row, Said[r.obs])
           /\ Placed(r.row, Said[r.obs]) /\ r.venueId <= serial'
           /\ \A e \in history'.venue : e.id # r.venueId
           /\ r.venueId = task[x].venueId \/ r.venueId > serial
  OBVIOUS
<1> QED BY <1>1, <1>2, TaskStep, Zenon

\* Ending a run.
LEMMA DoneStep ==
  ASSUME StoreInv, TableOK, NEW x \in Executors, Done(x),
         \A e \in history'.date : e \in history.date
                                  \/ (task[x].dateId # 0 /\ e.id = task[x].dateId),
         \A e \in history'.venue : e \in history.venue
                                   \/ (task[x].venueId # 0 /\ e.id = task[x].venueId)
  PROVE  TasksOK
BY IdleType, TaskStep DEF Done

\* Moving an executor to its next query.
LEMMA GotoStep ==
  ASSUME StoreInv, TableOK, history' = history, NEW x \in Executors,
         NEW pc \in {"soft", "loose", "lookup", "insert", "reread"},
         task[x].pc \notin {"idle", "update"}, Goto(x, pc)
  PROVE  TasksOK
<1>1. task[x] \in Task /\ TaskOK(x) /\ Inserted(x)
  BY DEF StoreInv, TypeOK, IdsOK
<1>2. task[x].dateId = 0 /\ task[x].venueId = 0 BY <1>1 DEF Inserted, Updating
<1> DEFINE r == [task[x] EXCEPT !.pc = pc]
<1>3. r \in Task BY <1>1 DEF Task
<1>4. /\ r.pc = pc /\ r.obs = task[x].obs /\ r.status = task[x].status
      /\ r.dateId = 0 /\ r.venueId = 0
  BY <1>1, <1>2 DEF Task
<1>5. task' = [task EXCEPT ![x] = r] BY DEF Goto
<1> HIDE DEF r
<1> QED BY <1>1, <1>3, <1>4, <1>5, QuietTask DEF TaskOK

\* Adopting a match: the copy is the row.
LEMMA AdoptStep ==
  ASSUME StoreInv, TableOK, events' = events, history' = history, NEW x \in Executors,
         task[x].pc # "idle", NEW i \in Stored, Adopt(x, i)
  PROVE  TasksOK
<1> DEFINE r == Doing("update", task[x].obs, task[x].status, i, events[i])
<1>1. task[x].obs \in Observations /\ task[x].status \in Status
  BY DEF StoreInv, TypeOK, TaskOK
<1>2. i \in Nat /\ events[i] \in Row BY DEF StoreInv, TypeOK, Stored
<1>3. /\ r \in Task /\ r.obs = task[x].obs /\ r.status = task[x].status /\ r.pc = "update"
      /\ r.id = i /\ r.row = events[i] /\ r.dateId = 0 /\ r.venueId = 0
  <2>1. PICK o \in Observations, status \in Status, row \in Row \cup {NoRow} :
          o = task[x].obs /\ status = task[x].status /\ row = events[i]
    BY <1>1, <1>2
  <2>2. r = Doing("update", o, status, i, row) BY <2>1
  <2> HIDE DEF r
  <2> QED BY <1>2, <2>1, <2>2, DoingType
<1>4. task' = [task EXCEPT ![x] = r] BY DEF Adopt
<1>5. Stored \subseteq Stored' BY DEF TableOK
<1> HIDE DEF r
<1> QED BY <1>1, <1>2, <1>3, <1>4, <1>5, QuietTask
-----------------------------------------------------------------------------
\* A step that writes neither rows nor history keeps the table.
LEMMA UnwrittenTable ==
  ASSUME StoreInv, events' = events, history' = history, edits' = edits,
         serial' \in Nat, serial <= serial'
  PROVE  TableOK
<1>1. TypeOK /\ KeysSpell /\ IdsOK /\ KeysDiffer /\ KeyFollowsDate BY DEF StoreInv
<1>2. events' \in Seq(Row) /\ history' \in History /\ Stored' = Stored
  BY <1>1 DEF TypeOK, Stored
<1>3. KeyFollowsDate' /\ KeysDiffer' BY <1>1, <1>2 DEF KeyFollowsDate, KeysDiffer
<1>4. \A e \in history'.date \cup history'.venue : e.id <= serial' /\ e.event \in Stored'
  <2>1. \A e \in history.date \cup history.venue :
          e.id \in Nat /\ e.id <= serial /\ e.event \in Stored
    BY <1>1 DEF TypeOK, History, Entry, IdsOK
  <2>2. serial \in Nat BY <1>1 DEF TypeOK
  <2> QED BY <1>2, <2>1, <2>2
<1>5. edits' = 0 =>
        /\ edits = 0
        /\ \A i \in Stored' : events'[i].key = KeyOf(events'[i])
        /\ \A i \in Stored : /\ events'[i].company = events[i].company
                             /\ events'[i].stage = events[i].stage
  BY <1>1, <1>2 DEF KeysSpell
<1> QED BY <1>2, <1>3, <1>4, <1>5 DEF TableOK

\* A step that replaces one row by one that fits, under a key no other row has, keeps it.
LEMMA WrittenTable ==
  ASSUME StoreInv, NEW i \in Stored, NEW row \in Row,
         events' = [events EXCEPT ![i] = row],
         row.key.date = row.date,
         \A j \in Stored \ {i} : events[j].key # row.key,
         edits' = 0 => /\ edits = 0 /\ row.key = KeyOf(row)
                       /\ row.company = events[i].company /\ row.stage = events[i].stage,
         history' \in History, serial' = serial,
         \A e \in history'.date \cup history'.venue : e.id <= serial /\ e.event \in Stored
  PROVE  TableOK
<1>1. TypeOK /\ KeysSpell /\ KeysDiffer /\ KeyFollowsDate BY DEF StoreInv
<1>2. events \in Seq(Row) /\ Stored = 1..Len(events) /\ serial \in Nat
  BY <1>1 DEF TypeOK, Stored
<1>3. events' \in Seq(Row) /\ Stored' = Stored BY <1>2 DEF Stored
<1>4. events'[i] = row /\ \A j \in Stored \ {i} : events'[j] = events[j] BY <1>2
<1>5. KeyFollowsDate' BY <1>1, <1>3, <1>4 DEF KeyFollowsDate
<1>6. KeysDiffer' BY <1>1, <1>3, <1>4 DEF KeysDiffer
<1>7. edits' = 0 =>
        /\ edits = 0
        /\ \A j \in Stored' : events'[j].key = KeyOf(events'[j])
        /\ \A j \in Stored : /\ events'[j].company = events[j].company
                             /\ events'[j].stage = events[j].stage
  BY <1>1, <1>3, <1>4 DEF KeysSpell
<1> QED BY <1>2, <1>3, <1>5, <1>6, <1>7 DEF TableOK

\* A step that adds a row under a free key keeps it.
LEMMA GrownTable ==
  ASSUME StoreInv, NEW row \in Row, row.key.date = row.date, row.key = KeyOf(row),
         KeyFree(row.key, Stored), events' = Append(events, row),
         history' = history, serial' = serial, edits' = edits
  PROVE  TableOK
<1>1. TypeOK /\ KeysSpell /\ IdsOK /\ KeysDiffer /\ KeyFollowsDate BY DEF StoreInv
<1>2. events \in Seq(Row) /\ Stored = 1..Len(events) /\ serial \in Nat
  BY <1>1 DEF TypeOK, Stored
<1> DEFINE n == Len(events) + 1
<1>3. events' \in Seq(Row) /\ Stored' = Stored \cup {n} /\ n \notin Stored
  BY <1>2 DEF Stored
<1>4. events'[n] = row /\ \A j \in Stored : events'[j] = events[j] BY <1>2
<1> HIDE DEF n
<1>5. KeyFollowsDate' BY <1>1, <1>3, <1>4 DEF KeyFollowsDate
<1>6. KeysDiffer'
  <2>1. \A j \in Stored : events[j].key # row.key BY DEF KeyFree
  <2> SUFFICES ASSUME NEW i \in Stored', NEW j \in Stored', events'[i].key = events'[j].key
               PROVE  i = j
    BY DEF KeysDiffer
  <2>2. CASE i = n /\ j = n BY <2>2
  <2>3. CASE i = n /\ j # n BY <1>3, <1>4, <2>1, <2>3
  <2>4. CASE i # n /\ j = n BY <1>3, <1>4, <2>1, <2>4
  <2>5. CASE i # n /\ j # n BY <1>1, <1>3, <1>4, <2>5 DEF KeysDiffer
  <2> QED BY <2>2, <2>3, <2>4, <2>5
<1>7. edits' = 0 =>
        /\ edits = 0
        /\ \A j \in Stored' : events'[j].key = KeyOf(events'[j])
        /\ \A j \in Stored : /\ events'[j].company = events[j].company
                             /\ events'[j].stage = events[j].stage
  BY <1>1, <1>3, <1>4 DEF KeysSpell
<1>8. /\ history' \in History
      /\ \A e \in history'.date \cup history'.venue : e.id <= serial' /\ e.event \in Stored'
  BY <1>1, <1>3 DEF TypeOK, IdsOK
<1>9. serial' \in Nat /\ serial <= serial' /\ Stored \subseteq Stored' BY <1>2, <1>3
<1> QED BY <1>3, <1>5, <1>6, <1>7, <1>8, <1>9 DEF TableOK

\* The row and the key an update writes fit together, whatever the copy it decides by.
LEMMA RevisedRow ==
  ASSUME NEW cur \in Row, NEW row \in Row, NEW o \in Observation
  PROVE  /\ Revised(cur, row, o) \in Row
         /\ cur.key.date = cur.date =>
              Revised(cur, row, o).key.date = Revised(cur, row, o).date
         /\ Revised(cur, row, o).company = cur.company
         /\ Revised(cur, row, o).stage = cur.stage
         /\ Revised(cur, row, o).key = IF Moved(row, o) THEN MovedKey(row, o) ELSE cur.key
         /\ /\ cur.key = KeyOf(cur) /\ row.company = cur.company /\ row.stage = cur.stage
            => Revised(cur, row, o).key = KeyOf(Revised(cur, row, o))
<1>1. MovedKey(row, o) \in Key /\ MovedKey(row, o).date = o.date
  BY DEF MovedKey, Key, Row, Observation
<1>2. Placed(row, o) => o.venue \in Places
  BY DEF Placed, Observation, Places
<1>3. Revised(cur, row, o) \in Row
  BY <1>1, <1>2 DEF Revised, Row, Observation, Status
<1>4. cur.key.date = cur.date =>
        Revised(cur, row, o).key.date = Revised(cur, row, o).date
  BY <1>1 DEF Revised
<1>5. /\ Revised(cur, row, o).company = cur.company
      /\ Revised(cur, row, o).stage = cur.stage
      /\ Revised(cur, row, o).key = IF Moved(row, o) THEN MovedKey(row, o) ELSE cur.key
      /\ Revised(cur, row, o).date = IF Moved(row, o) THEN o.date ELSE cur.date
  BY DEF Revised
<1>6. /\ cur.key = KeyOf(cur) /\ row.company = cur.company /\ row.stage = cur.stage
      => Revised(cur, row, o).key = KeyOf(Revised(cur, row, o))
  BY <1>5 DEF KeyOf, MovedKey
<1> QED BY <1>3, <1>4, <1>5, <1>6

\* What a transaction adds to the history: an entry per field it has inserted.
LEMMA HistoryWithType ==
  ASSUME StoreInv, NEW x \in Executors, Updating(x)
  PROVE  /\ HistoryWith(x) \in History
         /\ HistoryWith(x).date = history.date \cup Dated(x)
         /\ HistoryWith(x).venue = history.venue \cup Housed(x)
         /\ \A e \in Dated(x) : /\ task[x].dateId # 0 /\ e.id = task[x].dateId
                                /\ e.id <= serial /\ e.event = task[x].id
                                /\ e.old = task[x].row.date /\ e.new = Obs(x).date
         /\ \A e \in Housed(x) : /\ task[x].venueId # 0 /\ e.id = task[x].venueId
                                 /\ e.id <= serial /\ e.event = task[x].id
                                 /\ e.old = task[x].row.venue /\ e.new = Obs(x).venue
<1>1. TypeOK /\ Inserted(x) /\ task[x].pc = "update" BY DEF StoreInv, IdsOK, Updating
<1>2. /\ task[x].row \in Row /\ Obs(x) \in Observation /\ task[x].id \in Nat
      /\ task[x].dateId \in Nat /\ task[x].venueId \in Nat
  BY <1>1, UpdatingType
<1>3. history.date \in SUBSET Entry(Dates) /\ history.venue \in SUBSET Entry(Places)
  BY <1>1 DEF TypeOK, History
<1>4. Dated(x) \subseteq Entry(Dates)
  BY <1>2 DEF Dated, Entry, Row, Observation
<1>5. Housed(x) \subseteq Entry(Places)
  <2>1. task[x].venueId # 0 => Obs(x).venue \in Places
    BY <1>1, <1>2 DEF Inserted, Placed, Observation, Places
  <2>2. task[x].row.venue \in Places BY <1>2 DEF Row
  <2> QED BY <1>2, <2>1, <2>2 DEF Housed, Entry
<1>6. \A e \in Dated(x) : /\ task[x].dateId # 0 /\ e.id = task[x].dateId
                          /\ e.id <= serial /\ e.event = task[x].id
                          /\ e.old = task[x].row.date /\ e.new = Obs(x).date
  BY <1>1 DEF Dated, Inserted
<1>7. \A e \in Housed(x) : /\ task[x].venueId # 0 /\ e.id = task[x].venueId
                           /\ e.id <= serial /\ e.event = task[x].id
                           /\ e.old = task[x].row.venue /\ e.new = Obs(x).venue
  BY <1>1 DEF Housed, Inserted
<1> QED BY <1>3, <1>4, <1>5, <1>6, <1>7 DEF HistoryWith, History

\* A new event's row is well formed and under its own key.
LEMMA NewRowType ==
  ASSUME NEW o \in Observation, NEW status \in Status
  PROVE  /\ NewRow(o, status) \in Row /\ NewRow(o, status).key = KeyOf(o)
         /\ NewRow(o, status).key = KeyOf(NewRow(o, status))
         /\ NewRow(o, status).key.date = NewRow(o, status).date
<1>1. KeyOf(o) \in Key /\ KeyOf(o).date = o.date BY DEF KeyOf, Key, Observation
<1>2. (IF o.venue = "silent" THEN "none" ELSE o.venue) \in Places
  BY DEF Observation, Places
<1>3. NewRow(o, status) \in Row BY <1>1, <1>2 DEF NewRow, Row, Observation
<1> QED BY <1>1, <1>3 DEF NewRow, KeyOf
-----------------------------------------------------------------------------
(* The steps, for any number of executors.                                   *)

LEMMA InitStore == Init => StoreInv
<1> SUFFICES ASSUME Init PROVE StoreInv OBVIOUS
<1>1. events = << >> /\ Stored = {} BY DEF Init, Stored
<1>2. \A x \in Executors : task[x] = Idle BY DEF Init
<1>3. TypeOK
  <2>1. history \in History BY DEF Init, History
  <2>2. task \in [Executors -> Task] /\ \A x \in Executors : TaskOK(x)
    BY <1>2, IdleType DEF Init, TaskOK
  <2> QED BY <1>1, <2>1, <2>2, StoreAssumption DEF Init, TypeOK
<1>4. KeyFollowsDate /\ KeysDiffer BY <1>1 DEF KeyFollowsDate, KeysDiffer
<1>5. KeysSpell BY <1>1, <1>2, IdleType DEF KeysSpell, Spelled
<1>6. IdsOK BY <1>2, IdleType DEF Init, IdsOK, Inserted
<1> QED BY <1>3, <1>4, <1>5, <1>6 DEF StoreInv

\* Starting on an observation, as an email's or as a caller's.
LEMMA BeginStep ==
  ASSUME StoreInv, NEW x \in Executors, NEW o \in Observations, Begin(x, o) \/ Post(x, o)
  PROVE  StoreInv'
<1>1. UNCHANGED <<events, history, serial, edits>> /\ runs' = runs + 1 /\ runs < MaxRuns
  BY DEF Begin, Post
<1>2. TypeOK BY DEF StoreInv
<1>3. TableOK
  <2>1. serial' \in Nat /\ serial <= serial' BY <1>1, <1>2 DEF TypeOK
  <2> QED BY <1>1, <2>1, UnwrittenTable
<1>4. runs' \in 0..MaxRuns /\ edits' \in 0..MaxEdits
  BY <1>1, <1>2, StoreAssumption DEF TypeOK
<1>5. PICK pc \in {"exact", "lookup"}, status \in Status :
        task' = [task EXCEPT ![x] = Doing(pc, o, status, 0, NoRow)]
  BY DEF Begin, Post, Status
<1>6. TasksOK
  <2> DEFINE r == Doing(pc, o, status, 0, NoRow)
  <2>1. /\ r \in Task /\ r.obs = o /\ r.status = status /\ r.pc # "update"
        /\ r.dateId = 0 /\ r.venueId = 0
    BY DoingType
  <2>2. task' = [task EXCEPT ![x] = r] BY <1>5
  <2> HIDE DEF r
  <2> QED BY <1>1, <1>3, <2>1, <2>2, QuietTask
<1> QED BY <1>3, <1>4, <1>6, Together

\* Everything that neither writes nor inserts: the queries, and the ways out.
LEMMA QueryStep ==
  ASSUME StoreInv, NEW x \in Executors,
         \/ MatchExact(x) \/ MatchSoft(x) \/ MatchLoose(x) \/ Decline(x) \/ RollBack(x)
         \/ Lookup(x) \/ InsertConflicts(x) \/ Reread(x)
  PROVE  StoreInv'
<1>1. UNCHANGED <<events, history, serial, runs, edits>>
  BY DEF MatchExact, MatchSoft, MatchLoose, Decline, RollBack, Lookup, InsertConflicts, Reread
<1>2. TypeOK BY DEF StoreInv
<1>3. TableOK
  <2>1. serial' \in Nat /\ serial <= serial' BY <1>1, <1>2 DEF TypeOK
  <2> QED BY <1>1, <2>1, UnwrittenTable
<1>4. \/ Done(x)
      \/ /\ task[x].pc \notin {"idle", "update"}
         /\ \E pc \in {"soft", "loose", "lookup", "insert", "reread"} : Goto(x, pc)
      \/ task[x].pc # "idle" /\ \E i \in Stored : Adopt(x, i)
  <2>1. /\ ExactMatches(events, Obs(x)) \subseteq Stored
        /\ SoftMatches(events, Obs(x)) \subseteq Stored
        /\ LooseMatches(events, Obs(x)) \subseteq Stored
    BY DEF ExactMatches, SoftMatches, Eligible, LooseMatches, LooseCandidates, Stored
  <2>2. CASE MatchExact(x) BY <2>1, <2>2 DEF MatchExact
  <2>3. CASE MatchSoft(x) BY <2>1, <2>3 DEF MatchSoft
  <2>4. CASE MatchLoose(x) BY <2>1, <2>4 DEF MatchLoose
  <2>5. CASE Decline(x) \/ RollBack(x) \/ Reread(x) BY <2>5 DEF Decline, RollBack, Reread
  <2>6. CASE Lookup(x) BY <2>6 DEF Lookup
  <2>7. CASE InsertConflicts(x) BY <2>7 DEF InsertConflicts
  <2> QED BY <2>2, <2>3, <2>4, <2>5, <2>6, <2>7
<1>5. TasksOK
  <2>1. CASE Done(x)
    <3>1. /\ \A e \in history'.date : e \in history.date
                                      \/ (task[x].dateId # 0 /\ e.id = task[x].dateId)
          /\ \A e \in history'.venue : e \in history.venue
                                       \/ (task[x].venueId # 0 /\ e.id = task[x].venueId)
      BY <1>1
    <3> QED BY <1>3, <2>1, <3>1, DoneStep
  <2>2. CASE /\ task[x].pc \notin {"idle", "update"}
             /\ \E pc \in {"soft", "loose", "lookup", "insert", "reread"} : Goto(x, pc)
    BY <1>1, <1>3, <2>2, GotoStep
  <2>3. CASE task[x].pc # "idle" /\ \E i \in Stored : Adopt(x, i)
    BY <1>1, <1>3, <2>3, AdoptStep
  <2> QED BY <1>4, <2>1, <2>2, <2>3
<1>6. runs' \in 0..MaxRuns /\ edits' \in 0..MaxEdits BY <1>1, <1>2 DEF TypeOK
<1> QED BY <1>3, <1>5, <1>6, Together

\* An entry is inserted, under a new id; the others do not see it.
LEMMA RecordStep ==
  ASSUME StoreInv, NEW x \in Executors, RecordDate(x) \/ RecordVenue(x)
  PROVE  StoreInv'
<1>1. /\ UNCHANGED <<events, history, runs, edits>> /\ serial' = serial + 1
      /\ Updating(x) /\ task[x].pc = "update"
  BY DEF RecordDate, RecordVenue, Updating
<1>2. TypeOK /\ IdsOK /\ KeysSpell BY DEF StoreInv
<1>3. serial \in Nat /\ serial' \in Nat /\ serial < serial' /\ serial <= serial'
  BY <1>1, <1>2 DEF TypeOK
<1>4. TableOK BY <1>1, <1>3, UnwrittenTable
<1>5. runs' \in 0..MaxRuns /\ edits' \in 0..MaxEdits BY <1>1, <1>2 DEF TypeOK
<1>6. /\ task[x] \in Task /\ TaskOK(x) /\ Inserted(x)
      /\ task[x].dateId \in Nat /\ task[x].venueId \in Nat
  BY <1>1, <1>2, UpdatingType DEF TypeOK, IdsOK
<1>7. \A e \in history.date \cup history.venue : e.id \in Nat /\ e.id <= serial
  BY <1>2 DEF TypeOK, History, Entry, IdsOK
<1>8. /\ \A e \in history'.date : e.id # serial' /\ e \in history.date
      /\ \A e \in history'.venue : e.id # serial' /\ e \in history.venue
      /\ serial' # 0 /\ serial' > serial
  BY <1>1, <1>3, <1>7
<1>9. edits' = 0 => /\ task[x].row.company = events'[task[x].id].company
                    /\ task[x].row.stage = events'[task[x].id].stage
  BY <1>1, <1>2 DEF KeysSpell, Spelled
<1>10. PICK d \in Nat, v \in Nat :
         /\ task' = [task EXCEPT ![x] = [task[x] EXCEPT !.dateId = d, !.venueId = v]]
         /\ d = task[x].dateId \/ (d = serial' /\ Moved(task[x].row, Obs(x)))
         /\ v = task[x].venueId \/ (v = serial' /\ Placed(task[x].row, Obs(x)))
  <2>1. CASE RecordDate(x)
    <3>1. task' = [task EXCEPT ![x] = [task[x] EXCEPT !.dateId = serial',
                                                     !.venueId = task[x].venueId]]
      BY <1>3, <1>6, <2>1 DEF RecordDate, Task
    <3> QED BY <1>3, <1>6, <2>1, <3>1 DEF RecordDate
  <2>2. CASE RecordVenue(x)
    <3>1. task' = [task EXCEPT ![x] = [task[x] EXCEPT !.dateId = task[x].dateId,
                                                     !.venueId = serial']]
      BY <1>3, <1>6, <2>2 DEF RecordVenue, Task
    <3> QED BY <1>3, <1>6, <2>2, <3>1 DEF RecordVenue
  <2> QED BY <2>1, <2>2
<1>11. TasksOK
  <2> DEFINE r == [task[x] EXCEPT !.dateId = d, !.venueId = v]
  <2>1. r \in Task BY <1>6 DEF Task
  <2>2. /\ r.pc = "update" /\ r.obs = task[x].obs /\ r.status = task[x].status
        /\ r.id = task[x].id /\ r.row = task[x].row /\ r.dateId = d /\ r.venueId = v
    BY <1>1, <1>6 DEF Task
  <2>3. task' = [task EXCEPT ![x] = r] BY <1>10
  <2> HIDE DEF r
  <2>4. /\ r.obs \in Observations /\ r.status \in Status
        /\ r.id \in Stored' /\ r.row \in Row /\ Said[r.obs] = Obs(x)
    BY <1>1, <1>4, <1>6, <2>2 DEF TaskOK, Obs, TableOK
  <2>5. r.dateId # 0 => /\ r.pc = "update" /\ ~Declined(r.row, Said[r.obs])
                        /\ Moved(r.row, Said[r.obs]) /\ r.dateId <= serial'
                        /\ \A e \in history'.date : e.id # r.dateId
                        /\ r.dateId = task[x].dateId \/ r.dateId > serial
    <3>1. CASE d = serial' /\ Moved(task[x].row, Obs(x))
      BY <1>1, <1>3, <1>8, <2>2, <2>4, <3>1 DEF Updating
    <3>2. CASE d = task[x].dateId
      BY <1>1, <1>3, <1>6, <2>2, <2>4, <3>2 DEF Updating, Inserted
    <3> QED BY <1>10, <3>1, <3>2
  <2>6. r.venueId # 0 => /\ r.pc = "update" /\ ~Declined(r.row, Said[r.obs])
                         /\ Placed(r.row, Said[r.obs]) /\ r.venueId <= serial'
                         /\ \A e \in history'.venue : e.id # r.venueId
                         /\ r.venueId = task[x].venueId \/ r.venueId > serial
    <3>1. CASE v = serial' /\ Placed(task[x].row, Obs(x))
      BY <1>1, <1>3, <1>8, <2>2, <2>4, <3>1 DEF Updating
    <3>2. CASE v = task[x].venueId
      BY <1>1, <1>3, <1>6, <2>2, <2>4, <3>2 DEF Updating, Inserted
    <3> QED BY <1>10, <3>1, <3>2
  <2>7. /\ \A e \in history'.date : e \in history.date
                                      \/ (task[x].dateId # 0 /\ e.id = task[x].dateId)
        /\ \A e \in history'.venue : e \in history.venue
                                      \/ (task[x].venueId # 0 /\ e.id = task[x].venueId)
    BY <1>8
  <2> QED BY <1>4, <1>9, <2>1, <2>2, <2>3, <2>4, <2>5, <2>6, <2>7, TaskStep
<1> QED BY <1>4, <1>5, <1>11, Together

\* The row is updated and the entries become history.
LEMMA WriteStep ==
  ASSUME StoreInv, NEW x \in Executors, Write(x)
  PROVE  StoreInv'
<1>1. /\ Updating(x) /\ task[x].pc = "update" /\ Recorded(x) /\ ~Collides(x)
      /\ Done(x) /\ UNCHANGED <<serial, runs, edits>>
      /\ history' = HistoryWith(x)
  BY DEF Write, Updating
<1>2. TypeOK /\ IdsOK /\ KeysSpell /\ KeysDiffer /\ KeyFollowsDate BY DEF StoreInv
<1>3. PICK i \in Stored, copy \in Row, o \in Observation, cur \in Row :
        i = task[x].id /\ copy = task[x].row /\ o = Obs(x) /\ cur = events[i]
  BY <1>1, <1>2, UpdatingType
<1>4. PICK row \in Row :
        /\ row = Revised(cur, copy, o)
        /\ cur.key.date = cur.date => row.key.date = row.date
        /\ row.company = cur.company /\ row.stage = cur.stage
        /\ row.key = IF Moved(copy, o) THEN MovedKey(copy, o) ELSE cur.key
        /\ /\ cur.key = KeyOf(cur) /\ copy.company = cur.company /\ copy.stage = cur.stage
           => row.key = KeyOf(row)
  BY RevisedRow
<1>5. events' = [events EXCEPT ![i] = row] BY <1>3, <1>4 DEF Write
<1>6. row.key.date = row.date BY <1>2, <1>3, <1>4 DEF KeyFollowsDate
<1>7. \A j \in Stored \ {i} : events[j].key # row.key
  <2>1. row.key = IF Moved(copy, o) THEN MovedKey(copy, o) ELSE cur.key
    BY <1>4
  <2>2. CASE Moved(copy, o)
    <3>1. KeyFree(MovedKey(copy, o), Stored \ {i}) BY <1>1, <1>3, <2>2 DEF Collides
    <3> QED BY <2>1, <2>2, <3>1 DEF KeyFree
  <2>3. CASE ~Moved(copy, o) BY <1>2, <1>3, <2>1, <2>3 DEF KeysDiffer
  <2> QED BY <2>2, <2>3
<1>8. edits' = 0 => /\ edits = 0 /\ row.key = KeyOf(row)
                    /\ row.company = events[i].company /\ row.stage = events[i].stage
  <2>1. edits = 0 => /\ cur.key = KeyOf(cur)
                     /\ copy.company = cur.company /\ copy.stage = cur.stage
    BY <1>1, <1>2, <1>3 DEF KeysSpell, Spelled
  <2> QED BY <1>1, <1>3, <1>4, <2>1
<1>9. /\ history' \in History
      /\ \A e \in history'.date \cup history'.venue : e.id <= serial /\ e.event \in Stored
  BY <1>1, <1>2, <1>3, HistoryWithType DEF IdsOK
<1>10. TableOK BY <1>1, <1>5, <1>6, <1>7, <1>8, <1>9, WrittenTable
<1>11. TasksOK
  <2>1. /\ \A e \in history'.date : e \in history.date
                                      \/ (task[x].dateId # 0 /\ e.id = task[x].dateId)
        /\ \A e \in history'.venue : e \in history.venue
                                      \/ (task[x].venueId # 0 /\ e.id = task[x].venueId)
    BY <1>1, HistoryWithType
  <2> QED BY <1>1, <1>10, <2>1, DoneStep
<1>12. runs' \in 0..MaxRuns /\ edits' \in 0..MaxEdits BY <1>1, <1>2 DEF TypeOK
<1> QED BY <1>10, <1>11, <1>12, Together

\* An event is created, under a key nobody has.
LEMMA InsertStep ==
  ASSUME StoreInv, NEW x \in Executors, Insert(x)
  PROVE  StoreInv'
<1>1. /\ UNCHANGED <<history, serial, runs, edits>> /\ Done(x) /\ task[x].pc = "insert"
      /\ KeyFree(KeyOf(Obs(x)), Stored)
  BY DEF Insert
<1>2. TypeOK BY DEF StoreInv
<1>3. Obs(x) \in Observation /\ task[x].status \in Status
  BY <1>1, <1>2, ObsType DEF TypeOK, TaskOK
<1>4. PICK row \in Row : /\ row = NewRow(Obs(x), task[x].status) /\ row.key = KeyOf(Obs(x))
                         /\ row.key = KeyOf(row) /\ row.key.date = row.date
  BY <1>3, NewRowType
<1>5. TableOK
  <2>1. events' = Append(events, row) BY <1>4 DEF Insert
  <2> QED BY <1>1, <1>4, <2>1, GrownTable
<1>6. TasksOK
  <2>1. /\ \A e \in history'.date : e \in history.date
                                      \/ (task[x].dateId # 0 /\ e.id = task[x].dateId)
        /\ \A e \in history'.venue : e \in history.venue
                                      \/ (task[x].venueId # 0 /\ e.id = task[x].venueId)
    BY <1>1
  <2> QED BY <1>1, <1>5, <2>1, DoneStep
<1>7. runs' \in 0..MaxRuns /\ edits' \in 0..MaxEdits BY <1>1, <1>2 DEF TypeOK
<1> QED BY <1>5, <1>6, <1>7, Together

\* A reviewer's edit moves no key; company and round need not be what the key spells.
LEMMA ConfirmStep ==
  ASSUME StoreInv, NEW i \in Stored, Confirm(i)
  PROVE  StoreInv'
<1>1. /\ UNCHANGED <<history, serial, task, runs>> /\ edits' = edits + 1 /\ edits < MaxEdits
  BY DEF Confirm
<1>2. TypeOK /\ IdsOK /\ KeysDiffer /\ KeyFollowsDate BY DEF StoreInv
<1>3. edits' \in 0..MaxEdits /\ edits' # 0 /\ runs' \in 0..MaxRuns
  BY <1>1, <1>2, StoreAssumption DEF TypeOK
<1>4. PICK c \in Companies, s \in Stages :
        events' = [events EXCEPT ![i] =
          [company |-> c, stage |-> s, date |-> events[i].date, venue |-> events[i].venue,
           key |-> events[i].key, confidence |-> 100, status |-> "confirmed"]]
  BY DEF Confirm
<1>5. events[i] \in Row BY <1>2 DEF TypeOK, Stored
<1>6. PICK row \in Row : /\ events' = [events EXCEPT ![i] = row]
                         /\ row.key = events[i].key /\ row.date = events[i].date
  <2> DEFINE row0 == [company |-> c, stage |-> s, date |-> events[i].date,
                      venue |-> events[i].venue, key |-> events[i].key,
                      confidence |-> 100, status |-> "confirmed"]
  <2>1. row0 \in Row /\ row0.key = events[i].key /\ row0.date = events[i].date
    BY <1>5 DEF Row, Status
  <2>2. events' = [events EXCEPT ![i] = row0] BY <1>4
  <2> HIDE DEF row0
  <2> QED BY <2>1, <2>2
<1>7. TableOK
  <2>1. row.key.date = row.date BY <1>2, <1>6 DEF KeyFollowsDate
  <2>2. \A j \in Stored \ {i} : events[j].key # row.key BY <1>2, <1>6 DEF KeysDiffer
  <2>3. /\ history' \in History
        /\ \A e \in history'.date \cup history'.venue : e.id <= serial /\ e.event \in Stored
    BY <1>1, <1>2 DEF TypeOK, IdsOK
  <2> QED BY <1>1, <1>3, <1>6, <2>1, <2>2, <2>3, WrittenTable
<1>8. TasksOK
  <2>1. task' \in [Executors -> Task] /\ \A y \in Executors : TaskOK(y)'
    BY <1>1, <1>2, <1>7 DEF TypeOK, TaskOK, TableOK
  <2>2. \A y \in Executors : Inserted(y)'
    BY <1>1, <1>2 DEF IdsOK, Inserted, Updating, Obs
  <2>3. \A y, z \in Executors : y # z =>
          /\ task'[y].dateId # 0 => task'[y].dateId # task'[z].dateId
          /\ task'[y].venueId # 0 => task'[y].venueId # task'[z].venueId
    BY <1>1, <1>2 DEF IdsOK
  <2> QED BY <1>3, <2>1, <2>2, <2>3 DEF TasksOK
<1> QED BY <1>3, <1>7, <1>8, Together

\* Every step keeps the invariant.
LEMMA StoreStep == StoreInv /\ [Next]_vars => StoreInv'
<1> SUFFICES ASSUME StoreInv, [Next]_vars PROVE StoreInv' OBVIOUS
<1>1. ASSUME NEW x \in Executors, Step(x) PROVE StoreInv'
  <2>1. CASE \E o \in Observations : Begin(x, o) \/ Post(x, o) BY <2>1, BeginStep
  <2>2. CASE RecordDate(x) \/ RecordVenue(x) BY <2>2, RecordStep
  <2>3. CASE Write(x) BY <2>3, WriteStep
  <2>4. CASE Insert(x) BY <2>4, InsertStep
  <2>5. CASE \/ MatchExact(x) \/ MatchSoft(x) \/ MatchLoose(x) \/ Decline(x) \/ RollBack(x)
             \/ Lookup(x) \/ InsertConflicts(x) \/ Reread(x)
    BY <2>5, QueryStep
  <2> QED BY <1>1, <2>1, <2>2, <2>3, <2>4, <2>5 DEF Step
<1>2. CASE \E i \in Stored : Confirm(i) BY <1>2, ConfirmStep
<1>3. CASE UNCHANGED vars
  BY <1>3 DEF vars, StoreInv, TypeOK, TaskOK, Stored, KeyFollowsDate, KeysDiffer, KeysSpell,
              Spelled, IdsOK, Inserted, Updating, Obs
<1> QED BY <1>1, <1>2, <1>3 DEF Next
-----------------------------------------------------------------------------
\* A change and its entry come together: what each step does to the rows and to the
\* history, seen at once.
LEMMA ToldStep ==
  ASSUME StoreInv, [Next]_vars
  PROVE  /\ \A i \in Stored : events'[i].date # events[i].date =>
              \E e \in history'.date \ history.date : e.event = i /\ e.new = events'[i].date
         /\ \A i \in Stored : events'[i].venue # events[i].venue =>
              \E e \in history'.venue \ history.venue : e.event = i /\ e.new = events'[i].venue
         /\ \A e \in history'.date \ history.date : e.new = events'[e.event].date
         /\ \A e \in history'.venue \ history.venue : e.new = events'[e.event].venue
<1> DEFINE Told ==
         /\ \A i \in Stored : events'[i].date # events[i].date =>
              \E e \in history'.date \ history.date : e.event = i /\ e.new = events'[i].date
         /\ \A i \in Stored : events'[i].venue # events[i].venue =>
              \E e \in history'.venue \ history.venue : e.event = i /\ e.new = events'[i].venue
         /\ \A e \in history'.date \ history.date : e.new = events'[e.event].date
         /\ \A e \in history'.venue \ history.venue : e.new = events'[e.event].venue
<1>1. TypeOK /\ IdsOK BY DEF StoreInv
<1>2. events \in Seq(Row) /\ Stored = 1..Len(events) BY <1>1 DEF TypeOK, Stored
<1>3. ASSUME history' = history,
             \A i \in Stored : events'[i].date = events[i].date /\ events'[i].venue = events[i].venue
      PROVE  Told
  BY <1>3
<1>4. ASSUME NEW x \in Executors, Write(x) PROVE Told
  <2>1. Updating(x) /\ task[x].pc = "update" /\ Recorded(x) /\ history' = HistoryWith(x)
    BY <1>4 DEF Write, Updating
  <2>2. PICK i \in Stored, copy \in Row, o \in Observation, cur \in Row :
          i = task[x].id /\ copy = task[x].row /\ o = Obs(x) /\ cur = events[i]
    BY <1>1, <2>1, UpdatingType
  <2>3. /\ events'[i] = Revised(cur, copy, o)
        /\ \A j \in Stored \ {i} : events'[j] = events[j]
    BY <1>2, <1>4, <2>2 DEF Write
  <2>4. /\ events'[i].date = IF Moved(copy, o) THEN o.date ELSE cur.date
        /\ events'[i].venue = IF Placed(copy, o) THEN o.venue ELSE cur.venue
    BY <2>3 DEF Revised
  <2>5. /\ history'.date = history.date \cup Dated(x)
        /\ history'.venue = history.venue \cup Housed(x)
        /\ \A e \in Dated(x) : task[x].dateId # 0 /\ e.event = i /\ e.new = o.date
        /\ \A e \in Housed(x) : task[x].venueId # 0 /\ e.event = i /\ e.new = o.venue
    BY <2>1, <2>2, HistoryWithType
  <2>6. Inserted(x) BY <1>1 DEF IdsOK
  <2>7. Moved(copy, o) => \E e \in Dated(x) : e \notin history.date
    <3>1. Moved(copy, o) => task[x].dateId # 0 BY <2>1, <2>2 DEF Recorded
    <3> QED BY <2>6, <3>1 DEF Inserted, Dated
  <2>8. Placed(copy, o) => \E e \in Housed(x) : e \notin history.venue
    <3>1. Placed(copy, o) => task[x].venueId # 0 BY <2>1, <2>2 DEF Recorded
    <3> QED BY <2>6, <3>1 DEF Inserted, Housed
  <2>9. /\ task[x].dateId # 0 => Moved(copy, o)
        /\ task[x].venueId # 0 => Placed(copy, o)
    BY <2>2, <2>6 DEF Inserted
  <2>10. \A j \in Stored : events'[j].date # events[j].date =>
           \E e \in history'.date \ history.date : e.event = j /\ e.new = events'[j].date
    BY <2>2, <2>3, <2>4, <2>5, <2>7
  <2>11. \A j \in Stored : events'[j].venue # events[j].venue =>
           \E e \in history'.venue \ history.venue : e.event = j /\ e.new = events'[j].venue
    BY <2>2, <2>3, <2>4, <2>5, <2>8
  <2>12. /\ \A e \in history'.date \ history.date : e.new = events'[e.event].date
         /\ \A e \in history'.venue \ history.venue : e.new = events'[e.event].venue
    BY <2>4, <2>5, <2>9
  <2> QED BY <2>10, <2>11, <2>12
<1>5. ASSUME NEW x \in Executors, Insert(x) PROVE Told
  <2>1. history' = history /\ \A i \in Stored : events'[i] = events[i]
    BY <1>2, <1>5 DEF Insert
  <2> HIDE DEF Told
  <2> QED BY <1>3, <2>1
<1>6. ASSUME NEW i \in Stored, Confirm(i) PROVE Told
  <2>1. history' = history BY <1>6 DEF Confirm
  <2>2. \A j \in Stored : events'[j].date = events[j].date /\ events'[j].venue = events[j].venue
    BY <1>2, <1>6 DEF Confirm
  <2> HIDE DEF Told
  <2> QED BY <1>3, <2>1, <2>2
<1>7. ASSUME NEW x \in Executors, NEW o \in Observations, Begin(x, o) \/ Post(x, o) PROVE Told
  <2> HIDE DEF Told
  <2> QED BY <1>3, <1>7 DEF Begin, Post
<1>8. ASSUME NEW x \in Executors,
             \/ MatchExact(x) \/ MatchSoft(x) \/ MatchLoose(x) \/ Decline(x) \/ RollBack(x)
             \/ Lookup(x) \/ InsertConflicts(x) \/ Reread(x) \/ RecordDate(x) \/ RecordVenue(x)
      PROVE  Told
  <2>1. history' = history /\ events' = events
    BY <1>8 DEF MatchExact, MatchSoft, MatchLoose, Decline, RollBack, Lookup, InsertConflicts,
                Reread, RecordDate, RecordVenue
  <2> HIDE DEF Told
  <2> QED BY <1>3, <2>1
<1>9. ASSUME UNCHANGED vars PROVE Told
  <2>1. history' = history /\ events' = events BY <1>9 DEF vars
  <2> HIDE DEF Told
  <2> QED BY <1>3, <2>1
<1> HIDE DEF Told
<1>10. ASSUME NEW x \in Executors, Step(x) PROVE Told
  BY <1>4, <1>5, <1>7, <1>8, <1>10 DEF Step
<1>11. Told BY <1>6, <1>9, <1>10 DEF Next
<1> QED BY <1>11 DEF Told
-----------------------------------------------------------------------------
(* One executor.                                                             *)

\* What one executor adds to the invariant.
Lone == HistoryChains /\ \A x \in Executors : Fresh(x)

\* Appending to a chain the entry that starts from its end keeps it a chain.
LEMMA ChainGrows ==
  ASSUME NEW E, NEW now, Chained(E, now), NEW n, n.id \in Nat, n.old = now,
         \A e \in E : e.id \in Nat /\ e.id < n.id
  PROVE  Chained(E \cup {n}, n.new)
<1>1. ASSUME NEW e \in E \cup {n}, NEW f \in E \cup {n}, e.id < f.id,
             \A g \in E \cup {n} : g.id <= e.id \/ f.id <= g.id
      PROVE  f.old = e.new
  <2>1. CASE e \in E /\ f \in E BY <1>1, <2>1 DEF Chained
  <2>2. CASE e \in E /\ f = n
    <3>1. \A g \in E : g.id <= e.id
      <4> TAKE g \in E
      <4> QED BY <1>1, <2>2
    <3> QED BY <2>2, <3>1 DEF Chained
  <2>3. CASE e = n
    <3>1. e.id \in Nat /\ f.id \in Nat /\ f.id <= e.id BY <2>3
    <3> QED BY <1>1, <3>1
  <2> QED BY <2>1, <2>2, <2>3
<1>2. ASSUME NEW e \in E \cup {n}, \A g \in E \cup {n} : g.id <= e.id PROVE e.new = n.new
  <2>1. n.id <= e.id BY <1>2
  <2> QED BY <2>1
<1> QED BY <1>1, <1>2 DEF Chained

\* Nobody else can be in a transaction, so an update of an unchanged chain appends to it.
LEMMA LoneWrite ==
  ASSUME StoreInv, Lone, OneExecutor, NEW x \in Executors, Write(x)
  PROVE  Lone'
<1>1. /\ Updating(x) /\ task[x].pc = "update" /\ Recorded(x) /\ history' = HistoryWith(x)
      /\ Done(x)
  BY DEF Write, Updating
<1>2. TypeOK /\ IdsOK /\ Inserted(x) /\ Fresh(x) BY DEF StoreInv, IdsOK, Lone
<1>3. events \in Seq(Row) /\ Stored = 1..Len(events) BY <1>2 DEF TypeOK, Stored
<1>4. PICK i \in Stored, copy \in Row, o \in Observation, cur \in Row :
        i = task[x].id /\ copy = task[x].row /\ o = Obs(x) /\ cur = events[i]
  BY <1>1, <1>2, UpdatingType
<1>5. /\ events'[i] = Revised(cur, copy, o) /\ Stored' = Stored
      /\ \A j \in Stored \ {i} : events'[j] = events[j]
  BY <1>3, <1>4 DEF Write, Stored
<1>6. /\ events'[i].date = IF Moved(copy, o) THEN o.date ELSE cur.date
      /\ events'[i].venue = IF Placed(copy, o) THEN o.venue ELSE cur.venue
  BY <1>5 DEF Revised
<1>7. cur.date = copy.date /\ cur.venue = copy.venue BY <1>1, <1>2, <1>4 DEF Fresh
<1>8. /\ history'.date = history.date \cup Dated(x)
      /\ history'.venue = history.venue \cup Housed(x)
      /\ \A e \in Dated(x) : e.event = i
      /\ \A e \in Housed(x) : e.event = i
  BY <1>1, <1>4, HistoryWithType
<1>9. /\ \A e \in history.date \cup history.venue : e.id \in Nat
      /\ task[x].dateId \in Nat /\ task[x].venueId \in Nat
  BY <1>1, <1>2, UpdatingType DEF TypeOK, History, Entry
<1>10. Chained(About(history.date, i), cur.date) /\ Chained(About(history.venue, i), cur.venue)
  BY <1>4 DEF Lone, HistoryChains
<1>11. Chained(About(history'.date, i), events'[i].date)
  <2>1. CASE task[x].dateId = 0
    <3>1. ~Moved(copy, o) BY <1>1, <1>4, <2>1 DEF Recorded
    <3>2. history'.date = history.date BY <1>8, <2>1 DEF Dated
    <3> QED BY <1>6, <1>10, <3>1, <3>2
  <2>2. CASE task[x].dateId # 0
    <3> DEFINE n == [id |-> task[x].dateId, event |-> i, old |-> copy.date, new |-> o.date]
    <3>1. Moved(copy, o) BY <1>2, <1>4, <2>2 DEF Inserted
    <3>2. Dated(x) = {n} BY <1>4, <2>2 DEF Dated
    <3>3. n.id = task[x].dateId /\ n.event = i /\ n.old = cur.date /\ n.new = o.date
      BY <1>7
    <3>4. \A e \in history.date : e.id < n.id BY <1>1, <1>2, <2>2, <3>3 DEF Fresh
    <3> HIDE DEF n
    <3>5. About(history'.date, i) = About(history.date, i) \cup {n}
      BY <1>8, <3>2, <3>3 DEF About
    <3>6. \A e \in About(history.date, i) : e.id \in Nat /\ e.id < n.id
      BY <1>9, <3>4 DEF About
    <3>7. Chained(About(history.date, i) \cup {n}, n.new)
      BY <1>9, <1>10, <3>3, <3>6, ChainGrows
    <3> QED BY <1>6, <3>1, <3>3, <3>5, <3>7
  <2> QED BY <2>1, <2>2
<1>12. Chained(About(history'.venue, i), events'[i].venue)
  <2>1. CASE task[x].venueId = 0
    <3>1. ~Placed(copy, o) BY <1>1, <1>4, <2>1 DEF Recorded
    <3>2. history'.venue = history.venue BY <1>8, <2>1 DEF Housed
    <3> QED BY <1>6, <1>10, <3>1, <3>2
  <2>2. CASE task[x].venueId # 0
    <3> DEFINE n == [id |-> task[x].venueId, event |-> i, old |-> copy.venue, new |-> o.venue]
    <3>1. Placed(copy, o) BY <1>2, <1>4, <2>2 DEF Inserted
    <3>2. Housed(x) = {n} BY <1>4, <2>2 DEF Housed
    <3>3. n.id = task[x].venueId /\ n.event = i /\ n.old = cur.venue /\ n.new = o.venue
      BY <1>7
    <3>4. \A e \in history.venue : e.id < n.id BY <1>1, <1>2, <2>2, <3>3 DEF Fresh
    <3> HIDE DEF n
    <3>5. About(history'.venue, i) = About(history.venue, i) \cup {n}
      BY <1>8, <3>2, <3>3 DEF About
    <3>6. \A e \in About(history.venue, i) : e.id \in Nat /\ e.id < n.id
      BY <1>9, <3>4 DEF About
    <3>7. Chained(About(history.venue, i) \cup {n}, n.new)
      BY <1>9, <1>10, <3>3, <3>6, ChainGrows
    <3> QED BY <1>6, <3>1, <3>3, <3>5, <3>7
  <2> QED BY <2>1, <2>2
<1>13. \A j \in Stored \ {i} : /\ Chained(About(history'.date, j), events'[j].date)
                               /\ Chained(About(history'.venue, j), events'[j].venue)
  <2> TAKE j \in Stored \ {i}
  <2>1. /\ About(history'.date, j) = About(history.date, j)
        /\ About(history'.venue, j) = About(history.venue, j)
    BY <1>8 DEF About
  <2> QED BY <1>5, <2>1 DEF Lone, HistoryChains
<1>14. HistoryChains' BY <1>5, <1>11, <1>12, <1>13 DEF HistoryChains
<1>15. ASSUME NEW y \in Executors PROVE Fresh(y)'
  <2>1. task'[y].pc = "idle" BY <1>1, <1>2, IdleType DEF OneExecutor, Done, TypeOK
  <2> QED BY <2>1 DEF Fresh
<1> QED BY <1>14, <1>15 DEF Lone

\* Inserting an event: nothing is told of it yet.
LEMMA LoneInsert ==
  ASSUME StoreInv, Lone, OneExecutor, NEW x \in Executors, Insert(x)
  PROVE  Lone'
<1>1. history' = history /\ Done(x) BY DEF Insert
<1>2. TypeOK /\ IdsOK BY DEF StoreInv
<1>3. events \in Seq(Row) /\ Stored = 1..Len(events) BY <1>2 DEF TypeOK, Stored
<1> DEFINE n == Len(events) + 1
<1>4. Stored' = Stored \cup {n} /\ n \notin Stored /\ \A j \in Stored : events'[j] = events[j]
  BY <1>3 DEF Insert, Stored
<1> HIDE DEF n
<1>5. About(history'.date, n) = {} /\ About(history'.venue, n) = {}
  BY <1>1, <1>2, <1>4 DEF About, IdsOK
<1>6. HistoryChains'
  <2> SUFFICES ASSUME NEW j \in Stored'
               PROVE  /\ Chained(About(history'.date, j), events'[j].date)
                      /\ Chained(About(history'.venue, j), events'[j].venue)
    BY DEF HistoryChains
  <2>1. CASE j = n BY <1>5, <2>1 DEF Chained
  <2>2. CASE j \in Stored BY <1>1, <1>4, <2>2 DEF Lone, HistoryChains
  <2> QED BY <1>4, <2>1, <2>2
<1>7. ASSUME NEW y \in Executors PROVE Fresh(y)'
  <2>1. task'[y].pc = "idle" BY <1>1, <1>2, IdleType DEF OneExecutor, Done, TypeOK
  <2> QED BY <2>1 DEF Fresh
<1> QED BY <1>6, <1>7 DEF Lone

\* A reviewer's edit touches neither date nor venue, and marks the row.
LEMMA LoneConfirm ==
  ASSUME StoreInv, Lone, NEW i \in Stored, Confirm(i)
  PROVE  Lone'
<1>1. UNCHANGED <<history, serial, task>> BY DEF Confirm
<1>2. TypeOK BY DEF StoreInv
<1>3. events \in Seq(Row) /\ Stored = 1..Len(events) BY <1>2 DEF TypeOK, Stored
<1>4. /\ Stored' = Stored
      /\ \A j \in Stored : /\ events'[j].date = events[j].date
                           /\ events'[j].venue = events[j].venue
      /\ events'[i].status = "confirmed"
      /\ \A j \in Stored \ {i} : events'[j] = events[j]
  BY <1>3 DEF Confirm, Stored
<1>5. HistoryChains' BY <1>1, <1>4 DEF Lone, HistoryChains
<1>6. ASSUME NEW y \in Executors PROVE Fresh(y)'
  <2>1. CASE task[y].pc # "update" BY <1>1, <2>1 DEF Fresh
  <2>2. CASE task[y].pc = "update"
    <3>1. task[y].id \in Stored /\ Fresh(y) BY <1>2, <2>2, UpdatingType DEF Lone
    <3>2. CASE task[y].id = i BY <1>1, <1>4, <2>2, <3>1, <3>2 DEF Fresh
    <3>3. CASE task[y].id # i BY <1>1, <1>4, <2>2, <3>1, <3>3 DEF Fresh
    <3> QED BY <3>2, <3>3
  <2> QED BY <2>1, <2>2
<1> QED BY <1>5, <1>6 DEF Lone

\* An entry inserted now has an id above all that is committed.
LEMMA LoneRecord ==
  ASSUME StoreInv, Lone, OneExecutor, NEW x \in Executors, RecordDate(x) \/ RecordVenue(x)
  PROVE  Lone'
<1>1. UNCHANGED <<events, history>> BY DEF RecordDate, RecordVenue
<1>2. TypeOK /\ IdsOK BY DEF StoreInv
<1>3. HistoryChains' BY <1>1 DEF Lone, HistoryChains, Stored
<1>4. \A e \in history.date \cup history.venue : e.id < serial + 1
  <2>1. serial \in Nat /\ \A e \in history.date \cup history.venue : e.id \in Nat /\ e.id <= serial
    BY <1>2 DEF TypeOK, History, Entry, IdsOK
  <2> QED BY <2>1
<1>5. /\ task[x] \in Task /\ task \in [Executors -> Task] BY <1>2 DEF TypeOK
<1>6. /\ task'[x].pc = task[x].pc /\ task'[x].id = task[x].id /\ task'[x].row = task[x].row
      /\ task'[x].dateId = task[x].dateId \/ task'[x].dateId = serial + 1
      /\ task'[x].venueId = task[x].venueId \/ task'[x].venueId = serial + 1
  BY <1>5 DEF RecordDate, RecordVenue, Task
<1>7. Fresh(x) BY DEF Lone
<1>8. Fresh(x)' BY <1>1, <1>4, <1>6, <1>7 DEF Fresh
<1> QED BY <1>3, <1>8 DEF Lone, OneExecutor

\* The queries and the ways out: a copy just taken is the row.
LEMMA LoneQuery ==
  ASSUME StoreInv, Lone, OneExecutor, UNCHANGED <<events, history>>, NEW x \in Executors,
         task'[x].pc # "update"
         \/ \E i \in Stored : Adopt(x, i)
  PROVE  Lone'
<1>1. HistoryChains' BY DEF Lone, HistoryChains, Stored
<1>2. TypeOK BY DEF StoreInv
<1>3. Fresh(x)'
  <2>1. CASE task'[x].pc # "update" BY <2>1 DEF Fresh
  <2>2. CASE \E i \in Stored : Adopt(x, i)
    <3>1. PICK i \in Stored : Adopt(x, i) BY <2>2
    <3>2. /\ task'[x].id = i /\ task'[x].row = events[i]
          /\ task'[x].dateId = 0 /\ task'[x].venueId = 0
      BY <1>2, <3>1 DEF Adopt, Doing, TypeOK
    <3> QED BY <3>2 DEF Fresh
  <2> QED BY <2>1, <2>2
<1> QED BY <1>1, <1>3 DEF Lone, OneExecutor
\* Every step of a lone executor, or of the reviewer, keeps what one executor adds.
LEMMA LoneStep ==
  ASSUME StoreInv, Lone, OneExecutor, [Next]_vars
  PROVE  Lone'
<1>1. TypeOK BY DEF StoreInv
<1>2. ASSUME NEW x \in Executors, Step(x) PROVE Lone'
  <2>1. CASE Write(x) BY <2>1, LoneWrite
  <2>2. CASE Insert(x) BY <2>2, LoneInsert
  <2>3. CASE RecordDate(x) \/ RecordVenue(x) BY <2>3, LoneRecord
  <2>4. CASE \E o \in Observations : Begin(x, o) \/ Post(x, o)
    <3>1. UNCHANGED <<events, history>> BY <2>4 DEF Begin, Post
    <3>2. task'[x].pc # "update" BY <1>1, <2>4 DEF Begin, Post, Doing, TypeOK
    <3> QED BY <3>1, <3>2, LoneQuery
  <2>5. CASE Decline(x) \/ RollBack(x) \/ Reread(x) \/ Lookup(x) \/ InsertConflicts(x)
    <3>1. UNCHANGED <<events, history>>
      BY <2>5 DEF Decline, RollBack, Reread, Lookup, InsertConflicts
    <3>2. Done(x) \/ Goto(x, "insert") \/ Goto(x, "reread")
      BY <2>5 DEF Decline, RollBack, Reread, Lookup, InsertConflicts
    <3>3. task[x] \in Task /\ task \in [Executors -> Task] BY <1>1 DEF TypeOK
    <3>4. task'[x].pc # "update" BY <3>2, <3>3, IdleType DEF Done, Goto, Task
    <3> QED BY <3>1, <3>4, LoneQuery
  <2>6. CASE MatchExact(x) \/ MatchSoft(x) \/ MatchLoose(x)
    <3>1. UNCHANGED <<events, history>> BY <2>6 DEF MatchExact, MatchSoft, MatchLoose
    <3>2. /\ ExactMatches(events, Obs(x)) \subseteq Stored
          /\ SoftMatches(events, Obs(x)) \subseteq Stored
          /\ LooseMatches(events, Obs(x)) \subseteq Stored
      BY DEF ExactMatches, SoftMatches, Eligible, LooseMatches, LooseCandidates, Stored
    <3>3. \/ \E i \in Stored : Adopt(x, i)
          \/ Goto(x, "soft") \/ Goto(x, "loose") \/ Goto(x, "lookup")
      BY <2>6, <3>2 DEF MatchExact, MatchSoft, MatchLoose
    <3>4. task[x] \in Task /\ task \in [Executors -> Task] BY <1>1 DEF TypeOK
    <3>5. task'[x].pc # "update" \/ \E i \in Stored : Adopt(x, i)
      BY <3>3, <3>4 DEF Goto, Task
    <3> QED BY <3>1, <3>5, LoneQuery
  <2> QED BY <1>2, <2>1, <2>2, <2>3, <2>4, <2>5, <2>6 DEF Step
<1>3. CASE \E i \in Stored : Confirm(i) BY <1>3, LoneConfirm
<1>4. CASE UNCHANGED vars
  BY <1>4 DEF vars, Lone, HistoryChains, Fresh, Stored
<1> QED BY <1>2, <1>3, <1>4 DEF Next

LEMMA InitLone == Init => Lone
<1> SUFFICES ASSUME Init PROVE Lone OBVIOUS
<1>1. Stored = {} /\ \A x \in Executors : task[x].pc = "idle"
  BY IdleType DEF Init, Stored
<1> QED BY <1>1 DEF Lone, HistoryChains, Fresh
-----------------------------------------------------------------------------
\* The inductive invariant of the event store, for any number of executors; its last
\* conjunct speaks of one.
THEOREM StoreInvariant == Spec => []IInv
<1>1. IInv <=> StoreInv /\ (OneExecutor => Lone) BY DEF IInv, StoreInv, Lone
<1>2. Init => IInv BY <1>1, InitStore, InitLone
<1>3. IInv /\ [Next]_vars => IInv'
  <2> SUFFICES ASSUME IInv, [Next]_vars PROVE IInv' OBVIOUS
  <2>1. StoreInv /\ (OneExecutor => Lone) BY DEF IInv, StoreInv, Lone
  <2>2. StoreInv' BY <2>1, StoreStep
  <2>3. OneExecutor => Lone' BY <2>1, LoneStep
  <2> QED BY <2>2, <2>3 DEF IInv, StoreInv, Lone, OneExecutor
<1> QED BY <1>2, <1>3, PTL DEF Spec

\* Every row, entry and executor's record is well formed.
THEOREM StoreTypeCorrect == Spec => []TypeOK
BY StoreInvariant, PTL DEF IInv

\* An event's key carries the date of its row.
THEOREM KeysFollow == Spec => []KeyFollowsDate
BY StoreInvariant, PTL DEF IInv

\* As long as no reviewer edits, no two rows have one company, round and day, however
\* many executors race.
THEOREM NoTwins == Spec => []TwinsOnlyByEdit
<1>1. IInv => TwinsOnlyByEdit
  <2> SUFFICES ASSUME IInv, edits = 0, NEW i \in Stored, NEW j \in Stored,
                      events[i].company = events[j].company,
                      events[i].stage = events[j].stage, events[i].date = events[j].date
               PROVE  i = j
    BY DEF TwinsOnlyByEdit
  <2>1. events[i].key = KeyOf(events[i]) /\ events[j].key = KeyOf(events[j])
    BY DEF IInv, KeysSpell
  <2>2. KeyOf(events[i]) = KeyOf(events[j]) BY DEF KeyOf
  <2> QED BY <2>1, <2>2 DEF IInv, KeysDiffer
<1> QED BY <1>1, StoreInvariant, PTL

\* However many executors write to one event, no change is without its entry and no
\* entry without its change.
THEOREM EveryChangeIsTold == Spec => HistoryTellsEveryChange
<1>1. IInv => StoreInv BY DEF IInv, StoreInv
<1>2. IInv /\ [Next]_vars =>
        [/\ \A i \in Stored : events'[i].date # events[i].date =>
              \E e \in history'.date \ history.date : e.event = i /\ e.new = events'[i].date
         /\ \A i \in Stored : events'[i].venue # events[i].venue =>
              \E e \in history'.venue \ history.venue : e.event = i /\ e.new = events'[i].venue
         /\ \A e \in history'.date \ history.date : e.new = events'[e.event].date
         /\ \A e \in history'.venue \ history.venue : e.new = events'[e.event].venue]_vars
  BY <1>1, ToldStep
<1> QED BY <1>2, StoreInvariant, PTL DEF Spec, HistoryTellsEveryChange

\* With one executor, an event's history is a chain that ends at its row.
THEOREM HistoryIsAChain ==
  ASSUME OneExecutor
  PROVE  Spec => []HistoryChains
<1>1. IInv => HistoryChains BY DEF IInv
<1> QED BY <1>1, StoreInvariant, PTL

\* With one executor, confidence is lowered only where a human was certain.
THEOREM TrustIsKept ==
  ASSUME OneExecutor
  PROVE  Spec => TrustLostOnlyFromConfirmed
<1>1. IInv /\ [Next]_vars =>
        [\A i \in Stored :
           events'[i].confidence < events[i].confidence => events[i].status = "confirmed"]_vars
  <2> SUFFICES ASSUME IInv, Next, NEW i \in Stored,
                      events'[i].confidence < events[i].confidence
               PROVE  events[i].status = "confirmed"
    OBVIOUS
  <2>1. TypeOK /\ \A x \in Executors : Fresh(x) BY DEF IInv
  <2>2. events \in Seq(Row) /\ Stored = 1..Len(events) /\ events[i] \in Row
    BY <2>1 DEF TypeOK, Stored
  <2>3. events[i].confidence \in Int /\ events[i].confidence <= 100
    <3>1. events[i].confidence \in 0..100 BY <2>2, Zenon DEF Row
    <3> QED BY <3>1
  <2>4. ~(events[i].confidence < events[i].confidence) BY <2>3
  <2>5. events'[i] # events[i] BY <2>4
  <2>6. CASE \E x \in Executors : Write(x)
    <3>1. PICK x \in Executors : Write(x) BY <2>6
    <3>2. task[x].pc = "update" /\ ~Declined(task[x].row, Obs(x))
      BY <3>1 DEF Write, Updating
    <3>3. PICK copy \in Row, o \in Observation : copy = task[x].row /\ o = Obs(x)
      BY <2>1, <3>2, UpdatingType
    <3>4. i = task[x].id BY <2>2, <2>5, <3>1 DEF Write
    <3>5. events'[i].confidence = o.confidence
      BY <2>2, <3>1, <3>3, <3>4 DEF Write, Revised
    <3>6. copy.confidence \in Int /\ o.confidence \in Int BY DEF Row, Observation
    <3>7. ~(o.confidence < copy.confidence) BY <3>2, <3>3 DEF Declined
    <3>8. events[i].confidence # copy.confidence BY <2>3, <3>5, <3>6, <3>7
    <3> QED BY <2>1, <3>2, <3>3, <3>4, <3>8 DEF Fresh
  <2>7. CASE \E x \in Executors : Insert(x)
    <3>1. events'[i] = events[i] BY <2>2, <2>7 DEF Insert
    <3> QED BY <2>5, <3>1
  <2>8. CASE \E j \in Stored : Confirm(j)
    <3>1. PICK j \in Stored : Confirm(j) BY <2>8
    <3>2. events'[i].confidence = 100 BY <2>2, <2>5, <3>1 DEF Confirm
    <3>3. ~(100 < events[i].confidence) BY <2>3
    <3> QED BY <3>2, <3>3
  <2>9. ASSUME NEW x \in Executors, Step(x), ~Write(x), ~Insert(x) PROVE events' = events
    BY <2>9 DEF Step, Begin, Post, MatchExact, MatchSoft, MatchLoose, Decline, RecordDate,
         RecordVenue, RollBack, Lookup, InsertConflicts, Reread
  <2> QED BY <2>5, <2>6, <2>7, <2>8, <2>9 DEF Next
<1> QED BY <1>1, StoreInvariant, PTL DEF Spec, TrustLostOnlyFromConfirmed
=============================================================================
