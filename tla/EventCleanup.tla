---------------------------- MODULE EventCleanup ----------------------------
(* cleanup:event-identity --apply: duplicates deleted and companies rewritten *)
(* in canonical spelling, in one SERIALIZABLE transaction, by a plan that was *)
(* reviewed beforehand, while a worker, the dashboard and its reviewer write. *)
EXTENDS Naturals, FiniteSets, Sequences

CONSTANTS
  Inventory,      \* Inventory[i]: the rows of Event when the plan was approved
  Expected,       \* the ids EXPECTED_EVENTS lists, to be found exactly as inventoried
  DELETE_IDS,     \* the ids to be deleted, in this order
  HUL_SURVIVOR, HUL_DUPLICATE,  \* the pair whose venue is merged
  EVENT_54,       \* the deleted event that has a history
  DO_NOT_TOUCH_IDS,
  ApprovedGroups, \* the sets of ids that share a canonical identity
  Canonical,      \* Canonical[s]: canonicalCompany of the spelling s
  NewIds,         \* ids of the events that may be created meanwhile
  Dates, Venues,
  MaxWrites       \* bound: writes by others

Spellings == DOMAIN Canonical
Ids == DOMAIN Inventory \cup NewIds
Keys == [company : Spellings, date : Dates]

\* updates is the number of the event's EventUpdate rows; settled says that a human
\* has confirmed it, and stands for the columns that no key is made of.
Row == [user : {1, 2}, company : Spellings, date : Dates, venue : Venues, key : Keys,
        updates : Nat, settled : BOOLEAN]
Gone == [user |-> 0]

isCanonical(row) == Canonical[row.company] = row.company

\* Event's @@unique([userId, eventKey]).
UniqueIn(ev) ==
  \A i, j \in DOMAIN ev : i # j /\ ev[i] # Gone /\ ev[j] # Gone =>
    <<ev[i].user, ev[i].key>> # <<ev[j].user, ev[j].key>>

Deleted == {DELETE_IDS[k] : k \in DOMAIN DELETE_IDS}

\* The tables the approved plan is written down in, as event-identity-plan.ts has them,
\* and what PostgreSQL promises of the rows they were taken from.
ASSUME CleanupAssumption ==
  /\ \A i \in DOMAIN Inventory : Inventory[i] \in Row
  /\ UniqueIn(Inventory)
  /\ IsFiniteSet(Ids) /\ Ids \subseteq Nat /\ NewIds \cap DOMAIN Inventory = {}
  /\ Expected \cup DO_NOT_TOUCH_IDS \subseteq DOMAIN Inventory
  /\ {HUL_SURVIVOR, HUL_DUPLICATE, EVENT_54} \subseteq Expected
  /\ DELETE_IDS \in Seq(Expected)
  /\ \A j, k \in DOMAIN DELETE_IDS : DELETE_IDS[j] = DELETE_IDS[k] => j = k
  /\ {HUL_DUPLICATE, EVENT_54} \subseteq Deleted /\ HUL_SURVIVOR \notin Deleted
  /\ DO_NOT_TOUCH_IDS \cap (Deleted \cup {HUL_SURVIVOR}) = {}
  /\ \A i \in (Deleted \cup {HUL_SURVIVOR}) \ {EVENT_54} : Inventory[i].updates = 0
  /\ \A i \in Expected \ (Deleted \cup {HUL_SURVIVOR}) : isCanonical(Inventory[i])
  /\ \A g \in ApprovedGroups : \A i, j \in g \ Deleted : i = j
  /\ \A s \in Spellings : Canonical[s] \in Spellings /\ Canonical[Canonical[s]] = Canonical[s]
  /\ MaxWrites \in Nat

VARIABLES
  events,       \* the committed rows of Event, Gone where there is none
  extractions,  \* rows of EmailExtraction beyond those inventoried
  run,          \* the script: where it is, what it has reported, its transaction
  copy,         \* the event a worker has matched and read
  writes        \* writes by others so far

vars == <<events, extractions, run, copy, writes>>

\* rewrites and history are the artifact: the planned rewrites, and how many history
\* rows of EVENT_54 it holds.  plan is what the transaction carries out, snap the
\* snapshot it reads, draft the rows it has written, step the deletions made.
Pc == {"idle", "planned", "merge", "delete", "rewrite", "verify",
       "refused", "conflict", "collision", "failedcheck", "committed"}

TypeOK ==
  /\ events \in [Ids -> Row \cup {Gone}] /\ UniqueIn(events)
  /\ run = [pc |-> run.pc, rewrites |-> run.rewrites, history |-> run.history,
            plan |-> run.plan, step |-> run.step, snap |-> run.snap, draft |-> run.draft]
  /\ run.pc \in Pc /\ run.history \in Nat /\ run.step \in 0..Len(DELETE_IDS)
  /\ \A f \in {run.rewrites, run.plan} : DOMAIN f \subseteq Ids /\ f \in [DOMAIN f -> Keys]
  /\ run.snap \in [Ids -> Row \cup {Gone}]
  /\ DOMAIN run.draft \subseteq Ids /\ run.draft \in [DOMAIN run.draft -> Row \cup {Gone}]
  /\ copy = [id |-> copy.id, row |-> copy.row]
  /\ copy.id # 0 => copy.id \in Ids /\ copy.row \in Row
  /\ writes \in 0..MaxWrites /\ extractions \in 0..writes

NoCopy == [id |-> 0, row |-> Gone]
NoFn == [x \in {} |-> Gone]
Goto(pc) == run' = [run EXCEPT !.pc = pc]
Abort(why) == run' = [run EXCEPT !.pc = why, !.draft = NoFn]
-----------------------------------------------------------------------------
(* event-identity-plan.ts, on the rows ev.                                   *)

Live(ev) == {i \in DOMAIN ev : ev[i] # Gone}
keyForRow(row) == [company |-> row.company, date |-> row.date]
canonicalKeyForRow(row) == [company |-> Canonical[row.company], date |-> row.date]

\* The groups of events of one owner with one canonical identity.
canonicalCollisionGroups(ev) ==
  LET Same(i) == {j \in Live(ev) : /\ ev[j].user = ev[i].user
                                   /\ canonicalKeyForRow(ev[j]) = canonicalKeyForRow(ev[i])}
  IN {g \in {Same(i) : i \in Live(ev)} : Cardinality(g) > 1}

Survivors(ev) == Live(ev) \ Deleted

canonicalisations(ev) ==
  [i \in {j \in Survivors(ev) : ~isCanonical(ev[j])} \ DO_NOT_TOUCH_IDS |->
     canonicalKeyForRow(ev[i])]

\* Mutant of Integrity: the stored keys are trusted.
IntegrityAssumed(ev) == TRUE

Integrity(ev) == \A i \in Live(ev) : ev[i].key = keyForRow(ev[i])

\* Mutant of AsInventoried: the targets need only be there.
AllPresent(ev) == Expected \subseteq Live(ev)

AsInventoried(ev) == \A i \in Expected : ev[i] = Inventory[i]

\* No new key may be one that another survivor has now, or will have.
CollisionFree(ev) ==
  LET new == canonicalisations(ev)
      Final(j) == IF j \in DOMAIN new THEN new[j] ELSE ev[j].key
  IN \A i \in DOMAIN new : \A j \in Survivors(ev) \ {i} :
       ev[i].user = ev[j].user => new[i] \notin {ev[j].key, Final(j)}

Preconditions(ev, extra) ==
  /\ Cardinality(Live(ev)) = Cardinality(DOMAIN Inventory)
  /\ extra = 0
  /\ Integrity(ev)
  /\ AsInventoried(ev)
  /\ ev[HUL_SURVIVOR].user = ev[HUL_DUPLICATE].user
  /\ canonicalCollisionGroups(ev) = ApprovedGroups
  /\ CollisionFree(ev)
  /\ DOMAIN canonicalisations(ev) \cap DO_NOT_TOUCH_IDS = {}

\* verifyPostConditions, on what the transaction sees.
PostConditions(ev) ==
  /\ Cardinality(Live(ev)) = Cardinality(DOMAIN Inventory) - Len(DELETE_IDS)
  /\ Deleted \cap Live(ev) = {}
  /\ Expected \ Deleted \subseteq Live(ev)
  /\ {i \in Live(ev) : ~isCanonical(ev[i])} \subseteq DO_NOT_TOUCH_IDS
  /\ Integrity(ev)
  /\ canonicalCollisionGroups(ev) = {}
  /\ ev[HUL_SURVIVOR].venue = Inventory[HUL_DUPLICATE].venue
  /\ ev[HUL_SURVIVOR].updates = 1
  /\ \A i \in Expected \ (Deleted \cup {HUL_SURVIVOR}) : ev[i] = Inventory[i]
  /\ \A i \in DO_NOT_TOUCH_IDS :
       i \in Live(ev) /\ ev[i].company = Inventory[i].company
-----------------------------------------------------------------------------
(* cleanup-event-identity.ts.                                                *)

\* The first read, the plan, and the artifact written and read back, whatever the
\* plan says.
Report ==
  /\ run.pc = "idle"
  /\ run' = [run EXCEPT !.rewrites = canonicalisations(events),
               !.history = IF events[EVENT_54] = Gone THEN 0 ELSE events[EVENT_54].updates,
               !.pc = IF Preconditions(events, extractions) THEN "planned" ELSE "refused"]
  /\ UNCHANGED <<events, extractions, copy, writes>>

\* Mutant of Revalidated: the plan of the first read is good enough.
RevalidatedBefore == TRUE

Revalidated == Preconditions(events, extractions)

\* The transaction's first read fixes its snapshot; the plan is made again from it.
Begin ==
  /\ run.pc = "planned"
  /\ run' = IF Revalidated
            THEN [run EXCEPT !.pc = "merge", !.snap = events,
                             !.plan = canonicalisations(events)]
            ELSE [run EXCEPT !.pc = "refused"]
  /\ UNCHANGED <<events, extractions, copy, writes>>

\* Mutant of Unmoved: READ COMMITTED, each statement sees its own snapshot.
UnmovedSince(i) == TRUE

\* First updater wins: a row, or a row of its history, written by another since the
\* snapshot.
Unmoved(i) == events[i] = run.snap[i]

Mine == [i \in Ids |-> IF i \in DOMAIN run.draft THEN run.draft[i] ELSE run.snap[i]]

\* What a commit leaves, and what the unique index sees at any time: every row,
\* committed or written here, not only the snapshot's.
Indexed == [i \in Ids |-> IF i \in DOMAIN run.draft THEN run.draft[i] ELSE events[i]]

\* Mutant of Taken: there is no unique index.
NeverTaken(i, k) == FALSE

Taken(i, k) ==
  \E j \in Ids \ {i} :
    Indexed[j] # Gone /\ Indexed[j].user = events[i].user /\ Indexed[j].key = k

With(i, row) == [j \in DOMAIN run.draft \cup {i} |-> IF j = i THEN row ELSE run.draft[j]]

\* Mutant of After: canonicalise, then delete.
AfterSwapped(pc) == CASE pc = "merge" -> "rewrite" [] pc = "rewrite" -> "delete"
                      [] pc = "delete" -> "verify"

After(pc) == CASE pc = "merge" -> "delete" [] pc = "delete" -> "rewrite"
               [] pc = "rewrite" -> "verify"

\* The venue of the duplicate, and the history row that records it.
MergeVenue ==
  /\ run.pc = "merge" /\ Unmoved(HUL_SURVIVOR)
  /\ LET row == run.snap[HUL_SURVIVOR] IN
       run' = [run EXCEPT !.pc = After("merge"),
                 !.draft = With(HUL_SURVIVOR,
                   [row EXCEPT !.venue = run.snap[HUL_DUPLICATE].venue,
                               !.updates = row.updates + 1])]
  /\ UNCHANGED <<events, extractions, copy, writes>>

\* Deleting an event deletes its history with it.
DeleteNext ==
  /\ run.pc = "delete" /\ run.step < Len(DELETE_IDS)
  /\ LET i == DELETE_IDS[run.step + 1] IN
       /\ Unmoved(i)
       /\ run' = [run EXCEPT !.draft = With(i, Gone), !.step = run.step + 1]
  /\ UNCHANGED <<events, extractions, copy, writes>>

ToRewrite == {i \in DOMAIN run.plan :
                i \notin DOMAIN run.draft \/ run.draft[i].key # run.plan[i]}

NextRewrite == CHOOSE i \in ToRewrite : \A j \in ToRewrite : i <= j

\* Company and key in one statement.
RewriteNext ==
  /\ run.pc = "rewrite" /\ ToRewrite # {}
  /\ LET i == NextRewrite  k == run.plan[i] IN
       /\ Unmoved(i)
       /\ IF Taken(i, k) THEN Abort("collision")
          ELSE run' = [run EXCEPT !.draft =
                         With(i, [Mine[i] EXCEPT !.company = k.company, !.key = k])]
  /\ UNCHANGED <<events, extractions, copy, writes>>

NextPhase ==
  /\ \/ run.pc = "delete" /\ run.step = Len(DELETE_IDS)
     \/ run.pc = "rewrite" /\ ToRewrite = {}
  /\ Goto(After(run.pc))
  /\ UNCHANGED <<events, extractions, copy, writes>>

\* 40001: rolled back, and never retried.
SerializationFailure ==
  /\ \/ run.pc = "merge" /\ ~Unmoved(HUL_SURVIVOR)
     \/ run.pc = "delete" /\ run.step < Len(DELETE_IDS) /\ ~Unmoved(DELETE_IDS[run.step + 1])
     \/ run.pc = "rewrite" /\ ToRewrite # {} /\ ~Unmoved(NextRewrite)
  /\ Abort("conflict")
  /\ UNCHANGED <<events, extractions, copy, writes>>

Finish ==
  /\ run.pc = "verify"
  /\ IF PostConditions(Mine)
     THEN /\ events' = Indexed
          /\ run' = [run EXCEPT !.pc = "committed"]
     ELSE events' = events /\ Abort("failedcheck")
  /\ UNCHANGED <<extractions, copy, writes>>
-----------------------------------------------------------------------------
(* The others, each write a transaction of its own.  They wait for the rows,  *)
(* and for the keys, that the script has written and not committed.           *)

InDraft == run.pc \in {"merge", "delete", "rewrite", "verify"}
Unlocked(i) == ~InDraft \/ i \notin DOMAIN run.draft

KeySettled(u, k) ==
  InDraft => \A i \in DOMAIN run.draft : \A row \in {run.draft[i], run.snap[i]} :
    row # Gone => <<row.user, row.key>> # <<u, k>>

KeyFree(u, k, i) ==
  \A j \in Ids \ {i} : events[j] # Gone => <<events[j].user, events[j].key>> # <<u, k>>

Writing == writes < MaxWrites /\ writes' = writes + 1

\* A worker's observations are spelled canonically; so is the event one matches.
Match(i) ==
  /\ copy.id = 0 /\ writes < MaxWrites
  /\ events[i] # Gone /\ isCanonical(events[i])
  /\ copy' = [id |-> i, row |-> events[i]]
  /\ UNCHANGED <<events, extractions, run, writes>>

\* updateEventService, deciding by the copy: a new place, or a new day and the key
\* that goes with it, and the history row.  The row may since have been deleted.
Update ==
  LET i == copy.id IN
  /\ i # 0 /\ Unlocked(i)
  /\ copy' = NoCopy /\ Writing
  /\ \/ events[i] = Gone /\ events' = events
     \/ \E v \in Venues \ {copy.row.venue} :
          /\ events[i] # Gone
          /\ events' = [events EXCEPT ![i].venue = v, ![i].updates = @ + 1]
     \/ \E d \in Dates \ {copy.row.date} :
          LET k == [company |-> copy.row.company, date |-> d] IN
          /\ events[i] # Gone
          /\ KeySettled(events[i].user, k) /\ KeyFree(events[i].user, k, i)
          /\ events' = [events EXCEPT ![i].date = d, ![i].key = k, ![i].updates = @ + 1]
  /\ UNCHANGED <<extractions, run>>

\* A worker's insert is canonical and follows its extraction; POST /event takes the
\* company as it comes.
Create(i, posted) ==
  /\ events[i] = Gone /\ Writing
  /\ \E s \in Spellings, d \in Dates :
       LET k == [company |-> s, date |-> d] IN
       /\ posted \/ Canonical[s] = s
       /\ KeySettled(1, k) /\ KeyFree(1, k, i)
       /\ events' = [events EXCEPT ![i] =
            [user |-> 1, company |-> s, date |-> d, venue |-> CHOOSE v \in Venues : TRUE,
             key |-> k, updates |-> 0, settled |-> FALSE]]
  /\ extractions' = IF posted THEN extractions ELSE extractions + 1
  /\ UNCHANGED <<run, copy>>

\* updateEventManuallyService: the company as typed, the key as it was.
Confirm(i) ==
  /\ events[i] # Gone /\ Unlocked(i) /\ Writing
  /\ \E s \in Spellings : events' = [events EXCEPT ![i].company = s, ![i].settled = TRUE]
  /\ UNCHANGED <<extractions, run, copy>>
-----------------------------------------------------------------------------
Init ==
  /\ events = [i \in Ids |-> IF i \in NewIds THEN Gone ELSE Inventory[i]]
  /\ extractions = 0 /\ copy = NoCopy /\ writes = 0
  /\ run = [pc |-> "idle", rewrites |-> NoFn, history |-> 0, plan |-> NoFn, step |-> 0,
            snap |-> [i \in Ids |-> Gone], draft |-> NoFn]

ScriptStep == Report \/ Begin \/ MergeVenue \/ DeleteNext \/ RewriteNext \/ NextPhase
              \/ SerializationFailure \/ Finish

Next == \/ ScriptStep
        \/ \E i \in Ids : Match(i) \/ Confirm(i)
        \/ Update
        \/ \E i \in NewIds : Create(i, TRUE) \/ Create(i, FALSE)

Spec == Init /\ [][Next]_vars
-----------------------------------------------------------------------------
(* Properties.                                                               *)

\* The delete that cannot be undone: the row deleted is, at that moment, the very row
\* that was reviewed, though others write between the checks and the statement.
DeletesOnlyAsReviewed ==
  [][\A i \in Ids : events[i] # Gone /\ events'[i] = Gone => events[i] = Inventory[i]]_vars

\* The history that the cascade destroys is in the artifact to the last row, though
\* the artifact was written before the transaction began.
HistoryExported ==
  [][\A i \in Ids : events[i] # Gone /\ events'[i] = Gone =>
       events[i].updates = IF i = EVENT_54 THEN run.history ELSE 0]_vars

\* The plan is made twice, and only the first is in the artifact that was reviewed:
\* nothing is carried out that was not reported, though events were renamed, moved
\* and created in between.
NothingUnreported ==
  run.pc \in {"merge", "delete", "rewrite", "verify", "committed"} =>
    \A i \in DOMAIN run.plan :
      i \in DOMAIN run.rewrites /\ run.plan[i] = run.rewrites[i]

\* Preconditions that hold promise postconditions that hold.  The plan itself never
\* fails its checks: only an excluded row that someone renamed does, which no
\* precondition looks at.
PlanDelivers ==
  run.pc = "failedcheck" =>
    \E i \in DO_NOT_TOUCH_IDS : run.snap[i].company # Inventory[i].company

\* The order of the statements lets no planned key collide with a planned deletion:
\* the index is hit only by a key someone else has taken since the snapshot.
OnlyOthersCollide ==
  run.pc = "collision" => \E i \in Ids : events[i] # run.snap[i]
-----------------------------------------------------------------------------
(* The inductive invariant.                                                  *)

\* Only the script deletes, so that up to its commit nothing inventoried is missing
\* and its count of rows means that nothing was added either.
NothingGoneYet == run.pc # "committed" => \A i \in DOMAIN Inventory : events[i] # Gone

\* What the artifact says is still true of every key, whatever has been renamed: a key
\* that is not canonical is listed, or is one to be deleted or left alone.
ReportOK ==
  /\ run.pc \notin {"idle", "refused"} => run.history = Inventory[EVENT_54].updates
  /\ run.pc = "planned" =>
       \A i \in DOMAIN Inventory \ (DO_NOT_TOUCH_IDS \cup Deleted) :
         LET k == events[i].key IN
         \/ Canonical[k.company] = k.company
         \/ /\ i \in DOMAIN run.rewrites
            /\ run.rewrites[i] = [company |-> Canonical[k.company], date |-> k.date]

\* What others may make of a row: it stays, its owner's, and its history grows with
\* every change of its key.
Succeeds(now, was) ==
  was # Gone =>
    /\ now # Gone /\ now.user = was.user
    /\ now.updates > was.updates \/ (now.updates = was.updates /\ now.key = was.key)

\* The rows the transaction writes, from those it read.
Merged(i) ==
  IF i = HUL_SURVIVOR
  THEN [run.snap[i] EXCEPT !.venue = run.snap[HUL_DUPLICATE].venue,
                           !.updates = run.snap[i].updates + 1]
  ELSE run.snap[i]

Rewritten(i) == [Merged(i) EXCEPT !.company = run.plan[i].company, !.key = run.plan[i]]

\* A written row is locked as it was read, and is what its statements make of it.
DraftRowOK(i) ==
  /\ run.snap[i] # Gone /\ events[i] = run.snap[i]
  /\ \/ i \in Deleted /\ run.draft[i] = Gone
     \/ i = HUL_SURVIVOR /\ run.draft[i] = Merged(i)
     \/ i \in DOMAIN run.plan /\ run.draft[i] = Rewritten(i)

\* How far each phase has come.
ProgressOK ==
  /\ run.pc \in {"idle", "planned", "merge"} => run.step = 0 /\ DOMAIN run.draft = {}
  /\ run.pc \in {"delete", "rewrite", "verify"} => HUL_SURVIVOR \in DOMAIN run.draft
  /\ InDraft => \A k \in 1..run.step :
       DELETE_IDS[k] \in DOMAIN run.draft /\ run.draft[DELETE_IDS[k]] = Gone
  /\ run.pc \in {"rewrite", "verify"} => run.step = Len(DELETE_IDS)
  /\ run.pc = "verify" => ToRewrite = {}

DraftOK ==
  InDraft =>
    /\ Preconditions(run.snap, 0) /\ run.plan = canonicalisations(run.snap)
    /\ \A i \in DOMAIN Inventory : run.snap[i] # Gone
    /\ \A i \in Ids : Succeeds(events[i], run.snap[i])
    /\ \A i \in DOMAIN run.draft : DraftRowOK(i)
    /\ UniqueIn(Indexed)

\* Somebody has made an event, or changed the history of one, since the snapshot.
MovedOn(i) ==
  /\ events[i] # Gone
  /\ run.snap[i] = Gone \/ events[i].updates > run.snap[i].updates

IInv == /\ TypeOK /\ NothingGoneYet /\ ReportOK /\ ProgressOK /\ DraftOK
        /\ copy.id # 0 => isCanonical(copy.row)
        /\ run.pc = "collision" => \E i \in Ids : MovedOn(i)
        /\ NothingUnreported /\ PlanDelivers
=============================================================================
