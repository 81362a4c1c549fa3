------------------------- MODULE EventCleanupProofs -------------------------
(* The clean-up promises what its review saw, for every inventory and every   *)
(* number of writes by others: proofs about EventCleanup.                     *)
EXTENDS EventCleanup, FiniteSetTheorems, WellFoundedInduction, NaturalsInduction, TLAPS

Rows == [Ids -> Row \cup {Gone}]

LEMMA RowIsThere == \A row \in Row : row # Gone
BY DEF Row, Gone

\* The tables of the plan are about inventoried events.
LEMMA Tables ==
  /\ DOMAIN Inventory \subseteq Ids /\ Expected \subseteq DOMAIN Inventory
  /\ DO_NOT_TOUCH_IDS \subseteq DOMAIN Inventory
  /\ Deleted \subseteq Expected
  /\ DOMAIN DELETE_IDS = 1..Len(DELETE_IDS) /\ Len(DELETE_IDS) \in Nat
  /\ \A k \in 1..Len(DELETE_IDS) : DELETE_IDS[k] \in Deleted
  /\ \A i \in DOMAIN Inventory : Inventory[i] \in Row /\ Inventory[i] # Gone
BY CleanupAssumption, RowIsThere DEF Deleted, Ids

\* Canonical spellings are spellings, and are their own.
LEMMA Spelling ==
  \A s \in Spellings : Canonical[s] \in Spellings /\ Canonical[Canonical[s]] = Canonical[s]
BY CleanupAssumption

\* A set of events is finite, and so are the sets of those that are there.
LEMMA LiveIsFinite ==
  ASSUME NEW ev \in Rows
  PROVE  IsFiniteSet(Live(ev)) /\ Live(ev) \subseteq Ids
<1>1. Live(ev) \in SUBSET Ids
  BY DEF Live, Rows
<1> QED
  BY <1>1, CleanupAssumption, FS_Subset

\* With every inventoried event there and the right number of them, no other is.
LEMMA OnlyTheInventory ==
  ASSUME NEW ev \in Rows, \A i \in DOMAIN Inventory : ev[i] # Gone,
         Cardinality(Live(ev)) = Cardinality(DOMAIN Inventory)
  PROVE  Live(ev) = DOMAIN Inventory
<1>1. DOMAIN Inventory \in SUBSET Live(ev)
  BY Tables DEF Live, Rows
<1> QED
  BY <1>1, LiveIsFinite, FS_Subset

\* The rewrites planned from the rows ev.
LEMMA ThePlan ==
  ASSUME NEW ev \in Rows
  PROVE  /\ canonicalisations(ev) \in [DOMAIN canonicalisations(ev) -> Keys]
         /\ \A i : i \in DOMAIN canonicalisations(ev) <=>
              /\ i \in Ids /\ ev[i] # Gone /\ i \notin Deleted /\ i \notin DO_NOT_TOUCH_IDS
              /\ ~isCanonical(ev[i])
         /\ \A i \in DOMAIN canonicalisations(ev) :
              canonicalisations(ev)[i] = canonicalKeyForRow(ev[i])
<1> DEFINE D == {j \in Survivors(ev) : ~isCanonical(ev[j])} \ DO_NOT_TOUCH_IDS
<1>1. canonicalisations(ev) = [i \in D |-> canonicalKeyForRow(ev[i])]
  BY DEF canonicalisations
<1>2. \A i : i \in D <=> /\ i \in Ids /\ ev[i] # Gone /\ i \notin Deleted
                         /\ i \notin DO_NOT_TOUCH_IDS /\ ~isCanonical(ev[i])
  BY DEF Survivors, Live, Rows
<1>3. \A i \in D : canonicalKeyForRow(ev[i]) \in Keys
  BY <1>2, Spelling DEF canonicalKeyForRow, Keys, Rows, Row
<1> HIDE DEF D
<1> QED
  BY <1>1, <1>2, <1>3

\* No two events that survive share an owner and a canonical identity: every group of
\* them is an approved one, and those keep one member at most.
LEMMA OneOfEachGroup ==
  ASSUME NEW ev \in Rows, canonicalCollisionGroups(ev) = ApprovedGroups,
         NEW i \in Survivors(ev), NEW j \in Survivors(ev),
         ev[i].user = ev[j].user, canonicalKeyForRow(ev[i]) = canonicalKeyForRow(ev[j])
  PROVE  i = j
<1> DEFINE Same(n) == {m \in Live(ev) : /\ ev[m].user = ev[n].user
                                       /\ canonicalKeyForRow(ev[m]) = canonicalKeyForRow(ev[n])}
<1>1. SUFFICES ASSUME i # j PROVE FALSE
  OBVIOUS
<1>2. i \in Same(i) /\ j \in Same(i) /\ i \in Live(ev)
  BY DEF Survivors
<1>3. IsFiniteSet(Same(i))
  <2>1. Same(i) \in SUBSET Live(ev)
    OBVIOUS
  <2> QED
    BY <2>1, LiveIsFinite, FS_Subset
<1>4. Cardinality({i, j}) = 2
  <2>1. IsFiniteSet({i}) /\ Cardinality({i}) = 1
    BY FS_Singleton
  <2>2. Cardinality({i} \cup {j}) = 1 + 1
    BY <2>1, <1>1, FS_AddElement
  <2>3. {i, j} = {i} \cup {j}
    OBVIOUS
  <2> QED
    BY <2>2, <2>3
<1>5. Cardinality(Same(i)) > 1
  <2>1. {i, j} \in SUBSET Same(i)
    BY <1>2
  <2>2. Cardinality(Same(i)) >= 2 /\ Cardinality(Same(i)) \in Nat
    BY <1>3, <1>4, <2>1, FS_Subset, FS_CardinalityType
  <2> QED
    BY <2>2
<1>6. Same(i) \in {g \in {Same(n) : n \in Live(ev)} : Cardinality(g) > 1}
  BY <1>2, <1>5
<1>7. Same(i) \in ApprovedGroups
  BY <1>6 DEF canonicalCollisionGroups
<1> QED
  BY <1>1, <1>2, <1>7, CleanupAssumption DEF Survivors

\* There is a first rewrite while there is any.
LEMMA FirstRewrite ==
  ASSUME ToRewrite # {}, ToRewrite \subseteq Nat
  PROVE  NextRewrite \in ToRewrite
<1> DEFINE Less == {p \in Nat \X Nat : p[1] < p[2]}
<1>1. IsWellFoundedOn(Less, Nat)
  <2>1. Less = OpToRel(<, Nat)
    BY DEF OpToRel
  <2> QED
    BY <2>1, NatLessThanWellFounded
<1>2. PICK i \in ToRewrite : \A j \in ToRewrite : <<j, i>> \notin Less
  <2> HIDE DEF Less
  <2> QED
    BY <1>1, WFMin
<1>3. ASSUME NEW j \in ToRewrite PROVE i <= j
  <2>1. i \in Nat /\ j \in Nat
    OBVIOUS
  <2>2. ~ j < i
    <3>1. j < i => <<j, i>> \in Less
      BY <2>1
    <3> QED
      BY <1>2, <3>1
  <2> QED
    BY <2>1, <2>2
<1> QED
  BY <1>3 DEF NextRewrite
-----------------------------------------------------------------------------
(* The others.                                                               *)

LEMMA SucceedsTrans ==
  ASSUME NEW a \in Row \cup {Gone}, NEW b \in Row \cup {Gone}, NEW c \in Row \cup {Gone},
         Succeeds(b, a), Succeeds(c, b)
  PROVE  Succeeds(c, a)
<1>1. CASE a = Gone
  BY <1>1 DEF Succeeds
<1>2. CASE a # Gone
  <2>1. b # Gone /\ c # Gone
    BY <1>2 DEF Succeeds
  <2>2. a.updates \in Nat /\ b.updates \in Nat /\ c.updates \in Nat
    BY <1>2, <2>1 DEF Row
  <2> QED
    BY <1>2, <2>1, <2>2 DEF Succeeds
<1> QED
  BY <1>1, <1>2

\* What any write by others leaves true, and what keeps the invariant.
TolerableRows ==
  /\ run' = run
  /\ events' \in Rows /\ UniqueIn(events')
  /\ \A i \in Ids : Succeeds(events'[i], events[i])
  /\ InDraft => \A i \in DOMAIN run.draft : events'[i] = events[i]
  /\ InDraft => UniqueIn(Indexed')
  /\ \A i \in DOMAIN Inventory : events[i] # Gone =>
       \/ events'[i].key = events[i].key
       \/ Canonical[events'[i].key.company] = events'[i].key.company

TolerableRest ==
  /\ copy' = [id |-> copy'.id, row |-> copy'.row]
  /\ copy'.id # 0 => copy'.id \in Ids /\ copy'.row \in Row /\ isCanonical(copy'.row)
  /\ writes' \in 0..MaxWrites /\ extractions' \in 0..writes'

Tolerable == TolerableRows /\ TolerableRest

LEMMA OthersKeep ==
  ASSUME IInv, Tolerable
  PROVE  IInv'
<1> USE DEF IInv, Tolerable, TolerableRows, TolerableRest
<1>0. events \in Rows /\ run.snap \in Rows
  BY DEF TypeOK, Rows
<1>1. TypeOK'
  BY DEF TypeOK, Tolerable, Rows
<1>2. NothingGoneYet'
  BY Tables DEF NothingGoneYet, Tolerable, Succeeds
<1>3. ReportOK'
  <2>1. CASE run.pc # "planned"
    BY <2>1 DEF ReportOK, Tolerable
  <2>2. CASE run.pc = "planned"
    <3>1. \A i \in DOMAIN Inventory : events[i] # Gone
      BY <2>2 DEF NothingGoneYet
    <3>2. run.history = Inventory[EVENT_54].updates
      BY <2>2 DEF ReportOK
    <3>3. ASSUME NEW i \in DOMAIN Inventory \ (DO_NOT_TOUCH_IDS \cup Deleted)
          PROVE  \/ Canonical[events'[i].key.company] = events'[i].key.company
                 \/ /\ i \in DOMAIN run.rewrites
                    /\ run.rewrites[i] = [company |-> Canonical[events'[i].key.company],
                                          date |-> events'[i].key.date]
      BY <2>2, <3>1 DEF ReportOK, Tolerable
    <3> QED
      BY <3>2, <3>3 DEF ReportOK, Tolerable
  <2> QED
    BY <2>1, <2>2
<1>4. ProgressOK'
  BY DEF ProgressOK, Tolerable, InDraft, ToRewrite
<1>5. DraftOK'
  <2>1. SUFFICES ASSUME InDraft
                 PROVE  /\ \A i \in Ids : Succeeds(events'[i], run.snap[i])
                        /\ \A i \in DOMAIN run.draft : DraftRowOK(i)'
                        /\ UniqueIn(Indexed')
    BY DEF DraftOK, Tolerable, InDraft
  <2>2. \A i \in Ids : Succeeds(events'[i], run.snap[i])
    BY <1>0, <2>1, SucceedsTrans DEF DraftOK, Tolerable, Rows
  <2>3. \A i \in DOMAIN run.draft : DraftRowOK(i)'
    BY <2>1 DEF DraftOK, Tolerable, DraftRowOK, Merged, Rewritten
  <2> QED
    BY <2>1, <2>2, <2>3 DEF Tolerable
<1>6. (run.pc = "collision" => \E i \in Ids : MovedOn(i))'
  <2>1. ASSUME NEW i \in Ids, MovedOn(i)
        PROVE  MovedOn(i)'
    <3>1. events'[i] # Gone
      BY <2>1 DEF MovedOn, Tolerable, Succeeds
    <3>2. events'[i].updates >= events[i].updates
      BY <1>0, <2>1, <3>1 DEF MovedOn, Tolerable, TolerableRows, Succeeds, Rows, Row
    <3>3. /\ events'[i].updates \in Nat /\ events[i].updates \in Nat
          /\ run.snap[i] # Gone => run.snap[i].updates \in Nat
      BY <1>0, <2>1, <3>1 DEF MovedOn, Tolerable, Rows, Row
    <3> QED
      BY <2>1, <3>1, <3>2, <3>3 DEF MovedOn, Tolerable
  <2> QED
    BY <2>1 DEF Tolerable
<1>7. NothingUnreported' /\ PlanDelivers'
  BY DEF NothingUnreported, PlanDelivers, Tolerable
<1>8. (copy.id # 0 => isCanonical(copy.row))'
  BY DEF Tolerable
<1> QED
  BY <1>1, <1>2, <1>3, <1>4, <1>5, <1>6, <1>7, <1>8

LEMMA NoRowMoves ==
  ASSUME IInv, run' = run, events' = events
  PROVE  TolerableRows
BY DEF IInv, TypeOK, TolerableRows, Rows, Succeeds, DraftOK, Indexed

\* One row written, by somebody who waits for the script's rows and keys.
LEMMA OneRow ==
  ASSUME IInv, run' = run, NEW i \in Ids, NEW row \in Row,
         Unlocked(i), events' = [events EXCEPT ![i] = row],
         Succeeds(row, events[i]),
         \/ events[i] # Gone /\ row.user = events[i].user /\ row.key = events[i].key
         \/ /\ KeySettled(row.user, row.key) /\ KeyFree(row.user, row.key, i)
            /\ i \in DOMAIN Inventory => Canonical[row.key.company] = row.key.company
  PROVE  TolerableRows
<1>1. events \in Rows /\ UniqueIn(events) /\ DOMAIN run.draft \subseteq Ids
  BY DEF IInv, TypeOK, Rows
<1>2. /\ events' \in Rows /\ events'[i] = row
      /\ \A j \in Ids \ {i} : events'[j] = events[j]
  BY <1>1 DEF Rows
<1>3. \A j \in Ids : Succeeds(events'[j], events[j])
  BY <1>2 DEF Succeeds
<1>4. \A j \in Ids \ {i} : events[j] # Gone =>
        <<events[j].user, events[j].key>> # <<row.user, row.key>>
  BY <1>1 DEF UniqueIn, KeyFree, Rows
<1>5. UniqueIn(events')
  BY <1>1, <1>2, <1>4 DEF UniqueIn, Rows
<1>6. InDraft => \A j \in DOMAIN run.draft : events'[j] = events[j]
  BY <1>1, <1>2 DEF Unlocked
<1>7. ASSUME InDraft PROVE UniqueIn(Indexed')
  <2>1. i \notin DOMAIN run.draft /\ UniqueIn(Indexed)
    BY <1>7 DEF Unlocked, IInv, DraftOK
  <2>2. /\ Indexed'[i] = row /\ Indexed[i] = events[i]
        /\ \A j \in Ids \ {i} : Indexed'[j] = Indexed[j]
        /\ DOMAIN Indexed = Ids /\ DOMAIN Indexed' = Ids
    BY <1>2, <2>1 DEF Indexed
  <2>3. \A j \in Ids \ {i} : Indexed[j] # Gone =>
          <<Indexed[j].user, Indexed[j].key>> # <<row.user, row.key>>
    <3>1. CASE events[i] # Gone /\ row.user = events[i].user /\ row.key = events[i].key
      BY <2>1, <2>2, <3>1 DEF UniqueIn
    <3>2. CASE KeySettled(row.user, row.key) /\ KeyFree(row.user, row.key, i)
      BY <1>4, <1>7, <3>2 DEF KeySettled, Indexed
    <3> QED
      BY <3>1, <3>2
  <2> HIDE DEF InDraft
  <2> QED
    BY <2>1, <2>2, <2>3 DEF UniqueIn
<1>8. \A j \in DOMAIN Inventory : events[j] # Gone =>
        \/ events'[j].key = events[j].key
        \/ Canonical[events'[j].key.company] = events'[j].key.company
  BY <1>2, Tables
<1> QED
  BY <1>2, <1>3, <1>5, <1>6, <1>7, <1>8 DEF TolerableRows

\* matchEventV2 reads, and writes nothing.
LEMMA MatchStep ==
  ASSUME IInv, NEW i \in Ids, Match(i)
  PROVE  Tolerable
<1>1. TolerableRows
  BY NoRowMoves DEF Match
<1>2. TolerableRest
  BY DEF Match, TolerableRest, IInv, TypeOK
<1> QED
  BY <1>1, <1>2 DEF Tolerable

\* The update of the row that was matched, which keeps the company or moves the key to
\* the company of the copy.
LEMMA UpdateStep ==
  ASSUME IInv, Update
  PROVE  Tolerable
<1> DEFINE i == copy.id
<1>1. /\ i \in Ids /\ copy.row \in Row /\ isCanonical(copy.row) /\ events \in Rows
      /\ Unlocked(i) /\ run' = run
  BY DEF Update, IInv, TypeOK, Rows
<1>2. TolerableRest
  <2>0. writes < MaxWrites /\ writes' = writes + 1 /\ extractions' = extractions
    BY DEF Update, Writing
  <2>1. writes' \in 0..MaxWrites /\ extractions' \in 0..writes'
    BY <2>0, CleanupAssumption DEF IInv, TypeOK
  <2> QED
    BY <2>1 DEF Update, NoCopy, TolerableRest
<1>3. CASE events' = events
  BY <1>1, <1>3, NoRowMoves, <1>2 DEF Tolerable
<1>4. ASSUME NEW v \in Venues, events[i] # Gone,
             events' = [events EXCEPT ![i].venue = v, ![i].updates = @ + 1]
      PROVE  Tolerable
  <2> DEFINE row == [events[i] EXCEPT !.venue = v, !.updates = events[i].updates + 1]
  <2>1. events[i] \in Row
    BY <1>1, <1>4 DEF Rows
  <2>2. /\ row \in Row /\ row.user = events[i].user /\ row.key = events[i].key
        /\ row.updates = events[i].updates + 1 /\ events[i].updates \in Nat
    <3>1. events[i].updates \in Nat /\ events[i].updates + 1 \in Nat
      BY <2>1 DEF Row
    <3>2. PICK u \in Row, n \in Nat : u = events[i] /\ n = events[i].updates + 1
      BY <2>1, <3>1
    <3>3. row = [u EXCEPT !.venue = v, !.updates = n]
      BY <3>2
    <3>4. [u EXCEPT !.venue = v, !.updates = n] \in Row
      BY DEF Row
    <3>5. LET r == [u EXCEPT !.venue = v, !.updates = n] IN
          r.user = u.user /\ r.key = u.key /\ r.updates = n
      BY DEF Row
    <3> HIDE DEF row
    <3> QED
      BY <3>1, <3>2, <3>3, <3>4, <3>5
  <2>3. events' = [events EXCEPT ![i] = row]
    BY <1>1, <1>4 DEF Rows
  <2>4. Succeeds(row, events[i])
    BY <2>2, RowIsThere DEF Succeeds
  <2> HIDE DEF row
  <2> QED
    BY <1>1, <1>2, <1>4, <2>2, <2>3, <2>4, OneRow DEF Tolerable
<1>5. ASSUME NEW d \in Dates,
             events[i] # Gone,
             KeySettled(events[i].user, [company |-> copy.row.company, date |-> d]),
             KeyFree(events[i].user, [company |-> copy.row.company, date |-> d], i),
             events' = [events EXCEPT ![i].date = d,
                          ![i].key = [company |-> copy.row.company, date |-> d],
                          ![i].updates = @ + 1]
      PROVE  Tolerable
  <2> DEFINE k == [company |-> copy.row.company, date |-> d]
             row == [events[i] EXCEPT !.date = d, !.key = k, !.updates = events[i].updates + 1]
  <2>1. events[i] \in Row
    BY <1>1, <1>5 DEF Rows
  <2>2. k \in Keys /\ Canonical[k.company] = k.company
    BY <1>1, <1>5 DEF Keys, Row, isCanonical
  <2>3. events' = [events EXCEPT ![i] = row]
    BY <1>1, <1>5 DEF Rows
  <2> HIDE DEF k
  <2>4. /\ row \in Row /\ row.user = events[i].user /\ row.key = k
        /\ row.updates = events[i].updates + 1 /\ events[i].updates \in Nat
    <3>1. events[i].updates \in Nat /\ events[i].updates + 1 \in Nat
      BY <2>1 DEF Row
    <3>2. PICK u \in Row, n \in Nat : u = events[i] /\ n = events[i].updates + 1
      BY <2>1, <3>1
    <3>3. row = [u EXCEPT !.date = d, !.key = k, !.updates = n]
      BY <3>2
    <3>4. [u EXCEPT !.date = d, !.key = k, !.updates = n] \in Row
      BY <2>2 DEF Row
    <3>5. LET r == [u EXCEPT !.date = d, !.key = k, !.updates = n] IN
          r.user = u.user /\ r.key = k /\ r.updates = n
      BY DEF Row
    <3> HIDE DEF row
    <3> QED
      BY <3>1, <3>2, <3>3, <3>4, <3>5
  <2>5. Succeeds(row, events[i])
    BY <2>4, RowIsThere DEF Succeeds
  <2>6. KeySettled(events[i].user, k) /\ KeyFree(events[i].user, k, i)
    BY <1>5 DEF k
  <2> HIDE DEF row
  <2> QED
    BY <1>1, <1>2, <2>2, <2>3, <2>4, <2>5, <2>6, OneRow DEF Tolerable
<1> QED
  BY <1>3, <1>4, <1>5 DEF Update

\* An event is made where the script has neither row nor key.
LEMMA CreateStep ==
  ASSUME IInv, NEW i \in NewIds, NEW posted \in BOOLEAN, Create(i, posted)
  PROVE  Tolerable
<1>1. /\ i \in Ids /\ i \notin DOMAIN Inventory /\ events \in Rows /\ run' = run
      /\ events[i] = Gone
  BY CleanupAssumption DEF Create, IInv, TypeOK, Rows, Ids
<1>2. TolerableRest
  <2>1. writes' \in 0..MaxWrites /\ extractions' \in 0..writes'
    BY CleanupAssumption DEF Create, Writing, IInv, TypeOK
  <2> QED
    BY <2>1 DEF Create, IInv, TypeOK, TolerableRest
<1>3. Unlocked(i)
  BY <1>1 DEF Unlocked, IInv, DraftOK, DraftRowOK
<1>4. PICK s \in Spellings, d \in Dates :
        /\ KeySettled(1, [company |-> s, date |-> d]) /\ KeyFree(1, [company |-> s, date |-> d], i)
        /\ events' = [events EXCEPT ![i] =
             [user |-> 1, company |-> s, date |-> d, venue |-> CHOOSE v \in Venues : TRUE,
              key |-> [company |-> s, date |-> d], updates |-> 0, settled |-> FALSE]]
  BY DEF Create
<1> DEFINE k == [company |-> s, date |-> d]
           row == [user |-> 1, company |-> s, date |-> d, venue |-> CHOOSE v \in Venues : TRUE,
                   key |-> k, updates |-> 0, settled |-> FALSE]
<1>5. (CHOOSE v \in Venues : TRUE) \in Venues
  BY Tables, CleanupAssumption DEF Row
<1>6. row \in Row /\ row.user = 1 /\ row.key = k
  BY <1>5 DEF Row, Keys
<1>7. events' = [events EXCEPT ![i] = row] /\ KeySettled(1, k) /\ KeyFree(1, k, i)
  BY <1>4
<1>8. Succeeds(row, events[i])
  BY <1>1 DEF Succeeds
<1> HIDE DEF row, k
<1> QED
  BY <1>1, <1>2, <1>3, <1>6, <1>7, <1>8, OneRow DEF Tolerable

\* A reviewer's edit renames, and leaves the key.
LEMMA ConfirmStep ==
  ASSUME IInv, NEW i \in Ids, Confirm(i)
  PROVE  Tolerable
<1>1. events \in Rows /\ run' = run /\ events[i] \in Row /\ events[i] # Gone /\ Unlocked(i)
  BY DEF Confirm, IInv, TypeOK, Rows
<1>2. TolerableRest
  <2>1. writes' \in 0..MaxWrites /\ extractions' \in 0..writes'
    BY CleanupAssumption DEF Confirm, Writing, IInv, TypeOK
  <2> QED
    BY <2>1 DEF Confirm, IInv, TypeOK, TolerableRest
<1>3. PICK s \in Spellings :
        events' = [events EXCEPT ![i].company = s, ![i].settled = TRUE]
  BY DEF Confirm
<1> DEFINE row == [events[i] EXCEPT !.company = s, !.settled = TRUE]
<1>4. /\ row \in Row /\ row.user = events[i].user /\ row.key = events[i].key
      /\ row.updates = events[i].updates
  BY <1>1 DEF Row
<1>5. events' = [events EXCEPT ![i] = row]
  BY <1>1, <1>3 DEF Rows
<1>6. Succeeds(row, events[i])
  BY <1>4, RowIsThere DEF Succeeds
<1> HIDE DEF row
<1> QED
  BY <1>1, <1>2, <1>4, <1>5, <1>6, OneRow DEF Tolerable
-----------------------------------------------------------------------------
(* The script.                                                               *)

RunOK ==
  /\ run = [pc |-> run.pc, rewrites |-> run.rewrites, history |-> run.history,
            plan |-> run.plan, step |-> run.step, snap |-> run.snap, draft |-> run.draft]
  /\ run.pc \in Pc /\ run.history \in Nat /\ run.step \in 0..Len(DELETE_IDS)
  /\ \A f \in {run.rewrites, run.plan} : DOMAIN f \subseteq Ids /\ f \in [DOMAIN f -> Keys]
  /\ run.snap \in Rows
  /\ DOMAIN run.draft \subseteq Ids /\ run.draft \in [DOMAIN run.draft -> Row \cup {Gone}]

\* Before its commit the script touches nothing but its own state.
LEMMA ScriptKeeps ==
  ASSUME IInv, UNCHANGED <<events, extractions, copy, writes>>, run.pc # "committed",
         RunOK', ReportOK', ProgressOK', DraftOK',
         run'.pc # "collision" \/ \E i \in Ids : MovedOn(i)',
         NothingUnreported', PlanDelivers'
  PROVE  IInv'
<1>1. TypeOK'
  BY DEF IInv, TypeOK, RunOK, Rows
<1>2. NothingGoneYet'
  BY DEF IInv, NothingGoneYet
<1> QED
  BY <1>1, <1>2 DEF IInv

\* Giving up: the draft is dropped, for a reason that shows.
LEMMA AbortStep ==
  ASSUME IInv, UNCHANGED <<events, extractions, copy, writes>>, InDraft,
         NEW why \in {"conflict", "collision", "failedcheck"}, Abort(why),
         why = "collision" => \E i \in Ids : MovedOn(i),
         why = "failedcheck" =>
           \E i \in DO_NOT_TOUCH_IDS : run.snap[i].company # Inventory[i].company
  PROVE  IInv'
<1>1. RunOK
  BY DEF IInv, TypeOK, RunOK, Rows
<1>2. /\ run'.pc = why /\ run'.draft = NoFn /\ run'.snap = run.snap /\ run'.plan = run.plan
      /\ run'.rewrites = run.rewrites /\ run'.history = run.history /\ run'.step = run.step
      /\ run' = [pc |-> run'.pc, rewrites |-> run'.rewrites, history |-> run'.history,
                 plan |-> run'.plan, step |-> run'.step, snap |-> run'.snap,
                 draft |-> run'.draft]
  BY <1>1 DEF Abort, RunOK
<1>3. RunOK'
  BY <1>1, <1>2 DEF RunOK, NoFn, Pc
<1>4. ReportOK'
  BY <1>2 DEF IInv, ReportOK, InDraft
<1>5. ProgressOK' /\ DraftOK' /\ NothingUnreported'
  BY <1>2 DEF ProgressOK, DraftOK, InDraft, NothingUnreported
<1>6. run'.pc # "collision" \/ \E i \in Ids : MovedOn(i)'
  BY <1>2 DEF MovedOn
<1>7. PlanDelivers'
  BY <1>2 DEF PlanDelivers
<1>8. run.pc # "committed"
  BY DEF InDraft
<1> QED
  BY <1>3, <1>4, <1>5, <1>6, <1>7, <1>8, ScriptKeeps

\* The first read and its report.
LEMMA ReportStep ==
  ASSUME IInv, Report
  PROVE  IInv'
<1>1. RunOK /\ events \in Rows
  BY DEF IInv, TypeOK, RunOK, Rows
<1>2. /\ run'.rewrites = canonicalisations(events)
      /\ run'.history = (IF events[EVENT_54] = Gone THEN 0 ELSE events[EVENT_54].updates)
      /\ run'.pc = (IF Preconditions(events, extractions) THEN "planned" ELSE "refused")
      /\ run'.draft = run.draft /\ run'.snap = run.snap /\ run'.plan = run.plan
      /\ run'.step = run.step
      /\ run' = [pc |-> run'.pc, rewrites |-> run'.rewrites, history |-> run'.history,
                 plan |-> run'.plan, step |-> run'.step, snap |-> run'.snap,
                 draft |-> run'.draft]
  BY <1>1 DEF Report, RunOK
<1>3. run'.history \in Nat
  BY <1>1, <1>2, Tables, CleanupAssumption DEF Rows, Row
<1>4. RunOK'
  BY <1>1, <1>2, <1>3, ThePlan DEF RunOK, Pc, Rows
<1>5. ReportOK'
  <2>1. CASE ~Preconditions(events, extractions)
    BY <1>2, <2>1 DEF ReportOK
  <2>2. CASE Preconditions(events, extractions)
    <3>1. /\ Integrity(events) /\ AsInventoried(events)
          /\ \A i \in DOMAIN Inventory : events[i] # Gone
      BY <2>2 DEF Preconditions, IInv, NothingGoneYet, Report
    <3>2. run'.history = Inventory[EVENT_54].updates
      BY <1>2, <3>1, Tables, CleanupAssumption DEF AsInventoried
    <3>3. ASSUME NEW i \in DOMAIN Inventory \ (DO_NOT_TOUCH_IDS \cup Deleted)
          PROVE  \/ Canonical[events[i].key.company] = events[i].key.company
                 \/ /\ i \in DOMAIN run'.rewrites
                    /\ run'.rewrites[i] = [company |-> Canonical[events[i].key.company],
                                           date |-> events[i].key.date]
      <4>1. i \in Ids /\ events[i] # Gone /\ events[i].key = keyForRow(events[i])
        BY <1>1, <3>1, Tables DEF Integrity, Live, Rows
      <4>2. i \in DOMAIN run'.rewrites <=> ~isCanonical(events[i])
        BY <1>1, <1>2, <4>1, ThePlan
      <4>3. i \in DOMAIN run'.rewrites => run'.rewrites[i] = canonicalKeyForRow(events[i])
        BY <1>1, <1>2, ThePlan
      <4> QED
        BY <4>1, <4>2, <4>3 DEF keyForRow, canonicalKeyForRow, isCanonical
    <3> QED
      BY <3>2, <3>3 DEF ReportOK, Report
  <2> QED
    BY <2>1, <2>2
<1>6. ProgressOK' /\ DraftOK' /\ NothingUnreported' /\ PlanDelivers' /\ run'.pc # "collision"
  BY <1>2 DEF ProgressOK, DraftOK, InDraft, NothingUnreported, PlanDelivers, Report, IInv
<1>7. run.pc # "committed" /\ UNCHANGED <<events, extractions, copy, writes>>
  BY DEF Report
<1> QED
  BY <1>4, <1>5, <1>6, <1>7, ScriptKeeps

\* The transaction begins, with a plan that is the reported one.
LEMMA BeginStep ==
  ASSUME IInv, Begin
  PROVE  IInv'
<1>1. /\ RunOK /\ events \in Rows /\ UNCHANGED <<events, extractions, copy, writes>>
      /\ run.pc = "planned"
  BY DEF IInv, TypeOK, RunOK, Rows, Begin
<1>2. CASE ~Revalidated
  <2>1. /\ run'.pc = "refused" /\ run'.draft = run.draft /\ run'.snap = run.snap
        /\ run'.plan = run.plan /\ run'.rewrites = run.rewrites
        /\ run'.history = run.history /\ run'.step = run.step
        /\ run' = [pc |-> run'.pc, rewrites |-> run'.rewrites, history |-> run'.history,
                   plan |-> run'.plan, step |-> run'.step, snap |-> run'.snap,
                   draft |-> run'.draft]
    BY <1>1, <1>2 DEF Begin, RunOK
  <2>2. RunOK'
    BY <1>1, <2>1 DEF RunOK, Pc
  <2>3. ReportOK' /\ ProgressOK' /\ DraftOK' /\ NothingUnreported' /\ PlanDelivers'
    BY <2>1 DEF ReportOK, ProgressOK, DraftOK, InDraft, NothingUnreported, PlanDelivers
  <2> QED
    BY <1>1, <2>1, <2>2, <2>3, ScriptKeeps
<1>3. CASE Revalidated
  <2>1. /\ run'.pc = "merge" /\ run'.draft = run.draft /\ run'.snap = events
        /\ run'.plan = canonicalisations(events) /\ run'.rewrites = run.rewrites
        /\ run'.history = run.history /\ run'.step = run.step
        /\ run' = [pc |-> run'.pc, rewrites |-> run'.rewrites, history |-> run'.history,
                   plan |-> run'.plan, step |-> run'.step, snap |-> run'.snap,
                   draft |-> run'.draft]
    BY <1>1, <1>3 DEF Begin, RunOK
  <2>2. RunOK'
    BY <1>1, <2>1, ThePlan DEF RunOK, Pc, Rows
  <2>3. ReportOK' /\ ProgressOK' /\ PlanDelivers'
    BY <1>1, <2>1, CleanupAssumption, Tables
    DEF IInv, ReportOK, ProgressOK, InDraft, PlanDelivers
  <2>4. DraftOK'
    <3>1. Preconditions(events, 0)
      BY <1>3 DEF Revalidated, Preconditions
    <3>2. \A i \in Ids : Succeeds(events[i], events[i])
      BY DEF Succeeds
    <3>3. DOMAIN run.draft = {}
      BY <1>1 DEF IInv, ProgressOK
    <3>4. UniqueIn(Indexed')
      <4>1. Indexed' = events
        BY <1>1, <2>1, <3>3 DEF Indexed, Rows
      <4> QED
        BY <4>1 DEF IInv, TypeOK
    <3>5. \A i \in DOMAIN Inventory : events[i] # Gone
      BY <1>1 DEF IInv, NothingGoneYet
    <3> QED
      BY <1>1, <2>1, <3>1, <3>2, <3>3, <3>4, <3>5 DEF DraftOK
  <2>5. NothingUnreported'
    <3>1. /\ Integrity(events) /\ \A i \in DOMAIN Inventory : events[i] # Gone
          /\ Cardinality(Live(events)) = Cardinality(DOMAIN Inventory)
      BY <1>1, <1>3 DEF Revalidated, Preconditions, IInv, NothingGoneYet
    <3>2. ASSUME NEW i \in DOMAIN canonicalisations(events)
          PROVE  i \in DOMAIN run.rewrites /\ canonicalisations(events)[i] = run.rewrites[i]
      <4>1. /\ i \in Ids /\ events[i] # Gone /\ i \notin Deleted /\ i \notin DO_NOT_TOUCH_IDS
            /\ ~isCanonical(events[i])
            /\ canonicalisations(events)[i] = canonicalKeyForRow(events[i])
        BY <1>1, ThePlan
      <4>2. i \in DOMAIN Inventory
        <5>1. Live(events) = DOMAIN Inventory
          BY <1>1, <3>1, OnlyTheInventory
        <5> QED
          BY <1>1, <4>1, <5>1 DEF Live, Rows
      <4>3. events[i].key = keyForRow(events[i])
        BY <1>1, <3>1, <4>1 DEF Integrity, Live, Rows
      <4>4. \/ Canonical[events[i].key.company] = events[i].key.company
            \/ /\ i \in DOMAIN run.rewrites
               /\ run.rewrites[i] = [company |-> Canonical[events[i].key.company],
                                     date |-> events[i].key.date]
        BY <1>1, <4>1, <4>2 DEF IInv, ReportOK
      <4> QED
        BY <4>1, <4>3, <4>4 DEF keyForRow, canonicalKeyForRow, isCanonical
    <3> QED
      BY <2>1, <3>2 DEF NothingUnreported
  <2> QED
    BY <1>1, <2>1, <2>2, <2>3, <2>4, <2>5, ScriptKeeps
<1> QED
  BY <1>2, <1>3

\* A statement of the transaction: the row i, as it was read, becomes row, which shares
\* no key with what the index holds.
LEMMA WriteStep ==
  ASSUME IInv, InDraft, UNCHANGED <<events, extractions, copy, writes>>,
         NEW i \in Ids, NEW row \in Row \cup {Gone},
         run' = [pc |-> run'.pc, rewrites |-> run.rewrites, history |-> run.history,
                 plan |-> run.plan, step |-> run'.step, snap |-> run.snap,
                 draft |-> run'.draft],
         run'.pc \in {"merge", "delete", "rewrite", "verify"},
         run'.step \in 0..Len(DELETE_IDS),
         run'.draft = With(i, row), ProgressOK',
         run.snap[i] # Gone, Unmoved(i),
         \/ i \in Deleted /\ row = Gone
         \/ i = HUL_SURVIVOR /\ row = Merged(i)
         \/ i \in DOMAIN run.plan /\ row = Rewritten(i),
         \A j \in Ids \ {i} : row # Gone /\ Indexed[j] # Gone =>
           <<Indexed[j].user, Indexed[j].key>> # <<row.user, row.key>>
  PROVE  IInv'
<1>1. RunOK /\ events \in Rows
  BY DEF IInv, TypeOK, RunOK, Rows
<1>2. /\ run'.rewrites = run.rewrites /\ run'.history = run.history /\ run'.plan = run.plan
      /\ run'.snap = run.snap
  OBVIOUS
<1>3. /\ DOMAIN run'.draft = DOMAIN run.draft \cup {i} /\ run'.draft[i] = row
      /\ \A j \in DOMAIN run.draft \ {i} : run'.draft[j] = run.draft[j]
      /\ run'.draft \in [DOMAIN run'.draft -> Row \cup {Gone}]
  <2>1. run.draft \in [DOMAIN run.draft -> Row \cup {Gone}]
    BY <1>1 DEF RunOK
  <2> QED
    BY <2>1 DEF With
<1>4. RunOK'
  BY <1>1, <1>2, <1>3 DEF RunOK, Pc
<1>5. ReportOK' /\ NothingUnreported' /\ PlanDelivers' /\ run'.pc # "collision"
  BY <1>2 DEF IInv, ReportOK, InDraft, NothingUnreported, PlanDelivers
<1>6. DraftOK'
  <2>1. DraftOK /\ InDraft
    BY DEF IInv
  <2>2. /\ Preconditions(run.snap, 0) /\ run.plan = canonicalisations(run.snap)
        /\ \A j \in DOMAIN Inventory : run.snap[j] # Gone
        /\ \A j \in Ids : Succeeds(events[j], run.snap[j])
        /\ \A j \in DOMAIN run.draft : DraftRowOK(j)
        /\ UniqueIn(Indexed)
    BY <2>1 DEF DraftOK
  <2>3. ASSUME NEW j \in DOMAIN run'.draft PROVE DraftRowOK(j)'
    <3>1. Merged(j)' = Merged(j) /\ Rewritten(j)' = Rewritten(j)
      BY <1>2 DEF Merged, Rewritten
    <3>2. CASE j = i
      BY <1>2, <1>3, <3>1, <3>2 DEF DraftRowOK, Unmoved
    <3>3. CASE j # i
      <4>1. j \in DOMAIN run.draft /\ run'.draft[j] = run.draft[j] /\ DraftRowOK(j)
        BY <1>3, <2>2, <3>3
      <4> QED
        BY <1>2, <4>1, <3>1 DEF DraftRowOK
    <3> QED
      BY <3>2, <3>3
  <2>4. UniqueIn(Indexed')
    <3>1. /\ Indexed'[i] = row /\ \A j \in Ids \ {i} : Indexed'[j] = Indexed[j]
          /\ DOMAIN Indexed = Ids /\ DOMAIN Indexed' = Ids
      BY <1>3 DEF Indexed
    <3> QED
      BY <2>2, <3>1 DEF UniqueIn
  <2> QED
    BY <1>2, <2>2, <2>3, <2>4 DEF DraftOK
<1>7. run.pc # "committed"
  BY DEF InDraft
<1> QED
  BY <1>4, <1>5, <1>6, <1>7, ScriptKeeps

\* What an open transaction knows of its snapshot and its plan.
LEMMA OpenDraft ==
  ASSUME IInv, InDraft
  PROVE  /\ run.snap \in Rows /\ events \in Rows /\ UniqueIn(Indexed)
         /\ Preconditions(run.snap, 0) /\ run.plan = canonicalisations(run.snap)
         /\ \A i \in DOMAIN Inventory : run.snap[i] # Gone
         /\ \A i \in DOMAIN run.draft : DraftRowOK(i)
         /\ \A i \in Ids : Succeeds(events[i], run.snap[i])
         /\ \A i \in Expected : run.snap[i] = Inventory[i] /\ run.snap[i] \in Row
         /\ \A i \in Ids : run.snap[i] # Gone => run.snap[i].key = keyForRow(run.snap[i])
         /\ DOMAIN run.draft \subseteq Ids
<1>1. /\ run.snap \in Rows /\ events \in Rows /\ UniqueIn(Indexed)
      /\ Preconditions(run.snap, 0) /\ run.plan = canonicalisations(run.snap)
      /\ \A i \in DOMAIN Inventory : run.snap[i] # Gone
      /\ \A i \in DOMAIN run.draft : DraftRowOK(i)
      /\ \A i \in Ids : Succeeds(events[i], run.snap[i])
      /\ DOMAIN run.draft \subseteq Ids
  BY DEF IInv, DraftOK, TypeOK, Rows
<1>2. \A i \in Expected : run.snap[i] = Inventory[i] /\ run.snap[i] \in Row
  BY <1>1, Tables DEF Preconditions, AsInventoried
<1>3. \A i \in Ids : run.snap[i] # Gone => run.snap[i].key = keyForRow(run.snap[i])
  BY <1>1 DEF Preconditions, Integrity, Live, Rows
<1> QED
  BY <1>1, <1>2, <1>3

\* A merged row keeps its owner and its key, a rewritten one its owner.
LEMMA WrittenRows ==
  ASSUME IInv, InDraft, NEW i \in Ids, run.snap[i] # Gone
  PROVE  /\ Merged(i) \in Row /\ Merged(i).user = run.snap[i].user
         /\ Merged(i).key = run.snap[i].key /\ Merged(i).company = run.snap[i].company
         /\ Merged(i).date = run.snap[i].date
         /\ i \in DOMAIN run.plan =>
              /\ Rewritten(i) \in Row /\ Rewritten(i).user = run.snap[i].user
              /\ Rewritten(i).key = run.plan[i] /\ Rewritten(i).company = run.plan[i].company
              /\ Rewritten(i).date = run.snap[i].date
              /\ Rewritten(i).updates = Merged(i).updates
              /\ Rewritten(i).venue = Merged(i).venue
<1>1. PICK u \in Row, v \in Venues, n \in Nat :
        /\ u = run.snap[i] /\ v = run.snap[HUL_DUPLICATE].venue /\ n = u.updates + 1
  <2>1. run.snap[i] \in Row /\ run.snap[HUL_DUPLICATE] \in Row
    BY OpenDraft, CleanupAssumption DEF Rows
  <2>2. run.snap[i].updates + 1 \in Nat /\ run.snap[HUL_DUPLICATE].venue \in Venues
    BY <2>1 DEF Row
  <2> QED
    BY <2>1, <2>2
<1>2. Merged(i) = IF i = HUL_SURVIVOR THEN [u EXCEPT !.venue = v, !.updates = n] ELSE u
  BY <1>1 DEF Merged
<1>3. LET r == [u EXCEPT !.venue = v, !.updates = n] IN
      r.user = u.user /\ r.key = u.key /\ r.company = u.company /\ r.date = u.date
  BY DEF Row
<1>4. [u EXCEPT !.venue = v, !.updates = n] \in Row
  BY DEF Row
<1>5. PICK r \in Row : r = Merged(i)
  BY <1>2, <1>4
<1>6. /\ r.user = u.user /\ r.key = u.key /\ r.company = u.company /\ r.date = u.date
  BY <1>2, <1>3, <1>5
<1>7. ASSUME i \in DOMAIN run.plan
      PROVE  /\ Rewritten(i) \in Row /\ Rewritten(i).user = r.user
             /\ Rewritten(i).key = run.plan[i] /\ Rewritten(i).company = run.plan[i].company
             /\ Rewritten(i).date = r.date
             /\ Rewritten(i).updates = r.updates /\ Rewritten(i).venue = r.venue
  <2>1. PICK k \in Keys : k = run.plan[i]
    BY <1>7 DEF IInv, TypeOK
  <2>2. Rewritten(i) = [r EXCEPT !.company = k.company, !.key = k]
    BY <1>5, <2>1 DEF Rewritten
  <2>3. [r EXCEPT !.company = k.company, !.key = k] \in Row
    <3>1. k.company \in Spellings
      BY DEF Keys
    <3> QED
      BY <3>1 DEF Row
  <2>4. LET q == [r EXCEPT !.company = k.company, !.key = k] IN
        /\ q.user = r.user /\ q.key = k /\ q.company = k.company /\ q.date = r.date
        /\ q.updates = r.updates /\ q.venue = r.venue
    BY DEF Row
  <2> QED
    BY <2>1, <2>2, <2>3, <2>4
<1> QED
  BY <1>1, <1>5, <1>6, <1>7

\* The merge.
LEMMA MergeVenueStep ==
  ASSUME IInv, MergeVenue
  PROVE  IInv'
<1>1. /\ RunOK /\ InDraft /\ run.pc = "merge" /\ Unmoved(HUL_SURVIVOR)
      /\ UNCHANGED <<events, extractions, copy, writes>>
      /\ run.step = 0 /\ DOMAIN run.draft = {}
  BY DEF IInv, TypeOK, RunOK, Rows, MergeVenue, InDraft, ProgressOK
<1>2. /\ HUL_SURVIVOR \in Ids /\ HUL_SURVIVOR \in Expected
      /\ run.snap[HUL_SURVIVOR] \in Row /\ run.snap[HUL_SURVIVOR] # Gone
  BY <1>1, OpenDraft, Tables, CleanupAssumption, RowIsThere
<1>3. PICK row \in Row : row = Merged(HUL_SURVIVOR)
  BY <1>1, <1>2, WrittenRows
<1>4. After("merge") = "delete"
  BY DEF After
<1>5. run' = [run EXCEPT !.pc = "delete", !.draft = With(HUL_SURVIVOR, row)]
  BY <1>3, <1>4 DEF MergeVenue, Merged
<1>6. /\ run'.pc = "delete" /\ run'.step = 0 /\ run'.draft = With(HUL_SURVIVOR, row)
      /\ run' = [pc |-> run'.pc, rewrites |-> run.rewrites, history |-> run.history,
                 plan |-> run.plan, step |-> run'.step, snap |-> run.snap,
                 draft |-> run'.draft]
  BY <1>1, <1>5 DEF RunOK
<1>7. ProgressOK'
  <2>1. HUL_SURVIVOR \in DOMAIN run'.draft
    BY <1>6 DEF With
  <2> QED
    BY <1>6, <2>1 DEF ProgressOK
<1>8. \A j \in Ids \ {HUL_SURVIVOR} : row # Gone /\ Indexed[j] # Gone =>
        <<Indexed[j].user, Indexed[j].key>> # <<row.user, row.key>>
  <2>1. row.user = events[HUL_SURVIVOR].user /\ row.key = events[HUL_SURVIVOR].key
    BY <1>1, <1>2, <1>3, WrittenRows DEF Unmoved
  <2>2. Indexed = events
    BY <1>1, OpenDraft DEF Indexed, Rows
  <2> QED
    BY <1>1, <1>2, <2>1, <2>2, OpenDraft DEF UniqueIn, Unmoved, Rows
<1> QED
  BY <1>1, <1>2, <1>3, <1>6, <1>7, <1>8, Tables, WriteStep

\* A deletion.
LEMMA DeleteStep ==
  ASSUME IInv, DeleteNext
  PROVE  IInv'
<1>1. /\ RunOK /\ InDraft /\ run.pc = "delete" /\ run.step < Len(DELETE_IDS)
      /\ UNCHANGED <<events, extractions, copy, writes>> /\ run.step \in Nat
      /\ HUL_SURVIVOR \in DOMAIN run.draft
      /\ \A k \in 1..run.step : /\ DELETE_IDS[k] \in DOMAIN run.draft
                               /\ run.draft[DELETE_IDS[k]] = Gone
  BY Tables DEF IInv, TypeOK, RunOK, Rows, DeleteNext, InDraft, ProgressOK
<1>2. PICK i \in Deleted : i = DELETE_IDS[run.step + 1]
  BY <1>1, Tables
<1>3. /\ i \in Ids /\ run.snap[i] # Gone /\ Unmoved(i)
      /\ run' = [run EXCEPT !.draft = With(i, Gone), !.step = run.step + 1]
  BY <1>1, <1>2, OpenDraft, Tables, RowIsThere DEF DeleteNext
<1>4. /\ run'.pc = "delete" /\ run'.step = run.step + 1 /\ run'.draft = With(i, Gone)
      /\ run' = [pc |-> run'.pc, rewrites |-> run.rewrites, history |-> run.history,
                 plan |-> run.plan, step |-> run'.step, snap |-> run.snap,
                 draft |-> run'.draft]
  BY <1>1, <1>3 DEF RunOK
<1>5. run'.step \in 0..Len(DELETE_IDS)
  BY <1>1, <1>4, Tables
<1>6. ProgressOK'
  <2>1. HUL_SURVIVOR \in DOMAIN run'.draft
    BY <1>1, <1>4 DEF With
  <2>2. ASSUME NEW k \in 1..run'.step
        PROVE  DELETE_IDS[k] \in DOMAIN run'.draft /\ run'.draft[DELETE_IDS[k]] = Gone
    <3>1. k \in 1..run.step \/ DELETE_IDS[k] = i
      BY <1>1, <1>2, <1>4
    <3> QED
      BY <1>1, <1>4, <3>1 DEF With
  <2> QED
    BY <1>4, <2>1, <2>2 DEF ProgressOK
<1> QED
  BY <1>1, <1>3, <1>4, <1>5, <1>6, WriteStep

\* A planned row, in the snapshot: a survivor whose key is not yet the planned one.
LEMMA PlannedRow ==
  ASSUME IInv, InDraft, NEW i \in DOMAIN run.plan
  PROVE  /\ i \in Ids /\ run.snap[i] # Gone /\ run.snap[i] \in Row
         /\ i \notin Deleted /\ i \notin DO_NOT_TOUCH_IDS
         /\ ~isCanonical(run.snap[i])
         /\ run.plan[i] = canonicalKeyForRow(run.snap[i]) /\ run.plan[i] \in Keys
         /\ run.snap[i].key # run.plan[i]
<1>1. /\ i \in Ids /\ run.snap[i] # Gone /\ i \notin Deleted /\ i \notin DO_NOT_TOUCH_IDS
      /\ ~isCanonical(run.snap[i])
      /\ run.plan[i] = canonicalKeyForRow(run.snap[i])
  BY OpenDraft, ThePlan
<1>2. run.snap[i] \in Row
  BY <1>1, OpenDraft DEF Rows
<1>3. run.plan[i] \in Keys
  BY DEF IInv, TypeOK
<1>4. run.snap[i].key # run.plan[i]
  <2>1. run.snap[i].key = keyForRow(run.snap[i])
    BY <1>1, OpenDraft
  <2> QED
    BY <1>1, <2>1 DEF keyForRow, canonicalKeyForRow, isCanonical
<1> QED
  BY <1>1, <1>2, <1>3, <1>4

\* What a drafted row's key is: the read one, or the planned one.
LEMMA DraftedKey ==
  ASSUME IInv, InDraft, NEW i \in DOMAIN run.draft, run.draft[i] # Gone
  PROVE  /\ i \in Ids /\ run.snap[i] # Gone /\ i \notin Deleted
         /\ run.draft[i].user = run.snap[i].user
         /\ \/ run.draft[i].key = run.snap[i].key
            \/ i \in DOMAIN run.plan /\ run.draft[i].key = run.plan[i]
<1>1. i \in Ids /\ DraftRowOK(i)
  BY OpenDraft
<1>2. run.snap[i] # Gone
  BY <1>1 DEF DraftRowOK
<1>3. CASE i = HUL_SURVIVOR /\ run.draft[i] = Merged(i)
  BY <1>1, <1>2, <1>3, WrittenRows, CleanupAssumption
<1>4. CASE i \in DOMAIN run.plan /\ run.draft[i] = Rewritten(i)
  BY <1>1, <1>2, <1>4, WrittenRows, PlannedRow
<1> QED
  BY <1>1, <1>2, <1>3, <1>4 DEF DraftRowOK

\* A planned key that is taken has been taken by somebody else: by a new event, or by
\* one that has moved since the snapshot.
LEMMA TakenByOthers ==
  ASSUME IInv, run.pc = "rewrite", NEW i \in DOMAIN run.plan, Unmoved(i),
         Taken(i, run.plan[i])
  PROVE  \E m \in Ids : MovedOn(m)
<1>1. InDraft /\ run.step = Len(DELETE_IDS)
  BY DEF InDraft, IInv, ProgressOK
<1>2. PICK j \in Ids \ {i} : /\ Indexed[j] # Gone /\ Indexed[j].user = events[i].user
                            /\ Indexed[j].key = run.plan[i]
  BY DEF Taken
<1>3. i \in Ids /\ run.snap[i] # Gone /\ events[i] = run.snap[i]
  BY <1>1, PlannedRow DEF Unmoved
<1>4. ASSUME run.snap[j] # Gone, j \notin Deleted, run.snap[j].user = run.snap[i].user
      PROVE  /\ run.plan[i] # run.snap[j].key
             /\ j \in DOMAIN run.plan => run.plan[i] # run.plan[j]
  <2>1. CollisionFree(run.snap) /\ run.snap \in Rows /\ run.plan = canonicalisations(run.snap)
    BY <1>1, OpenDraft DEF Preconditions
  <2>2. j \in Survivors(run.snap) \ {i}
    BY <1>4, <2>1 DEF Survivors, Live, Rows
  <2> QED
    BY <1>4, <2>1, <2>2 DEF CollisionFree
<1>5. CASE j \in DOMAIN run.draft
  <2>1. Indexed[j] = run.draft[j]
    BY <1>5 DEF Indexed
  <2> QED
    BY <1>1, <1>2, <1>3, <1>4, <1>5, <2>1, DraftedKey
<1>6. CASE j \notin DOMAIN run.draft
  <2>1. Indexed[j] = events[j]
    BY <1>6 DEF Indexed
  <2>2. CASE run.snap[j] = Gone
    BY <1>2, <2>1, <2>2 DEF MovedOn
  <2>3. CASE run.snap[j] # Gone
    <3>1. j \notin Deleted
      <4>1. \A k \in 1..Len(DELETE_IDS) : DELETE_IDS[k] \in DOMAIN run.draft
        BY <1>1 DEF IInv, ProgressOK
      <4> QED
        BY <1>6, <4>1, Tables DEF Deleted
    <3>2. Succeeds(events[j], run.snap[j])
      BY <1>1, OpenDraft
    <3>3. events[j].key # run.snap[j].key
      BY <1>2, <1>3, <1>4, <2>1, <2>3, <3>1, <3>2 DEF Succeeds
    <3> QED
      BY <1>2, <2>1, <2>3, <3>2, <3>3 DEF Succeeds, MovedOn
  <2> QED
    BY <2>2, <2>3
<1> QED
  BY <1>5, <1>6

\* A rewrite, or the unique violation that ends the transaction.
LEMMA RewriteStep ==
  ASSUME IInv, RewriteNext
  PROVE  IInv'
<1>1. /\ RunOK /\ InDraft /\ run.pc = "rewrite" /\ ToRewrite # {}
      /\ UNCHANGED <<events, extractions, copy, writes>>
      /\ HUL_SURVIVOR \in DOMAIN run.draft /\ run.step = Len(DELETE_IDS)
      /\ \A k \in 1..run.step : /\ DELETE_IDS[k] \in DOMAIN run.draft
                               /\ run.draft[DELETE_IDS[k]] = Gone
  BY DEF IInv, TypeOK, RunOK, Rows, RewriteNext, InDraft, ProgressOK
<1>2. PICK i \in ToRewrite : i = NextRewrite
  <2>1. ToRewrite \subseteq Nat
    BY <1>1, CleanupAssumption DEF RunOK, ToRewrite
  <2> QED
    BY <1>1, <2>1, FirstRewrite
<1>3. /\ i \in DOMAIN run.plan
      /\ i \notin DOMAIN run.draft \/ run.draft[i].key # run.plan[i]
  BY DEF ToRewrite
<1>4. Unmoved(i)
  BY <1>2 DEF RewriteNext
<1>5. /\ i \in Ids /\ run.snap[i] # Gone /\ i \notin Deleted
      /\ Rewritten(i) \in Row /\ Rewritten(i).user = run.snap[i].user
      /\ Rewritten(i).key = run.plan[i]
  BY <1>1, <1>3, PlannedRow, WrittenRows
<1>6. Mine[i] = Merged(i)
  <2>1. CASE i \in DOMAIN run.draft
    BY <1>1, <1>3, <1>5, <2>1, OpenDraft DEF DraftRowOK, Mine
  <2>2. CASE i \notin DOMAIN run.draft
    BY <1>1, <1>5, <2>2 DEF Mine, Merged
  <2> QED
    BY <2>1, <2>2
<1>7. CASE Taken(i, run.plan[i])
  <2>1. Abort("collision")
    BY <1>2, <1>7 DEF RewriteNext
  <2>2. \E m \in Ids : MovedOn(m)
    BY <1>1, <1>3, <1>4, <1>7, TakenByOthers
  <2> QED
    BY <1>1, <2>1, <2>2, AbortStep
<1>8. CASE ~Taken(i, run.plan[i])
  <2>1. PICK row \in Row : row = Rewritten(i)
    BY <1>5
  <2>2. run' = [run EXCEPT !.draft = With(i, row)]
    BY <1>2, <1>6, <1>8, <2>1 DEF RewriteNext, Rewritten
  <2>3. /\ run'.pc = "rewrite" /\ run'.step = run.step /\ run'.draft = With(i, row)
        /\ run'.plan = run.plan /\ run' = [pc |-> run'.pc, rewrites |-> run.rewrites, history |-> run.history,
                 plan |-> run.plan, step |-> run'.step, snap |-> run.snap,
                 draft |-> run'.draft]
    BY <1>1, <2>2 DEF RunOK
  <2>4. ProgressOK'
    <3>1. HUL_SURVIVOR \in DOMAIN run'.draft
      BY <1>1, <2>3 DEF With
    <3>2. ASSUME NEW k \in 1..run.step
          PROVE  DELETE_IDS[k] \in DOMAIN run'.draft /\ run'.draft[DELETE_IDS[k]] = Gone
      <4>1. DELETE_IDS[k] # i
        BY <1>1, <1>5, Tables
      <4> QED
        BY <1>1, <2>3, <4>1 DEF With
    <3> QED
      BY <1>1, <2>3, <3>1, <3>2 DEF ProgressOK
  <2>5. \A j \in Ids \ {i} : row # Gone /\ Indexed[j] # Gone =>
          <<Indexed[j].user, Indexed[j].key>> # <<row.user, row.key>>
    BY <1>4, <1>5, <1>8, <2>1 DEF Taken, Unmoved
  <2>6. run'.step \in 0..Len(DELETE_IDS)
    BY <1>1, <2>3 DEF RunOK
  <2> QED
    BY <1>1, <1>3, <1>4, <1>5, <2>1, <2>3, <2>4, <2>5, <2>6, WriteStep
<1> QED
  BY <1>7, <1>8

\* One phase is over, and the next begins.
LEMMA PhaseStep ==
  ASSUME IInv, NextPhase
  PROVE  IInv'
<1>1. /\ RunOK /\ InDraft /\ UNCHANGED <<events, extractions, copy, writes>>
      /\ \/ run.pc = "delete" /\ run.step = Len(DELETE_IDS)
         \/ run.pc = "rewrite" /\ ToRewrite = {}
      /\ ProgressOK /\ DraftOK
  BY DEF IInv, TypeOK, RunOK, Rows, NextPhase, InDraft
<1>2. /\ run'.pc = After(run.pc) /\ run'.draft = run.draft /\ run'.snap = run.snap
      /\ run'.plan = run.plan /\ run'.rewrites = run.rewrites
      /\ run'.history = run.history /\ run'.step = run.step
      /\ run' = [pc |-> run'.pc, rewrites |-> run'.rewrites, history |-> run'.history,
                 plan |-> run'.plan, step |-> run'.step, snap |-> run'.snap,
                 draft |-> run'.draft]
  BY <1>1 DEF NextPhase, Goto, RunOK
<1>3. \/ run.pc = "delete" /\ run'.pc = "rewrite"
      \/ run.pc = "rewrite" /\ run'.pc = "verify"
  BY <1>1, <1>2 DEF After
<1>4. RunOK'
  BY <1>1, <1>2, <1>3 DEF RunOK, Pc
<1>5. ReportOK' /\ NothingUnreported' /\ PlanDelivers' /\ run'.pc # "collision"
  BY <1>2, <1>3 DEF IInv, ReportOK, NothingUnreported, PlanDelivers
<1>6. ToRewrite' = ToRewrite
  BY <1>2 DEF ToRewrite
<1>7. ProgressOK'
  BY <1>1, <1>2, <1>3, <1>6 DEF ProgressOK, InDraft
<1>8. DraftOK'
  <2>1. \A i \in DOMAIN run.draft : DraftRowOK(i) => DraftRowOK(i)'
    BY <1>1, <1>2 DEF DraftRowOK, Merged, Rewritten
  <2>2. Indexed' = Indexed
    BY <1>1, <1>2 DEF Indexed
  <2> QED
    BY <1>1, <1>2, <2>1, <2>2 DEF DraftOK
<1> QED
  BY <1>1, <1>4, <1>5, <1>7, <1>8, ScriptKeeps

LEMMA FailureStep ==
  ASSUME IInv, SerializationFailure
  PROVE  IInv'
BY AbortStep DEF SerializationFailure, InDraft
-----------------------------------------------------------------------------
(* The commit: what the transaction sees when every statement has run.       *)

\* One deletion for every id listed.
LEMMA DeletionCount ==
  IsFiniteSet(Deleted) /\ Cardinality(Deleted) = Len(DELETE_IDS)
<1>1. IsFiniteSet(1..Len(DELETE_IDS)) /\ Cardinality(1..Len(DELETE_IDS)) = Len(DELETE_IDS)
  BY Tables, FS_Interval
<1>2. DELETE_IDS \in [1..Len(DELETE_IDS) -> Deleted]
  BY Tables, CleanupAssumption
<1>3. DELETE_IDS \in Surjection(1..Len(DELETE_IDS), Deleted)
  BY <1>2, Tables DEF Surjection, Deleted
<1>4. DELETE_IDS \in Injection(1..Len(DELETE_IDS), Deleted)
  BY <1>2, Tables, CleanupAssumption DEF Injection, IsInjective
<1> QED
  BY <1>1, <1>3, <1>4, FS_Surjection

\* The rows before the commit, one by one.
LEMMA FinalRows ==
  ASSUME IInv, run.pc = "verify"
  PROVE  /\ DOMAIN Mine = Ids
         /\ \A i \in Deleted : Mine[i] = Gone
         /\ \A i \in Ids : run.snap[i] = Gone => Mine[i] = Gone
         /\ \A i \in DOMAIN run.plan : Mine[i] = Rewritten(i)
         /\ \A i \in Ids \ (Deleted \cup DOMAIN run.plan) :
              run.snap[i] # Gone => Mine[i] = Merged(i)
<1>1. /\ InDraft /\ ToRewrite = {} /\ HUL_SURVIVOR \in DOMAIN run.draft
      /\ \A k \in 1..Len(DELETE_IDS) : /\ DELETE_IDS[k] \in DOMAIN run.draft
                                     /\ run.draft[DELETE_IDS[k]] = Gone
  BY DEF InDraft, IInv, ProgressOK
<1>2. \A i \in Deleted : Mine[i] = Gone
  BY <1>1, Tables DEF Mine, Deleted
<1>3. \A i \in Ids : run.snap[i] = Gone => Mine[i] = Gone
  BY <1>1, OpenDraft DEF Mine, DraftRowOK
<1>4. ASSUME NEW i \in DOMAIN run.plan PROVE Mine[i] = Rewritten(i)
  <2>1. i \in DOMAIN run.draft /\ run.draft[i].key = run.plan[i]
    BY <1>1 DEF ToRewrite
  <2>2. /\ i \in Ids /\ run.snap[i] # Gone /\ i \notin Deleted
        /\ run.snap[i].key # run.plan[i]
    BY <1>1, PlannedRow
  <2>3. Merged(i).key # run.plan[i]
    BY <1>1, <2>2, WrittenRows
  <2>4. DraftRowOK(i)
    BY <1>1, <2>1, OpenDraft
  <2> QED
    BY <2>1, <2>2, <2>3, <2>4 DEF DraftRowOK, Mine
<1>5. ASSUME NEW i \in Ids \ (Deleted \cup DOMAIN run.plan), run.snap[i] # Gone
      PROVE  Mine[i] = Merged(i)
  <2>1. CASE i \in DOMAIN run.draft
    BY <1>1, <1>5, <2>1, OpenDraft DEF DraftRowOK, Mine
  <2>2. CASE i \notin DOMAIN run.draft
    BY <1>1, <1>5, <2>2 DEF Mine, Merged
  <2> QED
    BY <2>1, <2>2
<1> QED
  BY <1>2, <1>3, <1>4, <1>5 DEF Mine

\* Every survivor is a row of the same owner and identity, its key in order, and its
\* company canonical unless it is to be left alone.
LEMMA FinalSurvivors ==
  ASSUME IInv, run.pc = "verify", NEW i \in Ids, run.snap[i] # Gone, i \notin Deleted
  PROVE  /\ Mine[i] \in Row /\ Mine[i] # Gone
         /\ Mine[i].user = run.snap[i].user
         /\ Mine[i].key = keyForRow(Mine[i])
         /\ canonicalKeyForRow(Mine[i]) = canonicalKeyForRow(run.snap[i])
         /\ isCanonical(Mine[i]) \/ i \in DO_NOT_TOUCH_IDS
         /\ Mine[i].venue = Merged(i).venue /\ Mine[i].updates = Merged(i).updates
<1>1. InDraft /\ run.snap[i] \in Row /\ run.snap[i].key = keyForRow(run.snap[i])
  <2>1. InDraft
    BY DEF InDraft
  <2> QED
    BY <2>1, OpenDraft DEF Rows
<1>2. run.snap[i].company \in Spellings
  BY <1>1 DEF Row
<1>3. CASE i \in DOMAIN run.plan
  <2>1. /\ Mine[i] = Rewritten(i) /\ run.plan[i] = canonicalKeyForRow(run.snap[i])
    BY <1>1, <1>3, FinalRows, PlannedRow
  <2>2. /\ Mine[i] \in Row /\ Mine[i].user = run.snap[i].user
        /\ Mine[i].key = run.plan[i] /\ Mine[i].company = run.plan[i].company
        /\ Mine[i].date = run.snap[i].date
        /\ Mine[i].venue = Merged(i).venue /\ Mine[i].updates = Merged(i).updates
    BY <1>1, <1>3, <2>1, WrittenRows
  <2>3. Mine[i].company = Canonical[run.snap[i].company]
    BY <2>1, <2>2 DEF canonicalKeyForRow
  <2> QED
    BY <1>2, <2>1, <2>2, <2>3, Spelling, RowIsThere
    DEF canonicalKeyForRow, keyForRow, isCanonical
<1>4. CASE i \notin DOMAIN run.plan
  <2>1. Mine[i] = Merged(i)
    BY <1>4, FinalRows
  <2>2. /\ Mine[i] \in Row /\ Mine[i].user = run.snap[i].user
        /\ Mine[i].key = run.snap[i].key /\ Mine[i].company = run.snap[i].company
        /\ Mine[i].date = run.snap[i].date
    BY <1>1, <2>1, WrittenRows
  <2>3. isCanonical(run.snap[i]) \/ i \in DO_NOT_TOUCH_IDS
    BY <1>1, <1>4, OpenDraft, ThePlan
  <2> QED
    BY <1>1, <2>1, <2>2, <2>3, RowIsThere DEF canonicalKeyForRow, keyForRow, isCanonical
<1> QED
  BY <1>3, <1>4

\* The postconditions hold, unless a row to be left alone was renamed before.
LEMMA Delivered ==
  ASSUME IInv, run.pc = "verify",
         \A i \in DO_NOT_TOUCH_IDS : run.snap[i].company = Inventory[i].company
  PROVE  PostConditions(Mine)
<1>1. InDraft /\ run.snap \in Rows /\ DOMAIN run.snap = Ids
  <2>1. InDraft
    BY DEF InDraft
  <2> QED
    BY <2>1, OpenDraft DEF Rows
<1>2. Live(Mine) = Live(run.snap) \ Deleted
  BY <1>1, FinalRows, FinalSurvivors DEF Live
<1>3. Live(Mine) = Survivors(run.snap)
  BY <1>2 DEF Survivors
<1>4. \A i \in Live(Mine) : i \in Ids /\ run.snap[i] # Gone /\ i \notin Deleted
  BY <1>1, <1>2 DEF Live
<1>5. \A i \in DOMAIN Inventory \ Deleted :
        i \in Live(Mine) /\ run.snap[i] # Gone /\ i \in Ids
  BY <1>1, <1>2, OpenDraft, Tables DEF Live
<1>6. Cardinality(Live(Mine)) = Cardinality(DOMAIN Inventory) - Len(DELETE_IDS)
  <2>1. Live(run.snap) \cap Deleted = Deleted
    BY <1>1, OpenDraft, Tables DEF Live
  <2>2. IsFiniteSet(Live(run.snap))
    BY <1>1, LiveIsFinite
  <2>3. Cardinality(Live(run.snap)) = Cardinality(DOMAIN Inventory)
    BY <1>1, OpenDraft DEF Preconditions
  <2>4. Cardinality(Live(run.snap) \ Deleted)
         = Cardinality(Live(run.snap)) - Cardinality(Live(run.snap) \cap Deleted)
    BY <2>2, FS_Difference
  <2> QED
    BY <1>2, <2>1, <2>3, <2>4, DeletionCount
<1>7. Deleted \cap Live(Mine) = {} /\ Expected \ Deleted \subseteq Live(Mine)
  BY <1>2, <1>5, Tables
<1>8. {i \in Live(Mine) : ~isCanonical(Mine[i])} \subseteq DO_NOT_TOUCH_IDS
  BY <1>4, FinalSurvivors
<1>9. Integrity(Mine)
  BY <1>4, FinalSurvivors DEF Integrity
<1>10. canonicalCollisionGroups(Mine) = {}
  <2> DEFINE Same(n) == {m \in Live(Mine) :
                           /\ Mine[m].user = Mine[n].user
                           /\ canonicalKeyForRow(Mine[m]) = canonicalKeyForRow(Mine[n])}
  <2>1. ASSUME NEW n \in Live(Mine), NEW m \in Same(n) PROVE m = n
    <3>1. /\ run.snap[m].user = run.snap[n].user
          /\ canonicalKeyForRow(run.snap[m]) = canonicalKeyForRow(run.snap[n])
          /\ m \in Survivors(run.snap) /\ n \in Survivors(run.snap)
      BY <1>3, <1>4, FinalSurvivors
    <3>2. canonicalCollisionGroups(run.snap) = ApprovedGroups
      BY <1>1, OpenDraft DEF Preconditions
    <3> QED
      BY <1>1, <3>1, <3>2, OneOfEachGroup
  <2>2. ASSUME NEW n \in Live(Mine) PROVE ~(Cardinality(Same(n)) > 1)
    <3>1. Same(n) \in SUBSET {n}
      BY <2>1
    <3>2. IsFiniteSet({n}) /\ Cardinality({n}) = 1
      BY FS_Singleton
    <3>3. IsFiniteSet(Same(n)) /\ Cardinality(Same(n)) <= 1
      BY <3>1, <3>2, FS_Subset
    <3>4. Cardinality(Same(n)) \in Nat
      BY <3>3, FS_CardinalityType
    <3> QED
      BY <3>3, <3>4
  <2> QED
    BY <2>2 DEF canonicalCollisionGroups
<1>11. /\ Mine[HUL_SURVIVOR].venue = Inventory[HUL_DUPLICATE].venue
       /\ Mine[HUL_SURVIVOR].updates = 1
  <2>1. /\ HUL_SURVIVOR \in Ids /\ run.snap[HUL_SURVIVOR] # Gone
        /\ HUL_SURVIVOR \notin Deleted
        /\ run.snap[HUL_SURVIVOR] = Inventory[HUL_SURVIVOR]
        /\ run.snap[HUL_SURVIVOR] \in Row
        /\ run.snap[HUL_DUPLICATE] = Inventory[HUL_DUPLICATE]
    BY <1>1, OpenDraft, Tables, CleanupAssumption, RowIsThere
  <2>2. /\ Mine[HUL_SURVIVOR].venue = Merged(HUL_SURVIVOR).venue
        /\ Mine[HUL_SURVIVOR].updates = Merged(HUL_SURVIVOR).updates
    BY <2>1, FinalSurvivors
  <2>3. Inventory[HUL_SURVIVOR].updates = 0
    BY CleanupAssumption
  <2> QED
    BY <2>1, <2>2, <2>3 DEF Merged, Row
<1>12. ASSUME NEW i \in Expected \ (Deleted \cup {HUL_SURVIVOR})
       PROVE  Mine[i] = Inventory[i]
  <2>1. /\ i \in Ids /\ run.snap[i] = Inventory[i] /\ run.snap[i] # Gone
    BY <1>1, OpenDraft, Tables, RowIsThere
  <2>2. i \notin DOMAIN run.plan
    BY <1>1, <2>1, PlannedRow, CleanupAssumption
  <2> QED
    BY <2>1, <2>2, FinalRows DEF Merged
<1>13. ASSUME NEW i \in DO_NOT_TOUCH_IDS
       PROVE  i \in Live(Mine) /\ Mine[i].company = Inventory[i].company
  <2>1. /\ i \notin Deleted /\ i # HUL_SURVIVOR /\ i \in Ids /\ run.snap[i] # Gone
        /\ i \in Live(Mine)
    BY <1>5, Tables, CleanupAssumption
  <2>2. i \notin DOMAIN run.plan
    BY <1>1, PlannedRow
  <2> QED
    BY <2>1, <2>2, FinalRows DEF Merged
<1> QED
  BY <1>6, <1>7, <1>8, <1>9, <1>10, <1>11, <1>12, <1>13 DEF PostConditions

\* The commit, or the check that fails.
LEMMA FinishStep ==
  ASSUME IInv, Finish
  PROVE  IInv'
<1>1. RunOK /\ InDraft /\ run.pc = "verify" /\ UNCHANGED <<extractions, copy, writes>>
  BY DEF IInv, TypeOK, RunOK, Rows, Finish, InDraft
<1>2. CASE ~PostConditions(Mine)
  <2>1. \E i \in DO_NOT_TOUCH_IDS : run.snap[i].company # Inventory[i].company
    BY <1>1, <1>2, Delivered
  <2>2. Abort("failedcheck") /\ events' = events
    BY <1>2 DEF Finish
  <2> QED
    BY <1>1, <2>1, <2>2, AbortStep
<1>3. CASE PostConditions(Mine)
  <2>1. events' = Indexed /\ run' = [run EXCEPT !.pc = "committed"]
    BY <1>3 DEF Finish
  <2>2. /\ run'.pc = "committed" /\ run'.draft = run.draft /\ run'.snap = run.snap
        /\ run'.plan = run.plan /\ run'.rewrites = run.rewrites
        /\ run'.history = run.history /\ run'.step = run.step
        /\ run' = [pc |-> run'.pc, rewrites |-> run'.rewrites, history |-> run'.history,
                   plan |-> run'.plan, step |-> run'.step, snap |-> run'.snap,
                   draft |-> run'.draft]
    BY <1>1, <2>1 DEF RunOK
  <2>3. RunOK'
    BY <1>1, <2>2 DEF RunOK, Pc
  <2>4. Indexed \in Rows
    BY <1>1, OpenDraft DEF RunOK, Indexed, Rows
  <2>5. TypeOK'
    BY <1>1, <2>1, <2>3, <2>4, OpenDraft DEF IInv, TypeOK, RunOK, Rows
  <2>6. /\ NothingGoneYet' /\ ReportOK' /\ ProgressOK' /\ DraftOK'
        /\ NothingUnreported' /\ PlanDelivers'
    BY <1>1, <2>2 DEF NothingGoneYet, ReportOK, ProgressOK, DraftOK, InDraft,
                      NothingUnreported, PlanDelivers, IInv
  <2> QED
    BY <1>1, <2>2, <2>5, <2>6 DEF IInv
<1> QED
  BY <1>2, <1>3
-----------------------------------------------------------------------------
LEMMA OthersStep ==
  ASSUME IInv,
         \/ \E i \in Ids : Match(i) \/ Confirm(i)
         \/ Update
         \/ \E i \in NewIds : Create(i, TRUE) \/ Create(i, FALSE)
  PROVE  Tolerable
BY MatchStep, ConfirmStep, UpdateStep, CreateStep

LEMMA InitInv == Init => IInv
<1> SUFFICES ASSUME Init PROVE IInv
  OBVIOUS
<1>1. \A i \in DOMAIN Inventory : events[i] = Inventory[i] /\ i \in Ids
  BY Tables, CleanupAssumption DEF Init
<1>2. \A i \in Ids \ DOMAIN Inventory : events[i] = Gone
  BY DEF Init, Ids
<1>3. events \in Rows /\ DOMAIN events = Ids
  BY <1>1, <1>2, Tables DEF Init, Rows
<1>4. UniqueIn(events)
  <2>1. UniqueIn(Inventory)
    BY CleanupAssumption
  <2>2. \A i \in DOMAIN events : events[i] # Gone => i \in DOMAIN Inventory
    BY <1>2, <1>3
  <2> QED
    BY <1>1, <2>1, <2>2 DEF UniqueIn
<1>5. RunOK /\ run.pc = "idle" /\ run.step = 0 /\ DOMAIN run.draft = {}
  BY Tables DEF Init, RunOK, Rows, NoFn, Pc
<1>6. TypeOK
  BY <1>3, <1>4, <1>5, CleanupAssumption DEF Init, TypeOK, RunOK, Rows, NoCopy
<1>7. NothingGoneYet
  BY <1>1, Tables DEF NothingGoneYet
<1>8. /\ ReportOK /\ ProgressOK /\ DraftOK /\ NothingUnreported /\ PlanDelivers
      /\ copy.id = 0
  BY <1>5 DEF ReportOK, ProgressOK, DraftOK, InDraft, NothingUnreported, PlanDelivers,
              Init, NoCopy
<1> QED
  BY <1>5, <1>6, <1>7, <1>8 DEF IInv

LEMMA StepInv == IInv /\ [Next]_vars => IInv'
<1> SUFFICES ASSUME IInv, [Next]_vars PROVE IInv'
  OBVIOUS
<1>1. CASE ScriptStep
  BY <1>1, ReportStep, BeginStep, MergeVenueStep, DeleteStep, RewriteStep, PhaseStep,
     FailureStep, FinishStep DEF ScriptStep
<1>2. CASE Next /\ ~ScriptStep
  <2>1. Tolerable
    BY <1>2, OthersStep DEF Next
  <2> QED
    BY <2>1, OthersKeep
<1>3. CASE UNCHANGED vars
  <2>1. TolerableRows
    BY <1>3, NoRowMoves DEF vars
  <2>2. TolerableRest
    BY <1>3 DEF vars, TolerableRest, IInv, TypeOK
  <2> QED
    BY <2>1, <2>2, OthersKeep DEF Tolerable
<1> QED
  BY <1>1, <1>2, <1>3

\* The inductive invariant, with the unique index in it (event-identity-plan.ts,
\* cleanup-event-identity.ts).
THEOREM CleanupInvariant == Spec => []IInv
<1>1. Init => IInv
  BY InitInv
<1>2. IInv /\ [Next]_vars => IInv'
  BY StepInv
<1> QED
  BY <1>1, <1>2, PTL DEF Spec

\* Nothing is carried out that the reviewed report did not list, whatever has been
\* renamed, moved or made since it was written.
THEOREM ReportCoversThePlan == Spec => []NothingUnreported
<1>1. IInv => NothingUnreported
  BY DEF IInv
<1> QED
  BY <1>1, CleanupInvariant, PTL

\* The preconditions imply the postconditions, but for a renamed row of those the plan
\* is to leave alone.
THEOREM PreconditionsSuffice == Spec => []PlanDelivers
<1>1. IInv => PlanDelivers
  BY DEF IInv
<1> QED
  BY <1>1, CleanupInvariant, PTL

\* No planned key meets one the plan itself has read, deletes or writes.
THEOREM NoCollisionOfItsOwn == Spec => []OnlyOthersCollide
<1>1. IInv => OnlyOthersCollide
  <2> SUFFICES ASSUME IInv, run.pc = "collision"
               PROVE  \E i \in Ids : events[i] # run.snap[i]
    BY DEF OnlyOthersCollide
  <2>1. PICK i \in Ids : MovedOn(i)
    BY DEF IInv
  <2>2. CASE run.snap[i] = Gone
    BY <2>1, <2>2 DEF MovedOn
  <2>3. CASE run.snap[i] # Gone
    <3>1. events[i].updates \in Nat
      BY <2>1 DEF MovedOn, IInv, TypeOK, Row
    <3>2. events[i].updates # run.snap[i].updates
      <4>1. run.snap[i] \in Row
        BY <2>3 DEF IInv, TypeOK
      <4>2. run.snap[i].updates \in Nat
        BY <4>1 DEF Row
      <4> QED
        BY <2>1, <2>3, <3>1, <4>2 DEF MovedOn
    <3> QED
      BY <3>2
  <2> QED
    BY <2>2, <2>3
<1> QED
  BY <1>1, CleanupInvariant, PTL

\* Only the commit deletes, and a row it deletes is still as it was inventoried.
LEMMA OnlyTheCommitDeletes ==
  ASSUME IInv, [Next]_vars, NEW i \in Ids, events[i] # Gone, events'[i] = Gone
  PROVE  /\ i \in Deleted /\ events[i] = Inventory[i]
         /\ run.history = Inventory[EVENT_54].updates
<1>1. CASE Next /\ ~ScriptStep
  BY <1>1, OthersStep DEF Next, Tolerable, TolerableRows, Succeeds
<1>2. CASE UNCHANGED vars
  BY <1>2 DEF vars
<1>3. CASE ScriptStep
  <2>1. CASE Finish /\ events' # events
    <3>1. InDraft /\ events' = Indexed
      BY <2>1 DEF Finish, InDraft
    <3>2. i \in DOMAIN run.draft /\ run.draft[i] = Gone
      BY <3>1 DEF Indexed
    <3>3. /\ DraftRowOK(i) /\ run.snap[i] # Gone
          /\ \A j \in Expected : run.snap[j] = Inventory[j]
      BY <3>1, <3>2, OpenDraft DEF DraftRowOK
    <3>4. i \in Deleted
      BY <3>1, <3>2, <3>3, WrittenRows, RowIsThere DEF DraftRowOK
    <3>5. run.history = Inventory[EVENT_54].updates
      BY <3>1 DEF IInv, ReportOK, InDraft
    <3> QED
      BY <3>3, <3>4, <3>5, Tables DEF DraftRowOK
  <2>2. CASE ~(Finish /\ events' # events)
    BY <1>3, <2>2 DEF ScriptStep, Report, Begin, MergeVenue, DeleteNext, RewriteNext,
                      NextPhase, SerializationFailure
  <2> QED
    BY <2>1, <2>2
<1> QED
  BY <1>1, <1>2, <1>3

\* No write between the review and the statement reaches a row that is deleted.
THEOREM DeletionsAreTheReviewed == Spec => DeletesOnlyAsReviewed
<1>1. IInv /\ [Next]_vars =>
        [\A i \in Ids : events[i] # Gone /\ events'[i] = Gone => events[i] = Inventory[i]]_vars
  BY OnlyTheCommitDeletes
<1> QED
  BY <1>1, CleanupInvariant, PTL DEF Spec, DeletesOnlyAsReviewed

\* The artifact holds every history row that the cascade takes along.
THEOREM NoHistoryIsLost == Spec => HistoryExported
<1>1. IInv /\ [Next]_vars =>
        [\A i \in Ids : events[i] # Gone /\ events'[i] = Gone =>
           events[i].updates = IF i = EVENT_54 THEN run.history ELSE 0]_vars
  BY OnlyTheCommitDeletes, CleanupAssumption
<1> QED
  BY <1>1, CleanupInvariant, PTL DEF Spec, HistoryExported
=============================================================================
