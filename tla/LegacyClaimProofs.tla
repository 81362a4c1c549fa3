-------------------------- MODULE LegacyClaimProofs --------------------------
(* Theorems about LegacyClaim, for any number of runs, people, mailboxes and   *)
(* records, and any hierarchy among them that the schema allows.               *)
EXTENDS LegacyClaim, TLAPS

\* The hierarchy of the rows: a parent is another row, and a row below a mailbox
\* has its parent's mailbox.
LEMMA ParentOf ==
  ASSUME NEW r \in Rows, Parent[r] # None
  PROVE  Parent[r] \in Rows /\ Parent[r] # r
  BY ClaimAssumption DEF Rows

LEMMA BoxOfParent ==
  ASSUME NEW r \in Rows \ Mailboxes, Box(r) # None
  PROVE  Parent[r] # None /\ Parent[r] \in Rows /\ Box(Parent[r]) = Box(r)
<1>1. Parent[r] \in Rows
  BY ClaimAssumption DEF Box
<1>2. Parent[r] # None
  BY <1>1, ClaimAssumption
<1>3. CASE Parent[r] \in Mailboxes
  BY <1>1, <1>2, <1>3 DEF Box
<1>4. CASE Parent[r] \notin Mailboxes
  BY <1>1, <1>2, <1>4, ClaimAssumption DEF Box
<1> QED
  BY <1>3, <1>4

\* What the statements of one mailbox reach belongs to that mailbox, and what the
\* operator's statements reach belongs to none.
LEMMA BoxWithin ==
  ASSUME NEW S \in SUBSET Mailboxes, NEW r \in Within(S)
  PROVE  r \in Rows /\ Box(r) \in S /\ Box(r) # None
<1> USE ClaimAssumption
<1>1. S \subseteq Rows /\ \A m \in S : Parent[m] = None /\ m # None
  BY DEF Rows
<1>2. CASE r \in S
  BY <1>1, <1>2 DEF Box
<1>3. CASE r \in Rows /\ Parent[r] \in S
  BY <1>1, <1>3 DEF Box
<1>4. CASE r \in Rows /\ Parent[r] \in Rows /\ Parent[Parent[r]] \in S
  BY <1>1, <1>4 DEF Box
<1> QED
  BY <1>2, <1>3, <1>4 DEF Within

LEMMA OrphansUnboxed ==
  ASSUME NEW S, S = OrphanMail \/ S = Events, NEW r \in Within(S)
  PROVE  r \in Rows /\ Box(r) = None
<1> USE ClaimAssumption
<1>1. /\ S \subseteq Rows
      /\ \A x \in S : x \notin Mailboxes /\ Parent[x] = None
  BY DEF OrphanMail, Rows
<1>2. CASE r \in S
  BY <1>1, <1>2 DEF Box
<1>3. CASE r \in Rows /\ Parent[r] \in S
  BY <1>1, <1>3 DEF Box
<1>4. ~(r \in Rows /\ Parent[r] \in Rows /\ Parent[Parent[r]] \in S)
  BY <1>1 DEF OrphanMail, Rows
<1> QED
  BY <1>2, <1>3, <1>4 DEF Within

LEMMA TableParents ==
  /\ \A r \in Rows : Parent[r] = None \/ Parent[r] \in Rows
  /\ None \notin Users /\ Legacy \notin Users /\ None # Legacy
  BY ClaimAssumption
-----------------------------------------------------------------------------
\* Mail that nobody moves stays accounted for by the runs that are over.
LEMMA StaysAddressed ==
  ASSUME MailToItsAddressee, owner' = owner,
         \A d \in Claims : claim[d].pc = "done" => claim'[d] = claim[d]
  PROVE  MailToItsAddressee'
<1> SUFFICES ASSUME NEW r \in Rows, Box(r) # None, owner[r] \in Users
             PROVE  \E d \in Claims : /\ claim'[d].pc = "done"
                                      /\ OneLive(owner[r], Address[Box(r)], claim'[d].seen)
  BY DEF MailToItsAddressee, OneLive, Lives
<1>1. PICK d \in Claims : /\ claim[d].pc = "done"
                          /\ OneLive(owner[r], Address[Box(r)], claim[d].seen)
  BY DEF MailToItsAddressee
<1>2. claim'[d] = claim[d]
  BY <1>1
<1> QED
  BY <1>1, <1>2

\* A step of run c that reads and decides, and writes nothing.
LEMMA ControlStep ==
  ASSUME IInv, NEW c \in Claims, NEW run \in Run,
         claim' = [claim EXCEPT ![c] = run], UNCHANGED <<owner, draft, account, held>>,
         RunOK(run), claim[c].pc # "done", run.pc # "idle",
         run.seen = claim[c].seen \/ claim[c].pc = "idle",
         run.pc = "commit" => /\ Consistent(View(c))
                              /\ \A r \in run.parked : View(c)[r] # Legacy
  PROVE  IInv'
<1>1. TypeOK'
  BY DEF IInv, TypeOK, LocksOK
<1>2. OwnersAgree'
  BY DEF IInv, OwnersAgree, Consistent
<1>3. MailToItsAddressee'
  <2>1. \A d \in Claims : claim[d].pc = "done" => claim'[d] = claim[d]
    BY DEF IInv, TypeOK
  <2> QED
    BY <2>1, StaysAddressed DEF IInv
<1>4. ASSUME NEW d \in Claims
      PROVE  DraftOK(d)' /\ RunOK(claim[d])' /\ StillVerified(d)'
  <2>1. DraftOK(d)'
    <3>1. claim'[d] = IF d = c THEN run ELSE claim[d]
      BY DEF IInv, TypeOK
    <3> QED
      BY <1>4, <3>1 DEF IInv, DraftOK
  <2>2. View(d)' = View(d)
    BY DEF View
  <2>3. claim'[d] = IF d = c THEN run ELSE claim[d]
    BY DEF IInv, TypeOK
  <2>4. RunOK(claim[d])' /\ StillVerified(d)'
    BY <2>2, <2>3 DEF IInv, RunOK, StillVerified, Consistent
  <2> QED
    BY <2>1, <2>4
<1> QED
  BY <1>1, <1>2, <1>3, <1>4 DEF IInv

\* A step of run c that changes only its own draft.
LEMMA DraftStep ==
  ASSUME IInv, NEW c \in Claims, NEW run \in Run, NEW new,
         claim' = [claim EXCEPT ![c] = run], draft' = [draft EXCEPT ![c] = new],
         UNCHANGED <<owner, account, held>>,
         RunOK(run), run.pc # "commit", claim[c].pc # "done", run.pc # "idle",
         run.seen = claim[c].seen,
         DOMAIN new \subseteq Rows,
         \A d \in Claims \ {c} : DOMAIN new \cap DOMAIN draft[d] = {},
         \A r \in DOMAIN new : /\ owner[r] = Legacy /\ new[r] \in Users
                               /\ Addressee(r, new[r], claim[c].seen)
  PROVE  IInv'
<1>1. DOMAIN draft = Claims /\ claim \in [Claims -> Run] /\ LocksOK
  BY DEF IInv, TypeOK
<1>2. \A d \in Claims : /\ draft'[d] = IF d = c THEN new ELSE draft[d]
                        /\ claim'[d] = IF d = c THEN run ELSE claim[d]
  BY <1>1
<1>3. LocksOK'
  BY <1>1, <1>2 DEF LocksOK
<1>4. TypeOK'
  BY <1>1, <1>2, <1>3 DEF IInv, TypeOK
<1>5. OwnersAgree' /\ MailToItsAddressee'
  <2>1. OwnersAgree'
    BY DEF IInv, OwnersAgree, Consistent
  <2>2. \A d \in Claims : claim[d].pc = "done" => claim'[d] = claim[d]
    BY <1>2
  <2> QED
    BY <2>1, <2>2, StaysAddressed DEF IInv
<1>6. ASSUME NEW d \in Claims
      PROVE  DraftOK(d)' /\ RunOK(claim[d])' /\ StillVerified(d)'
  <2>1. DraftOK(d)'
    BY <1>2 DEF IInv, DraftOK
  <2>2. RunOK(claim[d])'
    BY <1>2 DEF IInv, RunOK
  <2>3. CASE d = c
    BY <1>2, <2>1, <2>2, <2>3 DEF StillVerified
  <2>4. CASE d # c
    <3>1. View(d)' = View(d)
      BY <1>2, <2>4 DEF View
    <3> QED
      BY <1>2, <2>1, <2>2, <2>4, <3>1 DEF IInv, StillVerified, Consistent
  <2> QED
    BY <2>3, <2>4
<1> QED
  BY <1>4, <1>5, <1>6 DEF IInv

LEMMA RunFields ==
  ASSUME NEW run \in Run
  PROVE  /\ run.to \in Users \cup {None} /\ run.seen \in Accounts
         /\ run.mapped \in SUBSET (Mailboxes \X Users) /\ run.operator \in BOOLEAN
         /\ run.parked \in SUBSET Rows /\ run.snapshot \in SUBSET Rows
  BY DEF Run

PCs == {"idle", "mailboxes", "plan", "begin", "note", "orphans", "events", "verify", "commit",
        "done", "refused", "rolledback"}

\* A run that only moves on.
LEMMA MovedOn ==
  ASSUME NEW c \in Claims, claim \in [Claims -> Run], NEW pc \in PCs, Goto(c, pc)
  PROVE  \E run \in Run :
           /\ claim' = [claim EXCEPT ![c] = run]
           /\ run.pc = pc /\ run.to = claim[c].to /\ run.seen = claim[c].seen
           /\ run.mapped = claim[c].mapped /\ run.operator = claim[c].operator
           /\ run.parked = claim[c].parked /\ run.snapshot = claim[c].snapshot
<1> DEFINE run == [claim[c] EXCEPT !.pc = pc]
<1>1. run \in Run
  BY DEF Run, PCs
<1>2. /\ run.pc = pc /\ run.to = claim[c].to /\ run.seen = claim[c].seen
      /\ run.mapped = claim[c].mapped /\ run.operator = claim[c].operator
      /\ run.parked = claim[c].parked /\ run.snapshot = claim[c].snapshot
  BY DEF Run
<1>3. claim' = [claim EXCEPT ![c] = run]
  BY DEF Goto
<1> HIDE DEF run
<1> QED
  BY <1>1, <1>2, <1>3

LEMMA DiscoverySteps ==
  ASSUME IInv, NEW c \in Claims, Start(c) \/ MapMailboxes(c) \/ Plan(c)
  PROVE  IInv'
<1>1. claim \in [Claims -> Run] /\ claim[c] \in Run /\ RunOK(claim[c]) /\ account \in Accounts
  BY DEF IInv, TypeOK
<1>2. UNCHANGED <<owner, draft, account, held>>
  BY DEF Start, MapMailboxes, Plan
<1>3. CASE Start(c)
  <2>1. PICK to \in Users \cup {None}, pc \in {"done", "mailboxes", "refused"} :
          claim' = [claim EXCEPT ![c].to = to, ![c].seen = account, ![c].pc = pc]
    BY <1>3 DEF Start
  <2> DEFINE e == [claim[c] EXCEPT !.to = to, !.seen = account, !.pc = pc]
  <2>2. PICK run \in Run : run = e
    BY <1>1 DEF Run
  <2>3. run.pc = pc /\ run.mapped = claim[c].mapped /\ run.parked = claim[c].parked
    BY <1>1, <2>2 DEF Run
  <2>4. claim' = [claim EXCEPT ![c] = run]
    BY <1>1, <2>1, <2>2
  <2>5. RunOK(run)
    BY <1>1, <1>3, <2>3 DEF RunOK, Start
  <2>6. claim[c].pc = "idle"
    BY <1>3 DEF Start
  <2> QED
    BY <1>2, <2>3, <2>4, <2>5, <2>6, ControlStep
<1>4. ASSUME NEW pc \in {"refused", "begin"}, NEW operator \in BOOLEAN,
             claim[c].pc \in {"mailboxes", "plan"},
             claim' = [claim EXCEPT ![c].pc = pc, ![c].operator = operator],
             pc = "begin" /\ operator => claim[c].to \in Users
      PROVE  IInv'
  <2> DEFINE e == [claim[c] EXCEPT !.pc = pc, !.operator = operator]
  <2>1. PICK run \in Run : run = e
    BY <1>1 DEF Run
  <2>2. /\ run.pc = pc /\ run.mapped = claim[c].mapped /\ run.parked = claim[c].parked
        /\ run.to = claim[c].to /\ run.seen = claim[c].seen /\ run.operator = operator
    BY <1>1, <2>1 DEF Run
  <2>3. claim' = [claim EXCEPT ![c] = run]
    BY <1>1, <1>4, <2>1
  <2>4. RunOK(run)
    BY <1>1, <1>4, <2>2 DEF RunOK
  <2> QED
    BY <1>2, <1>4, <2>2, <2>3, <2>4, ControlStep
<1>5. ASSUME claim[c].pc \in {"mailboxes", "plan"},
             claim' = [claim EXCEPT ![c].pc = "refused"]
      PROVE  IInv'
  <2>1. PICK run \in Run :
          /\ claim' = [claim EXCEPT ![c] = run] /\ run.pc = "refused"
          /\ run.seen = claim[c].seen /\ run.mapped = claim[c].mapped
          /\ run.parked = claim[c].parked
    <3>1. Goto(c, "refused") /\ "refused" \in PCs
      BY <1>5 DEF Goto, PCs
    <3> QED
      BY <1>1, <3>1, MovedOn
  <2>2. RunOK(run)
    BY <1>1, <2>1 DEF RunOK
  <2> QED
    BY <1>2, <1>5, <2>1, <2>2, ControlStep
<1>6. CASE MapMailboxes(c)
  <2> DEFINE boxes == Mailboxes \cap Parked
             seen == claim[c].seen
             pairs == {p \in boxes \X Users : p[2] = CHOOSE u \in MatchesOf(p[1], seen) : TRUE}
  <2>1. CASE \A m \in boxes : Resolved(m, seen)
    <3>1. claim' = [claim EXCEPT ![c].pc = "plan", ![c].mapped = pairs]
      BY <1>6, <2>1 DEF MapMailboxes
    <3>2. pairs \in SUBSET (Mailboxes \X Users)
      OBVIOUS
    <3>3. \A p \in pairs : MatchesOf(p[1], seen) = {p[2]}
      <4>1. TAKE p \in pairs
      <4>2. p[1] \in boxes /\ p[2] = CHOOSE u \in MatchesOf(p[1], seen) : TRUE
        OBVIOUS
      <4>3. PICK u \in MatchesOf(p[1], seen) : MatchesOf(p[1], seen) = {u}
        BY <2>1, <4>2 DEF Resolved
      <4>4. p[2] = u
        BY <4>2, <4>3
      <4> QED
        BY <4>3, <4>4
    <3> DEFINE e == [claim[c] EXCEPT !.pc = "plan", !.mapped = pairs]
    <3> HIDE DEF pairs
    <3>4. PICK run \in Run : run = e
      BY <1>1, <3>2 DEF Run
    <3>5. /\ run.pc = "plan" /\ run.mapped = pairs /\ run.parked = claim[c].parked
          /\ run.seen = seen
      BY <1>1, <3>4 DEF Run
    <3>6. claim' = [claim EXCEPT ![c] = run]
      BY <1>1, <3>1, <3>4
    <3>7. RunOK(run)
      BY <1>1, <3>3, <3>5 DEF RunOK
    <3> QED
      BY <1>2, <1>6, <3>5, <3>6, <3>7, ControlStep DEF MapMailboxes
  <2>2. CASE ~(\A m \in boxes : Resolved(m, seen))
    BY <1>5, <1>6, <2>2 DEF MapMailboxes
  <2> QED
    BY <2>1, <2>2
<1>7. CASE Plan(c)
  <2> DEFINE orphans == Parked \cap Orphans # {}
  <2>1. CASE \/ claim[c].to # None /\ ~Eligible(claim[c].to, account)
             \/ claim[c].to = None /\ orphans
    BY <1>5, <1>7, <2>1 DEF Plan
  <2>2. CASE ~(\/ claim[c].to # None /\ ~Eligible(claim[c].to, account)
               \/ claim[c].to = None /\ orphans)
    <3>1. claim' = [claim EXCEPT ![c].pc = "begin", ![c].operator = orphans]
      BY <1>7, <2>2 DEF Plan
    <3>2. orphans \in BOOLEAN
      OBVIOUS
    <3>3. orphans => claim[c].to \in Users
      BY <1>1, <2>2, RunFields
    <3> HIDE DEF orphans
    <3> QED
      BY <1>4, <1>7, <3>1, <3>2, <3>3 DEF Plan
  <2> QED
    BY <2>1, <2>2
<1> QED
  BY <1>3, <1>6, <1>7
-----------------------------------------------------------------------------
\* What a run sees of a row another transaction has not locked, and what an UPDATE
\* of the placeholder's rows therefore reaches.
LEMMA SeenLegacy ==
  ASSUME IInv, NEW c \in Claims, NEW r \in Rows, View(c)[r] = Legacy
  PROVE  r \notin DOMAIN draft[c] /\ owner[r] = Legacy
  BY TableParents DEF IInv, DraftOK, View

\* An UPDATE adds to the run's draft rows that were the placeholder's.
LEMMA UpdateStep ==
  ASSUME IInv, NEW c \in Claims, NEW run \in Run, NEW W, W \subseteq Rows, NEW moved,
         DOMAIN moved = Claimable(c, W), Free(c, DOMAIN moved), Draft(c, moved),
         \A r \in DOMAIN moved : moved[r] \in Users /\ Addressee(r, moved[r], claim[c].seen),
         claim' = [claim EXCEPT ![c] = run], RunOK(run), run.pc # "commit",
         claim[c].pc # "done", run.pc # "idle", run.seen = claim[c].seen,
         UNCHANGED <<owner, account, held>>
  PROVE  IInv'
<1> DEFINE new == [r \in DOMAIN draft[c] \cup DOMAIN moved |->
                     IF r \in DOMAIN moved THEN moved[r] ELSE draft[c][r]]
<1>1. draft' = [draft EXCEPT ![c] = new]
  BY DEF Draft
<1>2. /\ DOMAIN new = DOMAIN draft[c] \cup DOMAIN moved
      /\ \A r \in DOMAIN new : new[r] = IF r \in DOMAIN moved THEN moved[r] ELSE draft[c][r]
  OBVIOUS
<1> HIDE DEF new
<1>3. \A r \in DOMAIN moved : r \in Rows /\ owner[r] = Legacy
  BY SeenLegacy DEF Claimable
<1>4. DOMAIN new \subseteq Rows
  BY <1>2, <1>3 DEF IInv, TypeOK
<1>5. \A d \in Claims \ {c} : DOMAIN new \cap DOMAIN draft[d] = {}
  <2>1. TAKE d \in Claims \ {c}
  <2>2. DOMAIN moved \cap DOMAIN draft[d] = {} /\ DOMAIN draft[c] \cap DOMAIN draft[d] = {}
    BY DEF Free, IInv, TypeOK, LocksOK
  <2> QED
    BY <1>2, <2>2
<1>6. \A r \in DOMAIN new : /\ owner[r] = Legacy /\ new[r] \in Users
                            /\ Addressee(r, new[r], claim[c].seen)
  <2>1. TAKE r \in DOMAIN new
  <2>2. CASE r \in DOMAIN moved
    BY <1>2, <1>3, <2>2
  <2>3. CASE r \notin DOMAIN moved
    BY <1>2, <2>3 DEF IInv, DraftOK
  <2> QED
    BY <2>2, <2>3
<1> QED
  BY <1>1, <1>4, <1>5, <1>6, DraftStep

\* The mailboxes go to the accounts they were mapped to.
LEMMA MoveMailboxesStep ==
  ASSUME IInv, NEW c \in Claims, MoveMailboxes(c)
  PROVE  IInv'
<1>1. claim \in [Claims -> Run] /\ claim[c] \in Run /\ RunOK(claim[c])
  BY DEF IInv, TypeOK
<1> DEFINE S == {p[1] : p \in claim[c].mapped}
           mine == Claimable(c, Within(S))
           moved == [r \in mine |-> (CHOOSE p \in claim[c].mapped : p[1] = Box(r))[2]]
           pc == IF claim[c].operator THEN "note" ELSE "verify"
           e == [claim[c] EXCEPT !.parked = Parked, !.pc = pc]
<1>2. S \in SUBSET Mailboxes
  BY <1>1, RunFields
<1>3. \A r \in mine : moved[r] \in Users /\ Addressee(r, moved[r], claim[c].seen)
  <2>1. TAKE r \in mine
  <2>2. Box(r) \in S
    BY <1>2, BoxWithin DEF Claimable
  <2>3. PICK p \in claim[c].mapped : p = CHOOSE x \in claim[c].mapped : x[1] = Box(r)
    BY <2>2
  <2>4. p[1] = Box(r) /\ moved[r] = p[2]
    BY <2>2, <2>3
  <2>5. MatchesOf(Box(r), claim[c].seen) = {p[2]} /\ p[2] \in Users
    BY <1>1, <2>4, RunFields DEF RunOK
  <2>6. OneLive(p[2], Address[Box(r)], claim[c].seen)
    BY <2>5 DEF MatchesOf, Eligible, OneLive, Lives
  <2> HIDE DEF moved
  <2> QED
    BY <2>4, <2>5, <2>6 DEF Addressee
<1>4. Within(S) \subseteq Rows
  BY <1>2, BoxWithin
<1>5. Free(c, mine) /\ Draft(c, moved)
  BY DEF MoveMailboxes
<1>6. PICK run \in Run : run = e
  BY <1>1 DEF Run, Parked
<1>7. /\ run.pc = pc /\ run.mapped = claim[c].mapped /\ run.parked = Parked
      /\ run.to = claim[c].to /\ run.seen = claim[c].seen
  BY <1>1, <1>6 DEF Run
<1>8. claim' = [claim EXCEPT ![c] = run]
  BY <1>1, <1>6 DEF MoveMailboxes
<1>9. RunOK(run)
  <2>1. \A r \in Parked : owner[r] # None
    BY TableParents DEF Parked
  <2>2. run.pc = "note" => run.to \in Users
    BY <1>1, <1>7 DEF RunOK, MoveMailboxes
  <2> QED
    BY <1>1, <1>7, <2>1, <2>2 DEF RunOK
<1>10. DOMAIN moved = mine
  OBVIOUS
<1>11. /\ run.pc # "commit" /\ run.pc # "idle" /\ claim[c].pc # "done"
       /\ UNCHANGED <<owner, account, held>>
  BY <1>7 DEF MoveMailboxes
<1> HIDE DEF moved, S
<1> QED
  BY <1>3, <1>4, <1>5, <1>7, <1>8, <1>9, <1>10, <1>11, UpdateStep

\* The rest goes to the operator's --to.
LEMMA MoveOrphansStep ==
  ASSUME IInv, NEW c \in Claims, NEW S, S = OrphanMail \/ S = Events,
         NEW next \in {"events", "verify"}, MoveOrphans(c, S, next),
         claim[c].pc \in {"orphans", "events"}
  PROVE  IInv'
<1>1. claim \in [Claims -> Run] /\ claim[c] \in Run /\ RunOK(claim[c])
  BY DEF IInv, TypeOK
<1> DEFINE mine == Claimable(c, Within(S))
           moved == [r \in mine |-> claim[c].to]
<1>2. Within(S) \subseteq Rows
  BY OrphansUnboxed
<1>3. Free(c, mine) /\ Draft(c, moved)
  BY DEF MoveOrphans
<1>4. \A r \in mine : moved[r] \in Users /\ Addressee(r, moved[r], claim[c].seen)
  BY <1>1, OrphansUnboxed DEF RunOK, Claimable, Addressee
<1>5. next \in PCs /\ Goto(c, next)
  BY DEF PCs, MoveOrphans
<1>6. PICK run \in Run :
        /\ claim' = [claim EXCEPT ![c] = run]
        /\ run.pc = next /\ run.to = claim[c].to /\ run.seen = claim[c].seen
        /\ run.mapped = claim[c].mapped /\ run.operator = claim[c].operator
        /\ run.parked = claim[c].parked
  BY <1>1, <1>5, MovedOn
<1>7. RunOK(run)
  BY <1>1, <1>6 DEF RunOK
<1>8. /\ DOMAIN moved = mine /\ run.pc # "commit" /\ run.pc # "idle" /\ claim[c].pc # "done"
      /\ UNCHANGED <<owner, account, held>>
  BY <1>6 DEF MoveOrphans
<1> HIDE DEF moved
<1> QED
  BY <1>2, <1>3, <1>4, <1>6, <1>7, <1>8, UpdateStep

LEMMA NoteStep ==
  ASSUME IInv, NEW c \in Claims, NoteOrphans(c)
  PROVE  IInv'
<1>1. claim \in [Claims -> Run] /\ claim[c] \in Run /\ RunOK(claim[c])
  BY DEF IInv, TypeOK
<1> DEFINE e == [claim[c] EXCEPT !.snapshot = Snapshot(c), !.pc = "orphans"]
<1>2. Snapshot(c) \in SUBSET Rows
  BY DEF Snapshot, Orphans, OrphanMail, Rows
<1>3. PICK run \in Run : run = e
  BY <1>1, <1>2 DEF Run
<1>4. /\ run.pc = "orphans" /\ run.mapped = claim[c].mapped /\ run.parked = claim[c].parked
      /\ run.to = claim[c].to /\ run.seen = claim[c].seen
  BY <1>1, <1>3 DEF Run
<1>5. claim' = [claim EXCEPT ![c] = run]
  BY <1>1, <1>3 DEF NoteOrphans
<1>6. RunOK(run)
  BY <1>1, <1>4 DEF RunOK, NoteOrphans
<1> QED
  BY <1>4, <1>5, <1>6, ControlStep DEF NoteOrphans

\* Verify has seen that every owner is consistent and that nothing is left with the
\* placeholder.
LEMMA VerifyStep ==
  ASSUME IInv, NEW c \in Claims, Verify(c)
  PROVE  IInv'
<1>1. claim \in [Claims -> Run] /\ claim[c] \in Run /\ RunOK(claim[c])
  BY DEF IInv, TypeOK
<1>2. "commit" \in PCs /\ Goto(c, "commit")
  BY DEF PCs, Verify
<1>3. PICK run \in Run :
        /\ claim' = [claim EXCEPT ![c] = run]
        /\ run.pc = "commit" /\ run.to = claim[c].to /\ run.seen = claim[c].seen
        /\ run.mapped = claim[c].mapped /\ run.parked = claim[c].parked
  BY <1>1, <1>2, MovedOn
<1>4. RunOK(run)
  BY <1>1, <1>3 DEF RunOK
<1>5. Consistent(View(c)) /\ \A r \in run.parked : View(c)[r] # Legacy
  BY RunFields DEF Verify, Verified, Released
<1> QED
  BY <1>3, <1>4, <1>5, ControlStep DEF Verify

LEMMA GivenUp ==
  ASSUME IInv, NEW c \in Claims, Rollback(c) \/ Abandon(c)
  PROVE  IInv'
<1>1. claim \in [Claims -> Run] /\ claim[c] \in Run /\ RunOK(claim[c])
  BY DEF IInv, TypeOK
<1>2. "rolledback" \in PCs /\ Goto(c, "rolledback")
  BY DEF PCs, Rollback, Abandon
<1>3. PICK run \in Run :
        /\ claim' = [claim EXCEPT ![c] = run]
        /\ run.pc = "rolledback" /\ run.seen = claim[c].seen
        /\ run.mapped = claim[c].mapped /\ run.parked = claim[c].parked
  BY <1>1, <1>2, MovedOn
<1>4. RunOK(run)
  BY <1>1, <1>3 DEF RunOK
<1>5. DOMAIN NoRows = {}
  BY DEF NoRows
<1>6. /\ draft' = [draft EXCEPT ![c] = NoRows] /\ claim[c].pc # "done"
      /\ UNCHANGED <<owner, account, held>>
  BY DEF Rollback, Abandon
<1> QED
  BY <1>3, <1>4, <1>5, <1>6, DraftStep

\* A commit publishes what was verified.  The drafts of the others are about other
\* rows, and what they have verified cannot hang off a row that was still the
\* placeholder's.
LEMMA CommitStep ==
  ASSUME IInv, NEW c \in Claims, Commit(c)
  PROVE  IInv'
<1> USE TableParents
<1>1. /\ claim \in [Claims -> Run] /\ claim[c] \in Run /\ DOMAIN draft = Claims
      /\ LocksOK /\ \A d \in Claims : DraftOK(d) /\ RunOK(claim[d]) /\ StillVerified(d)
      /\ owner \in [Rows -> Owner \cup {None}]
  BY DEF IInv, TypeOK
<1>2. owner' = View(c) /\ UNCHANGED <<account, held>> /\ claim[c].pc = "commit"
  BY DEF Commit
<1>3. \A d \in Claims : /\ DOMAIN draft'[d] = IF d = c THEN {} ELSE DOMAIN draft[d]
                        /\ d # c => draft'[d] = draft[d]
  BY <1>1 DEF Commit, NoRows
<1>4. PICK run \in Run :
        /\ claim' = [claim EXCEPT ![c] = run]
        /\ run.pc = "done" /\ run.seen = claim[c].seen
        /\ run.mapped = claim[c].mapped /\ run.parked = claim[c].parked
  <2>1. Goto(c, "done") /\ "done" \in PCs
    BY DEF Commit, PCs
  <2> QED
    BY <1>1, <2>1, MovedOn
<1>5. \A r \in Rows : owner'[r] = IF r \in DOMAIN draft[c] THEN draft[c][r] ELSE owner[r]
  BY <1>2 DEF View
<1>6. \A r \in DOMAIN draft[c] : r \in Rows /\ owner[r] = Legacy /\ owner'[r] \in Users
  BY <1>1, <1>5 DEF DraftOK, IInv, TypeOK
<1>7. TypeOK'
  <2>1. owner' \in [Rows -> Owner \cup {None}]
    BY <1>1, <1>2, <1>5, <1>6 DEF View, Owner
  <2>2. claim' \in [Claims -> Run]
    BY <1>1, <1>4
  <2>3. LocksOK' /\ DOMAIN draft' = Claims /\ \A d \in Claims : DOMAIN draft'[d] \subseteq Rows
    BY <1>1, <1>3 DEF LocksOK, Commit, IInv, TypeOK
  <2> QED
    BY <1>2, <2>1, <2>2, <2>3 DEF IInv, TypeOK
<1>8. OwnersAgree'
  BY <1>1, <1>2 DEF OwnersAgree, StillVerified, Consistent
<1>9. MailToItsAddressee'
  <2>1. ASSUME NEW r \in Rows, Box(r) # None, owner'[r] \in Users
        PROVE  \E d \in Claims : /\ claim'[d].pc = "done"
                                 /\ OneLive(owner'[r], Address[Box(r)], claim'[d].seen)
    <3>1. CASE r \in DOMAIN draft[c]
      <4>1. OneLive(owner'[r], Address[Box(r)], claim[c].seen)
        BY <1>1, <1>5, <2>1, <3>1 DEF DraftOK, Addressee
      <4> QED
        BY <1>1, <1>4, <4>1
    <3>2. CASE r \notin DOMAIN draft[c]
      <4>1. PICK d \in Claims : /\ claim[d].pc = "done"
                                /\ OneLive(owner[r], Address[Box(r)], claim[d].seen)
        BY <1>5, <2>1, <3>2 DEF IInv, MailToItsAddressee
      <4>2. claim'[d] = claim[d]
        BY <1>1, <1>2, <1>4, <4>1
      <4> QED
        BY <1>5, <3>2, <4>1, <4>2
    <3> QED
      BY <3>1, <3>2
  <2> QED
    BY <2>1 DEF MailToItsAddressee, OneLive, Lives
<1>10. ASSUME NEW d \in Claims
       PROVE  DraftOK(d)'
  <2>1. CASE d = c
    BY <1>3, <2>1 DEF DraftOK
  <2>2. CASE d # c
    <3>1. \A r \in DOMAIN draft[d] : r \in Rows /\ r \notin DOMAIN draft[c]
      BY <1>1, <2>2 DEF LocksOK, IInv, TypeOK
    <3> QED
      BY <1>1, <1>3, <1>4, <1>5, <2>2, <3>1 DEF DraftOK
  <2> QED
    BY <2>1, <2>2
<1>11. ASSUME NEW d \in Claims
       PROVE  RunOK(claim[d])'
  <2>1. ASSUME NEW r \in Rows, owner[r] # None
        PROVE  owner'[r] # None /\ (owner[r] # Legacy => owner'[r] # Legacy)
    BY <1>5, <1>6, <2>1
  <2>2. claim[d].parked \subseteq Rows /\ claim'[d].parked = claim[d].parked
        /\ claim'[d].mapped = claim[d].mapped /\ claim'[d].seen = claim[d].seen
        /\ claim'[d] = IF d = c THEN run ELSE claim[d]
    BY <1>1, <1>4, RunFields
  <2>3. CASE d = c
    <3>1. \A r \in claim[c].parked : View(c)[r] # Legacy
      BY <1>1, <1>2 DEF StillVerified
    <3> QED
      BY <1>1, <1>2, <1>4, <2>1, <2>2, <2>3, <3>1 DEF RunOK
  <2>4. CASE d # c
    BY <1>1, <2>1, <2>2, <2>4 DEF RunOK
  <2> QED
    BY <2>3, <2>4
<1>12. ASSUME NEW d \in Claims
       PROVE  StillVerified(d)'
  <2>1. CASE d = c
    BY <1>1, <1>4, <2>1 DEF StillVerified
  <2>2. CASE d # c
    <3> SUFFICES ASSUME claim[d].pc = "commit"
                 PROVE  /\ Consistent(View(d)')
                        /\ \A r \in claim[d].parked : View(d)'[r] # Legacy
      BY <1>1, <1>4, <2>2 DEF StillVerified, Consistent
    <3>1. /\ Consistent(View(d)) /\ \A r \in claim[d].parked : View(d)[r] # Legacy
          /\ claim[d].parked \subseteq Rows
      BY <1>1, RunFields DEF StillVerified
    <3>2. \A r \in Rows :
            /\ View(d)[r] = IF r \in DOMAIN draft[d] THEN draft[d][r] ELSE owner[r]
            /\ View(d)'[r] = IF r \in DOMAIN draft[d] THEN draft[d][r] ELSE owner'[r]
      BY <1>3, <2>2 DEF View
    <3>3. \A r \in Rows : /\ r \in DOMAIN draft[d] => r \notin DOMAIN draft[c] /\ owner[r] = Legacy
                                                     /\ draft[d][r] \in Users
                          /\ r \in DOMAIN draft[c] => owner[r] = Legacy /\ owner'[r] \in Users
      BY <1>1, <1>6, <2>2 DEF LocksOK, DraftOK
    <3>4. Consistent(owner')
      BY <1>8 DEF OwnersAgree, Consistent
    <3>5. ASSUME NEW r \in Rows, Parent[r] # None, View(d)'[r] # None
          PROVE  View(d)'[r] = View(d)'[Parent[r]]
      <4>1. Parent[r] \in Rows
        BY <3>5
      <4>2. View(d)[r] # None => View(d)[r] = View(d)[Parent[r]]
        BY <3>1, <3>5 DEF Consistent
      <4>3. owner'[r] # None => owner'[r] = owner'[Parent[r]]
        BY <3>4, <3>5 DEF Consistent
      <4>4. CASE r \in DOMAIN draft[d] /\ Parent[r] \in DOMAIN draft[d]
        BY <3>2, <4>1, <4>2, <4>4, <3>5
      <4>5. CASE r \in DOMAIN draft[d] /\ Parent[r] \notin DOMAIN draft[d]
        <5>1. View(d)[r] = draft[d][r] /\ draft[d][r] \in Users /\ View(d)[Parent[r]] = owner[Parent[r]]
          BY <3>2, <3>3, <4>1, <4>5
        <5>2. owner[Parent[r]] \in Users
          BY <4>2, <5>1
        <5>3. Parent[r] \notin DOMAIN draft[c]
          BY <3>3, <4>1, <5>2
        <5> QED
          BY <1>5, <3>2, <4>1, <4>2, <4>5, <5>1, <5>3
      <4>6. CASE r \notin DOMAIN draft[d] /\ Parent[r] \in DOMAIN draft[d]
        <5>1. View(d)[Parent[r]] = draft[d][Parent[r]] /\ draft[d][Parent[r]] \in Users
              /\ View(d)[r] = owner[r]
          BY <3>2, <3>3, <4>1, <4>6
        <5>2. owner[r] # Legacy
          BY <4>2, <5>1
        <5>3. r \notin DOMAIN draft[c]
          BY <3>3, <5>2
        <5> QED
          BY <1>5, <3>2, <3>5, <4>1, <4>2, <4>6, <5>1, <5>3
      <4>7. CASE r \notin DOMAIN draft[d] /\ Parent[r] \notin DOMAIN draft[d]
        BY <3>2, <3>5, <4>1, <4>3, <4>7
      <4> QED
        BY <4>4, <4>5, <4>6, <4>7
    <3>6. ASSUME NEW r \in claim[d].parked
          PROVE  View(d)'[r] # Legacy
      BY <1>5, <3>1, <3>2, <3>3, <3>6
    <3> QED
      BY <3>5, <3>6 DEF Consistent
  <2> QED
    BY <2>1, <2>2
<1> QED
  BY <1>7, <1>8, <1>9, <1>10, <1>11, <1>12 DEF IInv
-----------------------------------------------------------------------------
\* Accounts come, and the service reads owners: neither touches a row.
LEMMA ServiceReads ==
  ASSUME IInv, UNCHANGED <<owner, draft, claim>>, TypeOK'
  PROVE  IInv'
<1>1. OwnersAgree' /\ MailToItsAddressee'
  BY StaysAddressed DEF IInv, OwnersAgree, Consistent
<1>2. ASSUME NEW c \in Claims
      PROVE  DraftOK(c)' /\ RunOK(claim[c])' /\ StillVerified(c)'
  <2>1. View(c)' = View(c)
    BY DEF View
  <2> QED
    BY <1>2, <2>1 DEF IInv, DraftOK, RunOK, StillVerified, Consistent
<1> QED
  BY <1>1, <1>2 DEF IInv

\* The composite key waits for the transaction that has moved the parent, and then
\* refuses an owner read before the move.
LEMMA InsertStep ==
  ASSUME IInv, NEW r \in Late, InsertRow(r)
  PROVE  IInv'
<1> USE TableParents
<1>1. /\ r \in Rows \ Mailboxes
      /\ owner \in [Rows -> Owner \cup {None}] /\ held \in [Late -> Owner \cup {None}]
      /\ claim \in [Claims -> Run]
  BY ClaimAssumption DEF IInv, TypeOK
<1>2. UNCHANGED <<draft, claim, account>> /\ owner[r] = None
  BY DEF InsertRow
<1>3. \A x \in Rows : owner'[x] = IF x = r THEN (IF ParentAgrees(r) THEN held[r] ELSE None)
                                            ELSE owner[x]
  BY <1>1 DEF InsertRow
<1>4. TypeOK'
  <2>1. owner' \in [Rows -> Owner \cup {None}] /\ held' \in [Late -> Owner \cup {None}]
    BY <1>1 DEF InsertRow
  <2> QED
    BY <1>2, <2>1 DEF IInv, TypeOK, LocksOK
<1>5. \A c \in Claims : r \notin DOMAIN draft[c]
  BY <1>2 DEF IInv, DraftOK
<1>6. ASSUME NEW view, NEW new,
             \A x \in Rows : new[x] = IF x = r THEN owner'[r] ELSE view[x],
             view[r] = None, Consistent(view),
             Parent[r] # None => view[Parent[r]] = owner[Parent[r]]
      PROVE  Consistent(new)
  <2> SUFFICES ASSUME NEW x \in Rows, Parent[x] # None, new[x] # None
               PROVE  new[x] = new[Parent[x]]
    BY DEF Consistent
  <2>1. Parent[x] \in Rows /\ Parent[x] # x
    BY ParentOf
  <2>2. CASE x = r
    BY <1>1, <1>3, <1>6, <2>1, <2>2 DEF ParentAgrees
  <2>3. CASE x # r /\ Parent[x] = r
    BY <1>6, <2>1, <2>3 DEF Consistent
  <2>4. CASE x # r /\ Parent[x] # r
    BY <1>6, <2>1, <2>4 DEF Consistent
  <2> QED
    BY <2>2, <2>3, <2>4
<1>7. OwnersAgree'
  <2>1. Consistent(owner) /\ \A x \in Rows : owner'[x] = IF x = r THEN owner'[r] ELSE owner[x]
    BY <1>3 DEF IInv, OwnersAgree
  <2>2. Consistent(owner')
    BY <1>2, <1>6, <2>1
  <2> QED
    BY <2>2 DEF OwnersAgree, Consistent
<1>8. MailToItsAddressee'
  <2>1. ASSUME NEW x \in Rows, Box(x) # None, owner'[x] \in Users
        PROVE  \E d \in Claims : /\ claim[d].pc = "done"
                                 /\ OneLive(owner'[x], Address[Box(x)], claim[d].seen)
    <3>1. CASE x # r
      BY <1>3, <2>1, <3>1 DEF IInv, MailToItsAddressee
    <3>2. CASE x = r
      <4>1. Parent[r] # None /\ Parent[r] \in Rows /\ Box(Parent[r]) = Box(r)
        BY <1>1, <2>1, <3>2, BoxOfParent
      <4>2. owner'[r] = held[r] /\ owner[Parent[r]] = held[r]
        BY <1>1, <1>3, <2>1, <3>2, <4>1 DEF ParentAgrees
      <4> QED
        BY <2>1, <3>2, <4>1, <4>2 DEF IInv, MailToItsAddressee
    <3> QED
      BY <3>1, <3>2
  <2> QED
    BY <1>2, <2>1 DEF MailToItsAddressee, OneLive, Lives
<1>9. ASSUME NEW c \in Claims
      PROVE  DraftOK(c)' /\ RunOK(claim[c])' /\ StillVerified(c)'
  <2>1. /\ DraftOK(c) /\ RunOK(claim[c]) /\ StillVerified(c)
        /\ claim[c].parked \subseteq Rows /\ DOMAIN draft[c] \subseteq Rows
    BY <1>1, RunFields DEF IInv, TypeOK
  <2>2. DraftOK(c)'
    BY <1>2, <1>3, <1>5, <2>1 DEF DraftOK
  <2>3. RunOK(claim[c])'
    BY <1>2, <1>3, <2>1 DEF RunOK
  <2>4. StillVerified(c)'
    <3> SUFFICES ASSUME claim[c].pc = "commit"
                 PROVE  Consistent(View(c)') /\ \A x \in claim[c].parked : View(c)'[x] # Legacy
      BY <1>2 DEF StillVerified, Consistent
    <3>1. \A x \in Rows : /\ View(c)[x] = IF x \in DOMAIN draft[c] THEN draft[c][x] ELSE owner[x]
                          /\ View(c)'[x] = IF x \in DOMAIN draft[c] THEN draft[c][x] ELSE owner'[x]
      BY <1>2 DEF View
    <3>2. \A x \in Rows : View(c)'[x] = IF x = r THEN owner'[r] ELSE View(c)[x]
      BY <1>3, <1>5, <3>1
    <3>3. View(c)[r] = None
      BY <1>1, <1>2, <1>5, <3>1
    <3>4. Parent[r] # None => View(c)[Parent[r]] = owner[Parent[r]]
      BY <1>1, <3>1 DEF InsertRow, Unlocked
    <3>5. Consistent(View(c)) /\ \A x \in claim[c].parked : View(c)[x] # Legacy /\ x # r
      BY <1>2, <2>1 DEF StillVerified, RunOK
    <3>6. Consistent(View(c)')
      BY <1>6, <3>2, <3>3, <3>4, <3>5
    <3> QED
      BY <2>1, <3>2, <3>5, <3>6
  <2> QED
    BY <2>2, <2>3, <2>4
<1> QED
  BY <1>4, <1>7, <1>8, <1>9 DEF IInv

LEMMA ServiceSteps ==
  ASSUME IInv, \/ \E u \in Users : SignIn(u)
               \/ \E u \in Managed : SetStatus(u)
               \/ \E r \in Late : ReadOwner(r) \/ InsertRow(r)
  PROVE  IInv'
<1>1. ASSUME NEW u \in Users, SignIn(u)
      PROVE  IInv'
  <2>1. account \in Accounts /\ Logins[u] \subseteq Addresses
    BY ClaimAssumption DEF IInv, TypeOK
  <2>2. PICK a \in Addresses, live \in BOOLEAN :
          account' = [account EXCEPT ![u] = [address |-> a, live |-> live]]
    BY <1>1, <2>1 DEF SignIn, Accounts, Account
  <2>3. account' \in Accounts
    BY <2>1, <2>2 DEF Accounts, Account
  <2>4. TypeOK'
    BY <1>1, <2>3 DEF SignIn, IInv, TypeOK, LocksOK
  <2> QED
    BY <1>1, <2>4, ServiceReads DEF SignIn
<1>2. ASSUME NEW u \in Managed, SetStatus(u)
      PROVE  IInv'
  <2>1. account \in Accounts /\ u \in Users /\ account[u] \in Account
    BY <1>2, ClaimAssumption DEF IInv, TypeOK, Accounts, SetStatus
  <2>2. PICK row \in Account : account' = [account EXCEPT ![u] = row]
    <3> DEFINE row == [account[u] EXCEPT !.live = ~account[u].live]
    <3>1. row \in Account
      BY <2>1 DEF Account
    <3>2. account' = [account EXCEPT ![u] = row]
      BY <1>2 DEF SetStatus
    <3> HIDE DEF row
    <3> QED
      BY <3>1, <3>2
  <2>3. account' \in Accounts
    BY <2>1, <2>2 DEF Accounts
  <2>4. TypeOK'
    BY <1>2, <2>3 DEF SetStatus, IInv, TypeOK, LocksOK
  <2> QED
    BY <1>2, <2>4, ServiceReads DEF SetStatus
<1>3. ASSUME NEW r \in Late, ReadOwner(r)
      PROVE  IInv'
  <2>1. owner[Copied[r]] \in Owner \cup {None}
    BY ClaimAssumption DEF IInv, TypeOK
  <2>2. TypeOK'
    BY <1>3, <2>1 DEF ReadOwner, IInv, TypeOK, LocksOK
  <2> QED
    BY <1>3, <2>2, ServiceReads DEF ReadOwner
<1> QED
  BY <1>1, <1>2, <1>3, InsertStep
-----------------------------------------------------------------------------
LEMMA InvInit == Init => IInv
<1> SUFFICES ASSUME Init
             PROVE  IInv
  OBVIOUS
<1> USE TableParents
<1>1. owner \in [Rows -> {Legacy, None}] /\ held \in [Late -> {None}]
  BY DEF Init
<1>2. Fresh \in Run /\ Fresh.pc = "idle" /\ Fresh.mapped = {} /\ Fresh.parked = {}
  BY DEF Fresh, Run, Accounts
<1>3. \A c \in Claims : claim[c] = Fresh /\ DOMAIN draft[c] = {}
  BY DEF Init, NoRows
<1>4. TypeOK
  BY <1>1, <1>2, <1>3, ClaimAssumption DEF Init, TypeOK, LocksOK, Owner
<1>5. OwnersAgree
  <2> SUFFICES ASSUME NEW r \in Rows, Parent[r] # None, owner[r] # None
               PROVE  owner[r] = owner[Parent[r]]
    BY DEF OwnersAgree, Consistent
  <2>1. Parent[r] \in Rows \ Late
    BY ClaimAssumption DEF Init
  <2> QED
    BY <2>1 DEF Init
<1>6. MailToItsAddressee
  BY <1>1 DEF MailToItsAddressee
<1>7. \A c \in Claims : DraftOK(c) /\ RunOK(claim[c]) /\ StillVerified(c)
  BY <1>2, <1>3 DEF DraftOK, RunOK, StillVerified
<1> QED
  BY <1>4, <1>5, <1>6, <1>7 DEF IInv

LEMMA InvStep == IInv /\ [Next]_vars => IInv'
<1> SUFFICES ASSUME IInv, [Next]_vars
             PROVE  IInv'
  OBVIOUS
<1>1. CASE UNCHANGED vars
  <2>1. TypeOK'
    BY <1>1 DEF vars, IInv, TypeOK, LocksOK
  <2> QED
    BY <1>1, <2>1, ServiceReads DEF vars
<1>2. ASSUME NEW c \in Claims, ClaimStep(c)
      PROVE  IInv'
  <2>1. CASE MoveOrphanMail(c) \/ MoveEvents(c)
    BY <2>1, MoveOrphansStep DEF MoveOrphanMail, MoveEvents
  <2> QED
    BY <1>2, <2>1, DiscoverySteps, MoveMailboxesStep, NoteStep, VerifyStep, GivenUp,
       CommitStep DEF ClaimStep
<1> QED
  BY <1>1, <1>2, ServiceSteps DEF Next

\* The inductive invariant: drafts are of the placeholder's rows and to their
\* addressees, and what a run has verified still holds when it commits.
THEOREM ClaimInvariant == Spec => []IInv
  BY InvInit, InvStep, PTL DEF Spec

\* A record and the record it hangs off never belong to two people (the composite
\* foreign keys of prisma/schema.prisma, and executeTransfer's verification).
THEOREM OwnersAlwaysAgree == Spec => []OwnersAgree
<1>1. IInv => OwnersAgree
  BY DEF IInv
<1> QED
  BY <1>1, ClaimInvariant, PTL

\* Whoever owns mail of a mailbox was the one live account with its address in the
\* accounts that a committed run read, though accounts appear, change their address and
\* are disabled all the time (resolveMailboxOwner, upsertUserFromGoogleIdentity).
THEOREM MailReachesItsAddressee == Spec => []MailToItsAddressee
<1>1. IInv => MailToItsAddressee
  BY DEF IInv
<1> QED
  BY <1>1, ClaimInvariant, PTL

\* A committed run leaves with the placeholder nothing of what it held when the
\* transaction began (executeTransfer's check before COMMIT).
THEOREM CommittedRunsAreComplete == Spec => []ClaimIsComplete
<1>1. IInv => ClaimIsComplete
  BY DEF IInv, RunOK, ClaimIsComplete
<1> QED
  BY <1>1, ClaimInvariant, PTL

\* A transfer is final: no run takes a record from a person (the "userId" =
\* placeholder condition of every UPDATE, and the row locks).
THEOREM TransfersAreFinal == Spec => NeverTakenFromAPerson
<1>1. IInv /\ [Next]_vars
        => [\A r \in Rows : owner[r] \in Users => owner'[r] = owner[r]]_vars
  <2> SUFFICES ASSUME IInv, Next, NEW r \in Rows, owner[r] \in Users
               PROVE  owner'[r] = owner[r]
    BY DEF vars
  <2> USE TableParents
  <2>1. ASSUME NEW c \in Claims, Commit(c)
        PROVE  owner'[r] = owner[r]
    BY <2>1 DEF Commit, View, IInv, DraftOK
  <2>2. ASSUME NEW x \in Late, InsertRow(x)
        PROVE  owner'[r] = owner[r]
    BY <2>2 DEF InsertRow, IInv, TypeOK
  <2>3. ASSUME NEW c \in Claims, ClaimStep(c), ~Commit(c)
        PROVE  owner' = owner
    BY <2>3 DEF ClaimStep, Start, MapMailboxes, Plan, MoveMailboxes, NoteOrphans,
       MoveOrphanMail, MoveEvents, MoveOrphans, Verify, Rollback, Abandon
  <2>4. ASSUME \/ \E u \in Users : SignIn(u)
               \/ \E u \in Managed : SetStatus(u)
               \/ \E x \in Late : ReadOwner(x)
        PROVE  owner' = owner
    BY <2>4 DEF SignIn, SetStatus, ReadOwner
  <2> QED
    BY <2>1, <2>2, <2>3, <2>4 DEF Next
<1> QED
  BY <1>1, ClaimInvariant, PTL DEF Spec, NeverTakenFromAPerson
=============================================================================
