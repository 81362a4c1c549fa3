----------------------------- MODULE LegacyClaim -----------------------------
(* migration:claim --apply: the records parked under the legacy placeholder   *)
(* are handed to people, in one READ COMMITTED transaction, while the service *)
(* goes on ingesting mail, people sign in under a new address, accounts are   *)
(* disabled, and a second operator may run the command as well.  Discovery    *)
(* reads outside the transaction, accounts included; each statement inside it *)
(* sees what others have committed by then.                                   *)
CONSTANTS
  Claims,      \* runs of the command
  Users,       \* people with, or about to have, an account
  Addresses,   \* mail addresses, normalised
  Logins,      \* Logins[u]: the addresses Google may report for u's identity
  Managed,     \* bound: the users whose account is disabled or enabled meanwhile
  Known,       \* Known[u]: u's account at the start, or None
  Mailboxes, Mail, Parts, Events, Changes,
               \* the ids of GmailAccount, Email, EmailExtraction and Attachment,
               \* Event, EventUpdate; everything else follows from its parent
  Parent,      \* Parent[r]: what the composite foreign key of row r names, or None
  Address,     \* Address[m]: the address of a mailbox
  Late,        \* the rows that the service inserts meanwhile
  Copied,      \* Copied[r]: the row whose owner the writer of r takes for r
  Legacy, None

Rows == Mailboxes \cup Mail \cup Parts \cup Events \cup Changes
Owner == Users \cup {Legacy}

\* A row of User; live is status "active" and not deleted.
Account == [address : Addresses, live : BOOLEAN]
Accounts == [Users -> Account \cup {None}]

ASSUME ClaimAssumption ==
  /\ Legacy \notin Users /\ None \notin Users \cup Rows \cup {Legacy} \cup Account
  /\ Logins \in [Users -> SUBSET Addresses] /\ Managed \subseteq Users /\ Known \in Accounts
  /\ Address \in [Mailboxes -> Addresses]
  \* a row is a row of one table
  /\ Mailboxes \cap (Mail \cup Parts \cup Events \cup Changes) = {}
  /\ Mail \cap (Parts \cup Events \cup Changes) = {}
  /\ Parts \cap (Events \cup Changes) = {} /\ Events \cap Changes = {}
  /\ Parent \in [Rows -> Rows \cup {None}]
  /\ \A r \in Mailboxes \cup Events : Parent[r] = None
  /\ \A r \in Mail : Parent[r] \in Mailboxes \cup {None}
  /\ \A r \in Parts : Parent[r] \in Mail
  /\ \A r \in Changes : Parent[r] \in Events
  /\ Late \subseteq Rows \ Mailboxes /\ Copied \in [Late -> Rows]
  \* the foreign keys hold from the start
  /\ \A r \in Rows \ Late : Parent[r] \notin Late

VARIABLES
  owner,    \* owner[r]: the committed userId, None while the row does not exist
  draft,    \* draft[c]: the rows the open transaction of c has updated, and locked
  claim,    \* claim[c]: where the run is and what it has read
  account,  \* account[u]: the row of User, or None
  held      \* held[r]: the owner that the writer of late row r has read, or None

vars == <<owner, draft, claim, account, held>>

NoRows == [r \in {} |-> None]

\* to is the operand of --to; seen the accounts as discovery read them; mapped the mailboxes found
\* and their owners; operator says that --to will be used; parked (kept for a
\* property) is what the placeholder held when the transaction began; snapshot the
\* rows of the operator's pass.
Run == [pc : {"idle", "mailboxes", "plan", "begin", "note", "orphans", "events", "verify", "commit",
              "done", "refused", "rolledback"},
        to : Users \cup {None}, seen : Accounts, mapped : SUBSET (Mailboxes \X Users),
        operator : BOOLEAN, parked : SUBSET Rows, snapshot : SUBSET Rows]

Fresh == [pc |-> "idle", to |-> None, seen |-> [u \in Users |-> None],
          mapped |-> {}, operator |-> FALSE, parked |-> {}, snapshot |-> {}]

\* A row is updated in at most one open transaction.
LocksOK ==
  \A c, d \in Claims : c # d => DOMAIN draft[c] \cap DOMAIN draft[d] = {}

TypeOK ==
  /\ owner \in [Rows -> Owner \cup {None}]
  /\ claim \in [Claims -> Run]
  /\ DOMAIN draft = Claims /\ \A c \in Claims : DOMAIN draft[c] \subseteq Rows
  /\ LocksOK
  /\ account \in Accounts
  /\ held \in [Late -> Owner \cup {None}]

Goto(c, pc) == claim' = [claim EXCEPT ![c].pc = pc]

Parked == {r \in Rows : owner[r] = Legacy}

\* A row and what cascades from it.
Within(S) == S \cup {r \in Rows : Parent[r] \in S}
               \cup {r \in Rows : Parent[r] \in Rows /\ Parent[Parent[r]] \in S}

\* The mailbox a row came through, as far as the schema records it.
Box(r) == IF r \in Mailboxes THEN r
          ELSE IF Parent[r] \in Rows /\ Parent[r] \in Mailboxes THEN Parent[r]
          ELSE IF Parent[r] \in Rows /\ Parent[Parent[r]] \in Mailboxes THEN Parent[Parent[r]]
          ELSE None

\* The three kinds of row no mailbox accounts for.
OrphanMail == {r \in Mail : Parent[r] = None}
Orphans == Events \cup Changes \cup OrphanMail

View(c) == [r \in Rows |-> IF r \in DOMAIN draft[c] THEN draft[c][r] ELSE owner[r]]

\* Mutant of Free: nothing waits.
FreeAnyway(c, S) == TRUE

\* A statement of run c waits for the rows that another open transaction has updated.
Free(c, S) == \A d \in Claims \ {c} : S \cap DOMAIN draft[d] = {}

Draft(c, moved) ==
  draft' = [draft EXCEPT ![c] = [r \in DOMAIN draft[c] \cup DOMAIN moved |->
              IF r \in DOMAIN moved THEN moved[r] ELSE draft[c][r]]]
-----------------------------------------------------------------------------
(* resolveMailboxOwner.                                                      *)

Eligible(u, seen) == seen[u] # None /\ seen[u].live

MatchesOf(m, seen) == {u \in Users : Eligible(u, seen) /\ seen[u].address = Address[m]}

\* Mutant of Resolved: the first of several accounts is taken.
ResolvedFirst(m, seen) == MatchesOf(m, seen) # {}

\* One eligible account has the address: neither none nor several.
Resolved(m, seen) == \E u \in MatchesOf(m, seen) : MatchesOf(m, seen) = {u}
-----------------------------------------------------------------------------
(* Discovery: separate reads, before the transaction.                        *)

Start(c) ==
  /\ claim[c].pc = "idle"
  /\ \E to \in Users \cup {None} :
       claim' = [claim EXCEPT ![c].to = to, ![c].seen = account,
         ![c].pc = IF Parked = {} THEN "done"
                   ELSE IF \E u \in Users : Eligible(u, account) THEN "mailboxes" ELSE "refused"]
  /\ UNCHANGED <<owner, draft, account, held>>

\* Every parked mailbox is mapped, or nothing is transferred.
MapMailboxes(c) ==
  /\ claim[c].pc = "mailboxes"
  /\ LET boxes == Mailboxes \cap Parked  seen == claim[c].seen IN
       claim' = IF \A m \in boxes : Resolved(m, seen)
                THEN [claim EXCEPT ![c].pc = "plan",
                        ![c].mapped = {p \in boxes \X Users :
                                         p[2] = CHOOSE u \in MatchesOf(p[1], seen) : TRUE}]
                ELSE [claim EXCEPT ![c].pc = "refused"]
  /\ UNCHANGED <<owner, draft, account, held>>

\* --to must name a live account, which is read anew, and must be given when there
\* are orphans.
Plan(c) ==
  /\ claim[c].pc = "plan"
  /\ LET run == claim[c]  orphans == Parked \cap Orphans # {} IN
       claim' = IF \/ run.to # None /\ ~Eligible(run.to, account)
                   \/ run.to = None /\ orphans
                THEN [claim EXCEPT ![c].pc = "refused"]
                ELSE [claim EXCEPT ![c].pc = "begin", ![c].operator = orphans]
  /\ UNCHANGED <<owner, draft, account, held>>
-----------------------------------------------------------------------------
(* executeTransfer.                                                          *)

\* Mutant of Claimable: the statements do not ask that the placeholder still owns
\* the row.
ClaimableAnyway(c, S) == {r \in S : View(c)[r] # None}

\* The rows of S an UPDATE ... WHERE "userId" = placeholder reaches.
Claimable(c, S) == {r \in S : View(c)[r] = Legacy}

\* The mailboxes one by one, each with what hangs off it.  Nothing enters a mailbox
\* whose row is locked, so the order among them cannot be told.
MoveMailboxes(c) ==
  /\ claim[c].pc = "begin"
  /\ LET mine == Claimable(c, Within({p[1] : p \in claim[c].mapped})) IN
       /\ Free(c, mine)
       /\ Draft(c, [r \in mine |-> (CHOOSE p \in claim[c].mapped : p[1] = Box(r))[2]])
       /\ claim' = [claim EXCEPT ![c].parked = Parked,
            ![c].pc = IF claim[c].operator THEN "note" ELSE "verify"]
  /\ UNCHANGED <<owner, account, held>>

\* The rows to be moved are noted first: the rows as committed now.
Snapshot(c) == {r \in Orphans : View(c)[r] = Legacy}

\* Others may commit between the note and the updates, which then find less than
\* was noted, or more.
NoteOrphans(c) ==
  /\ claim[c].pc = "note"
  /\ claim' = [claim EXCEPT ![c].snapshot = Snapshot(c), ![c].pc = "orphans"]
  /\ UNCHANGED <<owner, draft, account, held>>

MoveOrphans(c, S, next) ==
  LET mine == Claimable(c, Within(S)) IN
  /\ Free(c, mine)
  /\ Draft(c, [r \in mine |-> claim[c].to])
  /\ Goto(c, next)
  /\ UNCHANGED <<owner, account, held>>

MoveOrphanMail(c) ==
  claim[c].pc = "orphans" /\ MoveOrphans(c, OrphanMail, "events")

MoveEvents(c) == claim[c].pc = "events" /\ MoveOrphans(c, Events, "verify")

\* Mutant of Released: the check is left out.
ReleasedUnchecked(c) == TRUE

Released(c) == \A r \in Rows : View(c)[r] # Legacy

MailboxesTransferred(c) ==
  \A p \in claim[c].mapped : \A r \in {p[1]} \cup {e \in Mail : Parent[e] = p[1]} :
    View(c)[r] \in {p[2], None}

RemainderTransferred(c) == \A r \in claim[c].snapshot : View(c)[r] = claim[c].to

Consistent(view) ==
  \A r \in Rows : Parent[r] # None /\ view[r] # None => view[r] = view[Parent[r]]

Verified(c) == /\ Released(c)
               /\ MailboxesTransferred(c)
               /\ RemainderTransferred(c)
               /\ Consistent(View(c))

Verify(c) ==
  /\ claim[c].pc = "verify" /\ Verified(c)
  /\ Goto(c, "commit")
  /\ UNCHANGED <<owner, draft, account, held>>

Rollback(c) ==
  /\ claim[c].pc = "verify" /\ ~Verified(c)
  /\ draft' = [draft EXCEPT ![c] = NoRows]
  /\ Goto(c, "rolledback")
  /\ UNCHANGED <<owner, account, held>>

Commit(c) ==
  /\ claim[c].pc = "commit"
  /\ owner' = View(c)
  /\ draft' = [draft EXCEPT ![c] = NoRows]
  /\ Goto(c, "done")
  /\ UNCHANGED <<account, held>>

\* The connection or the process is lost at any point of the transaction.
Abandon(c) ==
  /\ claim[c].pc \in {"note", "orphans", "events", "verify", "commit"}
  /\ draft' = [draft EXCEPT ![c] = NoRows]
  /\ Goto(c, "rolledback")
  /\ UNCHANGED <<owner, account, held>>
-----------------------------------------------------------------------------
(* The service.  A sync or a worker reads an owner, and inserts by it later.  *)

\* upsertUserFromGoogleIdentity: an account is created, or takes the address Google
\* reports now; a login does not touch the status.
SignIn(u) ==
  /\ \E a \in Logins[u] :
       account' = [account EXCEPT ![u] =
         [address |-> a, live |-> IF account[u] = None THEN TRUE ELSE account[u].live]]
  /\ UNCHANGED <<owner, draft, claim, held>>

\* Nothing in the program writes a status: an administrator does, in SQL.
SetStatus(u) ==
  /\ account[u] # None
  /\ account' = [account EXCEPT ![u].live = ~account[u].live]
  /\ UNCHANGED <<owner, draft, claim, held>>

ReadOwner(r) ==
  /\ owner[r] = None /\ held[r] = None /\ owner[Copied[r]] # None
  /\ held' = [held EXCEPT ![r] = owner[Copied[r]]]
  /\ UNCHANGED <<owner, draft, claim, account>>

\* The foreign key names the parent's id and owner.  Its check waits for an open
\* transaction that has moved the parent; an event has no parent to wait for.
Unlocked(r) == Parent[r] = None \/ \A c \in Claims : Parent[r] \notin DOMAIN draft[c]

\* Mutant of ParentAgrees: the foreign key names the id alone.
ParentExists(r) == Parent[r] = None \/ owner[Parent[r]] # None

ParentAgrees(r) == Parent[r] = None \/ owner[Parent[r]] = held[r]

InsertRow(r) ==
  /\ held[r] # None /\ owner[r] = None /\ Unlocked(r)
  /\ owner' = [owner EXCEPT ![r] = IF ParentAgrees(r) THEN held[r] ELSE None]
  /\ held' = [held EXCEPT ![r] = None]
  /\ UNCHANGED <<draft, claim, account>>
-----------------------------------------------------------------------------
Init ==
  /\ owner = [r \in Rows |-> IF r \in Late THEN None ELSE Legacy]
  /\ draft = [c \in Claims |-> NoRows]
  /\ claim = [c \in Claims |-> Fresh]
  /\ account = Known
  /\ held = [r \in Late |-> None]

ClaimStep(c) ==
  \/ Start(c) \/ MapMailboxes(c) \/ Plan(c)
  \/ MoveMailboxes(c) \/ NoteOrphans(c) \/ MoveOrphanMail(c) \/ MoveEvents(c)
  \/ Verify(c) \/ Rollback(c) \/ Commit(c) \/ Abandon(c)

Next == \/ \E c \in Claims : ClaimStep(c)
        \/ \E u \in Users : SignIn(u)
        \/ \E u \in Managed : SetStatus(u)
        \/ \E r \in Late : ReadOwner(r) \/ InsertRow(r)

Spec == Init /\ [][Next]_vars
-----------------------------------------------------------------------------
(* Properties.                                                               *)

\* What the composite keys promise the rest of the program: a record and the record
\* it hangs off never belong to two people, though mail is ingested, with owners
\* read earlier, while mailboxes change hands.
OwnersAgree == Consistent(owner)

\* A transfer is final: no run, however its reads and waits fall, takes a record
\* from a person, not even to give it to the --to of a second operator.
NeverTakenFromAPerson ==
  [][\A r \in Rows : owner[r] \in Users => owner'[r] = owner[r]]_vars

\* In accounts as they were read, u is the one live account with address a.
Lives(u, a, accounts) ==
  accounts[u] # None /\ accounts[u].live /\ accounts[u].address = a
OneLive(u, a, accounts) ==
  Lives(u, a, accounts) /\ \A v \in Users \ {u} : ~Lives(v, a, accounts)

\* Whoever owns mail of a mailbox was, in the accounts that a committed run read, the
\* one live account with the mailbox's address: a second one, a disabled one or --to
\* gets none of it, whether it was moved or came in later.  The accounts are those of
\* discovery; that address or status changes before COMMIT is noticed by nobody.
MailToItsAddressee ==
  \A r \in Rows : Box(r) # None /\ owner[r] \in Users =>
    \E c \in Claims : /\ claim[c].pc = "done"
                      /\ OneLive(owner[r], Address[Box(r)], claim[c].seen)

\* A committed run leaves with the placeholder nothing of what the placeholder held
\* when its transaction began, whatever was inserted since discovery counted.
ClaimIsComplete ==
  \A c \in Claims : claim[c].pc = "done" => \A r \in claim[c].parked : owner[r] # Legacy

(* The strengthening that makes these inductive.                              *)

Addressee(r, u, accounts) == Box(r) # None => OneLive(u, Address[Box(r)], accounts)

\* What an open transaction has written is still the placeholder's for everybody
\* else, is to be a person's, and if it is mail its addressee's.
DraftOK(c) ==
  /\ claim[c].pc = "idle" => DOMAIN draft[c] = {}
  /\ \A r \in DOMAIN draft[c] :
       /\ owner[r] = Legacy /\ draft[c][r] \in Users
       /\ Addressee(r, draft[c][r], claim[c].seen)

\* What a run holds of its reads: a mailbox is mapped to its only match, --to is a
\* live account where it will be used, and what was parked exists.
RunOK(run) ==
  /\ run.pc = "idle" => run.mapped = {} /\ run.parked = {}
  /\ \A p \in run.mapped : MatchesOf(p[1], run.seen) = {p[2]}
  /\ run.pc = "begin" /\ run.operator => run.to \in Users
  /\ run.pc \in {"note", "orphans", "events"} => run.to \in Users
  /\ \A r \in run.parked : owner[r] # None
  /\ run.pc = "done" => \A r \in run.parked : owner[r] # Legacy

\* What Verify has seen still holds when Commit runs, whoever committed or inserted
\* in between.
StillVerified(c) ==
  claim[c].pc = "commit"
  => Consistent(View(c)) /\ \A r \in claim[c].parked : View(c)[r] # Legacy

\* The inductive invariant of the transfers.
IInv == /\ TypeOK /\ OwnersAgree /\ MailToItsAddressee
        /\ \A c \in Claims : DraftOK(c) /\ RunOK(claim[c]) /\ StillVerified(c)
=============================================================================
