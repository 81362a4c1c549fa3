------------------------------ MODULE GmailSync ------------------------------
(* One connected mailbox and the two callers that may sync it at once: the    *)
(* scheduler, whose isRunning flag excludes only itself, and a request to     *)
(* POST /gmail/sync.  Each works on a copy of the account row it loaded.      *)
(* Google is external: its messages are numbered in order of arrival and      *)
(* its history id is the number of the last one.                              *)
EXTENDS Naturals

CONSTANTS
  Callers,       \* who may be syncing the mailbox
  Scheduler,     \* the one of them that leaves flagged mailboxes alone
  MaxMessages,   \* bound: messages that arrive
  MaxTokens,     \* bound: connections of the mailbox; the last one lasts
  MaxFaults      \* bound: requests that fail for a passing reason

ASSUME SyncAssumption ==
  /\ Scheduler \in Callers
  /\ MaxMessages \in Nat /\ MaxTokens \in Nat \ {0} /\ MaxFaults \in Nat

VARIABLES
  tip,       \* Google: the number of messages, and the current history id
  oldest,    \* Google: history before this id is no longer kept
  revoked,   \* Google: refresh tokens up to this one are refused
  account,   \* GmailAccount: historyId (0 is null), refreshToken, reauthRequiredAt
  stored,    \* messages with an Email row
  sync,      \* sync[c]: what caller c is doing, with its copy of the account
  skipped,   \* messages a sync has counted as failed, and none has stored
  faults

vars == <<tip, oldest, revoked, account, stored, sync, skipped, faults>>
google == <<tip, oldest, revoked>>

Messages == 1..MaxMessages
HistoryIds == 0..MaxMessages
Tokens == 1..MaxTokens
Account == [historyId : HistoryIds, token : Tokens, reauth : BOOLEAN]

\* copy: what is still to be used of the row loaded.  latest: the history id to
\* write on success.  message: 0, or the one that was
\* looked up and not found stored.
Run == [pc : {"idle", "loaded", "watermark", "list", "messages", "done", "clear",
              "refused"},
        copy : Account, latest : HistoryIds, todo : SUBSET Messages, message : HistoryIds]

TypeOK ==
  /\ tip \in HistoryIds /\ oldest \in HistoryIds /\ revoked \in 0..MaxTokens
  /\ account \in Account
  /\ stored \in SUBSET (1..tip) /\ skipped \in SUBSET (1..tip)
  /\ sync \in [Callers -> Run]
  /\ faults \in 0..MaxFaults

Idle(a) == [pc |-> "idle", copy |-> a, latest |-> 0, todo |-> {}, message |-> 0]
\* An idle caller holds no copy; the first account stands for none.
New == [historyId |-> 0, token |-> 1, reauth |-> FALSE]

Fault == faults < MaxFaults /\ faults' = faults + 1
Step(c, r) == sync' = [sync EXCEPT ![c] = r]
At(c, pc) == sync[c].pc = pc
\* The history id loaded is used once, to choose the mode; the token until the
\* messages are done.
WithoutId(r) == [r EXCEPT !.copy.historyId = 0]
WithoutToken(r) == [r EXCEPT !.copy.token = 1]
\* The token this caller loaded is answered with invalid_grant.
Refused(c) == sync[c].copy.token <= revoked
-----------------------------------------------------------------------------
(* Google and the user.                                                      *)

Arrive ==
  /\ tip < MaxMessages
  /\ tip' = tip + 1
  /\ UNCHANGED <<oldest, revoked, account, stored, sync, skipped, faults>>

\* History has a bounded retention.
Forget ==
  /\ oldest < tip
  /\ oldest' = tip
  /\ UNCHANGED <<tip, revoked, account, stored, sync, skipped, faults>>

\* The last connection of a behaviour is not revoked.
Revoke ==
  /\ revoked < account.token /\ account.token < MaxTokens
  /\ revoked' = account.token
  /\ UNCHANGED <<tip, oldest, account, stored, sync, skipped, faults>>

\* connectGmailAccount on a mailbox the same user owns.  The cursor stays.
Reconnect ==
  /\ account.token < MaxTokens
  /\ account' = [account EXCEPT !.token = @ + 1, !.reauth = FALSE]
  /\ UNCHANGED <<google, stored, sync, skipped, faults>>
-----------------------------------------------------------------------------
(* syncGmailAccount, await by await.                                         *)

\* The caller loads the row.  getAllGmailAccounts leaves flagged ones out,
\* getGmailAccountsByUser does not.
Load(c) ==
  /\ At(c, "idle")
  /\ c = Scheduler => ~account.reauth
  /\ Step(c, [Idle(account) EXCEPT !.pc = "loaded"])
  /\ UNCHANGED <<google, account, stored, skipped, faults>>

\* runSync chooses the mode: no cursor, or a cursor Google has forgotten (404),
\* means a full sync.
Incremental(c) ==
  /\ At(c, "loaded") /\ sync[c].copy.historyId # 0
  /\ ~Refused(c)
  /\ Step(c, IF sync[c].copy.historyId < oldest
             THEN [WithoutId(sync[c]) EXCEPT !.pc = "watermark"]
             ELSE [WithoutId(sync[c]) EXCEPT !.pc = "messages", !.latest = tip,
                                  !.todo = (sync[c].copy.historyId + 1)..tip])
  /\ UNCHANGED <<google, account, stored, skipped, faults>>

Full(c) ==
  /\ At(c, "loaded") /\ sync[c].copy.historyId = 0
  /\ Step(c, [sync[c] EXCEPT !.pc = "watermark"])
  /\ UNCHANGED <<google, account, stored, skipped, faults>>

\* Mutant of Watermark: the id after the last one.
WatermarkNext(c) ==
  /\ At(c, "watermark") /\ ~Refused(c)
  /\ Step(c, [sync[c] EXCEPT !.pc = "list", !.latest = tip + 1])
  /\ UNCHANGED <<google, account, stored, skipped, faults>>

\* getLatestHistoryId, before the listing.
Watermark(c) ==
  /\ At(c, "watermark") /\ ~Refused(c)
  /\ Step(c, [sync[c] EXCEPT !.pc = "list", !.latest = tip])
  /\ UNCHANGED <<google, account, stored, skipped, faults>>

\* Mutant of List: the history id of the listing itself is kept.
ListThenMark(c) ==
  /\ At(c, "list") /\ ~Refused(c)
  /\ \E seen \in 0..tip :
       Step(c, [sync[c] EXCEPT !.pc = "messages", !.latest = tip, !.todo = 1..seen])
  /\ UNCHANGED <<google, account, stored, skipped, faults>>

\* getRecentMessages, every page.
List(c) ==
  /\ At(c, "list") /\ ~Refused(c)
  /\ Step(c, [sync[c] EXCEPT !.pc = "messages", !.todo = 1..tip])
  /\ UNCHANGED <<google, account, stored, skipped, faults>>

\* A request outside the per-message catch is refused for good ...
AuthFails(c) ==
  /\ \/ At(c, "watermark") \/ At(c, "list")
     \/ At(c, "loaded") /\ sync[c].copy.historyId # 0
  /\ Refused(c)
  /\ Step(c, [Idle(New) EXCEPT !.pc = "refused"])
  /\ UNCHANGED <<google, account, stored, skipped, faults>>

\* ... and the mailbox is flagged, whatever has happened to it since the copy.
FlagReauth(c) ==
  /\ At(c, "refused")
  /\ account' = [account EXCEPT !.reauth = TRUE]
  /\ Step(c, Idle(New))
  /\ UNCHANGED <<google, stored, skipped, faults>>

\* Any other failure there ends the run, with nothing written.
RunFails(c) ==
  /\ sync[c].pc \in {"loaded", "watermark", "list", "refused", "done"}
  /\ Fault
  /\ Step(c, Idle(New))
  /\ UNCHANGED <<google, account, stored, skipped>>

\* syncSingleMessage: fetch the message, and look for its id.
Lookup(c, m) ==
  /\ At(c, "messages") /\ sync[c].message = 0 /\ m \in sync[c].todo
  /\ ~Refused(c)
  /\ Step(c, [sync[c] EXCEPT !.todo = @ \ {m},
                             !.message = IF m \in stored THEN 0 ELSE m])
  /\ UNCHANGED <<google, account, stored, skipped, faults>>

\* createEmail.  A row written meanwhile makes it a unique violation, counted as
\* a failure.  Whether the enqueue that follows succeeds changes nothing here.
CreateEmail(c) ==
  /\ At(c, "messages") /\ sync[c].message # 0
  /\ stored' = stored \cup {sync[c].message}
  /\ skipped' = skipped \ {sync[c].message}
  /\ Step(c, [sync[c] EXCEPT !.message = 0])
  /\ UNCHANGED <<google, account, faults>>

\* One message fails, is counted, and is passed over.
SkipMessage(c, m) ==
  /\ At(c, "messages")
  /\ \/ sync[c].message = 0 /\ m \in sync[c].todo
     \/ m = sync[c].message
  /\ \/ Refused(c) /\ sync[c].message = 0 /\ UNCHANGED faults
     \/ Fault
  /\ skipped' = (skipped \cup {m}) \ stored
  /\ Step(c, [sync[c] EXCEPT !.todo = @ \ {m}, !.message = 0])
  /\ UNCHANGED <<google, account, stored>>

MessagesDone(c) ==
  /\ At(c, "messages") /\ sync[c].todo = {} /\ sync[c].message = 0
  /\ Step(c, [WithoutToken(sync[c]) EXCEPT !.pc = "done"])
  /\ UNCHANGED <<google, account, stored, skipped, faults>>

\* Mutant of UpdateHistoryId: the id is Google's present one.
UpdateToPresent(c) ==
  /\ At(c, "done")
  /\ account' = [account EXCEPT !.historyId = tip]
  /\ Step(c, IF sync[c].copy.reauth THEN [sync[c] EXCEPT !.pc = "clear"] ELSE Idle(New))
  /\ UNCHANGED <<google, stored, skipped, faults>>

\* Unconditional: whichever caller ends last has its history id kept.
UpdateHistoryId(c) ==
  /\ At(c, "done")
  /\ account' = [account EXCEPT !.historyId = sync[c].latest]
  /\ Step(c, IF sync[c].copy.reauth THEN [sync[c] EXCEPT !.pc = "clear"] ELSE Idle(New))
  /\ UNCHANGED <<google, stored, skipped, faults>>

\* A mailbox that was loaded as flagged and has synced is not flagged any more.
ClearReauth(c) ==
  /\ At(c, "clear")
  /\ account' = [account EXCEPT !.reauth = FALSE]
  /\ Step(c, Idle(New))
  /\ UNCHANGED <<google, stored, skipped, faults>>

\* The process dies with everything it was doing.
Crash ==
  /\ \E c \in Callers : ~At(c, "idle")
  /\ Fault
  /\ sync' = [c \in Callers |-> Idle(New)]
  /\ UNCHANGED <<google, account, stored, skipped>>
-----------------------------------------------------------------------------
Init ==
  /\ tip = 0 /\ oldest = 0 /\ revoked = 0
  /\ account = New
  /\ stored = {} /\ skipped = {}
  /\ sync = [c \in Callers |-> Idle(New)]
  /\ faults = 0

Progress(c) ==
  \/ Incremental(c) \/ Full(c) \/ Watermark(c) \/ List(c) \/ AuthFails(c)
  \/ FlagReauth(c) \/ CreateEmail(c) \/ MessagesDone(c) \/ UpdateHistoryId(c)
  \/ ClearReauth(c) \/ \E m \in Messages : Lookup(c, m)

Next ==
  \/ Arrive \/ Forget \/ Revoke \/ Reconnect \/ Crash
  \/ \E c \in Callers : \/ Load(c) \/ Progress(c) \/ RunFails(c)
                        \/ \E m \in Messages : SkipMessage(c, m)

Spec == Init /\ [][Next]_vars

\* The interval fires again and again, and every request is answered or times
\* out (GMAIL_REQUEST_TIMEOUT_MS).  Nobody is obliged to sync by hand or to
\* reconnect.
Fairness ==
  /\ WF_vars(Load(Scheduler))
  /\ \A c \in Callers :
       WF_vars(Progress(c) \/ \E m \in Messages : Refused(c) /\ SkipMessage(c, m))

FairSpec == Spec /\ Fairness
-----------------------------------------------------------------------------
(* Properties.                                                               *)

Handled == stored \cup skipped

\* "Overlap is safe, gaps are not" (gmail.sync.service.ts:153): the cursor never
\* passes a message that is neither stored nor counted as failed, whichever
\* mixture of full and incremental runs, overlapping or interrupted, wrote it.  A
\* unique violation between two callers drops nothing.
NoGaps == 1..account.historyId \subseteq Handled

\* What a caller knows at each place, with so many messages in the mailbox and these
\* handled: the cursor it loaded had no gap, what it has listed is handled or still to
\* do up to the id it will write, and in the end handled.
PlaceOK(r, top, handled) ==
  /\ r.latest <= top /\ r.todo \subseteq 1..top /\ r.message <= top
  /\ r.pc = "loaded" => 1..r.copy.historyId \subseteq handled
  /\ r.pc = "messages" => 1..r.latest \subseteq handled \cup r.todo \cup {r.message}
  /\ r.pc = "done" => 1..r.latest \subseteq handled

\* The inductive invariant behind NoGaps.
IInv == TypeOK /\ NoGaps /\ \A c \in Callers : PlaceOK(sync[c], tip, Handled)

\* Every message reaches the store, unless its own sync failed, while the mailbox
\* is authorised and not flagged.
EventuallyStored ==
  \A m \in Messages :
    m <= tip ~> \/ m \in stored \cup skipped
                \/ account.reauth \/ account.token <= revoked

\* A mailbox whose present token Google accepts is not left flagged, and so out
\* of the scheduler's reach: reconnecting makes it eligible again
\* (gmail.repository.ts:55, gmail.errors.ts:115).
HealthyIsEligible == account.token > revoked => ~account.reauth
=============================================================================
