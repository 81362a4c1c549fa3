------------------------------ MODULE WebSession ------------------------------
(* One browser, its cookies and its Dashboard, against the session store: the  *)
(* Google sign-in, the request gate requireAuth, logout, and express-session's *)
(* way of working, in which every request loads a copy of its session and      *)
(* writes the whole copy back.  Requests of one browser overlap freely.        *)
EXTENDS Naturals, FiniteSets

CONSTANTS
  Slots,      \* requests that may be under way at once
  Sids,       \* session ids express-session may draw, one use each
  NoSid,      \* no cookie, or a session that was never saved
  NoFlow,     \* no authorization flow is open
  MaxFlows,   \* bound: sign-ins begun
  MaxFaults   \* bound: failures of Redis, PostgreSQL, Google or the network

ASSUME SessionAssumption ==
  /\ NoSid \notin Sids
  /\ MaxFlows \in Nat /\ MaxFaults \in Nat
  /\ NoFlow \notin 1..MaxFlows
  /\ Cardinality(Sids) >= 2 * MaxFlows   \* one before and one after each sign-in

Flows == 1..MaxFlows

VARIABLES
  store,      \* Redis sess:*: [user, flow] or Gone
  index,      \* Redis user_sessions: the ids bulk revocation would find
  drawn,      \* session ids already in use
  old,        \* sessions past absoluteExpiresAt
  active,     \* the User row's status is "active" and it is not deleted
  jar,        \* the browser's session cookie
  csrf,       \* it holds the CSRF cookie as well
  begun,      \* authorization flows begun so far
  atGoogle,   \* flows whose callback URL the browser may present, again and again
  lapsed,     \* flows past OAUTH_STATE_TTL_MS
  spent,      \* flows whose code Google has exchanged
  req,        \* req[r]: a request on its way through browser and server
  page,       \* the Dashboard's state
  resolved,   \* sessions whose establishSession resolved and nobody destroyed
  faults

browser == <<jar, csrf, begun, atGoogle, page>>
world == <<old, active, lapsed>>
redis == <<store, index, drawn, resolved>>
vars == <<redis, world, browser, spent, req, faults>>

Gone == [user |-> FALSE, flow |-> NoFlow, kept |-> FALSE]
Fresh == [Gone EXCEPT !.kept = TRUE]
Record == [user : BOOLEAN, flow : Flows \cup {NoFlow}, kept : BOOLEAN]

\* reload is the fetch that follows a logout and is awaited with it.
Kinds == {"begin", "callback", "events", "reload", "save", "logout"}
PCs == {"idle", "sent", "gate", "csrf", "handle", "begin", "check", "consume",
        "exchange", "regenerate", "establish", "index", "destroy", "unindex",
        "end", "answered"}

\* sid, session: the request's sessionID and its copy; dirty: not yet written back.
Request == [kind : Kinds, pc : PCs, flow : Flows \cup {NoFlow}, token : BOOLEAN,
            sid : Sids \cup {NoSid}, session : Record, dirty : BOOLEAN,
            answer : {"none", "ok", "refused", "failed"}]

Idle == [kind |-> "events", pc |-> "idle", flow |-> NoFlow, token |-> FALSE,
         sid |-> NoSid, session |-> Gone, dirty |-> FALSE, answer |-> "none"]

TypeOK ==
  /\ store \in [Sids -> Record]
  /\ drawn \in SUBSET Sids
  /\ index \in SUBSET drawn /\ old \in SUBSET drawn /\ resolved \in SUBSET drawn
  /\ active \in BOOLEAN /\ csrf \in BOOLEAN
  /\ jar \in drawn \cup {NoSid}
  /\ begun \in 0..MaxFlows
  /\ atGoogle \in SUBSET Flows /\ lapsed \in SUBSET Flows /\ spent \in SUBSET Flows
  /\ req \in [Slots -> Request]
  /\ \A r \in Slots : req[r].pc \in {"end", "answered"} => req[r].answer # "none"
  /\ page \in [loading : BOOLEAN, loggingOut : BOOLEAN, saving : BOOLEAN,
               error : {"none", "signedOut", "failed"}]
  /\ faults \in 0..MaxFaults

Live(s) == store[s].kept
Fault == faults < MaxFaults /\ faults' = faults + 1

\* r goes on at pc; r is answered, and express-session ends the request.
Becomes(r, q) == req' = [req EXCEPT ![r] = q]
GoTo(r, pc) == Becomes(r, [req[r] EXCEPT !.pc = pc])
Answer(r, answer) == Becomes(r, [req[r] EXCEPT !.answer = answer, !.pc = "end"])
-----------------------------------------------------------------------------
(* The browser.                                                              *)

\* fetch, or a navigation: the cookies are read now.
Sent(kind, flow) ==
  [Idle EXCEPT !.kind = kind, !.pc = "sent", !.flow = flow, !.token = csrf, !.sid = jar]

Send(r, kind, flow) == req[r].pc = "idle" /\ Becomes(r, Sent(kind, flow))

\* The Dashboard of a fresh page: fetchData on mount.
NewPage == [loading |-> TRUE, loggingOut |-> FALSE, saving |-> FALSE, error |-> "none"]

OfPage(r) == req[r].pc # "idle" /\ req[r].kind \notin {"begin", "callback"}

\* The user opens the page again, once it has nothing under way.
Open(r) ==
  /\ \A p \in Slots : ~OfPage(p)
  /\ Send(r, "events", NoFlow)
  /\ page' = NewPage
  /\ UNCHANGED <<redis, world, jar, csrf, begun, atGoogle, spent, faults>>

\* Log out: offered once nothing is loading and no sign-in is asked for.
ClickLogout(r) ==
  /\ ~page.loading /\ page.error # "signedOut" /\ ~page.loggingOut
  /\ Send(r, "logout", NoFlow)
  /\ page' = [page EXCEPT !.loggingOut = TRUE]
  /\ UNCHANGED <<redis, world, jar, csrf, begun, atGoogle, spent, faults>>

\* ReviewCard's confirmation and EmailInput's submission.
ClickSave(r) ==
  /\ page.error # "signedOut" /\ ~page.saving
  /\ Send(r, "save", NoFlow)
  /\ page' = [page EXCEPT !.saving = TRUE]
  /\ UNCHANGED <<redis, world, jar, csrf, begun, atGoogle, spent, faults>>

\* The sign-in link, followed in a tab of its own.
ClickSignIn(r) ==
  /\ begun < MaxFlows
  /\ begun' = begun + 1
  /\ Send(r, "begin", begun')
  /\ UNCHANGED <<redis, world, jar, csrf, atGoogle, page, spent, faults>>

\* Google sends the browser back, or the user loads the callback URL again.
Return(r, f) ==
  /\ f \in atGoogle
  /\ Send(r, "callback", f)
  /\ UNCHANGED <<redis, world, browser, spent, faults>>

\* Mutant of Settle: the flag is cleared where the list is set, and only there.
SettleOnSuccess(loads, answer) ==
  CASE loads /\ answer = "ok" ->
         [page EXCEPT !.loading = FALSE, !.error = "none"]
    [] loads /\ answer = "refused" ->
         [page EXCEPT !.error = "signedOut", !.saving = FALSE]
    [] loads /\ answer = "failed" ->
         [page EXCEPT !.error = "failed"]
    [] OTHER -> page

\* What fetchData makes of an answer.  The sign-in screen unmounts the tools.
Settle(loads, answer) ==
  CASE loads /\ answer = "ok" ->
         [page EXCEPT !.loading = FALSE, !.error = "none"]
    [] loads /\ answer = "refused" ->
         [page EXCEPT !.loading = FALSE, !.error = "signedOut",
                      !.saving = FALSE]
    [] loads /\ answer = "failed" ->
         [page EXCEPT !.loading = FALSE, !.error = "failed"]
    [] OTHER -> page

\* The handlers of the Dashboard and its children.  A logout or a save that
\* succeeded fetches again, in the slot its own request leaves.
Handle(r, answer) ==
  LET kind == req[r].kind
      next == Settle(kind \in {"events", "reload"}, answer)
      again == answer = "ok" /\ kind \in {"save", "logout"}
  IN /\ page' = [next EXCEPT
                   !.loading = @ \/ again,
                   !.saving = @ /\ kind # "save",
                   !.loggingOut = @ /\ kind # "reload" /\ (kind = "logout" => again)]
     /\ Becomes(r, CASE again /\ kind = "save"   -> [Sent("events", NoFlow) EXCEPT !.sid = jar', !.token = csrf']
                     [] again /\ kind = "logout" -> [Sent("reload", NoFlow) EXCEPT !.sid = jar', !.token = csrf']
                     [] ~again                   -> Idle)

\* The response arrives.  A destroyed session clears the cookie; a saved one sets
\* it (rolling), whatever the jar holds by now.  ensureCsrfCookie rides on all.
Arrive(r) ==
  /\ req[r].pc = "answered"
  /\ jar' = CASE ~req[r].session.kept                          -> NoSid
              [] req[r].session.kept /\ req[r].sid \in Sids     -> req[r].sid
              [] OTHER                                          -> jar
  /\ csrf' = TRUE
  /\ atGoogle' = IF req[r].kind = "begin" /\ req[r].answer = "ok"
                 THEN atGoogle \cup {req[r].flow} ELSE atGoogle
  /\ Handle(r, req[r].answer)
  /\ UNCHANGED <<redis, world, begun, spent, faults>>

\* It never does: fetch rejects, or the navigation shows an error.
Lost(r) ==
  /\ req[r].pc = "answered"
  /\ Fault
  /\ UNCHANGED <<jar, csrf>>
  /\ Handle(r, "failed")
  /\ UNCHANGED <<redis, world, begun, atGoogle, spent>>
-----------------------------------------------------------------------------
(* The session middleware and the gates.                                     *)

\* express-session: a copy of the record the cookie names, or a new session that
\* is not written unless something is put into it.
Load(r) ==
  /\ req[r].pc = "sent"
  /\ LET q == req[r]
         known == q.sid \in Sids /\ Live(q.sid)
     IN Becomes(r, [q EXCEPT
          !.sid = IF known THEN q.sid ELSE NoSid,
          !.session = IF known THEN store[q.sid] ELSE Fresh,
          !.pc = CASE q.kind = "begin"    -> "begin"
                   [] q.kind = "callback" -> "check"
                   [] q.kind = "logout"   -> "csrf"
                   [] OTHER               -> "gate"])
  /\ UNCHANGED <<redis, world, browser, spent, faults>>

\* Redis refuses: the error handler answers 500.
LoadFails(r) ==
  /\ req[r].pc = "sent" /\ req[r].sid \in Sids
  /\ Fault
  /\ Becomes(r, [req[r] EXCEPT !.sid = NoSid, !.session = Fresh,
                               !.answer = "failed", !.pc = "answered"])
  /\ UNCHANGED <<redis, world, browser, spent>>

\* requireAuth: signed in, within the ceiling, and still a user.  Seeing the
\* caller changes lastSeenAt, so the copy will be written back.
RequireAuth(r) ==
  /\ req[r].pc = "gate"
  /\ LET q == req[r] IN
       CASE ~q.session.user -> Answer(r, "refused")
         [] q.session.user /\ (q.sid \in old \/ ~active) -> GoTo(r, "destroy")
         [] OTHER -> Becomes(r, [q EXCEPT !.dirty = TRUE,
                                          !.pc = IF q.kind = "save" THEN "csrf" ELSE "handle"])
  /\ UNCHANGED <<redis, world, browser, spent, faults>>

\* Mutant of LookupFails: an outage is taken for a user who is gone.
LookupEnds(r) ==
  /\ req[r].pc = "gate" /\ req[r].session.user /\ req[r].sid \notin old
  /\ Fault
  /\ GoTo(r, "destroy")
  /\ UNCHANGED <<redis, world, browser, spent>>

\* getUserById rejects: not an authentication failure.
LookupFails(r) ==
  /\ req[r].pc = "gate" /\ req[r].session.user /\ req[r].sid \notin old
  /\ Fault
  /\ Answer(r, "failed")
  /\ UNCHANGED <<redis, world, browser, spent>>

\* requireCsrf, before any effect: logout has no other gate.
RequireCsrf(r) ==
  /\ req[r].pc = "csrf"
  /\ IF req[r].token
     THEN GoTo(r, IF req[r].kind = "logout" THEN "destroy" ELSE "handle")
     ELSE Answer(r, "failed")
  /\ UNCHANGED <<redis, world, browser, spent, faults>>

\* The route itself: the list, the confirmation, the ingested email.
Serve(r) ==
  /\ req[r].pc = "handle"
  /\ Answer(r, "ok")
  /\ UNCHANGED <<redis, world, browser, spent, faults>>

ServeFails(r) ==
  /\ req[r].pc = "handle"
  /\ Fault
  /\ Answer(r, "failed")
  /\ UNCHANGED <<redis, world, browser, spent>>

\* The end of a request: a copy that was changed is written back whole, also over
\* a record another request has changed or destroyed since.
End(r) ==
  /\ req[r].pc = "end"
  /\ IF req[r].session.kept /\ req[r].dirty
     THEN \E s \in IF req[r].sid \in Sids THEN {req[r].sid} ELSE Sids \ drawn :
            /\ store' = [store EXCEPT ![s] = req[r].session]
            /\ drawn' = drawn \cup {s}
            /\ Becomes(r, [req[r] EXCEPT !.sid = s, !.dirty = FALSE, !.pc = "answered"])
     ELSE GoTo(r, "answered") /\ UNCHANGED <<store, drawn>>
  /\ UNCHANGED <<index, resolved, world, browser, spent, faults>>
\* Redis refuses the write; the response goes out all the same.
EndFails(r) ==
  /\ req[r].pc = "end" /\ req[r].session.kept /\ req[r].dirty
  /\ Fault
  /\ GoTo(r, "answered")
  /\ UNCHANGED <<redis, world, browser, spent>>
-----------------------------------------------------------------------------
(* Signing in.                                                               *)

\* gmailAuthController: the flow's secrets go into the session, which is written
\* before the redirect.
Begin(r) ==
  /\ req[r].pc = "begin"
  /\ LET rec == [req[r].session EXCEPT !.flow = req[r].flow] IN
     \E s \in IF req[r].sid \in Sids THEN {req[r].sid} ELSE Sids \ drawn :
       /\ store' = [store EXCEPT ![s] = rec]
       /\ drawn' = drawn \cup {s}
       /\ Becomes(r, [req[r] EXCEPT !.sid = s, !.session = rec,
                                    !.answer = "ok", !.pc = "end"])
  /\ UNCHANGED <<index, resolved, world, browser, spent, faults>>

\* readPendingOAuth against the request's copy of the session.
ReadPending(r) ==
  /\ req[r].pc = "check"
  /\ IF req[r].session.flow = req[r].flow /\ req[r].flow \notin lapsed
     THEN GoTo(r, "consume") ELSE Answer(r, "refused")
  /\ UNCHANGED <<redis, world, browser, spent, faults>>

\* consumeOAuthState: written back before the code is exchanged.
Consume(r) ==
  /\ req[r].pc = "consume"
  /\ LET rec == [req[r].session EXCEPT !.flow = NoFlow] IN
       /\ store' = [store EXCEPT ![req[r].sid] = rec]
       /\ Becomes(r, [req[r] EXCEPT !.session = rec, !.pc = "exchange"])
  /\ UNCHANGED <<index, drawn, resolved, world, browser, spent, faults>>

\* Google honours a code once; then the user and the mailbox are written.  A
\* user who is not active is refused.
Exchange(r) ==
  /\ req[r].pc = "exchange"
  /\ spent' = spent \cup {req[r].flow}
  /\ IF req[r].flow \notin spent /\ active
     THEN GoTo(r, "regenerate") ELSE Answer(r, "failed")
  /\ UNCHANGED <<redis, world, browser, faults>>

\* Mutant of Regenerate: the session that asked is the one that is signed in.
RegenerateInPlace(r) ==
  /\ req[r].pc = "regenerate"
  /\ Becomes(r, [req[r] EXCEPT !.session = [Fresh EXCEPT !.user = TRUE],
                               !.dirty = TRUE, !.pc = "establish"])
  /\ UNCHANGED <<redis, world, browser, spent, faults>>

\* establishSession: the old record is destroyed, a new id is drawn and filled.
Regenerate(r) ==
  /\ req[r].pc = "regenerate"
  /\ store' = [store EXCEPT ![req[r].sid] = Gone]
  /\ resolved' = resolved \ {req[r].sid}
  /\ \E s \in Sids \ drawn :
       /\ drawn' = drawn \cup {s}
       /\ Becomes(r, [req[r] EXCEPT !.sid = s, !.session = [Fresh EXCEPT !.user = TRUE],
                                    !.dirty = TRUE, !.pc = "establish"])
  /\ UNCHANGED <<index, world, browser, spent, faults>>

\* ... and saved ...
Establish(r) ==
  /\ req[r].pc = "establish"
  /\ store' = [store EXCEPT ![req[r].sid] = req[r].session]
  /\ Becomes(r, [req[r] EXCEPT !.dirty = FALSE, !.pc = "index"])
  /\ UNCHANGED <<index, drawn, resolved, world, browser, spent, faults>>

\* Mutant of IndexSession: a failure to index is logged and passed over.
IndexQuietly(r) ==
  /\ req[r].pc = "index"
  /\ \/ index' = index \cup {req[r].sid} /\ UNCHANGED faults
     \/ UNCHANGED index /\ Fault
  /\ resolved' = resolved \cup {req[r].sid}
  /\ Answer(r, "ok")
  /\ UNCHANGED <<store, drawn, world, browser, spent>>

\* ... and indexed; only then does it resolve.
IndexSession(r) ==
  /\ req[r].pc = "index"
  /\ index' = index \cup {req[r].sid}
  /\ resolved' = resolved \cup {req[r].sid}
  /\ Answer(r, "ok")
  /\ UNCHANGED <<store, drawn, world, browser, spent, faults>>

\* A statement of Redis, PostgreSQL or Google rejects: 500.  What was put into the
\* session by then is still written back at the end of the request.
SignInFails(r) ==
  /\ req[r].pc \in {"begin", "consume", "exchange", "regenerate", "establish", "index"}
  /\ Fault
  /\ LET q == req[r] IN
     Becomes(r, [q EXCEPT
       !.answer = "failed", !.pc = "end",
       !.session.flow = CASE q.pc = "begin"   -> q.flow
                          [] q.pc = "consume" -> NoFlow
                          [] OTHER            -> @,
       !.dirty = @ \/ q.pc \in {"begin", "consume"}])
  /\ UNCHANGED <<redis, world, browser, spent>>
-----------------------------------------------------------------------------
(* Signing out, and refusing a session that will never be valid again.       *)

\* Mutant of Outcome: requireAuth returns without refusing.
OutcomeOfLogout(r) == IF req[r].kind = "logout" THEN "ok" ELSE "none"

Outcome(r) == IF req[r].kind = "logout" THEN "ok" ELSE "refused"

\* destroySession: the record and the request's copy go first.
Destroy(r) ==
  /\ req[r].pc = "destroy"
  /\ store' = [s \in Sids |-> IF s = req[r].sid THEN Gone ELSE store[s]]
  /\ resolved' = resolved \ {req[r].sid}
  /\ Becomes(r, [req[r] EXCEPT
                   !.session = Gone,
                   !.answer = Outcome(r),
                   !.pc = IF req[r].session.user THEN "unindex" ELSE "end"])
  /\ UNCHANGED <<index, drawn, world, browser, spent, faults>>

\* Redis refuses: a logout says so, endSession does not.
DestroyFails(r) ==
  /\ req[r].pc = "destroy"
  /\ Fault
  /\ Answer(r, IF req[r].kind = "logout" THEN "failed" ELSE "refused")
  /\ UNCHANGED <<redis, world, browser, spent>>

Unindex(r) ==
  /\ req[r].pc = "unindex"
  /\ index' = index \ {req[r].sid}
  /\ GoTo(r, "end")
  /\ UNCHANGED <<store, drawn, resolved, world, browser, spent, faults>>

\* A stale member is left behind, and tolerated.
UnindexFails(r) ==
  /\ req[r].pc = "unindex"
  /\ Fault
  /\ GoTo(r, "end")
  /\ UNCHANGED <<redis, world, browser, spent>>
-----------------------------------------------------------------------------
(* Time and the operator.                                                    *)

\* Thirty days after the sign-in, used or not.
Age(s) ==
  /\ Live(s) /\ store[s].user /\ s \notin old
  /\ old' = old \cup {s}
  /\ UNCHANGED <<redis, active, lapsed, browser, spent, req, faults>>

\* Seven days without a request: Redis drops the record.
Expire(s) ==
  /\ Live(s)
  /\ \A r \in Slots : req[r].sid # s
  /\ store' = [store EXCEPT ![s] = Gone]
  /\ resolved' = resolved \ {s}
  /\ UNCHANGED <<index, drawn, world, browser, spent, req, faults>>

\* Ten minutes after the sign-in was begun.
FlowLapses(f) ==
  /\ f \in atGoogle \ lapsed
  /\ lapsed' = lapsed \cup {f}
  /\ UNCHANGED <<redis, old, active, browser, spent, req, faults>>

Disable ==
  /\ active
  /\ active' = FALSE
  /\ UNCHANGED <<redis, old, lapsed, browser, spent, req, faults>>
-----------------------------------------------------------------------------
\* The page has just been opened by a browser without cookies.
Init ==
  /\ store = [s \in Sids |-> Gone]
  /\ index = {} /\ drawn = {} /\ old = {} /\ active = TRUE
  /\ jar = NoSid /\ csrf = FALSE
  /\ begun = 0 /\ atGoogle = {} /\ lapsed = {} /\ spent = {}
  /\ \E r \in Slots : req = [p \in Slots |-> IF p = r THEN [Idle EXCEPT !.pc = "sent"] ELSE Idle]
  /\ page = NewPage
  /\ resolved = {}
  /\ faults = 0

User(r) == \/ Open(r) \/ ClickLogout(r) \/ ClickSave(r) \/ ClickSignIn(r)
           \/ \E f \in Flows : Return(r, f)

\* What the server does with a request when nothing goes wrong.
Server(r) ==
  \/ Load(r) \/ RequireAuth(r) \/ RequireCsrf(r) \/ Serve(r) \/ End(r)
  \/ Begin(r) \/ ReadPending(r) \/ Consume(r) \/ Exchange(r) \/ Regenerate(r)
  \/ Establish(r) \/ IndexSession(r) \/ Destroy(r) \/ Unindex(r)

Failure(r) == \/ LoadFails(r) \/ LookupFails(r) \/ ServeFails(r) \/ SignInFails(r)
              \/ DestroyFails(r) \/ UnindexFails(r) \/ EndFails(r) \/ Lost(r)

Next ==
  \/ \E r \in Slots : User(r) \/ Server(r) \/ Arrive(r) \/ Failure(r)
  \/ \E s \in Sids : Age(s) \/ Expire(s)
  \/ \E f \in Flows : FlowLapses(f)
  \/ Disable

Spec == Init /\ [][Next]_vars
-----------------------------------------------------------------------------
(* Properties.                                                               *)

\* A session id handed out before the sign-in never becomes a signed-in one, by
\* no interleaving of two callbacks, a logout and a late write-back
\* (session.service.ts:55-60).
AnonymousStaysAnonymous ==
  [][\A s \in Sids : Live(s) /\ ~store[s].user => ~store'[s].user]_vars

\* A session whose sign-in was reported as done is one bulk revocation can find,
\* for as long as it lives and nobody has ended it, whatever Redis refused on the
\* way (session.service.ts:90-92).
Revocable == \A s \in resolved : Live(s) => s \in index

\* A session that is still good ends by its owner's logout, by a new sign-in in
\* the same browser or by seven idle days, never because of an outage
\* (auth.middleware.ts:66-69).
Good(s) == Live(s) /\ store[s].user /\ s \notin old /\ active
GoodSessionsSurvive ==
  [][\A s \in Sids :
       Good(s) /\ ~store'[s].kept
       => \/ \E r \in Slots : req[r].sid = s /\ req[r].kind \in {"logout", "callback"}
          \/ \A r \in Slots : req[r].sid # s]_vars

\* The page never turns for nothing: while it shows loading, saving or logging out,
\* a request is under way whose end, whatever it is, will clear that
\* (Dashboard.tsx:129, 160; ReviewCard.tsx:102).
Underway(kinds) == \E r \in Slots : req[r].pc # "idle" /\ req[r].kind \in kinds
NothingTurnsForever ==
  /\ page.loading => Underway({"events", "reload"})
  /\ page.loggingOut => Underway({"logout", "reload"})
  /\ page.saving => Underway({"save"})

(* The strengthening that makes these inductive: how each request under way    *)
(* fits the store, and how two requests that carry the same session id get on. *)

SigningIn == {"check", "consume", "exchange", "regenerate", "establish", "index"}
Working == SigningIn \cup {"begin", "gate", "csrf", "handle", "destroy"}

\* A request that draws a new id is alone with it until it is indexed; any other
\* copy of a session agrees with its record on whether somebody is signed in.
Fits(q) ==
  /\ q.sid \in drawn \cup {NoSid}
  /\ q.kind \in {"begin", "callback"} => q.flow \in Flows
  /\ q.pc = "begin" => q.kind = "begin"
  /\ q.pc \in SigningIn => q.kind = "callback"
  /\ q.pc \in Working => q.session.kept
  /\ q.pc \in {"unindex", "end", "answered"} => q.answer # "none"
  /\ q.pc = "destroy" => q.kind = "logout" \/ q.sid \in old \/ ~active
  /\ q.pc \in {"establish", "index"} => q.sid \in drawn /\ q.sid # jar
  /\ q.pc = "unindex" => q.sid \notin resolved
  /\ q.sid \in drawn /\ q.session.kept /\ Live(q.sid)
       => store[q.sid].user = q.session.user

Together(q, p) ==
  q.sid = p.sid /\ q.sid \in Sids
  => /\ q.session.kept /\ p.session.kept => q.session.user = p.session.user
     /\ q.pc \notin {"establish", "index"}

\* The inductive invariant of the sessions: their records are of ids drawn, what
\* resolved is indexed, and every request fits the store and its neighbours.
IInv ==
  /\ TypeOK
  /\ \A s \in Sids : Live(s) => s \in drawn
  /\ resolved \subseteq index
  /\ \A r \in Slots : Fits(req[r])
  /\ \A r, p \in Slots : r # p => Together(req[r], req[p])
  /\ NothingTurnsForever
=============================================================================
