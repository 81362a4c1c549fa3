--------------------------- MODULE WebSessionProofs ---------------------------
(* Theorems about WebSession, for any number of overlapping requests, any set  *)
(* of session ids and any bound on sign-ins and faults.  A step changes one    *)
(* request and what it wrote; the lemmas Weave and QuietStep carry the other   *)
(* requests across, and each action then shows only how its own fits.          *)
EXTENDS WebSession, TLAPS

\* The shared state: what TypeOK says of it, and where ids have to be listed.
Shape ==
  /\ store \in [Sids -> Record]
  /\ drawn \in SUBSET Sids
  /\ index \in SUBSET drawn /\ old \in SUBSET drawn /\ resolved \in SUBSET drawn
  /\ active \in BOOLEAN /\ csrf \in BOOLEAN
  /\ jar \in drawn \cup {NoSid}
  /\ begun \in 0..MaxFlows
  /\ atGoogle \in SUBSET Flows /\ lapsed \in SUBSET Flows /\ spent \in SUBSET Flows
  /\ page \in [loading : BOOLEAN, loggingOut : BOOLEAN, saving : BOOLEAN,
               error : {"none", "signedOut", "failed"}]
  /\ faults \in 0..MaxFaults
  /\ \A s \in Sids : Live(s) => s \in drawn
  /\ resolved \subseteq index

\* The requests: each fits the shared state and its neighbours.
Woven ==
  /\ req \in [Slots -> Request]
  /\ \A r \in Slots : Fits(req[r])
  /\ \A r, p \in Slots : r # p => Together(req[r], req[p])

\* The invariant in the three parts the steps disturb separately.
LEMMA Parts == IInv <=> Shape /\ Woven /\ NothingTurnsForever
  BY DEF IInv, TypeOK, Shape, Woven, Fits

LEMMA PartsNext == IInv' <=> Shape' /\ Woven' /\ NothingTurnsForever'
  BY DEF IInv, TypeOK, Shape, Woven, Fits, Live

\* A step that puts q into slot r keeps the requests in order when q fits what the
\* step leaves, q gets on with every other request, and these still fit.
LEMMA Weave ==
  ASSUME NEW r \in Slots, NEW q \in Request, Woven,
         req' = [req EXCEPT ![r] = q],
         Fits(q)',
         \A p \in Slots \ {r} : Together(q, req[p]) /\ Together(req[p], q),
         \A x \in Request : Fits(x) /\ Together(req[r], x) /\ Together(x, req[r])
                            => Fits(x)'
  PROVE  Woven'
<1>1. req' \in [Slots -> Request]
  BY DEF Woven
<1>2. \A p \in Slots : Fits(req[p]) => req[p] \in Request
  BY DEF Woven
<1>3. ASSUME NEW p \in Slots
      PROVE  \E x \in Request : x = req'[p] /\ Fits(x)'
  <2>1. CASE p = r
    BY <2>1 DEF Woven
  <2>2. CASE p # r
    <3>1. PICK x \in Request : x = req[p]
      BY DEF Woven
    <3>2. Fits(x) /\ Together(req[r], x) /\ Together(x, req[r])
      BY <2>2, <3>1 DEF Woven
    <3>3. Fits(x)'
      BY <3>2
    <3> QED
      BY <2>2, <3>1, <3>3 DEF Woven
  <2> QED
    BY <2>1, <2>2
<1>4. ASSUME NEW p \in Slots
      PROVE  Fits(req[p])'
  <2>1. PICK x \in Request : x = req'[p] /\ Fits(x)'
    BY <1>3
  <2> QED
    BY <2>1 DEF Fits, Live
<1>5. ASSUME NEW s \in Slots, NEW p \in Slots, s # p
      PROVE  Together(req[s], req[p])'
  BY <1>5 DEF Woven, Together
<1> QED
  BY <1>1, <1>4, <1>5 DEF Woven

\* A server-side step never ends a request or changes its kind, so what the page
\* waits for stays under way.
LEMMA ServerStep ==
  ASSUME NEW r \in Slots, NEW q \in Request, IInv,
         req' = [req EXCEPT ![r] = q],
         page' = page, q.kind = req[r].kind, q.pc # "idle",
         Shape', Woven'
  PROVE  IInv'
<1>1. NothingTurnsForever
  BY DEF IInv
<1>2. req \in [Slots -> Request]
  BY DEF IInv, TypeOK
<1>3. ASSUME NEW kinds, Underway(kinds)
      PROVE  Underway(kinds)'
  BY <1>2, <1>3 DEF Underway
<1>4. NothingTurnsForever'
  BY <1>1, <1>3 DEF NothingTurnsForever
<1> QED
  BY <1>4, PartsNext

\* Nor does it disturb anybody when it leaves the store and the cookie alone and
\* the request keeps its id and its view of it, or gives the id up.
LEMMA QuietStep ==
  ASSUME NEW r \in Slots, NEW q \in Request, IInv,
         req' = [req EXCEPT ![r] = q],
         UNCHANGED <<redis, world, jar, csrf, begun, atGoogle, page>>,
         spent' \in SUBSET Flows, faults' \in 0..MaxFaults,
         q.kind = req[r].kind, q.pc # "idle",
         q.sid = NoSid \/ /\ q.sid = req[r].sid
                          /\ q.session.kept => /\ req[r].session.kept
                                               /\ q.session.user = req[r].session.user,
         q.pc \in {"establish", "index"} => req[r].pc \in {"establish", "index"},
         Fits(q)
  PROVE  IInv'
<1> USE SessionAssumption
<1>1. Shape /\ Woven
  BY Parts
<1>2. Shape'
  BY <1>1 DEF Shape, redis, world, Live
<1>3. Fits(q)'
  BY DEF Fits, Live, redis, world
<1>4. \A x \in Request : Fits(x) => Fits(x)'
  BY DEF Fits, Live, redis, world
<1>5. ASSUME NEW p \in Slots \ {r}
      PROVE  Together(q, req[p]) /\ Together(req[p], q)
  <2>1. Together(req[r], req[p]) /\ Together(req[p], req[r])
    BY <1>1 DEF Woven
  <2> QED
    BY <2>1 DEF Together
<1>6. Woven'
  BY ONLY <1>1, <1>3, <1>4, <1>5, Weave, req' = [req EXCEPT ![r] = q], r \in Slots, q \in Request
<1> QED
  BY ONLY <1>2, <1>6, ServerStep, IInv, req' = [req EXCEPT ![r] = q], r \in Slots, q \in Request,
     page' = page, q.kind = req[r].kind, q.pc # "idle"
-----------------------------------------------------------------------------
Answers == {"none", "ok", "refused", "failed"}

LEMMA Fields ==
  ASSUME NEW o \in Request
  PROVE  /\ o.kind \in Kinds /\ o.pc \in PCs /\ o.flow \in Flows \cup {NoFlow}
         /\ o.token \in BOOLEAN /\ o.sid \in Sids \cup {NoSid} /\ o.session \in Record
         /\ o.dirty \in BOOLEAN /\ o.answer \in Answers
  BY DEF Request, Answers

\* What the invariant gives a step of r to start from.
LEMMA AtHand ==
  ASSUME IInv, NEW r \in Slots
  PROVE  /\ req \in [Slots -> Request] /\ req[r] \in Request /\ Fits(req[r])
         /\ store \in [Sids -> Record] /\ Shape /\ Woven
         /\ spent \in SUBSET Flows /\ faults \in 0..MaxFaults
  BY Parts DEF Shape, Woven

\* The two fault counters a step can leave.
LEMMA FaultStep ==
  ASSUME IInv, Fault \/ UNCHANGED faults
  PROVE  faults' \in 0..MaxFaults
  BY SessionAssumption DEF IInv, TypeOK, Fault

\* A request with everything but its kind, flow and token replaced.
Turned(o, pc, sid, session, dirty, answer) ==
  [kind |-> o.kind, pc |-> pc, flow |-> o.flow, token |-> o.token,
   sid |-> sid, session |-> session, dirty |-> dirty, answer |-> answer]

LEMMA TurnedType ==
  ASSUME NEW o \in Request, NEW pc \in PCs, NEW sid \in Sids \cup {NoSid},
         NEW session \in Record, NEW dirty \in BOOLEAN, NEW answer \in Answers
  PROVE  Turned(o, pc, sid, session, dirty, answer) \in Request
  BY DEF Turned, Request, Answers

\* The two ways the code writes most of its steps.
LEMMA GoingTo ==
  ASSUME NEW r \in Slots, NEW pc \in PCs, req \in [Slots -> Request], GoTo(r, pc)
  PROVE  req' = [req EXCEPT ![r] =
           Turned(req[r], pc, req[r].sid, req[r].session, req[r].dirty, req[r].answer)]
<1>1. req[r] \in Request
  OBVIOUS
<1>2. [req[r] EXCEPT !.pc = pc]
        = Turned(req[r], pc, req[r].sid, req[r].session, req[r].dirty, req[r].answer)
  BY <1>1 DEF Turned, Request
<1> QED
  BY <1>2 DEF GoTo, Becomes

LEMMA Answering ==
  ASSUME NEW r \in Slots, NEW answer \in Answers, req \in [Slots -> Request],
         Answer(r, answer)
  PROVE  req' = [req EXCEPT ![r] =
           Turned(req[r], "end", req[r].sid, req[r].session, req[r].dirty, answer)]
<1>1. req[r] \in Request
  OBVIOUS
<1>2. ASSUME NEW o \in Request
      PROVE  [o EXCEPT !.answer = answer, !.pc = "end"]
               = Turned(o, "end", o.sid, o.session, o.dirty, answer)
  <2> DEFINE m == [o EXCEPT !.answer = answer]
  <2>1. m \in Request
    BY DEF Request, Answers
  <2>2. m = Turned(o, o.pc, o.sid, o.session, o.dirty, answer)
    BY DEF Turned, Request
  <2>3. \A x \in Request :
          [x EXCEPT !.pc = "end"] = Turned(x, "end", x.sid, x.session, x.dirty, x.answer)
    BY DEF Turned, Request
  <2>4. [o EXCEPT !.answer = answer, !.pc = "end"] = [m EXCEPT !.pc = "end"]
    OBVIOUS
  <2> HIDE DEF m
  <2> QED
    BY <2>1, <2>2, <2>3, <2>4 DEF Turned
<1> QED
  BY <1>1, <1>2 DEF Answer, Becomes

\* A request answered where its copy stands, and one that goes on to another of its
\* steps: neither disturbs anybody.
LEMMA QuietAnswer ==
  ASSUME IInv, NEW r \in Slots, NEW answer \in Answers \ {"none"}, Answer(r, answer),
         UNCHANGED <<redis, world, jar, csrf, begun, atGoogle, page>>,
         spent' \in SUBSET Flows, faults' \in 0..MaxFaults
  PROVE  IInv'
<1>1. req[r] \in Request /\ Fits(req[r]) /\ req \in [Slots -> Request]
  BY AtHand
<1> DEFINE q == Turned(req[r], "end", req[r].sid, req[r].session, req[r].dirty, answer)
<1>2. req' = [req EXCEPT ![r] = q]
  BY <1>1, Answering
<1>3. q \in Request
  BY <1>1, TurnedType, Fields DEF PCs
<1>4. Fits(q)
  BY <1>1 DEF Fits, Turned, Working, SigningIn
<1>5. /\ q.kind = req[r].kind /\ q.pc = "end" /\ q.sid = req[r].sid
      /\ q.session = req[r].session
  BY DEF Turned
<1> HIDE DEF q
<1> QED
  BY <1>2, <1>3, <1>4, <1>5, QuietStep

LEMMA QuietMove ==
  ASSUME IInv, NEW r \in Slots, NEW pc \in PCs \ {"idle"}, GoTo(r, pc),
         UNCHANGED <<redis, world, jar, csrf, begun, atGoogle, page>>,
         spent' \in SUBSET Flows, faults' \in 0..MaxFaults,
         Fits(Turned(req[r], pc, req[r].sid, req[r].session, req[r].dirty, req[r].answer)),
         pc \notin {"establish", "index"}
  PROVE  IInv'
<1>1. req[r] \in Request /\ Fits(req[r]) /\ req \in [Slots -> Request]
  BY AtHand
<1> DEFINE q == Turned(req[r], pc, req[r].sid, req[r].session, req[r].dirty, req[r].answer)
<1>2. req' = [req EXCEPT ![r] = q]
  BY <1>1, GoingTo
<1>3. q \in Request
  BY <1>1, TurnedType, Fields
<1>4. Fits(q)
  OBVIOUS
<1>5. /\ q.kind = req[r].kind /\ q.pc = pc /\ q.sid = req[r].sid
      /\ q.session = req[r].session
  BY DEF Turned
<1> HIDE DEF q
<1> QED
  BY <1>2, <1>3, <1>4, <1>5, QuietStep

\* The gates: they move the request on, answer it, or mark its copy as changed.
LEMMA GateSteps ==
  ASSUME IInv, NEW r \in Slots,
         RequireAuth(r) \/ LookupFails(r) \/ RequireCsrf(r) \/ Serve(r) \/ ServeFails(r)
  PROVE  IInv'
<1>1. req[r] \in Request /\ Fits(req[r]) /\ req \in [Slots -> Request] /\ spent \in SUBSET Flows
  BY AtHand
<1>2. faults' \in 0..MaxFaults
  BY FaultStep DEF RequireAuth, LookupFails, RequireCsrf, Serve, ServeFails
<1>3. UNCHANGED <<redis, world, jar, csrf, begun, atGoogle, page, spent>>
  BY DEF RequireAuth, LookupFails, RequireCsrf, Serve, ServeFails, browser
<1>4. ASSUME NEW answer \in Answers \ {"none"}, Answer(r, answer)
      PROVE  IInv'
  BY <1>1, <1>2, <1>3, <1>4, QuietAnswer
<1>5. ASSUME NEW pc \in {"csrf", "handle", "destroy"}, GoTo(r, pc), req[r].pc \in {"gate", "csrf"},
             pc = "destroy" => req[r].kind = "logout" \/ req[r].sid \in old \/ ~active
      PROVE  IInv'
  <2>1. Fits(Turned(req[r], pc, req[r].sid, req[r].session, req[r].dirty, req[r].answer))
    BY <1>1, <1>5 DEF Fits, Turned, Working, SigningIn
  <2>2. pc \in PCs \ {"idle"} /\ pc \notin {"establish", "index"}
    BY DEF PCs
  <2> QED
    BY <1>1, <1>2, <1>3, <1>5, <2>1, <2>2, QuietMove
<1>6. CASE RequireAuth(r)
  <2>1. CASE ~req[r].session.user
    BY <1>4, <1>6, <2>1 DEF RequireAuth, Answers
  <2>2. CASE req[r].session.user /\ (req[r].sid \in old \/ ~active)
    BY <1>5, <1>6, <2>2 DEF RequireAuth
  <2>3. CASE req[r].session.user /\ ~(req[r].sid \in old \/ ~active)
    <3> DEFINE q == [req[r] EXCEPT !.dirty = TRUE,
                                   !.pc = IF req[r].kind = "save" THEN "csrf" ELSE "handle"]
    <3>1. q \in Request
      BY <1>1 DEF Request, PCs
    <3>2. /\ q.kind = req[r].kind /\ q.sid = req[r].sid /\ q.session = req[r].session
          /\ q.flow = req[r].flow /\ q.answer = req[r].answer /\ q.pc \in {"csrf", "handle"}
      BY <1>1 DEF Request
    <3>3. req' = [req EXCEPT ![r] = q]
      BY <1>6, <2>3 DEF RequireAuth, Becomes
    <3> HIDE DEF q
    <3>4. Fits(q)
      BY <1>1, <1>6, <3>2 DEF Fits, Working, SigningIn, RequireAuth
    <3> QED
      BY <1>1, <1>2, <1>3, <3>1, <3>2, <3>3, <3>4, QuietStep
  <2> QED
    BY <2>1, <2>2, <2>3
<1>7. CASE LookupFails(r)
  BY <1>4, <1>7 DEF LookupFails, Answers
<1>8. CASE RequireCsrf(r)
  <2>1. CASE ~req[r].token
    BY <1>4, <1>8, <2>1 DEF RequireCsrf, Answers
  <2>2. CASE req[r].token
    BY <1>5, <1>8, <2>2 DEF RequireCsrf
  <2> QED
    BY <2>1, <2>2
<1>9. CASE Serve(r) \/ ServeFails(r)
  BY <1>4, <1>9 DEF Serve, ServeFails, Answers
<1> QED
  BY <1>6, <1>7, <1>8, <1>9

\* The steps of a sign-in and of a logout that write nothing to the session store.
LEMMA QuietSignIn ==
  ASSUME IInv, NEW r \in Slots, ReadPending(r) \/ Exchange(r)
  PROVE  IInv'
<1>1. req[r] \in Request /\ Fits(req[r]) /\ spent \in SUBSET Flows
  BY AtHand
<1>2. faults' \in 0..MaxFaults
  BY FaultStep DEF ReadPending, Exchange
<1>3. UNCHANGED <<redis, world, jar, csrf, begun, atGoogle, page>>
  BY DEF ReadPending, Exchange, browser
<1>4. spent' \in SUBSET Flows
  BY <1>1 DEF ReadPending, Exchange, Fits, SigningIn
<1>5. CASE Answer(r, "refused") \/ Answer(r, "failed")
  BY <1>2, <1>3, <1>4, <1>5, QuietAnswer DEF Answers
<1>6. ASSUME NEW pc \in {"consume", "regenerate"}, GoTo(r, pc)
      PROVE  IInv'
  <2>1. Fits(Turned(req[r], pc, req[r].sid, req[r].session, req[r].dirty, req[r].answer))
    BY <1>1, <1>6 DEF Fits, Turned, Working, SigningIn, ReadPending, Exchange
  <2>2. pc \in PCs \ {"idle"} /\ pc \notin {"establish", "index"}
    BY DEF PCs
  <2> QED
    BY <1>2, <1>3, <1>4, <1>6, <2>1, <2>2, QuietMove
<1> QED
  BY <1>5, <1>6 DEF ReadPending, Exchange

LEMMA QuietFailures ==
  ASSUME IInv, NEW r \in Slots, DestroyFails(r) \/ UnindexFails(r) \/ EndFails(r)
  PROVE  IInv'
<1>1. req[r] \in Request /\ Fits(req[r]) /\ spent \in SUBSET Flows
  BY AtHand
<1>2. faults' \in 0..MaxFaults
  BY FaultStep DEF DestroyFails, UnindexFails, EndFails
<1>3. UNCHANGED <<redis, world, jar, csrf, begun, atGoogle, page, spent>>
  BY DEF DestroyFails, UnindexFails, EndFails, browser
<1>4. CASE Answer(r, IF req[r].kind = "logout" THEN "failed" ELSE "refused")
  BY <1>1, <1>2, <1>3, <1>4, QuietAnswer DEF Answers
<1>5. ASSUME NEW pc \in {"end", "answered"}, GoTo(r, pc), req[r].pc \in {"unindex", "end"}
      PROVE  IInv'
  <2>1. Fits(Turned(req[r], pc, req[r].sid, req[r].session, req[r].dirty, req[r].answer))
    BY <1>1, <1>5 DEF Fits, Turned, Working, SigningIn
  <2>2. pc \in PCs \ {"idle"} /\ pc \notin {"establish", "index"}
    BY DEF PCs
  <2> QED
    BY <1>1, <1>2, <1>3, <1>5, <2>1, <2>2, QuietMove
<1> QED
  BY <1>4, <1>5 DEF DestroyFails, UnindexFails, EndFails

\* A sign-in that fails keeps its session id: a new id it has drawn is then only
\* one that somebody is signed in under, as its copy already says.
LEMMA SignInFailsStep ==
  ASSUME IInv, NEW r \in Slots, SignInFails(r)
  PROVE  IInv'
<1>1. req[r] \in Request /\ Fits(req[r]) /\ spent \in SUBSET Flows
  BY AtHand
<1>2. faults' \in 0..MaxFaults
  BY FaultStep DEF SignInFails
<1>3. UNCHANGED <<redis, world, jar, csrf, begun, atGoogle, page, spent>>
  BY DEF SignInFails, browser
<1> DEFINE o == req[r]
           flow == CASE o.pc = "begin"   -> o.flow
                     [] o.pc = "consume" -> NoFlow
                     [] OTHER            -> o.session.flow
           q == [o EXCEPT !.answer = "failed", !.pc = "end", !.session.flow = flow,
                          !.dirty = @ \/ o.pc \in {"begin", "consume"}]
<1>4. flow \in Flows \cup {NoFlow}
  BY <1>1, Fields DEF Record
<1>5. req' = [req EXCEPT ![r] = q]
  BY DEF SignInFails, Becomes
<1>6. q \in Request /\ q.session = [o.session EXCEPT !.flow = flow]
  <2> HIDE DEF flow
  <2>1. [o.session EXCEPT !.flow = flow] \in Record
    BY <1>1, <1>4, Fields DEF Record
  <2>2. (o.dirty \/ o.pc \in {"begin", "consume"}) \in BOOLEAN
    OBVIOUS
  <2> QED
    BY <1>1, <2>1, <2>2 DEF Request, PCs
<1>7. /\ q.kind = o.kind /\ q.sid = o.sid /\ q.flow = o.flow
      /\ q.answer = "failed" /\ q.pc = "end"
  BY <1>1 DEF Request
<1>8. q.session.kept = o.session.kept /\ q.session.user = o.session.user
  <2> HIDE DEF q, flow
  <2> QED
    BY <1>1, <1>6, Fields DEF Record
<1> HIDE DEF q
<1>9. Fits(q)
  BY <1>1, <1>7, <1>8 DEF Fits, Working, SigningIn
<1> QED
  BY <1>1, <1>2, <1>3, <1>5, <1>6, <1>7, <1>8, <1>9, QuietStep

LEMMA LoadFailsStep ==
  ASSUME IInv, NEW r \in Slots, LoadFails(r)
  PROVE  IInv'
<1>1. req[r] \in Request /\ Fits(req[r]) /\ spent \in SUBSET Flows /\ Shape
  BY AtHand
<1>2. faults' \in 0..MaxFaults
  BY FaultStep DEF LoadFails
<1>3. UNCHANGED <<redis, world, jar, csrf, begun, atGoogle, page, spent>>
  BY DEF LoadFails, browser
<1> DEFINE q == [req[r] EXCEPT !.sid = NoSid, !.session = Fresh,
                               !.answer = "failed", !.pc = "answered"]
<1>4. Fresh \in Record
  BY DEF Fresh, Gone, Record
<1>5. q \in Request
  BY <1>1, <1>4 DEF Request, PCs
<1>6. /\ q.kind = req[r].kind /\ q.sid = NoSid /\ q.flow = req[r].flow
      /\ q.answer = "failed" /\ q.pc = "answered"
  BY <1>1 DEF Request
<1>7. req' = [req EXCEPT ![r] = q]
  BY DEF LoadFails, Becomes
<1> HIDE DEF q
<1>8. Fits(q)
  BY <1>1, <1>6, SessionAssumption DEF Fits, Working, SigningIn, Shape
<1> QED
  BY <1>1, <1>2, <1>3, <1>5, <1>6, <1>7, <1>8, QuietStep
-----------------------------------------------------------------------------
\* A copy read from the store agrees with every other copy of the same session.
LEMMA LoadStep ==
  ASSUME IInv, NEW r \in Slots, Load(r)
  PROVE  IInv'
<1>1. req[r] \in Request /\ Fits(req[r]) /\ Shape /\ Woven
  BY AtHand
<1> DEFINE o == req[r]
           known == o.sid \in Sids /\ Live(o.sid)
           sid == IF known THEN o.sid ELSE NoSid
           session == IF known THEN store[o.sid] ELSE Fresh
           pc == CASE o.kind = "begin"    -> "begin"
                   [] o.kind = "callback" -> "check"
                   [] o.kind = "logout"   -> "csrf"
                   [] OTHER               -> "gate"
           e == [o EXCEPT !.sid = sid, !.session = session, !.pc = pc]
<1>2. UNCHANGED <<redis, world, browser, spent, faults>>
  BY DEF Load
<1>3. req' = [req EXCEPT ![r] = e]
  BY DEF Load, Becomes
<1>4. session \in Record /\ session.kept
  BY <1>1, Fields DEF Shape, Record, Fresh, Gone, Live
<1>5. pc \in {"begin", "check", "csrf", "gate"}
  OBVIOUS
<1>6. sid \in Sids \cup {NoSid}
  OBVIOUS
<1>7. PICK q \in Request :
        /\ q = e
        /\ q.kind = o.kind /\ q.sid = sid /\ q.session = session /\ q.flow = o.flow
        /\ q.pc = pc /\ q.answer = o.answer
  <2> HIDE DEF session, pc, sid
  <2>1. e \in Request
    BY <1>1, <1>4, <1>5, <1>6 DEF Request, PCs
  <2>2. /\ e.kind = o.kind /\ e.sid = sid /\ e.session = session /\ e.flow = o.flow
        /\ e.pc = pc /\ e.answer = o.answer
    BY <1>1, <1>4, <1>5, <1>6 DEF Request
  <2> QED
    BY ONLY <2>1, <2>2
<1> HIDE DEF e
<1>8. q.pc = "begin" => q.kind = "begin"
  BY <1>7
<1>9. q.pc = "check" => q.kind = "callback"
  BY <1>7
<1>10. q.sid = NoSid \/ (q.sid = o.sid /\ Live(o.sid) /\ q.session = store[o.sid])
  BY <1>7
<1> HIDE DEF session, pc, sid, known
<1>11. Fits(q)
  BY <1>1, <1>4, <1>5, <1>7, <1>8, <1>9, <1>10, SessionAssumption
     DEF Fits, Working, SigningIn, Shape
<1>12. Fits(q)' /\ \A x \in Request : Fits(x) => Fits(x)'
  BY <1>2, <1>11 DEF Fits, Live, redis, world, browser
<1>13. ASSUME NEW p \in Slots \ {r}
       PROVE  Together(q, req[p]) /\ Together(req[p], q)
  <2>1. Together(req[p], req[r]) /\ Fits(req[p])
    BY <1>1 DEF Woven
  <2> QED
    BY <1>1, <1>5, <1>7, <1>10, <2>1, SessionAssumption DEF Together, Fits, Shape
<1>14. Woven'
  BY ONLY <1>1, <1>3, <1>7, <1>12, <1>13, Weave, r \in Slots
<1>15. Shape'
  BY <1>1, <1>2 DEF Shape, redis, world, browser, Live
<1> QED
  BY <1>2, <1>3, <1>5, <1>7, <1>14, <1>15, ServerStep DEF browser

\* A request that writes its copy whole, to the id it has or to a new one: every
\* other copy of that session already agreed with it.
LEMMA WriteStep ==
  ASSUME NEW r \in Slots, NEW q \in Request, IInv,
         req' = [req EXCEPT ![r] = q],
         q.sid \in Sids, q.session.kept,
         store' = [store EXCEPT ![q.sid] = q.session],
         drawn' = drawn \cup {q.sid},
         UNCHANGED <<index, resolved, world, browser, spent, faults>>,
         q.kind = req[r].kind, q.pc # "idle",
         q.pc \in {"establish", "index"} => req[r].pc \in {"establish", "index"},
         \/ q.sid \notin drawn /\ q.pc \notin {"establish", "index"}
         \/ /\ q.sid = req[r].sid /\ req[r].session.kept
            /\ q.session.user = req[r].session.user,
         Fits(q)'
  PROVE  IInv'
<1> USE SessionAssumption
<1>1. Shape /\ Woven /\ Fits(req[r]) /\ q.session \in Record
  BY AtHand, Fields
<1>2. \A s \in Sids : store'[s] = IF s = q.sid THEN q.session ELSE store[s]
  BY <1>1 DEF Shape
<1>3. store' \in [Sids -> Record]
  BY <1>1 DEF Shape
<1>4. Shape'
  BY <1>1, <1>2, <1>3 DEF Shape, world, browser, Live
<1>5. ASSUME NEW x \in Request, Fits(x), Together(req[r], x), Together(x, req[r])
      PROVE  Fits(x)'
  <2>1. x.sid = q.sid => q.sid = req[r].sid /\ req[r].session.kept
                         /\ q.session.user = req[r].session.user
    BY <1>5 DEF Fits
  <2>2. x.sid \in drawn /\ x.session.kept /\ Live(x.sid)'
          => store'[x.sid].user = x.session.user
    BY <1>1, <1>2, <1>5, <2>1 DEF Together, Fits, Live, Shape
  <2> QED
    BY <1>1, <1>5, <2>2 DEF Fits, world, browser, Shape
<1>6. ASSUME NEW p \in Slots \ {r}
      PROVE  Together(q, req[p]) /\ Together(req[p], q)
  <2>1. Together(req[r], req[p]) /\ Together(req[p], req[r]) /\ Fits(req[p])
    BY <1>1 DEF Woven
  <2>2. q.sid \notin drawn => req[p].sid # q.sid
    BY <2>1 DEF Fits
  <2> QED
    BY <2>1, <2>2 DEF Together
<1>7. Woven'
  BY ONLY <1>1, <1>5, <1>6, Weave, req' = [req EXCEPT ![r] = q], r \in Slots, q \in Request,
     Fits(q)'
<1> QED
  BY <1>4, <1>7, ServerStep DEF browser

LEMMA EndStep ==
  ASSUME IInv, NEW r \in Slots, End(r)
  PROVE  IInv'
<1>1. /\ req[r] \in Request /\ Fits(req[r]) /\ Shape
      /\ spent \in SUBSET Flows /\ faults \in 0..MaxFaults
  BY AtHand
<1>2. UNCHANGED <<index, resolved, world, browser, spent, faults>>
  BY DEF End
<1>3. CASE ~(req[r].session.kept /\ req[r].dirty)
  <2>1. GoTo(r, "answered") /\ UNCHANGED <<store, drawn>>
    BY <1>3 DEF End
  <2>2. Fits(Turned(req[r], "answered", req[r].sid, req[r].session, req[r].dirty, req[r].answer))
    BY <1>1 DEF Fits, Turned, Working, SigningIn, End
  <2>3. "answered" \in PCs \ {"idle"}
    BY DEF PCs
  <2> QED
    BY <1>1, <1>2, <2>1, <2>2, <2>3, QuietMove DEF redis, browser
<1>4. CASE req[r].session.kept /\ req[r].dirty
  <2>1. PICK s \in IF req[r].sid \in Sids THEN {req[r].sid} ELSE Sids \ drawn :
          /\ store' = [store EXCEPT ![s] = req[r].session]
          /\ drawn' = drawn \cup {s}
          /\ Becomes(r, [req[r] EXCEPT !.sid = s, !.dirty = FALSE, !.pc = "answered"])
    BY <1>4 DEF End
  <2>2. s \in Sids /\ (s = req[r].sid \/ s \notin drawn)
    OBVIOUS
  <2> DEFINE e == [req[r] EXCEPT !.sid = s, !.dirty = FALSE, !.pc = "answered"]
  <2>3. PICK q \in Request : q = e
    BY <1>1, <2>2 DEF Request, PCs
  <2>4. /\ q.kind = req[r].kind /\ q.sid = s /\ q.session = req[r].session
        /\ q.flow = req[r].flow /\ q.pc = "answered" /\ q.answer = req[r].answer
    BY <1>1, <2>3 DEF Request
  <2>5. req' = [req EXCEPT ![r] = q]
    BY <2>1, <2>3 DEF Becomes
  <2>6. store'[s] = req[r].session
    BY <1>1, <2>1, <2>2 DEF Shape
  <2>7. Fits(q)'
    BY <1>1, <2>1, <2>4, <2>6 DEF Fits, Live, End, Working, SigningIn
  <2> QED
    BY <1>2, <1>4, <2>1, <2>2, <2>4, <2>5, <2>7, WriteStep
<1> QED
  BY <1>3, <1>4

LEMMA BeginStep ==
  ASSUME IInv, NEW r \in Slots, Begin(r)
  PROVE  IInv'
<1>1. req[r] \in Request /\ Fits(req[r]) /\ Shape
  BY AtHand
<1>2. UNCHANGED <<index, resolved, world, browser, spent, faults>>
  BY DEF Begin
<1>3. PICK rec \in Record : rec = [req[r].session EXCEPT !.flow = req[r].flow]
  BY <1>1, Fields DEF Record
<1>4. rec.user = req[r].session.user /\ rec.kept = req[r].session.kept /\ rec.kept
  BY <1>1, <1>3, Fields DEF Record, Fits, Begin, Working
<1>5. PICK s \in IF req[r].sid \in Sids THEN {req[r].sid} ELSE Sids \ drawn :
        /\ store' = [store EXCEPT ![s] = rec]
        /\ drawn' = drawn \cup {s}
        /\ Becomes(r, [req[r] EXCEPT !.sid = s, !.session = rec, !.answer = "ok", !.pc = "end"])
  BY <1>3 DEF Begin
<1>6. s \in Sids /\ (s = req[r].sid \/ s \notin drawn)
  OBVIOUS
<1> DEFINE e == [req[r] EXCEPT !.sid = s, !.session = rec, !.answer = "ok", !.pc = "end"]
<1>7. PICK q \in Request : q = e
  BY <1>1, <1>6 DEF Request, PCs
<1>8. /\ q.kind = req[r].kind /\ q.sid = s /\ q.session = rec
      /\ q.flow = req[r].flow /\ q.pc = "end" /\ q.answer = "ok"
  BY <1>1, <1>7 DEF Request
<1>9. req' = [req EXCEPT ![r] = q]
  BY <1>5, <1>7 DEF Becomes
<1>10. store'[s] = rec
  BY <1>1, <1>5, <1>6 DEF Shape
<1>11. Fits(q)'
  BY <1>1, <1>5, <1>8, <1>10 DEF Fits, Live, Working, SigningIn
<1> QED
  BY <1>2, <1>4, <1>5, <1>6, <1>8, <1>9, <1>11, WriteStep

\* Consuming the pending flow.  A copy without an id of its own has no record to
\* write to.
LEMMA ConsumeStep ==
  ASSUME IInv, NEW r \in Slots, Consume(r)
  PROVE  IInv'
<1>1. /\ req[r] \in Request /\ Fits(req[r]) /\ Shape
      /\ spent \in SUBSET Flows /\ faults \in 0..MaxFaults
  BY AtHand
<1>2. UNCHANGED <<index, drawn, resolved, world, browser, spent, faults>>
  BY DEF Consume
<1>3. PICK rec \in Record : rec = [req[r].session EXCEPT !.flow = NoFlow]
  BY <1>1, Fields DEF Record
<1>4. rec.user = req[r].session.user /\ rec.kept = req[r].session.kept /\ rec.kept
  BY <1>1, <1>3, Fields DEF Record, Fits, Consume, Working, SigningIn
<1>5. /\ store' = [store EXCEPT ![req[r].sid] = rec]
      /\ Becomes(r, [req[r] EXCEPT !.session = rec, !.pc = "exchange"])
  BY <1>3 DEF Consume
<1>6. PICK q \in Request : q = [req[r] EXCEPT !.session = rec, !.pc = "exchange"]
  BY <1>1 DEF Request, PCs
<1>7. /\ q.kind = req[r].kind /\ q.sid = req[r].sid /\ q.session = rec
      /\ q.flow = req[r].flow /\ q.pc = "exchange" /\ q.answer = req[r].answer
  BY <1>1, <1>6 DEF Request
<1>8. req' = [req EXCEPT ![r] = q]
  BY <1>5, <1>6 DEF Becomes
<1>9. CASE req[r].sid \in Sids
  <2>1. store'[q.sid] = rec
    BY <1>1, <1>5, <1>7, <1>9 DEF Shape
  <2>2. req[r].sid \in drawn
    BY <1>1, <1>9, SessionAssumption DEF Fits
  <2>3. Fits(q)'
    <3>1. q.kind = "callback" /\ q.flow \in Flows
      BY <1>1, <1>7 DEF Fits, SigningIn, Consume
    <3> QED
      BY <1>2, <1>4, <1>7, <2>1, <2>2, <3>1 DEF Fits, Live, Working, SigningIn
  <2>4. drawn' = drawn \cup {q.sid} /\ store' = [store EXCEPT ![q.sid] = q.session]
    BY <1>2, <1>5, <1>7, <2>2
  <2> QED
    BY <1>2, <1>4, <1>7, <1>8, <1>9, <2>3, <2>4, WriteStep
<1>10. CASE req[r].sid \notin Sids
  <2>1. store' = store
    BY <1>1, <1>5, <1>10 DEF Shape
  <2>2. Fits(q)
    BY <1>1, <1>7, <1>4, <1>10 DEF Fits, Working, SigningIn, Consume, Shape
  <2> QED
    BY <1>1, <1>2, <1>4, <1>7, <1>8, <2>1, <2>2, QuietStep DEF redis, browser
<1> QED
  BY <1>9, <1>10

\* The signed-in record is saved to an id nobody else has.
LEMMA EstablishStep ==
  ASSUME IInv, NEW r \in Slots, Establish(r)
  PROVE  IInv'
<1>1. req[r] \in Request /\ Fits(req[r]) /\ Shape /\ req[r].session \in Record
  BY AtHand, Fields
<1>2. UNCHANGED <<index, drawn, resolved, world, browser, spent, faults>>
  BY DEF Establish
<1>3. req[r].sid \in Sids /\ req[r].sid \in drawn /\ req[r].session.kept
  BY <1>1 DEF Fits, Establish, Working, SigningIn, Shape
<1>4. PICK q \in Request : q = [req[r] EXCEPT !.dirty = FALSE, !.pc = "index"]
  BY <1>1 DEF Request, PCs
<1>5. /\ q.kind = req[r].kind /\ q.sid = req[r].sid /\ q.session = req[r].session
      /\ q.flow = req[r].flow /\ q.pc = "index" /\ q.answer = req[r].answer
  BY <1>1, <1>4 DEF Request
<1>6. req' = [req EXCEPT ![r] = q]
  BY <1>4 DEF Establish, Becomes
<1>7. store'[q.sid] = req[r].session
  BY <1>1, <1>3, <1>5 DEF Shape, Establish
<1>8. Fits(q)'
  BY <1>1, <1>2, <1>3, <1>5, <1>7 DEF Fits, Live, Working, SigningIn, Establish, browser
<1>9. drawn' = drawn \cup {q.sid} /\ store' = [store EXCEPT ![q.sid] = q.session]
  BY <1>2, <1>3, <1>5 DEF Establish
<1> QED
  BY <1>2, <1>3, <1>5, <1>6, <1>8, <1>9, WriteStep DEF Establish

\* A record that goes takes its resolved sign-in with it and disturbs no copy.
LEMMA Dropping ==
  ASSUME IInv, NEW t \in Sids \cup {NoSid},
         store' \in [Sids -> Record],
         \A s \in Sids : store'[s] = IF s = t THEN Gone ELSE store[s],
         resolved' = resolved \ {t},
         drawn' \in SUBSET Sids, drawn \subseteq drawn',
         UNCHANGED <<index, world, browser, spent, faults>>
  PROVE  Shape' /\ \A x \in Request : Fits(x) => Fits(x)'
<1>1. Shape
  BY Parts
<1>2. \A s \in Sids : Live(s)' => Live(s) /\ store'[s] = store[s]
  BY DEF Live, Gone
<1>3. Shape'
  BY <1>1, <1>2 DEF Shape, world, browser
<1>4. ASSUME NEW x \in Request, Fits(x)
      PROVE  Fits(x)'
  <2>1. x.sid \in drawn' => x.sid \in Sids
    OBVIOUS
  <2>2. Live(x.sid)' /\ x.sid \in drawn' => /\ x.sid \in drawn /\ Live(x.sid)
                                           /\ store'[x.sid] = store[x.sid]
    BY <1>1, <1>2, <2>1 DEF Shape
  <2> QED
    BY <1>4, <2>2 DEF Fits, world, browser
<1> QED
  BY <1>3, <1>4

LEMMA RegenerateStep ==
  ASSUME IInv, NEW r \in Slots, Regenerate(r)
  PROVE  IInv'
<1>1. /\ req[r] \in Request /\ Fits(req[r]) /\ Shape /\ Woven
      /\ req[r].sid \in Sids \cup {NoSid}
  BY AtHand, Fields
<1>2. UNCHANGED <<index, world, browser, spent, faults>>
  BY DEF Regenerate
<1>3. PICK new \in Record : new = [Fresh EXCEPT !.user = TRUE]
  BY DEF Fresh, Gone, Record
<1>4. new.user /\ new.kept
  BY <1>3 DEF Fresh, Gone
<1>5. PICK s \in Sids \ drawn :
        /\ drawn' = drawn \cup {s}
        /\ Becomes(r, [req[r] EXCEPT !.sid = s, !.session = new, !.dirty = TRUE,
                                     !.pc = "establish"])
  BY <1>3 DEF Regenerate
<1>6. PICK q \in Request :
        q = [req[r] EXCEPT !.sid = s, !.session = new, !.dirty = TRUE, !.pc = "establish"]
  BY <1>1 DEF Request, PCs
<1>7. /\ q.kind = req[r].kind /\ q.sid = s /\ q.session = new
      /\ q.flow = req[r].flow /\ q.pc = "establish" /\ q.answer = req[r].answer
  BY <1>1, <1>6 DEF Request
<1>8. req' = [req EXCEPT ![r] = q]
  BY <1>5, <1>6 DEF Becomes
<1>9. /\ store' \in [Sids -> Record]
      /\ \A t \in Sids : store'[t] = IF t = req[r].sid THEN Gone ELSE store[t]
  <2>1. Gone \in Record
    BY DEF Gone, Record
  <2> QED
    BY <1>1, <2>1 DEF Regenerate, Shape
<1>10. Shape' /\ \A x \in Request : Fits(x) => Fits(x)'
  <2>1. drawn' \in SUBSET Sids /\ drawn \subseteq drawn'
    BY <1>1, <1>5 DEF Shape
  <2>2. resolved' = resolved \ {req[r].sid}
    BY DEF Regenerate
  <2> QED
    BY <1>1, <1>2, <1>9, <2>1, <2>2, Dropping
<1>11. ~Live(s)' /\ s # jar
  BY <1>1, <1>5, <1>9, SessionAssumption DEF Shape, Live, Gone
<1>12. Fits(q)'
  <2>1. q.kind = "callback" /\ q.flow \in Flows
    BY <1>1, <1>7 DEF Fits, SigningIn, Regenerate
  <2>2. s # jar'
    BY <1>2, <1>11 DEF browser
  <2> QED
    BY <1>4, <1>5, <1>7, <1>11, <2>1, <2>2 DEF Fits, Working, SigningIn
<1>13. ASSUME NEW p \in Slots \ {r}
       PROVE  Together(q, req[p]) /\ Together(req[p], q)
  <2>1. req[p].sid # s
    BY <1>1, <1>5, SessionAssumption DEF Woven, Fits
  <2> QED
    BY <1>7, <2>1 DEF Together
<1>14. Woven'
  BY ONLY <1>1, <1>8, <1>10, <1>12, <1>13, Weave, r \in Slots
<1> QED
  BY <1>2, <1>7, <1>8, <1>10, <1>14, ServerStep DEF browser

LEMMA DestroyStep ==
  ASSUME IInv, NEW r \in Slots, Destroy(r)
  PROVE  IInv'
<1>1. /\ req[r] \in Request /\ Fits(req[r]) /\ Shape /\ Woven
      /\ req[r].sid \in Sids \cup {NoSid}
  BY AtHand, Fields
<1>2. UNCHANGED <<index, drawn, world, browser, spent, faults>>
  BY DEF Destroy
<1>3. Gone \in Record /\ ~Gone.kept
  BY DEF Gone, Record
<1>4. Outcome(r) \in {"ok", "refused"}
  BY DEF Outcome
<1> DEFINE pc == IF req[r].session.user THEN "unindex" ELSE "end"
           e == [req[r] EXCEPT !.session = Gone, !.answer = Outcome(r), !.pc = pc]
<1>5. PICK q \in Request : q = e
  BY <1>1, <1>3, <1>4 DEF Request, PCs
<1>6. /\ q.kind = req[r].kind /\ q.sid = req[r].sid /\ q.session = Gone
      /\ q.flow = req[r].flow /\ q.pc \in {"unindex", "end"} /\ q.answer # "none"
  BY <1>1, <1>4, <1>5 DEF Request
<1>7. req' = [req EXCEPT ![r] = q]
  BY <1>5 DEF Destroy, Becomes
<1>8. /\ store' \in [Sids -> Record]
      /\ \A s \in Sids : store'[s] = IF s = req[r].sid THEN Gone ELSE store[s]
  BY <1>1, <1>3 DEF Destroy, Shape
<1>9. resolved' = resolved \ {req[r].sid}
  BY DEF Destroy
<1>10. Shape' /\ \A x \in Request : Fits(x) => Fits(x)'
  BY <1>1, <1>2, <1>8, <1>9, Dropping DEF Shape
<1>11. Fits(q)'
  BY <1>1, <1>2, <1>3, <1>6, <1>9 DEF Fits, Working, SigningIn
<1>12. ASSUME NEW p \in Slots \ {r}
       PROVE  Together(q, req[p]) /\ Together(req[p], q)
  <2>1. Together(req[p], req[r])
    BY <1>1 DEF Woven
  <2> QED
    BY <1>3, <1>6, <2>1 DEF Together
<1>13. Woven'
  BY ONLY <1>1, <1>7, <1>10, <1>11, <1>12, Weave, r \in Slots
<1> QED
  BY <1>2, <1>6, <1>7, <1>10, <1>13, ServerStep DEF browser

\* Only the request that drew the id can resolve its sign-in, so a logout on its
\* way to unindex a session has not lost it to a new one.
LEMMA IndexStep ==
  ASSUME IInv, NEW r \in Slots, IndexSession(r)
  PROVE  IInv'
<1>1. req[r] \in Request /\ Fits(req[r]) /\ Shape /\ Woven /\ req \in [Slots -> Request]
  BY AtHand
<1>2. UNCHANGED <<store, drawn, world, browser, spent, faults>>
  BY DEF IndexSession
<1>3. req[r].pc = "index" /\ req[r].sid \in drawn /\ req[r].sid \in Sids
  BY <1>1 DEF IndexSession, Fits, Shape
<1>4. PICK q \in Request : q = Turned(req[r], "end", req[r].sid, req[r].session, req[r].dirty, "ok")
  BY <1>1, Fields, TurnedType DEF PCs, Answers
<1>5. req' = [req EXCEPT ![r] = q]
  BY <1>1, <1>4, Answering DEF IndexSession, Answers
<1>6. /\ q.kind = req[r].kind /\ q.sid = req[r].sid /\ q.session = req[r].session
      /\ q.flow = req[r].flow /\ q.pc = "end" /\ q.answer = "ok"
  BY <1>4 DEF Turned
<1>7. Shape'
  BY <1>1, <1>2, <1>3 DEF Shape, IndexSession, Live, world, browser
<1>8. Fits(q)'
  BY <1>1, <1>2, <1>6 DEF Fits, Live, Working, SigningIn
<1>9. ASSUME NEW x \in Request, Fits(x), Together(req[r], x)
      PROVE  Fits(x)'
  <2>1. x.sid # req[r].sid
    BY <1>3, <1>9 DEF Together
  <2>2. resolved' = resolved \cup {req[r].sid}
    BY DEF IndexSession
  <2> QED
    BY <1>2, <1>9, <2>1, <2>2 DEF Fits, Live, world, browser
<1>10. ASSUME NEW p \in Slots \ {r}
       PROVE  Together(q, req[p]) /\ Together(req[p], q)
  <2>1. Together(req[r], req[p]) /\ Together(req[p], req[r])
    BY <1>1 DEF Woven
  <2> QED
    BY <1>6, <2>1 DEF Together
<1>11. Woven'
  BY ONLY <1>1, <1>5, <1>8, <1>9, <1>10, Weave, r \in Slots
<1> QED
  BY <1>2, <1>5, <1>6, <1>7, <1>11, ServerStep DEF browser

LEMMA UnindexStep ==
  ASSUME IInv, NEW r \in Slots, Unindex(r)
  PROVE  IInv'
<1>1. req[r] \in Request /\ Fits(req[r]) /\ Shape /\ Woven /\ req \in [Slots -> Request]
  BY AtHand
<1>2. UNCHANGED <<store, drawn, resolved, world, browser, spent, faults>>
  BY DEF Unindex
<1>3. req[r].pc = "unindex" /\ req[r].sid \notin resolved
  BY <1>1 DEF Unindex, Fits
<1>4. PICK q \in Request :
        q = Turned(req[r], "end", req[r].sid, req[r].session, req[r].dirty, req[r].answer)
  BY <1>1, Fields, TurnedType DEF PCs
<1>5. req' = [req EXCEPT ![r] = q]
  BY <1>1, <1>4, GoingTo DEF Unindex, PCs
<1>6. /\ q.kind = req[r].kind /\ q.sid = req[r].sid /\ q.session = req[r].session
      /\ q.flow = req[r].flow /\ q.pc = "end" /\ q.answer = req[r].answer
  BY <1>4 DEF Turned
<1>7. Shape'
  BY <1>1, <1>2, <1>3 DEF Shape, Unindex, Live, world, browser
<1>8. Fits(q)'
  BY <1>1, <1>2, <1>3, <1>6 DEF Fits, Live, Working, SigningIn
<1>9. \A x \in Request : Fits(x) => Fits(x)'
  BY <1>2 DEF Fits, Live, world, browser
<1>10. ASSUME NEW p \in Slots \ {r}
       PROVE  Together(q, req[p]) /\ Together(req[p], q)
  <2>1. Together(req[r], req[p]) /\ Together(req[p], req[r])
    BY <1>1 DEF Woven
  <2> QED
    BY <1>6, <2>1 DEF Together
<1>11. Woven'
  BY ONLY <1>1, <1>5, <1>8, <1>9, <1>10, Weave, r \in Slots
<1> QED
  BY <1>2, <1>5, <1>6, <1>7, <1>11, ServerStep DEF browser
-----------------------------------------------------------------------------
\* Time and the operator move no request.
LEMMA WorldStep ==
  ASSUME IInv, UNCHANGED <<req, page>>, Shape',
         \A x \in Request : Fits(x) => Fits(x)'
  PROVE  IInv'
<1>1. Woven /\ NothingTurnsForever
  BY Parts
<1>2. ASSUME NEW r \in Slots
      PROVE  Fits(req[r])'
  <2>1. PICK x \in Request : x = req[r]
    BY <1>1 DEF Woven
  <2>2. Fits(x)' /\ x = req'[r]
    BY <1>1, <2>1 DEF Woven
  <2> QED
    BY <2>2 DEF Fits, Live
<1>3. Woven'
  BY <1>1, <1>2 DEF Woven, Together
<1>4. NothingTurnsForever'
  BY <1>1 DEF NothingTurnsForever, Underway
<1> QED
  BY <1>3, <1>4, PartsNext

LEMMA WorldSteps ==
  ASSUME IInv,
         \/ \E s \in Sids : Age(s) \/ Expire(s)
         \/ \E f \in Flows : FlowLapses(f)
         \/ Disable
  PROVE  IInv'
<1>1. Shape
  BY Parts
<1>2. ASSUME NEW s \in Sids, Age(s)
      PROVE  IInv'
  <2>1. Shape'
    BY <1>1, <1>2 DEF Age, Shape, redis, browser, Live
  <2>2. \A x \in Request : Fits(x) => Fits(x)'
    BY <1>2 DEF Age, Fits, redis, browser, Live
  <2> QED
    BY <1>2, <2>1, <2>2, WorldStep DEF Age, browser
<1>3. ASSUME NEW s \in Sids, Expire(s)
      PROVE  IInv'
  <2>1. /\ store' \in [Sids -> Record]
        /\ \A t \in Sids : store'[t] = IF t = s THEN Gone ELSE store[t]
    <3>1. Gone \in Record
      BY DEF Gone, Record
    <3> QED
      BY <1>1, <1>3, <3>1 DEF Expire, Shape
  <2>2. Shape' /\ \A x \in Request : Fits(x) => Fits(x)'
    BY <1>1, <1>3, <2>1, Dropping DEF Expire, Shape
  <2> QED
    BY <1>3, <2>2, WorldStep DEF Expire, browser
<1>4. ASSUME NEW f \in Flows, FlowLapses(f)
      PROVE  IInv'
  <2>1. Shape'
    BY <1>1, <1>4 DEF FlowLapses, Shape, redis, browser, Live
  <2>2. \A x \in Request : Fits(x) => Fits(x)'
    BY <1>4 DEF FlowLapses, Fits, redis, browser, Live
  <2> QED
    BY <1>4, <2>1, <2>2, WorldStep DEF FlowLapses, browser
<1>5. CASE Disable
  <2>1. Shape'
    BY <1>1, <1>5 DEF Disable, Shape, redis, browser, Live
  <2>2. \A x \in Request : Fits(x) => Fits(x)'
    BY <1>5 DEF Disable, Fits, redis, browser, Live
  <2> QED
    BY <1>5, <2>1, <2>2, WorldStep DEF Disable, browser
<1> QED
  BY <1>2, <1>3, <1>4, <1>5

\* A request as it leaves the browser.
LEMMA SentFields ==
  ASSUME NEW kind \in Kinds, NEW flow \in Flows \cup {NoFlow},
         csrf \in BOOLEAN, jar \in Sids \cup {NoSid}
  PROVE  /\ Sent(kind, flow) \in Request
         /\ Sent(kind, flow).kind = kind /\ Sent(kind, flow).pc = "sent"
         /\ Sent(kind, flow).flow = flow /\ Sent(kind, flow).sid = jar
         /\ Sent(kind, flow).session = Gone /\ Sent(kind, flow).answer = "none"
<1>1. Gone \in Record
  BY DEF Gone, Record
<1>2. Idle \in Request /\ Idle.session = Gone /\ Idle.answer = "none"
  BY <1>1 DEF Idle, Request, PCs, Kinds
<1> QED
  BY <1>2 DEF Sent, Request, PCs

\* A request leaves with the cookies of the moment; nothing it will do is due yet.
LEMMA SendStep ==
  ASSUME IInv, NEW r \in Slots, NEW kind \in Kinds, NEW flow \in Flows \cup {NoFlow},
         kind \in {"begin", "callback"} => flow \in Flows,
         Send(r, kind, flow),
         UNCHANGED <<redis, world, jar, csrf, atGoogle, spent, faults>>
  PROVE  /\ Woven'
         /\ \A kinds : Underway(kinds) \/ kind \in kinds => Underway(kinds)'
<1> USE SessionAssumption
<1>1. Shape /\ Woven /\ req \in [Slots -> Request]
  BY AtHand
<1>2. Gone \in Record /\ ~Gone.kept
  BY DEF Gone, Record
<1>4. PICK q \in Request : q = Sent(kind, flow)
  BY <1>1, SentFields DEF Shape
<1>5. /\ q.kind = kind /\ q.pc = "sent" /\ q.flow = flow /\ q.sid = jar
      /\ q.session = Gone /\ q.answer = "none"
  BY <1>1, <1>4, SentFields DEF Shape
<1>6. req' = [req EXCEPT ![r] = q] /\ req[r].pc = "idle"
  BY <1>4 DEF Send, Becomes
<1>7. Fits(q)'
  BY <1>1, <1>2, <1>5 DEF Fits, Shape, Working, SigningIn, redis
<1>8. \A x \in Request : Fits(x) => Fits(x)'
  BY DEF Fits, Live, redis, world
<1>9. ASSUME NEW p \in Slots \ {r}
      PROVE  Together(q, req[p]) /\ Together(req[p], q)
  <2>1. Fits(req[p])
    BY <1>1 DEF Woven
  <2> QED
    BY <1>2, <1>5, <2>1 DEF Together, Fits
<1>10. Woven'
  BY ONLY <1>1, <1>6, <1>7, <1>8, <1>9, Weave, r \in Slots
<1>11. ASSUME NEW kinds, Underway(kinds) \/ kind \in kinds
       PROVE  Underway(kinds)'
  BY <1>1, <1>5, <1>6, <1>11 DEF Underway
<1> QED
  BY <1>10, <1>11

PageStates == [loading : BOOLEAN, loggingOut : BOOLEAN, saving : BOOLEAN,
               error : {"none", "signedOut", "failed"}]

LEMMA UserSteps ==
  ASSUME IInv, NEW r \in Slots, User(r)
  PROVE  IInv'
<1> USE SessionAssumption
<1>1. Shape /\ NothingTurnsForever /\ page \in PageStates
  BY Parts DEF Shape, PageStates
<1>2. UNCHANGED <<redis, world, jar, csrf, atGoogle, spent, faults>>
  BY DEF User, Open, ClickLogout, ClickSave, ClickSignIn, Return, browser
<1>3. begun' \in 0..MaxFlows
  BY <1>1 DEF Shape, User, Open, ClickLogout, ClickSave, ClickSignIn, Return, browser
<1>4. ASSUME page' \in PageStates
      PROVE  Shape'
  BY <1>1, <1>2, <1>3, <1>4 DEF Shape, PageStates, redis, world, Live
<1>5. CASE Open(r)
  <2>1. /\ Woven'
        /\ \A kinds : Underway(kinds) \/ "events" \in kinds => Underway(kinds)'
    BY <1>2, <1>5, SendStep DEF Open, Kinds
  <2>2. page' = NewPage
    BY <1>5 DEF Open
  <2>3. page' \in PageStates /\ NothingTurnsForever'
    BY <2>1, <2>2 DEF NewPage, PageStates, NothingTurnsForever
  <2> QED
    BY <1>4, <2>1, <2>3, PartsNext
<1>6. CASE ClickLogout(r)
  <2>1. /\ Woven'
        /\ \A kinds : Underway(kinds) \/ "logout" \in kinds => Underway(kinds)'
    BY <1>2, <1>6, SendStep DEF ClickLogout, Kinds
  <2>2. page' = [page EXCEPT !.loggingOut = TRUE]
    BY <1>6 DEF ClickLogout
  <2>3. page' \in PageStates /\ NothingTurnsForever'
    BY <1>1, <2>1, <2>2 DEF PageStates, NothingTurnsForever
  <2> QED
    BY <1>4, <2>1, <2>3, PartsNext
<1>7. CASE ClickSave(r)
  <2>1. /\ Woven'
        /\ \A kinds : Underway(kinds) \/ "save" \in kinds => Underway(kinds)'
    BY <1>2, <1>7, SendStep DEF ClickSave, Kinds
  <2>2. page' = [page EXCEPT !.saving = TRUE]
    BY <1>7 DEF ClickSave
  <2>3. page' \in PageStates /\ NothingTurnsForever'
    BY <1>1, <2>1, <2>2 DEF PageStates, NothingTurnsForever
  <2> QED
    BY <1>4, <2>1, <2>3, PartsNext
<1>8. ASSUME NEW kind \in {"begin", "callback"}, NEW f \in Flows, Send(r, kind, f), page' = page
      PROVE  IInv'
  <2>1. /\ Woven'
        /\ \A kinds : Underway(kinds) => Underway(kinds)'
    BY <1>2, <1>8, SendStep DEF Kinds
  <2>2. NothingTurnsForever'
    BY <1>1, <1>8, <2>1 DEF NothingTurnsForever
  <2> QED
    BY <1>1, <1>4, <1>8, <2>1, <2>2, PartsNext
<1>9. CASE ClickSignIn(r)
  <2>1. begun + 1 \in Flows /\ begun' = begun + 1
    BY <1>1, <1>9 DEF ClickSignIn, Shape, Flows
  <2> QED
    BY <1>8, <1>9, <2>1 DEF ClickSignIn
<1>10. ASSUME NEW f \in Flows, Return(r, f)
       PROVE  IInv'
  BY <1>8, <1>10 DEF Return, browser
<1> QED
  BY <1>5, <1>6, <1>7, <1>9, <1>10 DEF User

\* What an answer makes of the page.
LEMMA Settling ==
  ASSUME page \in PageStates, NEW loads \in BOOLEAN, NEW answer
  PROVE  /\ Settle(loads, answer) \in PageStates
         /\ loads /\ answer \in {"ok", "refused", "failed"} => ~Settle(loads, answer).loading
         /\ Settle(loads, answer).loading => page.loading
         /\ Settle(loads, answer).saving => page.saving
         /\ Settle(loads, answer).loggingOut => page.loggingOut
<1>1. CASE loads /\ answer = "ok"
  <2>1. Settle(loads, answer) = [page EXCEPT !.loading = FALSE, !.error = "none"]
    BY <1>1 DEF Settle
  <2> QED
    BY <1>1, <2>1 DEF PageStates
<1>2. CASE loads /\ answer = "refused"
  <2>1. Settle(loads, answer)
          = [page EXCEPT !.loading = FALSE, !.error = "signedOut", !.saving = FALSE]
    BY <1>2 DEF Settle
  <2> QED
    BY <1>2, <2>1 DEF PageStates
<1>3. CASE loads /\ answer = "failed"
  <2>1. Settle(loads, answer) = [page EXCEPT !.loading = FALSE, !.error = "failed"]
    BY <1>3 DEF Settle
  <2> QED
    BY <1>3, <2>1 DEF PageStates
<1>4. CASE ~(loads /\ answer \in {"ok", "refused", "failed"})
  <2>1. Settle(loads, answer) = page
    BY <1>4 DEF Settle
  <2> QED
    BY <1>4, <2>1 DEF PageStates
<1> QED
  BY <1>1, <1>2, <1>3, <1>4

\* The end of a request: whatever its answer was, each flag it was kept up for is
\* cleared, or the fetch that follows it now keeps up.
LEMMA HandleStep ==
  ASSUME IInv, NEW r \in Slots, NEW answer \in {"ok", "refused", "failed"},
         Handle(r, answer), csrf' \in BOOLEAN, jar' \in drawn \cup {NoSid},
         jar' \in {jar, NoSid, req[r].sid},
         UNCHANGED <<redis, world>>
  PROVE  Woven' /\ page' \in PageStates /\ NothingTurnsForever'
<1> USE SessionAssumption
<1>1. /\ Shape /\ Woven /\ NothingTurnsForever /\ page \in PageStates
      /\ req \in [Slots -> Request] /\ req[r] \in Request /\ Fits(req[r])
  BY Parts, AtHand DEF Shape, PageStates
<1> DEFINE kind == req[r].kind
           loads == kind \in {"events", "reload"}
           next == Settle(loads, answer)
           again == answer = "ok" /\ kind \in {"save", "logout"}
           p == [next EXCEPT
                   !.loading = @ \/ again,
                   !.saving = @ /\ kind # "save",
                   !.loggingOut = @ /\ kind # "reload" /\ (kind = "logout" => again)]
           e == CASE again /\ kind = "save"   -> [Sent("events", NoFlow) EXCEPT !.sid = jar', !.token = csrf']
                  [] again /\ kind = "logout" -> [Sent("reload", NoFlow) EXCEPT !.sid = jar', !.token = csrf']
                  [] ~again                   -> Idle
<1>2. page' = p /\ req' = [req EXCEPT ![r] = e]
  BY DEF Handle, Becomes
<1>3. /\ next \in PageStates
      /\ kind \in {"events", "reload"} => ~next.loading
      /\ next.loading => page.loading
      /\ next.saving => page.saving
      /\ next.loggingOut => page.loggingOut
  <2>1. loads \in BOOLEAN
    OBVIOUS
  <2>2. loads <=> kind \in {"events", "reload"}
    OBVIOUS
  <2> HIDE DEF loads
  <2> QED
    BY <1>1, <2>1, <2>2, Settling
<1>4. PICK q \in Request :
        /\ q = e /\ q.sid \in {jar', NoSid} /\ q.session = Gone
        /\ q.pc \in {"sent", "idle"} /\ q.kind \notin {"begin", "callback"}
        /\ again => q.pc = "sent" /\ q.kind = IF kind = "save" THEN "events" ELSE "reload"
  <2>1. /\ jar' \in Sids \cup {NoSid} /\ Gone \in Record
        /\ Idle \in Request /\ Idle.sid = NoSid /\ Idle.session = Gone
        /\ Idle.pc = "idle" /\ Idle.kind = "events"
    BY <1>1 DEF Shape, Idle, Gone, Record, Request, PCs, Kinds
  <2>2. ASSUME NEW k \in {"events", "reload"}
        PROVE  LET n == [Sent(k, NoFlow) EXCEPT !.sid = jar', !.token = csrf']
               IN /\ n \in Request /\ n.sid = jar' /\ n.session = Gone
                  /\ n.pc = "sent" /\ n.kind = k
    <3>1. /\ Sent(k, NoFlow) \in Request
          /\ Sent(k, NoFlow).kind = k /\ Sent(k, NoFlow).pc = "sent"
          /\ Sent(k, NoFlow).session = Gone
      BY <1>1, SentFields DEF Shape, Kinds
    <3> QED
      BY <2>1, <3>1 DEF Request
  <2>3. CASE again /\ kind = "save"
    <3>1. e = [Sent("events", NoFlow) EXCEPT !.sid = jar', !.token = csrf']
      BY <2>3
    <3> HIDE DEF e
    <3> QED
      BY <2>2, <2>3, <3>1
  <2>4. CASE again /\ kind = "logout"
    <3>1. e = [Sent("reload", NoFlow) EXCEPT !.sid = jar', !.token = csrf']
      BY <2>4
    <3> HIDE DEF e
    <3> QED
      BY <2>2, <2>4, <3>1
  <2>5. CASE ~again
    <3>1. e = Idle
      BY <2>5
    <3> HIDE DEF e
    <3> QED
      BY <2>1, <2>5, <3>1
  <2> QED
    BY <2>3, <2>4, <2>5
<1>5. req' = [req EXCEPT ![r] = q]
  BY <1>2, <1>4
<1> HIDE DEF e
<1>6. ~Gone.kept
  BY DEF Gone
<1>7. Fits(q)'
  BY <1>4, <1>6 DEF Fits, Working, SigningIn, redis
<1>8. ASSUME NEW x \in Request, Fits(x), Together(x, req[r])
      PROVE  Fits(x)'
  <2>1. x.pc \in {"establish", "index"} => x.sid \in Sids /\ x.sid # jar'
    BY <1>1, <1>8 DEF Fits, Together, Shape
  <2> QED
    BY <1>8, <2>1 DEF Fits, Live, redis, world
<1>9. ASSUME NEW s \in Slots \ {r}
      PROVE  Together(q, req[s]) /\ Together(req[s], q)
  <2>1. Together(req[s], req[r]) /\ Fits(req[s])
    BY <1>1 DEF Woven
  <2>2. req[s].pc \in {"establish", "index"} => req[s].sid \in Sids /\ req[s].sid # q.sid
    BY <1>1, <1>4, <2>1 DEF Fits, Together, Shape
  <2> QED
    BY <1>4, <1>6, <2>2 DEF Together
<1>10. Woven'
  BY ONLY <1>1, <1>5, <1>7, <1>8, <1>9, Weave, r \in Slots
<1>11. /\ page' \in PageStates
       /\ page'.loading => (page.loading /\ kind \notin {"events", "reload"}) \/ again
       /\ page'.saving => page.saving /\ kind # "save"
       /\ page'.loggingOut => page.loggingOut /\ kind # "reload" /\ (kind = "logout" => again)
  <2>1. PICK l \in BOOLEAN, v \in BOOLEAN, o \in BOOLEAN :
          /\ l <=> next.loading \/ again
          /\ v <=> next.saving /\ kind # "save"
          /\ o <=> next.loggingOut /\ kind # "reload" /\ (kind = "logout" => again)
    OBVIOUS
  <2>2. p = [next EXCEPT !.loading = l, !.saving = v, !.loggingOut = o]
    BY <1>3, <2>1 DEF PageStates
  <2> HIDE DEF p, next
  <2>3. p \in PageStates /\ p.loading = l /\ p.saving = v /\ p.loggingOut = o
    BY <1>3, <2>2 DEF PageStates
  <2> QED
    BY <1>2, <1>3, <2>1, <2>3
<1>12. ASSUME NEW kinds, Underway(kinds), kind \notin kinds
       PROVE  Underway(kinds)'
  BY <1>1, <1>5, <1>12 DEF Underway
<1>13. ASSUME NEW kinds, q.pc = "sent", q.kind \in kinds
       PROVE  Underway(kinds)'
  BY <1>1, <1>5, <1>13 DEF Underway
<1>14. NothingTurnsForever'
  <2> HIDE DEF p, next
  <2>1. page'.loading => Underway({"events", "reload"})'
    BY <1>1, <1>4, <1>11, <1>12, <1>13 DEF NothingTurnsForever
  <2>2. page'.loggingOut => Underway({"logout", "reload"})'
    BY <1>1, <1>4, <1>11, <1>12, <1>13 DEF NothingTurnsForever
  <2>3. page'.saving => Underway({"save"})'
    BY <1>1, <1>11, <1>12 DEF NothingTurnsForever
  <2> QED
    BY <2>1, <2>2, <2>3 DEF NothingTurnsForever
<1> QED
  BY <1>10, <1>11, <1>14

LEMMA ResponseSteps ==
  ASSUME IInv, NEW r \in Slots, Arrive(r) \/ Lost(r)
  PROVE  IInv'
<1> USE SessionAssumption
<1>1. Shape /\ req[r] \in Request /\ Fits(req[r]) /\ req[r].answer \in Answers
  BY AtHand, Fields
<1>2. req[r].pc = "answered" /\ UNCHANGED <<redis, world, begun, spent>>
  BY DEF Arrive, Lost
<1>3. faults' \in 0..MaxFaults
  BY FaultStep DEF Arrive, Lost
<1>4. csrf' \in BOOLEAN
  BY <1>1 DEF Arrive, Lost, Shape
<1>5. jar' \in drawn \cup {NoSid} /\ jar' \in {jar, NoSid, req[r].sid}
  BY <1>1 DEF Arrive, Lost, Shape, Fits
<1>6. atGoogle' \in SUBSET Flows
  BY <1>1 DEF Arrive, Lost, Shape, Fits
<1>7. PICK answer \in {"ok", "refused", "failed"} : Handle(r, answer)
  BY <1>1, <1>2 DEF Arrive, Lost, Answers, Fits
<1>8. Woven' /\ page' \in PageStates /\ NothingTurnsForever'
  BY <1>2, <1>4, <1>5, <1>7, HandleStep
<1>9. Shape'
  BY <1>1, <1>2, <1>3, <1>4, <1>5, <1>6, <1>8 DEF Shape, PageStates, redis, world, Live
<1> QED
  BY <1>8, <1>9, PartsNext
-----------------------------------------------------------------------------
LEMMA InvInit == Init => IInv
<1> SUFFICES ASSUME Init
             PROVE  IInv
  OBVIOUS
<1> USE SessionAssumption
<1>1. PICK r \in Slots : req = [p \in Slots |-> IF p = r THEN [Idle EXCEPT !.pc = "sent"] ELSE Idle]
  BY DEF Init
<1>2. Gone \in Record /\ ~Gone.kept
  BY DEF Gone, Record
<1>3. /\ Idle \in Request /\ Idle.sid = NoSid /\ Idle.session = Gone
      /\ Idle.pc = "idle" /\ Idle.kind = "events"
  BY <1>2 DEF Idle, Request, PCs, Kinds
<1>4. ASSUME NEW p \in Slots
      PROVE  /\ req[p] \in Request /\ req[p].sid = NoSid /\ req[p].session = Gone
             /\ req[p].pc \in {"idle", "sent"} /\ req[p].kind = "events"
  BY <1>1, <1>3 DEF Request, PCs
<1>5. req \in [Slots -> Request]
  <2>1. DOMAIN req = Slots /\ req = [p \in Slots |-> req[p]]
    BY <1>1
  <2> QED
    BY <1>4, <2>1
<1>6. Woven
  BY <1>2, <1>4, <1>5 DEF Woven, Fits, Together, Working, SigningIn
<1>7. req[r].pc = "sent" /\ req[r].kind = "events"
  BY <1>1, <1>3, <1>4 DEF Request
<1>8. NothingTurnsForever
  BY <1>7 DEF NothingTurnsForever, Init, NewPage, Underway
<1>9. Shape
  <2>1. store \in [Sids -> Record] /\ \A s \in Sids : ~store[s].kept
    BY <1>2 DEF Init
  <2>2. page \in PageStates
    BY DEF Init, NewPage, PageStates
  <2>3. begun \in 0..MaxFlows /\ faults \in 0..MaxFaults
    BY DEF Init
  <2> QED
    BY <2>1, <2>2, <2>3 DEF Init, Shape, PageStates, Live
<1> QED
  BY <1>6, <1>8, <1>9, Parts

LEMMA InvStep == IInv /\ [Next]_vars => IInv'
<1> SUFFICES ASSUME IInv, [Next]_vars
             PROVE  IInv'
  OBVIOUS
<1>1. CASE UNCHANGED vars
  <2>1. Shape'
    BY <1>1, Parts DEF vars, redis, world, browser, Shape, Live
  <2>2. \A x \in Request : Fits(x) => Fits(x)'
    BY <1>1 DEF vars, redis, world, browser, Fits, Live
  <2> QED
    BY <1>1, <2>1, <2>2, WorldStep DEF vars, browser
<1>2. ASSUME NEW r \in Slots, User(r) \/ Arrive(r)
      PROVE  IInv'
  BY <1>2, UserSteps, ResponseSteps
<1>3. ASSUME NEW r \in Slots, Server(r)
      PROVE  IInv'
  BY <1>3, LoadStep, GateSteps, EndStep, BeginStep, QuietSignIn, ConsumeStep,
     RegenerateStep, EstablishStep, IndexStep, DestroyStep, UnindexStep DEF Server
<1>4. ASSUME NEW r \in Slots, Failure(r)
      PROVE  IInv'
  BY <1>4, LoadFailsStep, GateSteps, SignInFailsStep, QuietFailures, ResponseSteps
     DEF Failure
<1> QED
  BY <1>1, <1>2, <1>3, <1>4, WorldSteps DEF Next

\* The inductive invariant: types, ids drawn and indexed, requests that fit the
\* store and each other, and a page that waits only for what is under way.
THEOREM SessionInvariant == Spec => []IInv
  BY InvInit, InvStep, PTL DEF Spec

\* A sign-in that was reported as done is one bulk revocation can find, for as long
\* as its session lives (session.service.ts:90-92).
THEOREM SignInsAreRevocable == Spec => []Revocable
<1>1. IInv => Revocable
  BY DEF IInv, Revocable
<1> QED
  BY <1>1, SessionInvariant, PTL

\* The Dashboard shows loading, saving or logging out only while a request is under
\* way whose end will clear it (Dashboard.tsx:129, 160; ReviewCard.tsx:102).
THEOREM PageWaitsForSomething == Spec => []NothingTurnsForever
<1>1. IInv => NothingTurnsForever
  BY DEF IInv
<1> QED
  BY <1>1, SessionInvariant, PTL

\* What a step may do to a session's record: write a copy that agrees with it on who
\* is signed in, or drop it for one of the reasons there are.
LEMMA RecordStep ==
  ASSUME IInv, [Next]_vars, NEW s \in Sids
  PROVE  \/ store'[s] = store[s]
         \/ store'[s].kept /\ (Live(s) => store'[s].user = store[s].user)
         \/ /\ store'[s] = Gone
            /\ \/ \E r \in Slots : /\ req[r].sid = s
                                   /\ \/ req[r].kind \in {"logout", "callback"}
                                      \/ s \in old \/ ~active
               \/ \A r \in Slots : req[r].sid # s
<1> USE SessionAssumption
<1>1. Shape /\ \A r \in Slots : req[r] \in Request /\ Fits(req[r]) /\ req[r].session \in Record
  BY AtHand, Fields, Parts DEF Woven
<1>2. CASE UNCHANGED store
  BY <1>2
<1>3. ASSUME NEW r \in Slots, NEW t \in Sids, NEW c \in Record,
             store' = [store EXCEPT ![t] = c],
             t = req[r].sid \/ t \notin drawn,
             c.kept /\ req[r].session.kept /\ c.user = req[r].session.user
      PROVE  store'[s] = store[s] \/ (store'[s].kept /\ (Live(s) => store'[s].user = store[s].user))
  <2>1. CASE s # t
    BY <1>1, <1>3, <2>1 DEF Shape
  <2>2. CASE s = t
    <3>1. store'[s] = c
      BY <1>1, <1>3, <2>2 DEF Shape
    <3>2. Live(s) => s \in drawn /\ s = req[r].sid
      BY <1>1, <1>3, <2>2 DEF Shape
    <3>3. Live(s) => store[s].user = req[r].session.user
      BY <1>1, <1>3, <3>2 DEF Fits
    <3> QED
      BY <1>3, <3>1, <3>3
  <2> QED
    BY <2>1, <2>2
<1>4. ASSUME NEW r \in Slots, End(r), ~UNCHANGED store
      PROVE  store'[s] = store[s] \/ (store'[s].kept /\ (Live(s) => store'[s].user = store[s].user))
  <2>1. req[r].session.kept
    BY <1>4 DEF End
  <2>2. PICK t \in IF req[r].sid \in Sids THEN {req[r].sid} ELSE Sids \ drawn :
          store' = [store EXCEPT ![t] = req[r].session]
    BY <1>4 DEF End
  <2>3. t \in Sids /\ (t = req[r].sid \/ t \notin drawn)
    OBVIOUS
  <2> QED
    BY <1>1, <1>3, <2>1, <2>2, <2>3
<1>5. ASSUME NEW r \in Slots, Begin(r)
      PROVE  store'[s] = store[s] \/ (store'[s].kept /\ (Live(s) => store'[s].user = store[s].user))
  <2>1. PICK c \in Record : c = [req[r].session EXCEPT !.flow = req[r].flow]
    BY <1>1, Fields DEF Record
  <2>2. c.kept /\ req[r].session.kept /\ c.user = req[r].session.user
    BY <1>1, <1>5, <2>1 DEF Record, Fits, Begin, Working
  <2>3. PICK t \in IF req[r].sid \in Sids THEN {req[r].sid} ELSE Sids \ drawn :
          store' = [store EXCEPT ![t] = c]
    BY <1>5, <2>1 DEF Begin
  <2>4. t \in Sids /\ (t = req[r].sid \/ t \notin drawn)
    OBVIOUS
  <2> QED
    BY <1>3, <2>2, <2>3, <2>4
<1>6. ASSUME NEW r \in Slots, Consume(r)
      PROVE  store'[s] = store[s] \/ (store'[s].kept /\ (Live(s) => store'[s].user = store[s].user))
  <2>1. PICK c \in Record : c = [req[r].session EXCEPT !.flow = NoFlow]
    BY <1>1 DEF Record
  <2>2. c.kept /\ req[r].session.kept /\ c.user = req[r].session.user
    BY <1>1, <1>6, <2>1 DEF Record, Fits, Consume, Working, SigningIn
  <2>3. store' = [store EXCEPT ![req[r].sid] = c]
    BY <1>6, <2>1 DEF Consume
  <2>4. CASE req[r].sid \in Sids
    BY <1>3, <2>2, <2>3, <2>4
  <2>5. CASE req[r].sid \notin Sids
    BY <1>1, <2>3, <2>5 DEF Shape
  <2> QED
    BY <2>4, <2>5
<1>7. ASSUME NEW r \in Slots, Establish(r)
      PROVE  store'[s] = store[s] \/ (store'[s].kept /\ (Live(s) => store'[s].user = store[s].user))
  <2>1. req[r].sid \in Sids /\ req[r].session.kept
    BY <1>1, <1>7 DEF Fits, Establish, Working, SigningIn, Shape
  <2> QED
    BY <1>1, <1>3, <1>7, <2>1 DEF Establish
<1>8. ASSUME NEW r \in Slots, Regenerate(r)
      PROVE  \/ store'[s] = store[s]
             \/ store'[s] = Gone /\ req[r].sid = s /\ req[r].kind = "callback"
  BY <1>1, <1>8 DEF Regenerate, Fits, SigningIn, Shape
<1>9. ASSUME NEW r \in Slots, Destroy(r)
      PROVE  \/ store'[s] = store[s]
             \/ /\ store'[s] = Gone /\ req[r].sid = s
                /\ req[r].kind = "logout" \/ s \in old \/ ~active
  BY <1>1, <1>9 DEF Destroy, Fits, Shape
<1>10. ASSUME NEW t \in Sids, Expire(t)
       PROVE  \/ store'[s] = store[s]
              \/ store'[s] = Gone /\ \A r \in Slots : req[r].sid # s
  BY <1>1, <1>10 DEF Expire, Shape
<1>11. \/ UNCHANGED store
       \/ \E r \in Slots : \/ End(r) \/ Begin(r) \/ Consume(r) \/ Establish(r)
                           \/ Regenerate(r) \/ Destroy(r)
       \/ \E t \in Sids : Expire(t)
  <2>1. CASE UNCHANGED vars
    BY <2>1 DEF vars, redis
  <2>2. ASSUME NEW r \in Slots, User(r) \/ Arrive(r) \/ Failure(r)
        PROVE  UNCHANGED store
    BY <2>2 DEF User, Open, ClickLogout, ClickSave, ClickSignIn, Return, Arrive, Failure,
       LoadFails, LookupFails, ServeFails, SignInFails, DestroyFails, UnindexFails,
       EndFails, Lost, redis
  <2>3. ASSUME NEW r \in Slots, Server(r)
        PROVE  \/ UNCHANGED store
               \/ End(r) \/ Begin(r) \/ Consume(r) \/ Establish(r) \/ Regenerate(r) \/ Destroy(r)
    BY <2>3 DEF Server, Load, RequireAuth, RequireCsrf, Serve, ReadPending, Exchange,
       IndexSession, Unindex, redis
  <2>4. ASSUME NEW t \in Sids, Age(t)
        PROVE  UNCHANGED store
    BY <2>4 DEF Age, redis
  <2>5. ASSUME NEW f \in Flows, FlowLapses(f)
        PROVE  UNCHANGED store
    BY <2>5 DEF FlowLapses, redis
  <2>6. CASE Disable
    BY <2>6 DEF Disable, redis
  <2> QED
    BY <2>1, <2>2, <2>3, <2>4, <2>5, <2>6 DEF Next
<1> QED
  BY <1>2, <1>4, <1>5, <1>6, <1>7, <1>8, <1>9, <1>10, <1>11

\* A session id handed out before the sign-in never becomes a signed-in one
\* (session.service.ts:55-60).
THEOREM NoFixation == Spec => AnonymousStaysAnonymous
<1>1. IInv /\ [Next]_vars
        => [\A s \in Sids : Live(s) /\ ~store[s].user => ~store'[s].user]_vars
  <2> SUFFICES ASSUME IInv, [Next]_vars, NEW s \in Sids, Live(s), ~store[s].user
               PROVE  ~store'[s].user
    OBVIOUS
  <2>1. ~Gone.user
    BY DEF Gone
  <2>2. \/ store'[s] = store[s]
        \/ store'[s].user = store[s].user
        \/ store'[s] = Gone
    BY RecordStep
  <2> QED
    BY <2>1, <2>2
<1> QED
  BY <1>1, SessionInvariant, PTL DEF Spec, AnonymousStaysAnonymous

\* A session that is still good ends by its owner's logout, by a new sign-in in the
\* same browser or by seven idle days (auth.middleware.ts:66-69).
THEOREM OutagesEndNoSession == Spec => GoodSessionsSurvive
<1>1. IInv /\ [Next]_vars
        => [\A s \in Sids :
              Good(s) /\ ~store'[s].kept
              => \/ \E r \in Slots : req[r].sid = s /\ req[r].kind \in {"logout", "callback"}
                 \/ \A r \in Slots : req[r].sid # s]_vars
  <2> SUFFICES ASSUME IInv, [Next]_vars, NEW s \in Sids, Good(s), ~store'[s].kept
               PROVE  \/ \E r \in Slots : req[r].sid = s /\ req[r].kind \in {"logout", "callback"}
                      \/ \A r \in Slots : req[r].sid # s
    OBVIOUS
  <2>1. store'[s] # store[s] /\ s \notin old /\ active
    BY DEF Good, Live
  <2>2. \/ \E r \in Slots : /\ req[r].sid = s
                            /\ \/ req[r].kind \in {"logout", "callback"}
                               \/ s \in old \/ ~active
        \/ \A r \in Slots : req[r].sid # s
    BY <2>1, RecordStep
  <2> QED
    BY <2>1, <2>2
<1> QED
  BY <1>1, SessionInvariant, PTL DEF Spec, GoodSessionsSurvive
=============================================================================
