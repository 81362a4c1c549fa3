---------------------------- MODULE GmailSyncProofs ----------------------------
(* For any callers, messages, connections and faults: the cursor of a mailbox   *)
(* passes no message that is neither stored nor counted as failed.              *)
EXTENDS GmailSync, TLAPS

\* What is stored or counted as failed stays so, or becomes stored.
LEMMA HandledGrows == Next => Handled \subseteq Handled'
<1> SUFFICES ASSUME Next PROVE Handled \subseteq Handled' OBVIOUS
<1>1. CASE \E c \in Callers : CreateEmail(c) BY <1>1 DEF CreateEmail, Handled
<1>2. CASE \E c \in Callers, m \in Messages : SkipMessage(c, m)
  BY <1>2 DEF SkipMessage, Handled
<1>3. CASE UNCHANGED <<stored, skipped>> BY <1>3 DEF Handled
<1> QED
  BY <1>1, <1>2, <1>3 DEF Next, Progress, Arrive, Forget, Revoke, Reconnect, Crash, Load,
    RunFails, Incremental, Full, Watermark, List, AuthFails, FlagReauth, MessagesDone,
    UpdateHistoryId, ClearReauth, Lookup

\* The mailbox only ever receives.
LEMMA TipGrows == TypeOK /\ Next => tip \in Nat /\ tip' \in HistoryIds /\ tip <= tip'
<1> SUFFICES ASSUME TypeOK, Next PROVE tip \in Nat /\ tip' \in HistoryIds /\ tip <= tip'
  OBVIOUS
<1>1. CASE Arrive BY <1>1, SyncAssumption DEF TypeOK, Arrive, HistoryIds
<1>2. CASE tip' = tip BY <1>2, SyncAssumption DEF TypeOK, HistoryIds
<1> QED
  BY <1>1, <1>2 DEF Next, Progress, Forget, Revoke, Reconnect, Crash, Load, google,
    RunFails, Incremental, Full, Watermark, List, AuthFails, FlagReauth, MessagesDone,
    UpdateHistoryId, ClearReauth, Lookup, CreateEmail, SkipMessage

\* What a caller knows stays true while the mailbox and the store grow.
LEMMA KnownStays ==
  ASSUME NEW r \in Run, NEW top \in Nat, NEW top2 \in Nat, NEW H, NEW H2,
         PlaceOK(r, top, H), top <= top2, H \subseteq H2
  PROVE  PlaceOK(r, top2, H2)
<1>1. r.latest \in Nat /\ r.message \in Nat BY SyncAssumption DEF Run, HistoryIds
<1>2. 1..top \subseteq 1..top2 OBVIOUS
<1> QED BY <1>1, <1>2 DEF PlaceOK

\* A caller's step that leaves it at a place it knows leaves every caller at one.
LEMMA StepPlace ==
  ASSUME IInv, Next, NEW c \in Callers, NEW r \in Run, Step(c, r), PlaceOK(r, tip', Handled')
  PROVE  sync' \in [Callers -> Run] /\ \A d \in Callers : PlaceOK(sync'[d], tip', Handled')
<1>1. sync \in [Callers -> Run] BY DEF IInv, TypeOK
<1>2. sync' \in [Callers -> Run] BY <1>1 DEF Step
<1>3. ASSUME NEW d \in Callers PROVE PlaceOK(sync'[d], tip', Handled')
  <2>1. CASE d = c
    <3>1. sync'[d] = r BY <1>1, <2>1 DEF Step
    <3> QED BY <3>1
  <2>2. CASE d # c
    <3>1. sync'[d] = sync[d] /\ sync[d] \in Run BY <1>1, <2>2 DEF Step
    <3>2. PlaceOK(sync[d], tip, Handled) BY DEF IInv
    <3>3. tip \in Nat /\ tip' \in Nat /\ tip <= tip' BY TipGrows DEF IInv, HistoryIds
    <3>4. Handled \subseteq Handled' BY HandledGrows
    <3>5. PlaceOK(sync[d], tip', Handled') BY <3>1, <3>2, <3>3, <3>4, KnownStays
    <3> QED BY <3>1, <3>5
  <2> QED BY <2>1, <2>2
<1> QED BY <1>2, <1>3

\* A caller at rest knows nothing that could become false.
LEMMA RestingPlace ==
  ASSUME NEW a \in Account, NEW pc \in {"idle", "refused", "clear", "watermark"},
         NEW top \in Nat, NEW H
  PROVE  /\ [Idle(a) EXCEPT !.pc = pc] \in Run
         /\ Idle(a) \in Run
         /\ PlaceOK([Idle(a) EXCEPT !.pc = pc], top, H) /\ PlaceOK(Idle(a), top, H)
<1>1. 0 \in HistoryIds /\ {} \subseteq Messages BY SyncAssumption DEF HistoryIds
<1>2. Idle(a) \in Run BY <1>1 DEF Idle, Run
<1>3. [Idle(a) EXCEPT !.pc = pc] \in Run BY <1>1 DEF Idle, Run
<1> QED BY <1>2, <1>3 DEF PlaceOK, Idle

\* The account that stands for none is one.
LEMMA NewAccount == New \in Account
BY SyncAssumption DEF New, Account, HistoryIds, Tokens

\* Whatever a caller does, every caller is at a place it knows afterwards.
LEMMA CallerStep ==
  ASSUME IInv, Next, NEW c \in Callers,
         \/ Load(c) \/ Progress(c) \/ RunFails(c)
         \/ \E m \in Messages : SkipMessage(c, m)
  PROVE  sync' \in [Callers -> Run] /\ \A d \in Callers : PlaceOK(sync'[d], tip', Handled')
<1> DEFINE r == sync[c]
<1>0. /\ r \in Run /\ PlaceOK(r, tip, Handled) /\ account \in Account
      /\ tip \in Nat /\ tip \in HistoryIds /\ tip' \in Nat /\ tip <= tip'
      /\ Handled \subseteq Handled' /\ 1..tip \subseteq Messages
  BY TipGrows, HandledGrows, SyncAssumption DEF IInv, TypeOK, HistoryIds, Messages
<1>1. PlaceOK(r, tip', Handled') BY <1>0, KnownStays
<1> SUFFICES \E q \in Run : Step(c, q) /\ PlaceOK(q, tip', Handled') BY StepPlace
<1>2. CASE Load(c)
  <2> DEFINE q == [Idle(account) EXCEPT !.pc = "loaded"]
  <2>1. 0 \in HistoryIds BY SyncAssumption DEF HistoryIds
  <2>2. q \in Run BY <1>0, <2>1 DEF Idle, Run
  <2>3. 1..account.historyId \subseteq Handled' BY <1>0 DEF IInv, NoGaps
  <2>4. PlaceOK(q, tip', Handled') BY <1>0, <2>3 DEF PlaceOK, Idle
  <2> QED BY <1>2, <2>2, <2>4 DEF Load
<1>3. CASE Incremental(c)
  <2>1. WithoutId(r) \in Run BY <1>0, SyncAssumption DEF WithoutId, Run, Account, HistoryIds
  <2>2. CASE r.copy.historyId < oldest
    <3> DEFINE q == [WithoutId(r) EXCEPT !.pc = "watermark"]
    <3>1. q \in Run BY <2>1 DEF Run
    <3>2. PlaceOK(q, tip', Handled') BY <1>0, <1>1 DEF PlaceOK, WithoutId, Run
    <3> QED BY <1>3, <2>2, <3>1, <3>2 DEF Incremental
  <2>3. CASE ~(r.copy.historyId < oldest)
    <3> DEFINE todo == (r.copy.historyId + 1)..tip
               q == [WithoutId(r) EXCEPT !.pc = "messages", !.latest = tip, !.todo = todo]
    <3>1. r.copy.historyId \in Nat BY <1>0, SyncAssumption DEF Run, Account, HistoryIds
    <3>2. todo \subseteq 1..tip BY <1>0, <3>1
    <3>3. q \in Run BY <1>0, <2>1, <3>2 DEF Run
    <3>4. q.pc = "messages" /\ q.latest = tip /\ q.todo = todo /\ q.message = r.message
      BY <1>0, <2>1 DEF WithoutId, Run
    <3>5. 1..r.copy.historyId \subseteq Handled'
      BY <1>1, <1>3 DEF PlaceOK, Incremental, At
    <3>6. 1..tip \subseteq (1..r.copy.historyId) \cup todo BY <1>0, <3>1
    <3>7. PlaceOK(q, tip', Handled')
      <4>1. r.message <= tip' BY <1>1 DEF PlaceOK
      <4>2. todo \subseteq 1..tip' BY <1>0, <3>2
      <4> QED BY <1>0, <3>4, <3>5, <3>6, <4>1, <4>2 DEF PlaceOK
    <3> QED BY <1>3, <2>3, <3>3, <3>7 DEF Incremental
  <2> QED BY <2>2, <2>3
<1>4. CASE Full(c)
  <2> DEFINE q == [r EXCEPT !.pc = "watermark"]
  <2>1. q \in Run BY <1>0 DEF Run
  <2>2. PlaceOK(q, tip', Handled') BY <1>0, <1>1 DEF PlaceOK, Run
  <2> QED BY <1>4, <2>1, <2>2 DEF Full
<1>5. CASE Watermark(c)
  <2> DEFINE q == [r EXCEPT !.pc = "list", !.latest = tip]
  <2>1. q \in Run BY <1>0 DEF Run
  <2>2. PlaceOK(q, tip', Handled') BY <1>0, <1>1 DEF PlaceOK, Run
  <2> QED BY <1>5, <2>1, <2>2 DEF Watermark
<1>6. CASE List(c)
  <2> DEFINE q == [r EXCEPT !.pc = "messages", !.todo = 1..tip]
  <2>1. q \in Run BY <1>0 DEF Run
  <2>2. q.pc = "messages" /\ q.latest = r.latest /\ q.todo = 1..tip /\ q.message = r.message
    BY <1>0 DEF Run
  <2>3. r.latest \in Nat /\ r.latest <= tip
    BY <1>0, SyncAssumption DEF PlaceOK, Run, HistoryIds
  <2>4. 1..r.latest \subseteq 1..tip /\ 1..tip \subseteq 1..tip' BY <1>0, <2>3
  <2>5. r.latest <= tip' /\ r.message <= tip' BY <1>1 DEF PlaceOK
  <2>6. PlaceOK(q, tip', Handled') BY <2>2, <2>4, <2>5 DEF PlaceOK
  <2> QED BY <1>6, <2>1, <2>6 DEF List
<1>7. CASE AuthFails(c)
  BY <1>0, <1>7, RestingPlace, NewAccount DEF AuthFails
<1>8. CASE FlagReauth(c) \/ RunFails(c) \/ ClearReauth(c)
  BY <1>0, <1>8, RestingPlace, NewAccount DEF FlagReauth, RunFails, ClearReauth
<1>9. CASE CreateEmail(c)
  <2> DEFINE q == [r EXCEPT !.message = 0]
  <2>1. q \in Run BY <1>0, SyncAssumption DEF Run, HistoryIds
  <2>2. r.message \in Handled' BY <1>9 DEF CreateEmail, Handled
  <2>3. PlaceOK(q, tip', Handled') BY <1>0, <1>1, <2>2 DEF PlaceOK, Run
  <2> QED BY <1>9, <2>1, <2>3 DEF CreateEmail
<1>10. CASE MessagesDone(c)
  <2> DEFINE q == [WithoutToken(r) EXCEPT !.pc = "done"]
  <2>1. q \in Run
    <3>1. 1 \in Tokens BY SyncAssumption DEF Tokens
    <3>2. [r.copy EXCEPT !.token = 1] \in Account BY <1>0, <3>1 DEF Run, Account
    <3>3. WithoutToken(r) \in Run BY <1>0, <3>2 DEF WithoutToken, Run
    <3> QED BY <3>3 DEF Run
  <2>2. q.pc = "done" /\ q.latest = r.latest /\ q.todo = r.todo /\ q.message = r.message
    BY <1>0 DEF WithoutToken, Run
  <2>3. r.pc = "messages" /\ r.todo = {} /\ r.message = 0 BY <1>10 DEF MessagesDone, At
  <2>4. 1..r.latest \subseteq Handled'
    <3>1. 1..r.latest \subseteq Handled' \cup {0} BY <1>1, <2>3 DEF PlaceOK
    <3>2. r.latest \in Nat BY <1>0, SyncAssumption DEF Run, HistoryIds
    <3>3. 0 \notin 1..r.latest BY <3>2
    <3> QED BY <3>1, <3>3
  <2>5. PlaceOK(q, tip', Handled') BY <1>1, <2>2, <2>4 DEF PlaceOK
  <2> QED BY <1>10, <2>1, <2>5 DEF MessagesDone
<1>11. CASE UpdateHistoryId(c)
  <2> DEFINE q == [r EXCEPT !.pc = "clear"]
  <2>1. q \in Run BY <1>0 DEF Run
  <2>2. PlaceOK(q, tip', Handled') BY <1>0, <1>1 DEF PlaceOK, Run
  <2>3. Step(c, q) \/ Step(c, Idle(New)) BY <1>11 DEF UpdateHistoryId
  <2> QED BY <1>0, <2>1, <2>2, <2>3, RestingPlace, NewAccount
<1>12. ASSUME NEW m \in Messages, Lookup(c, m)
       PROVE \E q \in Run : Step(c, q) /\ PlaceOK(q, tip', Handled')
  <2> DEFINE next == IF m \in stored THEN 0 ELSE m
             q == [r EXCEPT !.todo = r.todo \ {m}, !.message = next]
  <2>1. next \in HistoryIds BY SyncAssumption DEF Messages, HistoryIds
  <2>2. q \in Run BY <1>0, <2>1 DEF Run
  <2>3. q.pc = r.pc /\ q.latest = r.latest /\ q.todo = r.todo \ {m} /\ q.message = next
    BY <1>0 DEF Run
  <2>4. m \in r.todo /\ r.message = 0 /\ r.pc = "messages" BY <1>12 DEF Lookup, At
  <2>5. next <= tip' BY <1>0, <1>1, <2>4, SyncAssumption DEF PlaceOK, Messages
  <2>6. m \in Handled' \/ next = m BY <1>0 DEF Handled
  <2>7. 1..r.latest \subseteq Handled' \cup r.todo
    <3>1. 1..r.latest \subseteq Handled' \cup r.todo \cup {0} BY <1>1, <2>4 DEF PlaceOK
    <3>2. r.latest \in Nat BY <1>0, SyncAssumption DEF Run, HistoryIds
    <3> QED BY <3>1, <3>2
  <2>8. PlaceOK(q, tip', Handled') BY <1>1, <2>3, <2>4, <2>5, <2>6, <2>7 DEF PlaceOK
  <2> QED BY <1>12, <2>2, <2>8 DEF Lookup
<1>13. ASSUME NEW m \in Messages, SkipMessage(c, m)
       PROVE \E q \in Run : Step(c, q) /\ PlaceOK(q, tip', Handled')
  <2> DEFINE q == [r EXCEPT !.todo = r.todo \ {m}, !.message = 0]
  <2>1. q \in Run
    <3>1. 0 \in HistoryIds BY SyncAssumption DEF HistoryIds
    <3> QED BY <1>0, <3>1 DEF Run
  <2>2. q.pc = r.pc /\ q.latest = r.latest /\ q.todo = r.todo \ {m} /\ q.message = 0
    BY <1>0 DEF Run
  <2>3. m \in Handled' /\ (r.message = 0 \/ r.message = m)
    BY <1>13 DEF SkipMessage, Handled
  <2>4. r.pc = "messages" BY <1>13 DEF SkipMessage, At
  <2>5. 1..r.latest \subseteq Handled' \cup q.todo \cup {0}
    BY <1>1, <2>2, <2>3, <2>4 DEF PlaceOK
  <2>6. PlaceOK(q, tip', Handled') BY <1>0, <1>1, <2>2, <2>4, <2>5 DEF PlaceOK
  <2> QED BY <1>13, <2>1, <2>6 DEF SkipMessage
<1> QED
  BY <1>2, <1>3, <1>4, <1>5, <1>6, <1>7, <1>8, <1>9, <1>10, <1>11, <1>12, <1>13 DEF Progress

\* The account row keeps its type, and its cursor passes handled messages only.
LEMMA AccountStep == IInv /\ Next => account' \in Account /\ NoGaps'
<1> SUFFICES ASSUME IInv, Next PROVE account' \in Account /\ NoGaps' OBVIOUS
<1>0. account \in Account /\ 1..account.historyId \subseteq Handled' 
  BY HandledGrows DEF IInv, TypeOK, NoGaps
<1>1. CASE account' = account BY <1>0, <1>1 DEF NoGaps
<1>2. CASE Reconnect
  <2>1. account.token + 1 \in Tokens
    BY <1>0, <1>2, SyncAssumption DEF Reconnect, Account, Tokens
  <2>2. account' \in Account /\ account'.historyId = account.historyId
    BY <1>0, <1>2, <2>1 DEF Reconnect, Account
  <2> QED BY <1>0, <2>2 DEF NoGaps
<1>3. CASE \E c \in Callers : FlagReauth(c) \/ ClearReauth(c)
  <2>1. account' \in Account /\ account'.historyId = account.historyId
    BY <1>0, <1>3 DEF FlagReauth, ClearReauth, Account
  <2> QED BY <1>0, <2>1 DEF NoGaps
<1>4. ASSUME NEW c \in Callers, UpdateHistoryId(c) PROVE account' \in Account /\ NoGaps'
  <2>1. sync[c].pc = "done" /\ account' = [account EXCEPT !.historyId = sync[c].latest]
    BY <1>4 DEF UpdateHistoryId, At
  <2>2. sync[c].latest \in HistoryIds BY DEF IInv, TypeOK, Run
  <2>3. 1..sync[c].latest \subseteq Handled BY <2>1 DEF IInv, PlaceOK
  <2>4. account' \in Account /\ account'.historyId = sync[c].latest
    BY <1>0, <2>1, <2>2 DEF Account
  <2> QED BY <2>3, <2>4, HandledGrows DEF NoGaps
<1> QED
  BY <1>1, <1>2, <1>3, <1>4 DEF Next, Progress, Arrive, Forget, Revoke, Crash, Load,
    RunFails, Incremental, Full, Watermark, List, AuthFails, MessagesDone, Lookup,
    CreateEmail, SkipMessage

\* Only messages of the mailbox are stored or counted.
LEMMA StoreStep ==
  IInv /\ Next => stored' \in SUBSET (1..tip') /\ skipped' \in SUBSET (1..tip')
<1> SUFFICES ASSUME IInv, Next
             PROVE  stored' \subseteq 1..tip' /\ skipped' \subseteq 1..tip'
  OBVIOUS
<1>0. stored \subseteq 1..tip' /\ skipped \subseteq 1..tip' /\ 1..tip \subseteq 1..tip'
      /\ tip' \in Nat
  BY TipGrows DEF IInv, TypeOK, HistoryIds
<1>1. CASE UNCHANGED <<stored, skipped>> BY <1>0, <1>1
<1>2. ASSUME NEW c \in Callers, CreateEmail(c)
      PROVE  stored' \subseteq 1..tip' /\ skipped' \subseteq 1..tip'
  <2>1. sync[c].message \in Nat /\ sync[c].message # 0 /\ sync[c].message <= tip
    BY <1>2, SyncAssumption DEF CreateEmail, IInv, TypeOK, Run, HistoryIds, PlaceOK
  <2>2. sync[c].message \in 1..tip BY <2>1, TipGrows DEF IInv
  <2> QED BY <1>0, <1>2, <2>2 DEF CreateEmail
<1>3. ASSUME NEW c \in Callers, NEW m \in Messages, SkipMessage(c, m)
      PROVE  stored' \subseteq 1..tip' /\ skipped' \subseteq 1..tip'
  <2>1. sync[c].todo \subseteq 1..tip /\ sync[c].message <= tip BY DEF IInv, PlaceOK
  <2>2. m \in sync[c].todo \/ m = sync[c].message BY <1>3 DEF SkipMessage
  <2>3. m \in 1..tip BY <2>1, <2>2, TipGrows DEF IInv, Messages
  <2> QED BY <1>0, <1>3, <2>3 DEF SkipMessage
<1> QED
  BY <1>1, <1>2, <1>3 DEF Next, Progress, Arrive, Forget, Revoke, Reconnect, Crash, Load,
    RunFails, Incremental, Full, Watermark, List, AuthFails, FlagReauth, MessagesDone,
    UpdateHistoryId, ClearReauth, Lookup

\* Google's side and the faults keep their types.
LEMMA GoogleStep ==
  TypeOK /\ Next => /\ oldest' \in HistoryIds /\ revoked' \in 0..MaxTokens
                   /\ faults' \in 0..MaxFaults
<1> SUFFICES ASSUME TypeOK, Next
             PROVE  /\ oldest' \in HistoryIds /\ revoked' \in 0..MaxTokens
                    /\ faults' \in 0..MaxFaults
  OBVIOUS
<1>1. oldest' \in HistoryIds /\ revoked' \in 0..MaxTokens
  <2>1. CASE Forget BY <2>1 DEF Forget, TypeOK
  <2>2. CASE Revoke
    <3>1. account.token \in 1..MaxTokens BY DEF TypeOK, Account, Tokens
    <3> QED BY <2>2, <3>1, SyncAssumption DEF Revoke, TypeOK
  <2>3. CASE UNCHANGED <<oldest, revoked>> BY <2>3 DEF TypeOK
  <2> QED
    BY <2>1, <2>2, <2>3 DEF Next, Progress, Arrive, Reconnect, Crash, Load, google,
      RunFails, Incremental, Full, Watermark, List, AuthFails, FlagReauth, MessagesDone,
      UpdateHistoryId, ClearReauth, Lookup, CreateEmail, SkipMessage
<1>2. faults' \in 0..MaxFaults
  <2>1. CASE Fault BY <2>1, SyncAssumption DEF Fault, TypeOK
  <2>2. CASE UNCHANGED faults BY <2>2 DEF TypeOK
  <2> QED
    BY <2>1, <2>2 DEF Next, Progress, Arrive, Forget, Revoke, Reconnect, Crash, Load,
      RunFails, Incremental, Full, Watermark, List, AuthFails, FlagReauth, MessagesDone,
      UpdateHistoryId, ClearReauth, Lookup, CreateEmail, SkipMessage
<1> QED BY <1>1, <1>2

\* Every caller is at a place it knows after any step, its own or another's.
LEMMA SyncStep ==
  IInv /\ Next =>
    sync' \in [Callers -> Run] /\ \A d \in Callers : PlaceOK(sync'[d], tip', Handled')
<1> SUFFICES ASSUME IInv, Next
             PROVE  /\ sync' \in [Callers -> Run]
                    /\ \A d \in Callers : PlaceOK(sync'[d], tip', Handled')
  OBVIOUS
<1>0. tip \in Nat /\ tip' \in Nat /\ tip <= tip' /\ Handled \subseteq Handled'
  BY TipGrows, HandledGrows DEF IInv, HistoryIds
<1>1. CASE sync' = sync
  <2>1. sync \in [Callers -> Run] BY DEF IInv, TypeOK
  <2>2. ASSUME NEW d \in Callers PROVE PlaceOK(sync[d], tip', Handled')
    BY <1>0, <2>1, KnownStays DEF IInv
  <2> QED BY <1>1, <2>1, <2>2
<1>2. CASE Crash
  <2>1. sync' = [c \in Callers |-> Idle(New)] BY <1>2 DEF Crash
  <2>2. Idle(New) \in Run /\ PlaceOK(Idle(New), tip', Handled')
    BY <1>0, RestingPlace, NewAccount
  <2> QED BY <2>1, <2>2
<1>3. CASE \E c \in Callers : \/ Load(c) \/ Progress(c) \/ RunFails(c)
                              \/ \E m \in Messages : SkipMessage(c, m)
  BY <1>3, CallerStep
<1> QED BY <1>1, <1>2, <1>3 DEF Next, Arrive, Forget, Revoke, Reconnect

LEMMA InvInit == Init => IInv
<1> SUFFICES ASSUME Init PROVE IInv OBVIOUS
<1>1. 0 \in HistoryIds /\ 0 \in Nat /\ 1..0 = {} BY SyncAssumption DEF HistoryIds
<1>2. Idle(New) \in Run /\ PlaceOK(Idle(New), 0, Handled)
  BY <1>1, RestingPlace, NewAccount
<1>3. TypeOK BY <1>1, <1>2, NewAccount, SyncAssumption DEF Init, TypeOK
<1>4. NoGaps BY <1>1 DEF Init, NoGaps, New
<1>5. ASSUME NEW c \in Callers PROVE PlaceOK(sync[c], tip, Handled)
  BY <1>2 DEF Init
<1> QED BY <1>3, <1>4, <1>5 DEF IInv

LEMMA InvStep == IInv /\ [Next]_vars => IInv'
<1> SUFFICES ASSUME IInv, [Next]_vars PROVE IInv' OBVIOUS
<1>1. CASE Next
  BY <1>1, TipGrows, GoogleStep, AccountStep, StoreStep, SyncStep DEF IInv, TypeOK
<1>2. CASE UNCHANGED vars
  BY <1>2 DEF vars, IInv, TypeOK, NoGaps, Handled, PlaceOK
<1> QED BY <1>1, <1>2

\* Types, cursor and what each caller knows hold together in every reachable state.
THEOREM SyncInvariant == Spec => []IInv
BY InvInit, InvStep, PTL DEF Spec

\* However syncs overlap, fail and race, the cursor written to the account row
\* (gmail.sync.service.ts:228) leaves no message behind it unhandled.
THEOREM CursorLeavesNoGaps == Spec => []NoGaps
<1>1. IInv => NoGaps BY DEF IInv
<1> QED BY <1>1, SyncInvariant, PTL
=============================================================================
