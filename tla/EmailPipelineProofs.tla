------------------------- MODULE EmailPipelineProofs -------------------------
(* The email pipeline's type invariant and main safety properties, for every  *)
(* set of emails, attachments and workers and every retry budget.             *)
EXTENDS EmailPipeline, TLAPS

\* The queue operations keep a job slot well formed.
LEMMA SlotOperations ==
  ASSUME NEW j \in Job
  PROVE  /\ Add(j) \in Job /\ Removed \in Job /\ Promote(j) \in Job /\ Unlock(j) \in Job
         /\ \A w \in Workers : Claim(j, w) \in Job
         /\ Reclaim(j) \in Job
         /\ j.made < Attempts => FailAttempt(j) \in Job /\ Refused(j) \in Job
<1> USE QueueAssumption DEF Job, JobStates
<1>1. NoJob \in Job /\ Removed \in Job BY DEF NoJob, Removed
<1>2. Add(j) \in Job BY <1>1 DEF Add, NoJob
<1>3. Promote(j) \in Job /\ Unlock(j) \in Job BY DEF Promote, Unlock
<1>4. \A w \in Workers : Claim(j, w) \in Job BY DEF Claim
<1>5. Reclaim(j) \in Job
  <2>1. CASE j.stalls < MaxStalled
    <3>1. j.stalls + 1 \in 0..MaxStalled BY <2>1
    <3> QED BY <2>1, <3>1 DEF Reclaim
  <2>2. CASE ~(j.stalls < MaxStalled)
    BY <2>2 DEF Reclaim
  <2> QED BY <2>1, <2>2
<1>6. ASSUME j.made < Attempts PROVE FailAttempt(j) \in Job /\ Refused(j) \in Job
  <2>1. j.made + 1 \in 0..Attempts BY <1>6
  <2>2. (IF j.made + 1 < Attempts THEN "delayed" ELSE "failed") \in JobStates OBVIOUS
  <2> QED BY <2>1, <2>2 DEF FailAttempt, Refused
<1> QED BY <1>1, <1>2, <1>3, <1>4, <1>5, <1>6

\* A worker that moves on keeps a well-formed run record.
LEMMA GoToType ==
  ASSUME run \in [Workers -> Run], NEW w \in Workers, NEW pc \in PCs, GoTo(w, pc)
  PROVE  run' \in [Workers -> Run]
BY DEF GoTo, Run

\* A worker whose statement rejected keeps a well-formed run record.
LEMMA FailWithType ==
  ASSUME run \in [Workers -> Run], NEW w \in Workers, NEW err \in {"other", "p2002"},
         FailWith(w, err)
  PROVE  run' \in [Workers -> Run]
<1>1. "fail" \in PCs BY DEF PCs
<1>2. [run[w] EXCEPT !.pc = "fail", !.error = err] \in Run BY <1>1 DEF Run
<1>3. run' = [run EXCEPT ![w] = [run[w] EXCEPT !.pc = "fail", !.error = err]]
  BY DEF FailWith
<1> QED BY <1>2, <1>3

\* The idle and the dead worker's records are well formed.
LEMMA NoRunType == NoRun \in Run /\ [NoRun EXCEPT !.pc = "down"] \in Run
<1>1. "idle" \in PCs /\ "down" \in PCs BY DEF PCs
<1>2. NoRun \in Run BY <1>1 DEF NoRun, Run
<1> QED BY <1>1, <1>2 DEF Run

\* A process that dies leaves well-formed records behind.
LEMMA DieType ==
  ASSUME TypeOK, NEW w \in Workers, Die(w)
  PROVE  /\ run' \in [Workers -> Run] /\ job' \in [Emails -> Job]
         /\ update' \in [Workers -> {"none", "running", "done"}]
         /\ detached' \in SUBSET (Workers \X Emails)
BY NoRunType, SlotOperations DEF Die, TypeOK

\* A worker running a handler runs it on some email.
LEMMA BusyEmail ==
  ASSUME IInv, NEW w \in Workers, Busy(w) PROVE run[w].email \in Emails
BY DEF IInv, PlaceOK

\* Every step keeps the types; ThrowJob needs the lock and the attempts left.
LEMMA TypeStep == IInv /\ Next => TypeOK'
<1> SUFFICES ASSUME IInv, Next PROVE TypeOK' OBVIOUS
<1> USE QueueAssumption, EmailAssumption DEF TypeOK, IInv, database, producers
<1>1. CASE Api
  <2>1. ASSUME NEW e \in Emails, Persist(e) PROVE TypeOK'
    BY <2>1 DEF Persist, Statuses
  <2>2. ASSUME NEW e \in Emails, Enqueue(e) PROVE TypeOK'
    BY <2>2, SlotOperations DEF Enqueue
  <2>3. ASSUME NEW e \in Emails, EnqueueFails(e) PROVE TypeOK'
    BY <2>3 DEF EnqueueFails
  <2>4. ASSUME NEW e \in Emails, Age(e) PROVE TypeOK'
    BY <2>4 DEF Age
  <2>5. ASSUME NEW e \in Emails, SweepEnqueue(e) PROVE TypeOK'
    BY <2>5, SlotOperations DEF SweepEnqueue
  <2>6. ASSUME NEW e \in Emails, SweepEnqueueFails(e) PROVE TypeOK'
    BY <2>6 DEF SweepEnqueueFails, Fault
  <2>7. CASE SweepStart
    BY <2>7 DEF SweepStart
  <2>8. CASE SweepEnd
    BY <2>8 DEF SweepEnd
  <2>9. CASE ApiCrash
    BY <2>9 DEF ApiCrash, Fault
  <2> QED BY <1>1, <2>1, <2>2, <2>3, <2>4, <2>5, <2>6, <2>7, <2>8, <2>9 DEF Api
<1>2. CASE Queue
  <2>1. ASSUME NEW e \in Emails, NEW w \in Workers, Take(w, e) PROVE TypeOK'
    BY <2>1, SlotOperations DEF Take, Run, NoRun, PCs
  <2>2. ASSUME NEW e \in Emails, BackoffElapses(e) PROVE TypeOK'
    BY <2>2, SlotOperations DEF BackoffElapses
  <2>3. ASSUME NEW e \in Emails, LockLapses(e) PROVE TypeOK'
    BY <2>3, SlotOperations DEF LockLapses, Fault
  <2>4. ASSUME NEW e \in Emails, StalledCheck(e) PROVE TypeOK'
    BY <2>4, SlotOperations DEF StalledCheck
  <2> QED BY <1>2, <2>1, <2>2, <2>3, <2>4 DEF Queue
<1>3. ASSUME NEW w \in Workers, Handler(w) PROVE TypeOK'
  <2> USE <1>3, GoToType, NoRunType, BusyEmail DEF Busy
  <2>1. CASE MarkProcessing(w)
    <3>1. "extract" \in PCs BY DEF PCs
    <3> QED BY <2>1, <3>1 DEF MarkProcessing, Statuses
  <2>2. CASE Extract(w)
    <3>1. PICK v \in Verdicts :
            /\ extraction' = [extraction EXCEPT ![run[w].email] = v]
            /\ run' = [run EXCEPT ![w].verdict = v,
                                  ![w].pc = IF v = "unviable" THEN "ignore" ELSE "match"]
      BY <2>2 DEF Extract
    <3>2. (IF v = "unviable" THEN "ignore" ELSE "match") \in PCs BY DEF PCs
    <3>3. run' \in [Workers -> Run]
      <4> DEFINE r == [run[w] EXCEPT !.verdict = v,
                         !.pc = IF v = "unviable" THEN "ignore" ELSE "match"]
      <4>1. r \in Run BY <3>2 DEF Run
      <4>2. run' = [run EXCEPT ![w] = r] BY <3>1
      <4> QED BY <4>1, <4>2
    <3>4. extraction' \in [Emails -> Verdicts \cup {"none"}] BY <3>1
    <3> QED BY <2>2, <3>3, <3>4 DEF Extract
  <2>3. CASE Ignore(w)
    <3>1. "complete" \in PCs BY DEF PCs
    <3> QED BY <2>3, <3>1 DEF Ignore, Statuses
  <2>4. CASE MatchNone(w)
    <3>1. "create" \in PCs BY DEF PCs
    <3> QED BY <2>4, <3>1 DEF MatchNone
  <2>5. CASE MatchFound(w)
    <3>1. "update" \in PCs BY DEF PCs
    <3> QED BY <2>5, <3>1 DEF MatchFound
  <2>6. CASE Create(w)
    <3>1. (IF run[w].verdict = "uncertain" THEN "complete" ELSE "mark") \in PCs BY DEF PCs
    <3> QED BY <2>6, <3>1 DEF Create
  <2>7. CASE MarkCreated(w)
    <3>1. "complete" \in PCs BY DEF PCs
    <3> QED BY <2>7, <3>1 DEF MarkCreated, Statuses
  <2>8. CASE MarkUpdated(w)
    <3>1. "updateAck" \in PCs BY DEF PCs
    <3> QED BY <2>8, <3>1 DEF MarkUpdated, Statuses
  <2>9. CASE MarkAcknowledged(w)
    <3>1. "join" \in PCs BY DEF PCs
    <3> QED BY <2>9, <3>1 DEF MarkAcknowledged
  <2>10. CASE JoinUpdate(w)
    <3>1. "complete" \in PCs BY DEF PCs
    <3> QED BY <2>10, <3>1 DEF JoinUpdate
  <2>11. CASE MarkCompleted(w)
    <3>1. "fanout" \in PCs BY DEF PCs
    <3> QED BY <2>11, <3>1 DEF MarkCompleted, Statuses
  <2>12. CASE ListAttachments(w)
    <3> DEFINE r == [run[w] EXCEPT !.pc = "enqueue",
                       !.todo = {a \in FilesOf(run[w].email) : file[a] # "completed"}]
    <3>1. "enqueue" \in PCs BY DEF PCs
    <3>2. r \in Run BY <3>1 DEF Run, FilesOf
    <3>3. run' = [run EXCEPT ![w] = r] BY <2>12 DEF ListAttachments, FilesOf
    <3>4. run' \in [Workers -> Run] BY <3>2, <3>3
    <3> HIDE DEF r
    <3> QED BY <2>12, <3>4 DEF ListAttachments
  <2>13. ASSUME NEW a \in Attachments, EnqueueAttachment(w, a) PROVE TypeOK'
    BY <2>13 DEF EnqueueAttachment, Run
  <2>14. CASE AttachmentsEnqueued(w)
    <3>1. "finish" \in PCs BY DEF PCs
    <3> QED BY <2>14, <3>1 DEF AttachmentsEnqueued
  <2>15. CASE MarkFailed(w)
    <3>1. (IF run[w].error = "p2002" THEN "finish" ELSE "throw") \in PCs BY DEF PCs
    <3> QED BY <2>15, <3>1 DEF MarkFailed, Statuses
  <2>16. CASE FinishJob(w)
    <3>1. job' \in [Emails -> Job] BY <2>16, SlotOperations, NoRunType DEF FinishJob
    <3> QED BY <2>16, <3>1 DEF FinishJob
  <2>17. CASE ThrowJob(w)
    <3>1. job[run[w].email].lock = w => job[run[w].email].made < Attempts
      BY <2>17 DEF ThrowJob, LockIsRunning, AttemptsLeft
    <3>2. job' \in [Emails -> Job] BY <2>17, <3>1, SlotOperations DEF ThrowJob
    <3> QED BY <2>17, <3>2 DEF ThrowJob
  <2> QED BY <2>1, <2>2, <2>3, <2>4, <2>5, <2>6, <2>7, <2>8, <2>9, <2>10, <2>11, <2>12, <2>13, <2>14, <2>15, <2>16, <2>17 DEF Handler
<1>4. ASSUME NEW w \in Workers, Floating(w) PROVE TypeOK'
  <2> USE BusyEmail, DieType, FailWithType DEF Busy
  <2>1. CASE UpdateCommits(w)
    BY <2>1 DEF UpdateCommits
  <2>2. CASE UpdateRejectsUnawaited(w)
    BY <2>2 DEF UpdateRejectsUnawaited, Rejection, Fault
  <2>3. CASE UpdateRejectsAwaited(w)
    BY <2>3 DEF UpdateRejectsAwaited, Rejection, Fault
  <2>4. ASSUME NEW e \in Emails, DetachedCommits(w, e) PROVE TypeOK'
    BY <2>4 DEF DetachedCommits
  <2>5. ASSUME NEW e \in Emails, DetachedRejects(w, e) PROVE TypeOK'
    BY <2>5 DEF DetachedRejects, Rejection, Fault
  <2> QED BY <1>4, <2>1, <2>2, <2>3, <2>4, <2>5 DEF Floating
<1>5. ASSUME NEW w \in Workers, Failure(w) \/ Restart(w) PROVE TypeOK'
  <2> USE BusyEmail, DieType, FailWithType, GoToType DEF Busy
  <2>1. CASE MarkUpdatedFails(w)
    BY <2>1 DEF MarkUpdatedFails, Fault
  <2>2. CASE StepFails(w)
    BY <2>2, FailWithType DEF StepFails, Rejection, Fault
  <2>3. CASE OuterStepFails(w)
    <3>1. "throw" \in PCs BY DEF PCs
    <3> QED BY <2>3, <3>1 DEF OuterStepFails, Fault
  <2>4. CASE Crash(w)
    BY <2>4 DEF Crash, Fault
  <2>5. CASE Restart(w)
    <3>1. "idle" \in PCs BY DEF PCs
    <3> QED BY <2>5, <3>1 DEF Restart
  <2>6. CASE Disowned(w)
    <3>1. job[run[w].email].lock = w => job[run[w].email].made < Attempts
      BY <2>6 DEF Disowned, LockIsRunning, AttemptsLeft
    <3>2. job' \in [Emails -> Job] BY <2>6, <3>1, SlotOperations DEF Disowned
    <3>3. run' \in [Workers -> Run] BY <2>6, NoRunType DEF Disowned
    <3> QED BY <2>6, <3>2, <3>3 DEF Disowned, Fault
  <2> QED BY <1>5, <2>1, <2>2, <2>3, <2>4, <2>5, <2>6 DEF Failure
<1>6. ASSUME NEW a \in Attachments, AttachmentSettles(a) \/ AttachmentRecovered(a)
      PROVE  TypeOK'
  BY <1>6 DEF AttachmentSettles, AttachmentRecovered
<1> QED BY <1>1, <1>2, <1>3, <1>4, <1>5, <1>6 DEF Next
-----------------------------------------------------------------------------
\* What no step takes back: a stored extraction, a committed answer, an
\* attachment handed over.
Grows ==
  /\ \A e \in Emails : extraction[e] # "none" => extraction'[e] # "none"
  /\ \A e \in Emails : adjudicated[e] => adjudicated'[e]
  /\ \A a \in Attachments : Handed(a) => Handed(a)'

\* No handler, failure or settlement undoes any of them.
LEMMA GrowsStep == IInv /\ Next => Grows
<1> SUFFICES ASSUME IInv, Next PROVE Grows OBVIOUS
<1> USE DEF IInv, TypeOK, Grows, Handed, database
<1>1. CASE Api
  BY <1>1 DEF Api, Persist, Enqueue, EnqueueFails, Age, SweepEnqueue, SweepEnqueueFails,
     SweepStart, SweepEnd, ApiCrash
<1>2. CASE Queue
  BY <1>2 DEF Queue, Take, BackoffElapses, LockLapses, StalledCheck
<1>3. ASSUME NEW w \in Workers, Handler(w) PROVE Grows
  <2>1. CASE Extract(w)
    BY <2>1 DEF Extract, Verdicts
  <2>2. CASE Create(w)
    BY <2>2 DEF Create
  <2>3. ASSUME NEW a \in Attachments, EnqueueAttachment(w, a) PROVE Grows
    BY <2>3 DEF EnqueueAttachment
  <2>4. CASE UNCHANGED <<extraction, adjudicated, file, fileJob>>
    BY <2>4
  <2> QED
    BY <1>3, <2>1, <2>2, <2>3, <2>4 DEF Handler, MarkProcessing, Ignore, MatchNone,
       MatchFound, MarkCreated, MarkUpdated, MarkAcknowledged, JoinUpdate, MarkCompleted,
       ListAttachments, AttachmentsEnqueued, MarkFailed, FinishJob, ThrowJob
<1>4. ASSUME NEW w \in Workers, Floating(w) PROVE Grows
  BY <1>4 DEF Floating, UpdateCommits, UpdateRejectsUnawaited, UpdateRejectsAwaited,
     DetachedCommits, DetachedRejects
<1>5. ASSUME NEW w \in Workers, Failure(w) \/ Restart(w) PROVE Grows
  BY <1>5 DEF Failure, MarkUpdatedFails, StepFails, OuterStepFails, Disowned, Crash, Restart
<1>6. ASSUME NEW a \in Attachments, AttachmentSettles(a) \/ AttachmentRecovered(a)
      PROVE  Grows
  BY <1>6 DEF AttachmentSettles, AttachmentRecovered
<1> QED BY <1>1, <1>2, <1>3, <1>4, <1>5, <1>6 DEF Next
-----------------------------------------------------------------------------
\* A step that leaves a worker alone leaves what its place says true.
Stays(v) == run'[v] = run[v] /\ update'[v] = update[v]

\* Its extraction, answer and attachments are at least where they were.
LEMMA Frame ==
  ASSUME IInv, Grows, NEW v \in Workers, Stays(v)
  PROVE  PlaceOK(v)' /\ UpdateOK(v)'
<1>1. PlaceOK(v) /\ UpdateOK(v) BY DEF IInv
<1>2. PlaceOK(v)'
  BY <1>1 DEF PlaceOK, Stays, Grows, Busy, Answered, FilesOf
<1>3. UpdateOK(v)'
  <2>1. update[v] # "none" => run[v].email \in Emails
    BY <1>1 DEF UpdateOK, PlaceOK, Busy
  <2> QED BY <1>1, <2>1 DEF UpdateOK, Stays, Grows
<1> QED BY <1>2, <1>3

\* A worker's step leaves the other workers alone.
LEMMA OthersStay ==
  ASSUME TypeOK, NEW w \in Workers, NEW v \in Workers, v # w,
         Handler(w) \/ Floating(w) \/ Failure(w) \/ Restart(w)
  PROVE  Stays(v)
<1> USE DEF TypeOK, Stays, GoTo, FailWith, Die
<1>1. CASE MarkProcessing(w) \/ Extract(w) \/ Ignore(w) \/ MatchNone(w) \/ MatchFound(w)
  <2>1. CASE MarkProcessing(w) \/ Extract(w) BY <2>1 DEF MarkProcessing, Extract
  <2>2. CASE Ignore(w) \/ MatchNone(w) \/ MatchFound(w)
    BY <2>2 DEF Ignore, MatchNone, MatchFound
  <2> QED BY <1>1, <2>1, <2>2
<1>2. CASE \/ Create(w) \/ MarkCreated(w) \/ MarkUpdated(w) \/ MarkAcknowledged(w)
           \/ JoinUpdate(w) \/ MarkCompleted(w)
  BY <1>2 DEF Create, MarkCreated, MarkUpdated, MarkAcknowledged, JoinUpdate, MarkCompleted
<1>3. CASE ListAttachments(w)
  BY <1>3 DEF ListAttachments
<1>4. CASE \E a \in Attachments : EnqueueAttachment(w, a)
  BY <1>4 DEF EnqueueAttachment
<1>5. CASE AttachmentsEnqueued(w) \/ MarkFailed(w) \/ FinishJob(w) \/ ThrowJob(w)
  BY <1>5 DEF AttachmentsEnqueued, MarkFailed, FinishJob, ThrowJob
<1>6. CASE Floating(w)
  BY <1>6 DEF Floating, UpdateCommits, UpdateRejectsUnawaited, UpdateRejectsAwaited,
     DetachedCommits, DetachedRejects
<1>7. CASE Failure(w) \/ Restart(w)
  BY <1>7 DEF Failure, MarkUpdatedFails, StepFails, OuterStepFails, Disowned, Crash, Restart
<1> QED BY <1>1, <1>2, <1>3, <1>4, <1>5, <1>6, <1>7 DEF Handler

\* Every step of the handler establishes what its next place promises.
LEMMA PlaceStep ==
  IInv /\ TypeOK' /\ Grows /\ Next => \A v \in Workers : PlaceOK(v)' /\ UpdateOK(v)'
<1> SUFFICES ASSUME IInv, TypeOK', Grows, Next, NEW v \in Workers
             PROVE  PlaceOK(v)' /\ UpdateOK(v)'
  OBVIOUS
<1>1. PlaceOK(v) /\ UpdateOK(v) /\ TypeOK BY DEF IInv
<1>2. CASE Stays(v)
  BY <1>2, Frame
<1>3. CASE Api
  BY <1>3, <1>2 DEF Api, Persist, Enqueue, EnqueueFails, Age, SweepEnqueue,
     SweepEnqueueFails, SweepStart, SweepEnd, ApiCrash, Stays
<1>4. CASE Queue
  <2>1. ASSUME NEW e \in Emails, NEW w \in Workers, Take(w, e)
        PROVE  PlaceOK(v)' /\ UpdateOK(v)'
    <3>1. CASE v # w
      BY <2>1, <3>1, <1>2, <1>1 DEF Take, Stays, TypeOK
    <3>2. CASE v = w
      BY <2>1, <3>2, <1>1 DEF Take, NoRun, TypeOK, PlaceOK, UpdateOK, Busy, Answered,
         Extracted
    <3> QED BY <3>1, <3>2
  <2> QED BY <1>4, <2>1, <1>2 DEF Queue, BackoffElapses, LockLapses, StalledCheck, Stays
<1>5. ASSUME NEW w \in Workers, Handler(w) PROVE PlaceOK(v)' /\ UpdateOK(v)'
  <2>1. CASE v # w
    BY <1>1, <1>5, <2>1, <1>2, OthersStay
  <2>2. CASE v = w
    <3> USE <1>1, <2>2 DEF TypeOK, PlaceOK, UpdateOK, Busy, Answered, Extracted, database
    <3>1. CASE MarkProcessing(w)
      BY <3>1 DEF MarkProcessing, GoTo
    <3>2. CASE Extract(w)
      BY <3>2 DEF Extract, Verdicts
    <3>3. CASE Ignore(w)
      BY <3>3 DEF Ignore, GoTo
    <3>4. CASE MatchNone(w)
      BY <3>4 DEF MatchNone, GoTo
    <3>5. CASE MatchFound(w)
      BY <3>5 DEF MatchFound, GoTo
    <3>6. CASE Create(w)
      BY <3>6 DEF Create, GoTo
    <3>7. CASE MarkCreated(w)
      BY <3>7 DEF MarkCreated, GoTo
    <3>8. CASE MarkUpdated(w)
      BY <3>8 DEF MarkUpdated, GoTo
    <3>9. CASE MarkAcknowledged(w)
      BY <3>9 DEF MarkAcknowledged, GoTo
    <3>10. CASE JoinUpdate(w)
      BY <3>10 DEF JoinUpdate, GoTo
    <3>11. CASE MarkCompleted(w)
      BY <3>11 DEF MarkCompleted, GoTo
    <3>12. CASE ListAttachments(w)
      BY <3>12 DEF ListAttachments, Handed, FilesOf
    <3>13. ASSUME NEW a \in Attachments, EnqueueAttachment(w, a)
          PROVE  PlaceOK(v)' /\ UpdateOK(v)'
      BY <3>13 DEF EnqueueAttachment, Handed, FilesOf
    <3>14. CASE AttachmentsEnqueued(w)
      BY <3>14 DEF AttachmentsEnqueued, GoTo, Handed
    <3>15. CASE MarkFailed(w)
      BY <3>15 DEF MarkFailed, GoTo
    <3>16. CASE FinishJob(w)
      BY <3>16 DEF FinishJob, NoRun
    <3>17. CASE ThrowJob(w)
      BY <3>17 DEF ThrowJob, NoRun
    <3> QED BY <1>5, <3>1, <3>2, <3>3, <3>4, <3>5, <3>6, <3>7, <3>8, <3>9, <3>10, <3>11, <3>12, <3>13, <3>14, <3>15, <3>16, <3>17 DEF Handler
  <2> QED BY <2>1, <2>2
<1>6. ASSUME NEW w \in Workers, Floating(w) \/ Failure(w) \/ Restart(w)
      PROVE  PlaceOK(v)' /\ UpdateOK(v)'
  <2>1. CASE v # w
    BY <1>1, <1>6, <2>1, <1>2, OthersStay
  <2>2. CASE v = w
    <3> USE <1>1, <2>2 DEF TypeOK, PlaceOK, UpdateOK, Busy, Answered, Extracted, database
    <3>1. CASE UpdateCommits(w)
      BY <3>1 DEF UpdateCommits, Grows, FilesOf, Handed
    <3>2. CASE Die(w)
      BY <3>2 DEF Die, NoRun
    <3>3. CASE UpdateRejectsAwaited(w)
      BY <3>3 DEF UpdateRejectsAwaited, FailWith
    <3>4. ASSUME NEW e \in Emails, DetachedCommits(w, e) PROVE PlaceOK(v)' /\ UpdateOK(v)'
      BY <3>4, <1>2 DEF DetachedCommits, Stays
    <3>5. CASE MarkUpdatedFails(w)
      BY <3>5 DEF MarkUpdatedFails, FailWith
    <3>6. CASE StepFails(w)
      BY <3>6 DEF StepFails, FailWith
    <3>7. CASE OuterStepFails(w)
      BY <3>7 DEF OuterStepFails, GoTo
    <3>8. CASE Restart(w)
      BY <3>8 DEF Restart, GoTo
    <3>9. CASE Disowned(w)
      BY <3>9 DEF Disowned, NoRun
    <3> QED BY <1>6, <3>1, <3>2, <3>3, <3>4, <3>5, <3>6, <3>7, <3>8, <3>9
            DEF Floating, Failure, UpdateRejectsUnawaited, DetachedRejects, Crash
  <2> QED BY <2>1, <2>2
<1>7. ASSUME NEW a \in Attachments, AttachmentSettles(a) \/ AttachmentRecovered(a)
      PROVE  PlaceOK(v)' /\ UpdateOK(v)'
  BY <1>7, <1>2 DEF AttachmentSettles, AttachmentRecovered, Stays
<1> QED BY <1>3, <1>4, <1>5, <1>6, <1>7 DEF Next

-----------------------------------------------------------------------------
\* A step that leaves one slot unlocked, with an attempt left unless it failed, and
\* disturbs at most the workers at that slot's email keeps both queue invariants.
LEMMA Release ==
  ASSUME IInv, NEW e \in Emails, NEW j, job' = [job EXCEPT ![e] = j],
         j.lock = NoWorker, j.state # "failed" => j.made < Attempts,
         \A v \in Workers : Busy(v) /\ run[v].email # e =>
                              Busy(v)' /\ run'[v].email = run[v].email
  PROVE  LockIsRunning' /\ AttemptsLeft'
<1>1. LockIsRunning /\ AttemptsLeft /\ job \in [Emails -> Job] BY DEF IInv, TypeOK
<1>2. job'[e] = j /\ \A d \in Emails \ {e} : job'[d] = job[d] BY <1>1
<1>3. LockIsRunning' BY <1>1, <1>2, QueueAssumption DEF LockIsRunning
<1>4. AttemptsLeft' BY <1>1, <1>2 DEF AttemptsLeft
<1> QED BY <1>3, <1>4

\* A handler that only moves on keeps every worker at its email.
KeepsRunning ==
  \A v \in Workers : Busy(v) => Busy(v)' /\ run'[v].email = run[v].email

\* Moving on and failing are such steps.
LEMMA GoToKeeps ==
  ASSUME run \in [Workers -> Run], NEW w \in Workers, NEW pc, pc \notin {"down", "idle"},
         GoTo(w, pc) \/ FailWith(w, "other") \/ FailWith(w, "p2002")
  PROVE  KeepsRunning
<1>1. \A v \in Workers \ {w} : run'[v] = run[v] BY DEF GoTo, FailWith
<1>2. run'[w].pc \notin {"down", "idle"} /\ run'[w].email = run[w].email
  <2>1. CASE GoTo(w, pc)
    <3>1. run'[w] = [run[w] EXCEPT !.pc = pc] BY <2>1 DEF GoTo
    <3>2. run[w] \in Run OBVIOUS
    <3> QED BY <3>1, <3>2 DEF Run
  <2>2. CASE FailWith(w, "other") \/ FailWith(w, "p2002") BY <2>2 DEF FailWith, Run
  <2> QED BY <2>1, <2>2
<1> QED BY <1>1, <1>2 DEF KeepsRunning, Busy

\* The lock of a slot never changes hands behind its worker's back: a worker that
\* holds one goes on running that email, and a slot it holds is active.
LEMMA LockStep == IInv /\ Next => LockIsRunning' /\ AttemptsLeft'
<1> SUFFICES ASSUME IInv, Next PROVE LockIsRunning' /\ AttemptsLeft' OBVIOUS
<1>1. LockIsRunning /\ AttemptsLeft /\ TypeOK BY DEF IInv
<1>2. CASE job' = job /\ KeepsRunning
  BY <1>1, <1>2 DEF LockIsRunning, AttemptsLeft, KeepsRunning
<1>3. \A e \in Emails : job[e].state # "active" => job[e].lock = NoWorker
  BY <1>1 DEF LockIsRunning, TypeOK, Job
<1>4. \A e \in Emails : job[e] \in Job BY <1>1 DEF TypeOK
<1>5. CASE Api
  <2>1. ASSUME NEW e \in Emails, job' = [job EXCEPT ![e] = Add(job[e])], run' = run
        PROVE  LockIsRunning' /\ AttemptsLeft'
    <3>1. CASE job[e].state = "none"
      <4>1. Add(job[e]).lock = NoWorker /\ Add(job[e]).made < Attempts
        BY <3>1, QueueAssumption DEF Add, NoJob
      <4> QED BY <2>1, <4>1, Release DEF Busy
    <3>2. CASE job[e].state # "none"
      <4>1. job' = job BY <1>1, <2>1, <3>2 DEF Add, TypeOK
      <4> QED BY <1>2, <2>1, <4>1 DEF Busy, KeepsRunning
    <3> QED BY <3>1, <3>2
  <2> QED BY <1>5, <1>2, <2>1 DEF Api, Persist, Enqueue, SweepEnqueue, EnqueueFails, Age,
             SweepEnqueueFails, SweepStart, SweepEnd, ApiCrash, KeepsRunning, Busy
<1>6. CASE Queue
  <2>1. ASSUME NEW e \in Emails, NEW w \in Workers, Take(w, e)
        PROVE  LockIsRunning' /\ AttemptsLeft'
    <3> DEFINE r == [NoRun EXCEPT !.pc = "taken", !.email = e]
    <3>1. run' = [run EXCEPT ![w] = r] /\ r.pc = "taken" /\ r.email = e
      BY <2>1 DEF Take, NoRun
    <3> HIDE DEF r
    <3>2. Busy(w)' /\ run'[w].email = e /\ ~Busy(w)
          /\ \A v \in Workers \ {w} : run'[v] = run[v]
      BY <1>1, <2>1, <3>1 DEF TypeOK, Take, Busy
    <3>3. /\ job'[e].lock = w /\ job'[e].state = "active" /\ job'[e].made = job[e].made
          /\ \A d \in Emails \ {e} : job'[d] = job[d]
      BY <1>1, <1>4, <2>1 DEF Take, Claim, TypeOK, Job
    <3>4. LockIsRunning'
      BY <1>1, <3>2, <3>3 DEF LockIsRunning, Busy
    <3>5. AttemptsLeft'
      BY <1>1, <2>1, <3>3 DEF AttemptsLeft, Take
    <3> QED BY <3>4, <3>5
  <2>2. ASSUME NEW e \in Emails, BackoffElapses(e) PROVE LockIsRunning' /\ AttemptsLeft'
    <3>1. Promote(job[e]).lock = NoWorker /\ Promote(job[e]).made < Attempts
      BY <1>1, <1>3, <1>4, <2>2 DEF BackoffElapses, Promote, Job, AttemptsLeft
    <3> QED BY <2>2, <3>1, Release DEF BackoffElapses, Busy
  <2>3. ASSUME NEW e \in Emails, LockLapses(e) PROVE LockIsRunning' /\ AttemptsLeft'
    <3>1. Unlock(job[e]).lock = NoWorker /\ Unlock(job[e]).made < Attempts
      BY <1>1, <1>4, <2>3 DEF LockLapses, Unlock, Job, AttemptsLeft
    <3> QED BY <2>3, <3>1, Release DEF LockLapses, Busy
  <2>4. ASSUME NEW e \in Emails, StalledCheck(e) PROVE LockIsRunning' /\ AttemptsLeft'
    <3>1. Reclaim(job[e]).lock = NoWorker /\ Reclaim(job[e]).made < Attempts
      BY <1>1, <1>4, <2>4 DEF StalledCheck, Reclaim, Job, AttemptsLeft
    <3> QED BY <2>4, <3>1, Release DEF StalledCheck, Busy
  <2> QED BY <1>6, <2>1, <2>2, <2>3, <2>4 DEF Queue
<1>7. ASSUME NEW w \in Workers, Handler(w) PROVE LockIsRunning' /\ AttemptsLeft'
  <2> USE <1>1, GoToKeeps DEF TypeOK
  <2>1. CASE \/ MarkProcessing(w) \/ Ignore(w) \/ MatchNone(w) \/ MatchFound(w)
             \/ MarkCreated(w) \/ MarkUpdated(w) \/ MarkAcknowledged(w) \/ JoinUpdate(w)
             \/ MarkCompleted(w) \/ AttachmentsEnqueued(w)
    BY <2>1, <1>2 DEF MarkProcessing, Ignore, MatchNone, MatchFound, MarkCreated,
       MarkUpdated, MarkAcknowledged, JoinUpdate, MarkCompleted, AttachmentsEnqueued
  <2>2. CASE Create(w)
    <3>1. (IF run[w].verdict = "uncertain" THEN "complete" ELSE "mark") \notin {"down", "idle"}
      OBVIOUS
    <3> QED BY <2>2, <3>1, <1>2 DEF Create
  <2>3. CASE MarkFailed(w)
    <3>1. (IF run[w].error = "p2002" THEN "finish" ELSE "throw") \notin {"down", "idle"}
      OBVIOUS
    <3> QED BY <2>3, <3>1, <1>2 DEF MarkFailed
  <2>4. CASE Extract(w)
    <3>1. \A v \in Workers \ {w} : run'[v] = run[v] BY <2>4 DEF Extract
    <3>2. PICK v \in Verdicts :
            run'[w] = [run[w] EXCEPT !.verdict = v,
                                     !.pc = IF v = "unviable" THEN "ignore" ELSE "match"]
      BY <2>4 DEF Extract
    <3>3. run'[w].pc \in {"ignore", "match"} /\ run'[w].email = run[w].email
      BY <3>2 DEF Run
    <3>4. KeepsRunning BY <3>1, <3>3 DEF KeepsRunning, Busy
    <3> QED BY <2>4, <3>4, <1>2 DEF Extract
  <2>5. CASE ListAttachments(w) \/ \E a \in Attachments : EnqueueAttachment(w, a)
    <3>1. \A v \in Workers \ {w} : run'[v] = run[v]
      BY <2>5 DEF ListAttachments, EnqueueAttachment
    <3>2. run'[w].pc = "enqueue" /\ run'[w].email = run[w].email
      BY <2>5 DEF ListAttachments, EnqueueAttachment, Run
    <3>3. KeepsRunning BY <3>1, <3>2 DEF KeepsRunning, Busy
    <3> QED BY <2>5, <3>3, <1>2 DEF ListAttachments, EnqueueAttachment
  <2>6. CASE FinishJob(w) \/ ThrowJob(w)
    <3> DEFINE e == run[w].email
    <3>1. e \in Emails BY <2>6, BusyEmail DEF FinishJob, ThrowJob, Busy
    <3>2. \A v \in Workers \ {w} : Busy(v) => Busy(v)' /\ run'[v].email = run[v].email
      BY <2>6 DEF FinishJob, ThrowJob, Busy
    <3>3. CASE job[e].lock # w
      <4>1. job' = job BY <2>6, <3>3 DEF FinishJob, ThrowJob
      <4>2. LockIsRunning' BY <3>1, <3>2, <3>3, <4>1 DEF LockIsRunning
      <4>3. AttemptsLeft' BY <4>1 DEF AttemptsLeft
      <4> QED BY <4>2, <4>3
    <3>4. CASE job[e].lock = w
      <4>1. \A v \in Workers : Busy(v) /\ run[v].email # e =>
                                 Busy(v)' /\ run'[v].email = run[v].email
        BY <3>2
      <4>2. CASE FinishJob(w)
        <5>1. Removed.lock = NoWorker /\ Removed.made < Attempts
          BY QueueAssumption DEF Removed, NoJob
        <5>2. job' = [job EXCEPT ![e] = Removed] BY <3>4, <4>2 DEF FinishJob
        <5> QED BY <3>1, <4>1, <5>1, <5>2, Release
      <4>3. CASE ThrowJob(w)
        <5>1. /\ FailAttempt(job[e]).lock = NoWorker
              /\ FailAttempt(job[e]).state # "failed" => FailAttempt(job[e]).made < Attempts
          BY <1>4, <3>1, QueueAssumption DEF FailAttempt, Job
        <5>2. job' = [job EXCEPT ![e] = FailAttempt(job[e])] BY <3>4, <4>3 DEF ThrowJob
        <5> QED BY <3>1, <4>1, <5>1, <5>2, Release
      <4> QED BY <2>6, <4>2, <4>3
    <3> QED BY <3>3, <3>4
  <2> QED BY <1>7, <2>1, <2>2, <2>3, <2>4, <2>5, <2>6 DEF Handler
<1>8. ASSUME NEW w \in Workers, Die(w) PROVE LockIsRunning' /\ AttemptsLeft'
  <2>1. \A e \in Emails : /\ job'[e].state = job[e].state /\ job'[e].made = job[e].made
                          /\ job'[e].lock = IF job[e].lock = w THEN NoWorker ELSE job[e].lock
    BY <1>4, <1>8 DEF Die, Unlock, Job
  <2>2. \A v \in Workers \ {w} : run'[v] = run[v] BY <1>1, <1>8 DEF Die, TypeOK
  <2>3. LockIsRunning' BY <1>1, <2>1, <2>2, QueueAssumption DEF LockIsRunning, Busy
  <2>4. AttemptsLeft' BY <1>1, <2>1 DEF AttemptsLeft
  <2> QED BY <2>3, <2>4
<1>9. ASSUME NEW w \in Workers, Floating(w) \/ Failure(w) \/ Restart(w)
      PROVE  LockIsRunning' /\ AttemptsLeft'
  <2> USE <1>1, GoToKeeps DEF TypeOK
  <2>1. CASE UpdateCommits(w) \/ \E e \in Emails : DetachedCommits(w, e)
    BY <2>1, <1>2 DEF UpdateCommits, DetachedCommits, KeepsRunning, Busy
  <2>2. CASE UpdateRejectsAwaited(w) \/ MarkUpdatedFails(w) \/ StepFails(w)
    BY <2>2, <1>2 DEF UpdateRejectsAwaited, MarkUpdatedFails, StepFails
  <2>3. CASE OuterStepFails(w)
    BY <2>3, <1>2 DEF OuterStepFails
  <2>4. CASE Restart(w)
    <3>1. KeepsRunning BY <2>4 DEF Restart, GoTo, KeepsRunning, Busy
    <3> QED BY <2>4, <3>1, <1>2 DEF Restart
  <2>5. CASE Disowned(w)
    <3> DEFINE e == run[w].email
    <3>1. e \in Emails BY <2>5, BusyEmail DEF Disowned, Busy
    <3>2. \A v \in Workers \ {w} : Busy(v) => Busy(v)' /\ run'[v].email = run[v].email
      BY <2>5 DEF Disowned, Busy
    <3>3. CASE job[e].lock # w
      <4>1. job' = job BY <2>5, <3>3 DEF Disowned
      <4>2. LockIsRunning' BY <3>1, <3>2, <3>3, <4>1 DEF LockIsRunning
      <4>3. AttemptsLeft' BY <4>1 DEF AttemptsLeft
      <4> QED BY <4>2, <4>3
    <3>4. CASE job[e].lock = w
      <4>1. \A v \in Workers : Busy(v) /\ run[v].email # e =>
                                 Busy(v)' /\ run'[v].email = run[v].email
        BY <3>2
      <4>2. Refused(job[e]).lock = NoWorker /\ Refused(job[e]).state = "failed"
        BY <1>4, <3>1 DEF Refused, Job
      <4>3. job' = [job EXCEPT ![e] = Refused(job[e])] BY <2>5, <3>4 DEF Disowned
      <4> QED BY <3>1, <4>1, <4>2, <4>3, Release
    <3> QED BY <3>3, <3>4
  <2> QED BY <1>8, <1>9, <2>1, <2>2, <2>3, <2>4, <2>5
          DEF Floating, Failure, UpdateRejectsUnawaited, DetachedRejects, Crash
<1>10. ASSUME NEW a \in Attachments, AttachmentSettles(a) \/ AttachmentRecovered(a)
       PROVE  LockIsRunning' /\ AttemptsLeft'
  BY <1>10, <1>2 DEF AttachmentSettles, AttachmentRecovered, KeepsRunning, Busy
<1> QED BY <1>5, <1>6, <1>7, <1>9, <1>10 DEF Next

\* The event store is called only after the extraction is stored: by a worker that
\* is past it, or by an update such a worker has let go of.
LEMMA AnswerStep == IInv /\ Grows /\ Next => DetachedOK' /\ AnswersFollowExtraction'
<1> SUFFICES ASSUME IInv, Grows, Next PROVE DetachedOK' /\ AnswersFollowExtraction' OBVIOUS
<1>1. DetachedOK /\ AnswersFollowExtraction /\ TypeOK BY DEF IInv
<1>2. \A t \in Workers \X Emails : extraction[t[2]] # "none" => extraction'[t[2]] # "none"
  BY DEF Grows
<1>3. ASSUME detached' \subseteq detached PROVE DetachedOK'
  BY <1>1, <1>2, <1>3 DEF DetachedOK, TypeOK
<1>4. ASSUME UNCHANGED adjudicated PROVE AnswersFollowExtraction'
  BY <1>1, <1>4 DEF AnswersFollowExtraction, Grows
<1>5. ASSUME NEW e \in Emails, adjudicated' = [adjudicated EXCEPT ![e] = TRUE],
             extraction[e] # "none"
      PROVE  AnswersFollowExtraction'
  BY <1>1, <1>5 DEF AnswersFollowExtraction, Grows, TypeOK
<1>6. ASSUME NEW w \in Workers, run[w].pc \in Extracted
      PROVE  run[w].email \in Emails /\ extraction[run[w].email] # "none"
  <2>1. PlaceOK(w) BY DEF IInv
  <2> QED BY <1>6, <2>1 DEF PlaceOK, Busy, Extracted
<1> USE DEF database
<1>7. CASE Api
  BY <1>7, <1>3, <1>4 DEF Api, Persist, Enqueue, EnqueueFails, Age, SweepEnqueue,
     SweepEnqueueFails, SweepStart, SweepEnd, ApiCrash
<1>8. CASE Queue
  BY <1>8, <1>3, <1>4 DEF Queue, Take, BackoffElapses, LockLapses, StalledCheck
<1>9. ASSUME NEW w \in Workers, Handler(w) PROVE DetachedOK' /\ AnswersFollowExtraction'
  <2>1. CASE Create(w)
    BY <2>1, <1>3, <1>5, <1>6 DEF Create, Extracted
  <2> QED
    BY <1>9, <1>3, <1>4, <2>1 DEF Handler, MarkProcessing, Extract, Ignore, MatchNone,
       MatchFound, MarkCreated, MarkUpdated, MarkAcknowledged, JoinUpdate, MarkCompleted,
       ListAttachments, EnqueueAttachment, AttachmentsEnqueued, MarkFailed, FinishJob, ThrowJob
<1>10. ASSUME NEW w \in Workers, Floating(w) \/ Failure(w) \/ Restart(w)
       PROVE  DetachedOK' /\ AnswersFollowExtraction'
  <2>1. CASE UpdateCommits(w)
    <3>1. UpdateOK(w) BY DEF IInv
    <3>2. run[w].pc \in Extracted BY <2>1, <3>1 DEF UpdateCommits, UpdateOK, Extracted
    <3> QED BY <2>1, <3>2, <1>3, <1>5, <1>6 DEF UpdateCommits
  <2>2. ASSUME NEW e \in Emails, DetachedCommits(w, e)
        PROVE  DetachedOK' /\ AnswersFollowExtraction'
    <3>1. extraction[e] # "none" BY <1>1, <2>2 DEF DetachedCommits, DetachedOK
    <3> QED BY <2>2, <3>1, <1>3, <1>5 DEF DetachedCommits
  <2>3. CASE MarkUpdatedFails(w)
    <3>1. extraction[run[w].email] # "none"
      BY <2>3, <1>6 DEF MarkUpdatedFails, Extracted
    <3>2. \A t \in detached' : t \in detached \/ t = <<w, run[w].email>>
      BY <2>3 DEF MarkUpdatedFails
    <3>3. UNCHANGED extraction BY <2>3 DEF MarkUpdatedFails
    <3>4. DetachedOK' BY <1>1, <3>1, <3>2, <3>3 DEF DetachedOK
    <3> QED BY <2>3, <3>4, <1>4 DEF MarkUpdatedFails
  <2>4. ASSUME Die(w), UNCHANGED database PROVE DetachedOK' /\ AnswersFollowExtraction'
    BY <2>4, <1>3, <1>4 DEF Die
  <2> QED
    BY <1>10, <1>3, <1>4, <2>1, <2>2, <2>3, <2>4 DEF Floating, Failure,
       UpdateRejectsUnawaited, UpdateRejectsAwaited, DetachedRejects, StepFails,
       OuterStepFails, Disowned, Crash, Restart
<1>11. ASSUME NEW a \in Attachments, AttachmentSettles(a) \/ AttachmentRecovered(a)
       PROVE  DetachedOK' /\ AnswersFollowExtraction'
  BY <1>11, <1>3, <1>4 DEF AttachmentSettles, AttachmentRecovered
<1> QED BY <1>7, <1>8, <1>9, <1>10, <1>11 DEF Next
-----------------------------------------------------------------------------
\* Only a handler that returned, at the email it ran and under its lock, takes a
\* job out of Redis.
LEMMA OnlyFinishRemoves ==
  ASSUME IInv, Next, NEW e \in Emails, job[e].state # "none", job'[e].state = "none"
  PROVE  \E w \in Workers : FinishJob(w) /\ run[w].email = e /\ job[e].lock = w
<1> DEFINE Goal == \E w \in Workers : FinishJob(w) /\ run[w].email = e /\ job[e].lock = w
<1> SUFFICES Goal OBVIOUS
<1>1. TypeOK /\ job[e] \in Job /\ Job' = Job BY DEF IInv, TypeOK, Job
<1>2. job'[e] # job[e] OBVIOUS
<1>3. CASE Api
  BY <1>1, <1>2, <1>3 DEF TypeOK, Api, Persist, Enqueue, EnqueueFails, Age, SweepEnqueue,
     SweepEnqueueFails, SweepStart, SweepEnd, ApiCrash, Add
<1>4. CASE Queue
  <2>1. \A j \in Job : /\ \A v \in Workers : Claim(j, v).state = "active"
                      /\ Reclaim(j).state \in {"waiting", "failed"}
    BY DEF Claim, Reclaim, Job
  <2>2. CASE \E d \in Emails, v \in Workers : Take(v, d)
    BY <1>1, <1>2, <2>1, <2>2 DEF Take, TypeOK
  <2>3. ASSUME NEW d \in Emails, BackoffElapses(d) PROVE Goal
    <3>1. Promote(job[d]).state = "waiting" BY <1>1 DEF Promote, TypeOK, Job
    <3> QED BY <1>1, <1>2, <2>3, <3>1 DEF BackoffElapses, TypeOK
  <2>4. ASSUME NEW d \in Emails, LockLapses(d) PROVE Goal
    <3>1. Unlock(job[d]).state = job[d].state BY <1>1 DEF Unlock, TypeOK, Job
    <3> QED BY <1>1, <1>2, <2>4, <3>1 DEF LockLapses, TypeOK
  <2>5. ASSUME NEW d \in Emails, StalledCheck(d) PROVE Goal
    <3>1. job' = [job EXCEPT ![d] = Reclaim(job[d])] BY <2>5 DEF StalledCheck
    <3>2. job[d] \in Job /\ Reclaim(job[d]).state # "none" BY <1>1, <2>1 DEF TypeOK
    <3>3. job'[e].state # "none" BY <1>1, <3>1, <3>2 DEF TypeOK
    <3> QED BY <3>3
  <2> QED BY <1>4, <2>2, <2>3, <2>4, <2>5 DEF Queue
<1>5. ASSUME NEW v \in Workers, Handler(v) PROVE Goal
  <2>1. CASE FinishJob(v)
    BY <1>1, <1>2, <2>1 DEF FinishJob, TypeOK
  <2>2. CASE ThrowJob(v)
    <3>1. FailAttempt(job[e]).state # "none" BY <1>1 DEF FailAttempt, Job
    <3> QED BY <1>1, <1>2, <2>2, <3>1 DEF ThrowJob, TypeOK
  <2> QED BY <1>2, <1>5, <2>1, <2>2 DEF Handler, MarkProcessing, Extract, Ignore,
             MatchNone, MatchFound, Create, MarkCreated, MarkUpdated, MarkAcknowledged,
             JoinUpdate, MarkCompleted, ListAttachments, EnqueueAttachment,
             AttachmentsEnqueued, MarkFailed
<1>6. ASSUME NEW v \in Workers, Die(v) PROVE Goal
  BY <1>1, <1>6 DEF Die, Unlock, Job
<1>7. ASSUME NEW v \in Workers, Floating(v) \/ Failure(v) \/ Restart(v) PROVE Goal
  <2>1. CASE Disowned(v)
    <3>1. Refused(job[e]).state # "none" BY <1>1 DEF Refused, Job
    <3> QED BY <1>1, <1>2, <2>1, <3>1 DEF Disowned, TypeOK
  <2> QED
    BY <1>2, <1>6, <1>7, <2>1 DEF Floating, Failure, UpdateCommits, UpdateRejectsUnawaited,
       UpdateRejectsAwaited, DetachedCommits, DetachedRejects, MarkUpdatedFails, StepFails,
       OuterStepFails, Crash, Restart
<1>8. ASSUME NEW a \in Attachments, AttachmentSettles(a) \/ AttachmentRecovered(a)
      PROVE  Goal
  BY <1>2, <1>8 DEF AttachmentSettles, AttachmentRecovered
<1> QED BY <1>3, <1>4, <1>5, <1>7, <1>8 DEF Next

\* With one worker, a row with nothing in Redis has nobody at it: only ingestion
\* writes its status, and nobody its extraction.
LEMMA UnmannedRow ==
  ASSUME IInv, OneWorker, Next, NEW e \in Emails, job[e].state = "none"
  PROVE  /\ status'[e] = status[e] \/ status'[e] = "pending"
         /\ extraction'[e] = extraction[e]
<1> DEFINE Goal == /\ status'[e] = status[e] \/ status'[e] = "pending"
                   /\ extraction'[e] = extraction[e]
<1> SUFFICES Goal OBVIOUS
<1>1. TypeOK BY DEF IInv
<1>2. \A w \in Workers : Busy(w) => run[w].email # e BY DEF IInv, UndisturbedOK
<1> USE DEF TypeOK, database
<1>3. CASE Api
  BY <1>1, <1>3 DEF Api, Persist, Enqueue, EnqueueFails, Age, SweepEnqueue,
     SweepEnqueueFails, SweepStart, SweepEnd, ApiCrash
<1>4. CASE Queue
  BY <1>4 DEF Queue, Take, BackoffElapses, LockLapses, StalledCheck
<1>5. ASSUME NEW w \in Workers, Handler(w) PROVE Goal
  <2>1. CASE MarkProcessing(w) \/ Ignore(w) \/ MarkCreated(w)
    BY <1>1, <1>2, <2>1 DEF MarkProcessing, Ignore, MarkCreated, Busy
  <2>2. CASE MarkUpdated(w) \/ MarkCompleted(w) \/ MarkFailed(w)
    BY <1>1, <1>2, <2>2 DEF MarkUpdated, MarkCompleted, MarkFailed, Busy
  <2>3. CASE Extract(w)
    BY <1>1, <1>2, <2>3 DEF Extract, Busy
  <2> QED BY <1>5, <2>1, <2>2, <2>3 DEF Handler, MatchNone, MatchFound, Create,
             MarkAcknowledged, JoinUpdate, ListAttachments, EnqueueAttachment,
             AttachmentsEnqueued, FinishJob, ThrowJob
<1>6. ASSUME NEW w \in Workers, Floating(w) PROVE Goal
  BY <1>6 DEF Floating, UpdateCommits, UpdateRejectsUnawaited, UpdateRejectsAwaited,
     DetachedCommits, DetachedRejects
<1>7. ASSUME NEW w \in Workers, Failure(w) \/ Restart(w) PROVE Goal
  BY <1>7 DEF Failure, MarkUpdatedFails, StepFails, OuterStepFails, Disowned, Crash, Restart
<1>8. ASSUME NEW a \in Attachments, AttachmentSettles(a) \/ AttachmentRecovered(a)
      PROVE  Goal
  BY <1>8 DEF AttachmentSettles, AttachmentRecovered
<1> QED BY <1>3, <1>4, <1>5, <1>6, <1>7, <1>8 DEF Next

\* With one worker, the job of a row disappears only when that row's status is true.
LEMMA SettledStep ==
  ASSUME IInv, OneWorker, Grows, Next, NEW e \in Emails
  PROVE  SettledOK(e)'
<1> SUFFICES ASSUME job'[e].state = "none" PROVE SettledOK(e)' BY DEF SettledOK
<1>1. CASE job[e].state = "none"
  <2>1. /\ status'[e] = status[e] \/ status'[e] = "pending"
        /\ extraction'[e] = extraction[e]
    BY <1>1, UnmannedRow
  <2>2. SettledOK(e) BY DEF IInv
  <2> QED BY <1>1, <2>1, <2>2 DEF SettledOK, Grows, FilesOf
<1>2. CASE job[e].state # "none"
  <2>1. PICK w \in Workers : FinishJob(w) /\ run[w].email = e /\ job[e].lock = w
    BY <1>2, OnlyFinishRemoves
  <2>2. Busy(w) /\ PlaceOK(w) /\ UndisturbedOK(w) BY <2>1 DEF FinishJob, Busy, IInv
  <2>3. UNCHANGED <<status, extraction, adjudicated, file, fileJob>>
    BY <2>1 DEF FinishJob, database
  <2>4. CASE run[w].error = "p2002"
    <3>1. status'[e] = "failed" BY <2>1, <2>2, <2>3, <2>4 DEF UndisturbedOK, FinishJob
    <3> QED BY <3>1 DEF SettledOK
  <2>5. CASE run[w].error # "p2002"
    <3>1. Answered(w) /\ run[w].pc = "finish" BY <2>1, <2>5 DEF FinishJob, Answered
    <3>2. status[e] = "completed" /\ extraction[e] = run[w].verdict
      BY <2>1, <2>2, <3>1 DEF UndisturbedOK
    <3>3. /\ \A a \in FilesOf(e) : Handed(a)
          /\ run[w].verdict # "unviable" => adjudicated[e]
      BY <2>1, <2>2, <2>5, <3>1 DEF PlaceOK
    <3> QED BY <2>3, <3>2, <3>3 DEF SettledOK, Handed, FilesOf
  <2> QED BY <2>4, <2>5
<1> QED BY <1>1, <1>2
\* With one worker, nobody touches the row, the extraction or the job of the email it
\* is at: it finds them as it left them.
LEMMA UndisturbedStep ==
  ASSUME IInv, OneWorker, Next, NEW w \in Workers
  PROVE  UndisturbedOK(w)'
<1>1. UndisturbedOK(w) /\ PlaceOK(w) /\ TypeOK BY DEF IInv
<1>2. ASSUME ~FinishJob(w), NEW e \in Emails, job[e].state # "none"
      PROVE  job'[e].state # "none"
  BY <1>2, OnlyFinishRemoves DEF OneWorker
<1>3. CASE ~Busy(w)'
  BY <1>3 DEF UndisturbedOK
<1>4. ASSUME run'[w] = run[w], UNCHANGED extraction,
             \A e \in Emails : status[e] # "absent" => status'[e] = status[e]
      PROVE  UndisturbedOK(w)'
  <2>1. ~FinishJob(w) BY <1>1, <1>4 DEF FinishJob, NoRun, TypeOK
  <2>2. CASE Busy(w)
    <3>1. run[w].email \in Emails BY <1>1, <2>2 DEF PlaceOK
    <3> QED BY <1>1, <1>2, <1>4, <2>1, <2>2, <3>1 DEF UndisturbedOK, Busy, Answered
  <2> QED BY <1>3, <1>4, <2>2 DEF Busy
<1> USE DEF database
<1>5. CASE Api
  BY <1>1, <1>4, <1>5 DEF Api, Persist, Enqueue, EnqueueFails, Age, SweepEnqueue,
     SweepEnqueueFails, SweepStart, SweepEnd, ApiCrash, TypeOK
<1>6. CASE Queue
  <2>1. ASSUME NEW e \in Emails, NEW v \in Workers, Take(v, e) PROVE UndisturbedOK(w)'
    <3>1. v = w BY DEF OneWorker
    <3>2. run'[w].pc = "taken" /\ run'[w].email = e /\ run'[w].error = "none"
      BY <1>1, <2>1, <3>1 DEF Take, NoRun, TypeOK
    <3>3. job'[e].state = "active" BY <1>1, <2>1, <3>1 DEF Take, Claim, TypeOK, Job
    <3> QED BY <3>2, <3>3 DEF UndisturbedOK, Extracted, Answered
  <2> QED BY <1>4, <1>6, <2>1 DEF Queue, BackoffElapses, LockLapses, StalledCheck
<1>7. CASE Handler(w)
  <2> DEFINE e == run[w].email
  <2>1. Busy(w) BY <1>7 DEF Handler, MarkProcessing, Extract, Ignore, MatchNone, MatchFound,
          Create, MarkCreated, MarkUpdated, MarkAcknowledged, JoinUpdate, MarkCompleted,
          ListAttachments, EnqueueAttachment, AttachmentsEnqueued, MarkFailed, FinishJob,
          ThrowJob, Busy
  <2>2. e \in Emails /\ job[e].state # "none" BY <1>1, <2>1 DEF PlaceOK, UndisturbedOK
  <2>3. ~FinishJob(w) => job'[e].state # "none" BY <1>2, <2>2
  <2> USE <1>1, <2>1, <2>2, <2>3 DEF TypeOK, UndisturbedOK, Extracted, Answered, Busy, GoTo
  <2>4. CASE MarkProcessing(w)
    BY <2>4 DEF MarkProcessing, FinishJob
  <2>5. CASE Extract(w)
    <3>1. PICK v \in Verdicts :
            /\ extraction' = [extraction EXCEPT ![e] = v]
            /\ run' = [run EXCEPT ![w].verdict = v,
                                  ![w].pc = IF v = "unviable" THEN "ignore" ELSE "match"]
      BY <2>5 DEF Extract
    <3>2. /\ run'[w].verdict = v /\ run'[w].email = e
          /\ run'[w].pc \in {"ignore", "match"} /\ run'[w].error = "none"
      BY <2>5, <3>1 DEF Extract, Run
    <3>3. ~FinishJob(w) BY <2>5 DEF Extract, FinishJob
    <3> QED BY <3>1, <3>2, <3>3
  <2>6. CASE Ignore(w)
    BY <2>6 DEF Ignore, FinishJob
  <2>7. CASE MatchNone(w) \/ MatchFound(w)
    <3>1. CASE MatchNone(w) BY <3>1 DEF MatchNone, FinishJob
    <3>2. CASE MatchFound(w) BY <3>2 DEF MatchFound, FinishJob
    <3> QED BY <2>7, <3>1, <3>2
  <2>8. CASE Create(w)
    BY <2>8 DEF Create, FinishJob
  <2>9. CASE MarkCreated(w) \/ MarkUpdated(w)
    <3>1. CASE MarkCreated(w) BY <3>1 DEF MarkCreated, FinishJob
    <3>2. CASE MarkUpdated(w) BY <3>2 DEF MarkUpdated, FinishJob
    <3> QED BY <2>9, <3>1, <3>2
  <2>10. CASE MarkAcknowledged(w) \/ JoinUpdate(w)
    <3>1. CASE MarkAcknowledged(w) BY <3>1 DEF MarkAcknowledged, FinishJob
    <3>2. CASE JoinUpdate(w) BY <3>2 DEF JoinUpdate, FinishJob
    <3> QED BY <2>10, <3>1, <3>2
  <2>11. CASE MarkCompleted(w)
    BY <2>11 DEF MarkCompleted, FinishJob
  <2>12. CASE ListAttachments(w)
    BY <2>12 DEF ListAttachments, FinishJob
  <2>13. ASSUME NEW a \in Attachments, EnqueueAttachment(w, a) PROVE UndisturbedOK(w)'
    BY <2>13 DEF EnqueueAttachment, FinishJob
  <2>14. CASE AttachmentsEnqueued(w)
    BY <2>14 DEF AttachmentsEnqueued, FinishJob
  <2>15. CASE MarkFailed(w)
    BY <2>15 DEF MarkFailed, FinishJob
  <2>16. CASE FinishJob(w) \/ ThrowJob(w)
    BY <2>16 DEF FinishJob, ThrowJob, NoRun
  <2> QED BY <1>7, <2>4, <2>5, <2>6, <2>7, <2>8, <2>9, <2>10, <2>11, <2>12, <2>13, <2>14,
             <2>15, <2>16 DEF Handler
<1>8. CASE Floating(w) \/ Failure(w) \/ Restart(w)
  <2>1. CASE UpdateCommits(w) \/ \E e \in Emails : DetachedCommits(w, e)
    BY <1>4, <2>1 DEF UpdateCommits, DetachedCommits
  <2>2. CASE Die(w)
    BY <1>1, <1>3, <2>2 DEF Die, NoRun, Busy, TypeOK
  <2>3. CASE Restart(w)
    BY <1>1, <1>3, <2>3 DEF Restart, GoTo, Busy, TypeOK
  <2>4. CASE \/ UpdateRejectsAwaited(w) \/ MarkUpdatedFails(w) \/ StepFails(w)
             \/ OuterStepFails(w)
    <3>1. /\ Busy(w) /\ ~FinishJob(w) /\ UNCHANGED <<status, extraction>>
          /\ run'[w].email = run[w].email /\ run'[w].pc \in {"fail", "throw"}
      BY <1>1, <2>4 DEF UpdateRejectsAwaited, MarkUpdatedFails, StepFails, OuterStepFails,
         FailWith, GoTo, Busy, FinishJob, TypeOK, Run
    <3>2. run[w].email \in Emails /\ job[run[w].email].state # "none"
      BY <1>1, <3>1 DEF PlaceOK, UndisturbedOK
    <3>3. job'[run[w].email].state # "none" BY <1>2, <3>1, <3>2
    <3> QED BY <3>1, <3>3 DEF UndisturbedOK, Extracted, Answered
  <2>5. CASE Disowned(w)
    <3>1. ~Busy(w)' BY <1>1, <2>5 DEF Disowned, NoRun, Busy, TypeOK
    <3> QED BY <1>3, <3>1
  <2> QED BY <1>8, <2>1, <2>2, <2>3, <2>4, <2>5
          DEF Floating, Failure, UpdateRejectsUnawaited, DetachedRejects, Crash
<1>9. ASSUME NEW a \in Attachments, AttachmentSettles(a) \/ AttachmentRecovered(a)
      PROVE  UndisturbedOK(w)'
  BY <1>4, <1>9 DEF AttachmentSettles, AttachmentRecovered
<1> QED BY <1>5, <1>6, <1>7, <1>8, <1>9 DEF Next, OneWorker

\* Both together, for the invariant.
LEMMA OneWorkerStep ==
  IInv /\ Grows /\ Next => (OneWorker => /\ \A w \in Workers : UndisturbedOK(w)
                                         /\ \A e \in Emails : SettledOK(e))'
<1>1. OneWorker' <=> OneWorker BY DEF OneWorker
<1> QED BY <1>1, SettledStep, UndisturbedStep
-----------------------------------------------------------------------------
\* The initial state satisfies the inductive invariant.
LEMMA InitInvariant == Init => IInv
<1> SUFFICES ASSUME Init PROVE IInv OBVIOUS
<1> USE QueueAssumption, EmailAssumption DEF Init
<1>1. TypeOK
  <2>1. NoJob \in Job BY DEF NoJob, Job, JobStates
  <2> QED BY <2>1, NoRunType DEF TypeOK, Statuses
<1>2. LockIsRunning /\ AttemptsLeft BY DEF LockIsRunning, AttemptsLeft, NoJob
<1>3. \A w \in Workers : PlaceOK(w) /\ UpdateOK(w)
  BY DEF PlaceOK, UpdateOK, Busy, NoRun
<1>4. DetachedOK /\ AnswersFollowExtraction BY DEF DetachedOK, AnswersFollowExtraction
<1>5. /\ \A w \in Workers : UndisturbedOK(w)
      /\ \A e \in Emails : SettledOK(e)
  BY DEF UndisturbedOK, SettledOK, Busy, NoRun
<1> QED BY <1>1, <1>2, <1>3, <1>4, <1>5 DEF IInv

\* So does every step, whoever takes it.
LEMMA StepInvariant == IInv /\ [Next]_vars => IInv'
<1> SUFFICES ASSUME IInv, [Next]_vars PROVE IInv' OBVIOUS
<1>1. CASE Next
  BY <1>1, TypeStep, GrowsStep, PlaceStep, LockStep, AnswerStep, OneWorkerStep DEF IInv
<1>2. CASE UNCHANGED vars
  BY <1>2 DEF vars, IInv, TypeOK, LockIsRunning, AttemptsLeft, PlaceOK, UpdateOK, Busy,
     Answered, FilesOf, Handed, DetachedOK, AnswersFollowExtraction, OneWorker,
     UndisturbedOK, SettledOK
<1> QED BY <1>1, <1>2

\* The invariant the email worker lives by: who holds a lock, what each place in
\* the handler has already achieved, where the un-awaited update stands.
THEOREM InductiveInvariant == Spec => []IInv
<1> QED BY InitInvariant, StepInvariant, PTL DEF Spec

\* Every row, job and worker record keeps its type.
THEOREM TypeCorrect == Spec => []TypeOK
<1>1. IInv => TypeOK BY DEF IInv
<1> QED BY <1>1, InductiveInvariant, PTL

\* The event store answers only for an email whose extraction is stored, on every
\* attempt, from every worker, floating updates included.
THEOREM ExtractionFirst == Spec => []AnswersFollowExtraction
<1>1. IInv => AnswersFollowExtraction BY DEF IInv
<1> QED BY <1>1, InductiveInvariant, PTL

\* Under one worker process (the deployment's single systemd unit) no row that has
\* left "pending" is stranded in a transient status: something in Redis still stands
\* for it, or the worker is at it.
THEOREM NeverInLimbo == ASSUME OneWorker PROVE Spec => []NoLimbo
<1>1. IInv => NoLimbo BY DEF IInv, SettledOK, NoLimbo
<1> QED BY <1>1, InductiveInvariant, PTL

\* Under one worker process "completed", once nothing is left to run, is the truth:
\* every attachment was handed over and a viable email has the event store's answer.
THEOREM CompletedIsTrue == ASSUME OneWorker PROVE Spec => []CompletedIsDone
<1>1. IInv => CompletedIsDone BY DEF IInv, SettledOK, CompletedIsDone
<1> QED BY <1>1, InductiveInvariant, PTL

\* A job leaves the queue only when its holder has handed over every attachment
\* and, for a viable email, the event store has answered: the update that
\* processEmail does not await is nevertheless never lost by a job that finishes.
THEOREM NothingLeftBehind == Spec => FinishedMeansHandled
<1> DEFINE Left == \A e \in Emails, w \in Workers :
                     /\ job[e].lock = w
                     /\ job'[e].state = "none"
                     /\ run[w].error # "p2002"
                     => /\ \A a \in FilesOf(e) : Handed(a)
                        /\ run[w].verdict # "unviable" => adjudicated[e]
<1>1. IInv /\ [Next]_vars => [Left]_vars
  <2> SUFFICES ASSUME IInv, Next, NEW e \in Emails, NEW w \in Workers,
                      job[e].lock = w, job'[e].state = "none", run[w].error # "p2002"
               PROVE  /\ \A a \in FilesOf(e) : Handed(a)
                      /\ run[w].verdict # "unviable" => adjudicated[e]
    OBVIOUS
  <2>1. job[e].state = "active" /\ PlaceOK(w) /\ Busy(w) BY DEF IInv, LockIsRunning
  <2>2. FinishJob(w) /\ run[w].email = e BY <2>1, OnlyFinishRemoves
  <2> QED BY <2>1, <2>2 DEF FinishJob, PlaceOK, Answered
<1>2. FinishedMeansHandled <=> [][Left]_vars
  BY DEF FinishedMeansHandled
<1> QED BY <1>1, <1>2, InductiveInvariant, PTL DEF Spec
=============================================================================
