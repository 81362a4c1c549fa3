---------------------------- MODULE EmailPipeline ----------------------------
(* From a committed Email row to its settled status: ingestion, the enqueue   *)
(* that shares no transaction with it, the reconciler that repairs a lost     *)
(* enqueue, the email worker step by step, and the fan-out of attachment      *)
(* jobs.  The event store (module EventStore) and the attachment worker are   *)
(* seen from here only through what they do to an email's processing.         *)
EXTENDS JobQueue, FiniteSets

CONSTANTS
  Emails,        \* Email ids
  NoEmail,       \* what an idle worker runs
  Attachments,   \* Attachment ids
  EmailOf,       \* the Email each attachment belongs to
  MaxFaults      \* bound: crashes, lapsed locks, failed writes and changes of owner

ASSUME EmailAssumption ==
  /\ NoEmail \notin Emails
  /\ EmailOf \in [Attachments -> Emails]
  /\ MaxFaults \in Nat

VARIABLES
  status,         \* Email.processingStatus, "absent" before the row commits
  aged,           \* rows older than EMAIL_RECONCILE_MIN_AGE_MS
  ingesting,      \* committed by a request or a sync that has yet to enqueue
  sweep,          \* the reconciler's cycle: [running, todo]
  job,            \* Redis: the slot of each `email-<id>'
  extraction,     \* EmailExtraction.verdict, "none" before the first upsert
  adjudicated,    \* the event store has committed its answer to this email
  file,           \* Attachment.processingStatus, "open" while pending or processing
  fileJob,        \* its `attachment-<id>' in Redis: "none", "live" or "dead"
  run,            \* run[w]: what worker w is doing
  update,         \* the event update worker w started without awaiting it
  detached,       \* updates whose starter has already given up on them
  faults          \* faults so far

vars == <<status, aged, ingesting, sweep, job, extraction, adjudicated, file,
          fileJob, run, update, detached, faults>>
database == <<status, extraction, adjudicated, file>>
producers == <<aged, ingesting, sweep>>

Statuses == {"absent", "pending", "processing", "completed", "ignored", "failed"}

\* What extraction makes of an email: no identity anchors, below
\* CONFIDENCE_THRESHOLD, or trusted.
Verdicts == {"unviable", "uncertain", "confident"}

\* A worker's place in worker -> processEmailJob -> processEmail.
PCs == {"down", "idle", "taken", "extract", "ignore", "match", "create", "mark",
        "update", "updateAck", "join", "complete", "fanout", "enqueue",
        "finish", "fail", "throw"}

NoRun == [pc |-> "idle", email |-> NoEmail, verdict |-> "none",
          error |-> "none", todo |-> {}]

Run == [pc      : PCs,
        email   : Emails \cup {NoEmail},
        verdict : Verdicts \cup {"none"},
        error   : {"none", "other", "p2002"},
        todo    : SUBSET Attachments]

TypeOK ==
  /\ status \in [Emails -> Statuses]
  /\ aged \in SUBSET Emails
  /\ ingesting \in SUBSET Emails
  /\ sweep \in [running : BOOLEAN, todo : SUBSET Emails]
  /\ job \in [Emails -> Job]
  /\ extraction \in [Emails -> Verdicts \cup {"none"}]
  /\ adjudicated \in [Emails -> BOOLEAN]
  /\ file \in [Attachments -> {"open", "completed", "failed"}]
  /\ fileJob \in [Attachments -> {"none", "live", "dead"}]
  /\ run \in [Workers -> Run]
  /\ update \in [Workers -> {"none", "running", "done"}]
  /\ detached \in SUBSET (Workers \X Emails)
  /\ faults \in 0..MaxFaults

FilesOf(e) == {a \in Attachments : EmailOf[a] = e}

\* Worker w's handler is executing, whether or not it still holds the lock.
Busy(w) == run[w].pc \notin {"down", "idle"}
Running(e) == {w \in Workers : Busy(w) /\ run[w].email = e}

Fault == faults < MaxFaults /\ faults' = faults + 1
GoTo(w, pc) == run' = [run EXCEPT ![w].pc = pc]
FailWith(w, err) == run' = [run EXCEPT ![w].pc = "fail", ![w].error = err]
-----------------------------------------------------------------------------
(* The API process: ingestion and the reconciler.                            *)

\* createEmail commits the row and its attachments in one transaction.
Persist(e) ==
  /\ status[e] = "absent"
  /\ status' = [status EXCEPT ![e] = "pending"]
  /\ ingesting' = ingesting \cup {e}
  /\ UNCHANGED <<aged, sweep, job, extraction, adjudicated, file, fileJob,
                 run, update, detached, faults>>

\* The request (or the sync) enqueues the row it has just committed.
Enqueue(e) ==
  /\ e \in ingesting
  /\ ingesting' = ingesting \ {e}
  /\ job' = [job EXCEPT ![e] = Add(@)]
  /\ UNCHANGED <<aged, sweep, database, fileJob, run, update, detached, faults>>

\* Redis refuses the add, or the process dies first: the row stays behind.
EnqueueFails(e) ==
  /\ e \in ingesting
  /\ ingesting' = ingesting \ {e}
  /\ UNCHANGED <<aged, sweep, database, job, fileJob, run, update, detached, faults>>

\* The row passes the reconciler's minimum age, enqueued or not.  The age of a
\* row that has left "pending" is never looked at again.
Age(e) ==
  /\ status[e] = "pending"
  /\ e \notin aged
  /\ aged' = aged \cup {e}
  /\ UNCHANGED <<ingesting, sweep, database, job, fileJob, run, update,
                 detached, faults>>

\* One sweep at a time (isRunning); it reads its rows once, at the start.
SweepStart ==
  /\ ~sweep.running
  /\ sweep' = [running |-> TRUE,
               todo    |-> {e \in aged : status[e] = "pending"}]
  /\ UNCHANGED <<aged, ingesting, database, job, fileJob, run, update,
                 detached, faults>>

\* The row goes back through the normal producer; its status is not re-read.
SweepEnqueue(e) ==
  /\ e \in sweep.todo
  /\ sweep' = [sweep EXCEPT !.todo = @ \ {e}]
  /\ job' = [job EXCEPT ![e] = Add(@)]
  /\ UNCHANGED <<aged, ingesting, database, fileJob, run, update, detached, faults>>

\* One row's failed add is caught and the loop goes on.
SweepEnqueueFails(e) ==
  /\ e \in sweep.todo
  /\ Fault
  /\ sweep' = [sweep EXCEPT !.todo = @ \ {e}]
  /\ UNCHANGED <<aged, ingesting, database, job, fileJob, run, update, detached>>

SweepEnd ==
  /\ sweep.running
  /\ sweep.todo = {}
  /\ sweep' = [sweep EXCEPT !.running = FALSE]
  /\ UNCHANGED <<aged, ingesting, database, job, fileJob, run, update,
                 detached, faults>>

\* The API process dies and starts again: its requests and its sweep are gone.
ApiCrash ==
  /\ ingesting # {} \/ sweep.running
  /\ Fault
  /\ ingesting' = {}
  /\ sweep' = [running |-> FALSE, todo |-> {}]
  /\ UNCHANGED <<aged, database, job, fileJob, run, update, detached>>
-----------------------------------------------------------------------------
(* The queue.                                                                *)

Take(w, e) ==
  /\ run[w].pc = "idle"
  /\ job[e].state = "waiting"
  /\ job' = [job EXCEPT ![e] = Claim(@, w)]
  /\ run' = [run EXCEPT ![w] = [NoRun EXCEPT !.pc = "taken", !.email = e]]
  /\ UNCHANGED <<producers, database, fileJob, update, detached, faults>>

BackoffElapses(e) ==
  /\ job[e].state = "delayed"
  /\ job' = [job EXCEPT ![e] = Promote(@)]
  /\ UNCHANGED <<producers, database, fileJob, run, update, detached, faults>>

\* The worker goes on running its handler after its lock has expired.
LockLapses(e) ==
  /\ job[e].state = "active" /\ job[e].lock # NoWorker
  /\ Fault
  /\ job' = [job EXCEPT ![e] = Unlock(@)]
  /\ UNCHANGED <<producers, database, fileJob, run, update, detached>>

\* Any running worker process checks the queue for stalled jobs.
StalledCheck(e) ==
  /\ job[e].state = "active" /\ job[e].lock = NoWorker
  /\ \E w \in Workers : run[w].pc # "down"
  /\ job' = [job EXCEPT ![e] = Reclaim(@)]
  /\ UNCHANGED <<producers, database, fileJob, run, update, detached, faults>>
-----------------------------------------------------------------------------
(* The worker's handler.  Each await is a point where anything else may run. *)

MarkProcessing(w) ==
  /\ run[w].pc = "taken"
  /\ status' = [status EXCEPT ![run[w].email] = "processing"]
  /\ GoTo(w, "extract")
  /\ UNCHANGED <<producers, job, extraction, adjudicated, file, fileJob, update,
                 detached, faults>>

\* Mutant of Extract: only a trusted extraction is stored.
ExtractStoresTrusted(w) ==
  /\ run[w].pc = "extract"
  /\ \E v \in Verdicts :
       /\ extraction' = [extraction EXCEPT ![run[w].email] =
                           IF v = "uncertain" THEN @ ELSE v]
       /\ run' = [run EXCEPT ![w].verdict = v,
                             ![w].pc = IF v = "unviable" THEN "ignore" ELSE "match"]
  /\ UNCHANGED <<producers, job, status, adjudicated, file, fileJob, update,
                 detached, faults>>

\* extract() and the upsert of its result, the latest attempt winning; with
\* USE_AI two attempts may disagree.  Then the viability gate.
Extract(w) ==
  /\ run[w].pc = "extract"
  /\ \E v \in Verdicts :
       /\ extraction' = [extraction EXCEPT ![run[w].email] = v]
       /\ run' = [run EXCEPT ![w].verdict = v,
                             ![w].pc = IF v = "unviable" THEN "ignore" ELSE "match"]
  /\ UNCHANGED <<producers, job, status, adjudicated, file, fileJob, update,
                 detached, faults>>

Ignore(w) ==
  /\ run[w].pc = "ignore"
  /\ status' = [status EXCEPT ![run[w].email] = "ignored"]
  /\ GoTo(w, "complete")
  /\ UNCHANGED <<producers, job, extraction, adjudicated, file, fileJob, update,
                 detached, faults>>

\* matchEventV2 found no event, or its result is discarded because the
\* observation is below the confidence threshold.
MatchNone(w) ==
  /\ run[w].pc = "match"
  /\ GoTo(w, "create")
  /\ UNCHANGED <<producers, job, database, fileJob, update, detached, faults>>

\* It found one: updateEventService is called and NOT awaited.
MatchFound(w) ==
  /\ run[w].pc = "match" /\ run[w].verdict = "confident"
  /\ update' = [update EXCEPT ![w] = "running"]
  /\ GoTo(w, "update")
  /\ UNCHANGED <<producers, job, database, fileJob, detached, faults>>

\* createEventService is awaited; the review path returns straight away.
Create(w) ==
  /\ run[w].pc = "create"
  /\ adjudicated' = [adjudicated EXCEPT ![run[w].email] = TRUE]
  /\ GoTo(w, IF run[w].verdict = "uncertain" THEN "complete" ELSE "mark")
  /\ UNCHANGED <<producers, job, status, extraction, file, fileJob, update,
                 detached, faults>>

MarkCreated(w) ==
  /\ run[w].pc = "mark"
  /\ status' = [status EXCEPT ![run[w].email] = "completed"]
  /\ GoTo(w, "complete")
  /\ UNCHANGED <<producers, job, extraction, adjudicated, file, fileJob, update,
                 detached, faults>>

\* The status write that runs while the update is still in flight: the row
\* changes first, the await resolves later.
MarkUpdated(w) ==
  /\ run[w].pc = "update"
  /\ status' = [status EXCEPT ![run[w].email] = "completed"]
  /\ GoTo(w, "updateAck")
  /\ UNCHANGED <<producers, job, extraction, adjudicated, file, fileJob, update,
                 detached, faults>>

MarkAcknowledged(w) ==
  /\ run[w].pc = "updateAck"
  /\ GoTo(w, "join")
  /\ UNCHANGED <<producers, job, database, fileJob, update, detached, faults>>

\* Mutant of JoinUpdate: the result is returned without the update in it.
JoinUpdateNever(w) ==
  /\ run[w].pc = "join"
  /\ update' = [update EXCEPT ![w] = "none"]
  /\ detached' = IF update[w] = "running"
                 THEN detached \cup {<<w, run[w].email>>} ELSE detached
  /\ GoTo(w, "complete")
  /\ UNCHANGED <<producers, job, database, fileJob, faults>>

\* `return result': processEmailJob awaits the update after all.
JoinUpdate(w) ==
  /\ run[w].pc = "join" /\ update[w] = "done"
  /\ update' = [update EXCEPT ![w] = "none"]
  /\ GoTo(w, "complete")
  /\ UNCHANGED <<producers, job, database, fileJob, detached, faults>>

\* processEmailJob's own status write, whatever processEmail wrote before.
MarkCompleted(w) ==
  /\ run[w].pc = "complete"
  /\ status' = [status EXCEPT ![run[w].email] = "completed"]
  /\ GoTo(w, "fanout")
  /\ UNCHANGED <<producers, job, extraction, adjudicated, file, fileJob, update,
                 detached, faults>>

\* enqueueAttachmentJobs: one query, then one add per row it returned.
ListAttachments(w) ==
  /\ run[w].pc = "fanout"
  /\ run' = [run EXCEPT ![w].pc = "enqueue",
                        ![w].todo = {a \in FilesOf(run[w].email) :
                                       file[a] # "completed"}]
  /\ UNCHANGED <<producers, job, database, fileJob, update, detached, faults>>

EnqueueAttachment(w, a) ==
  /\ run[w].pc = "enqueue" /\ a \in run[w].todo
  /\ fileJob' = [fileJob EXCEPT ![a] = IF @ = "none" THEN "live" ELSE @]
  /\ run' = [run EXCEPT ![w].todo = @ \ {a}]
  /\ UNCHANGED <<producers, job, database, update, detached, faults>>

\* Mutant of AttachmentsEnqueued: the adds are not awaited.
AttachmentsEnqueuedEarly(w) ==
  /\ run[w].pc = "enqueue"
  /\ GoTo(w, "finish")
  /\ UNCHANGED <<producers, job, database, fileJob, update, detached, faults>>

AttachmentsEnqueued(w) ==
  /\ run[w].pc = "enqueue" /\ run[w].todo = {}
  /\ GoTo(w, "finish")
  /\ UNCHANGED <<producers, job, database, fileJob, update, detached, faults>>

\* Mutant of MarkFailed: a swallowed duplicate is not a failure.
MarkFailedUnlessDuplicate(w) ==
  /\ run[w].pc = "fail"
  /\ status' = IF run[w].error = "p2002" THEN status
               ELSE [status EXCEPT ![run[w].email] = "failed"]
  /\ GoTo(w, IF run[w].error = "p2002" THEN "finish" ELSE "throw")
  /\ UNCHANGED <<producers, job, extraction, adjudicated, file, fileJob, update,
                 detached, faults>>

\* The catch around processEmail.  A unique violation is rethrown too, and the
\* worker swallows it: the job then completes.
MarkFailed(w) ==
  /\ run[w].pc = "fail"
  /\ status' = [status EXCEPT ![run[w].email] = "failed"]
  /\ GoTo(w, IF run[w].error = "p2002" THEN "finish" ELSE "throw")
  /\ UNCHANGED <<producers, job, extraction, adjudicated, file, fileJob, update,
                 detached, faults>>

\* The handler returned.  Without the lock BullMQ refuses the completion.
FinishJob(w) ==
  /\ run[w].pc = "finish"
  /\ run' = [run EXCEPT ![w] = NoRun]
  /\ LET e == run[w].email IN
       job' = IF job[e].lock = w THEN [job EXCEPT ![e] = Removed] ELSE job
  /\ UNCHANGED <<producers, database, fileJob, update, detached, faults>>

\* Mutant of ThrowJob: the error is logged and not rethrown.
ThrowJobSwallowed(w) ==
  /\ run[w].pc = "throw"
  /\ run' = [run EXCEPT ![w] = NoRun]
  /\ LET e == run[w].email IN
       job' = IF job[e].lock = w THEN [job EXCEPT ![e] = Removed] ELSE job
  /\ UNCHANGED <<producers, database, fileJob, update, detached, faults>>

\* The handler threw.
ThrowJob(w) ==
  /\ run[w].pc = "throw"
  /\ run' = [run EXCEPT ![w] = NoRun]
  /\ LET e == run[w].email IN
       job' = IF job[e].lock = w THEN [job EXCEPT ![e] = FailAttempt(@)] ELSE job
  /\ UNCHANGED <<producers, database, fileJob, update, detached, faults>>
-----------------------------------------------------------------------------
(* The floating update: a transaction of its own, racing the status write.   *)

UpdateCommits(w) ==
  /\ update[w] = "running"
  /\ update' = [update EXCEPT ![w] = "done"]
  /\ adjudicated' = [adjudicated EXCEPT ![run[w].email] = TRUE]
  /\ UNCHANGED <<producers, job, status, extraction, file, fileJob, run,
                 detached, faults>>

\* Everything the process holds in memory is gone; its lock will expire.
Die(w) ==
  /\ run' = [run EXCEPT ![w] = [NoRun EXCEPT !.pc = "down"]]
  /\ update' = [update EXCEPT ![w] = "none"]
  /\ detached' = {t \in detached : t[1] # w}
  /\ job' = [e \in Emails |-> IF job[e].lock = w THEN Unlock(job[e]) ELSE job[e]]

\* A unique violation comes from an event key taken by another event and needs no
\* fault; any other rejection does.
Rejection(err) == \/ err = "p2002" /\ UNCHANGED faults
                  \/ err = "other" /\ Fault

\* Rejected before anything awaits it: an unhandled rejection ends the process.
UpdateRejectsUnawaited(w) ==
  /\ update[w] = "running" /\ run[w].pc \in {"update", "updateAck"}
  /\ \E err \in {"p2002", "other"} : Rejection(err)
  /\ Die(w)
  /\ UNCHANGED <<producers, database, fileJob>>

UpdateRejectsAwaited(w) ==
  /\ update[w] = "running" /\ run[w].pc = "join"
  /\ update' = [update EXCEPT ![w] = "none"]
  /\ \E err \in {"p2002", "other"} : Rejection(err) /\ FailWith(w, err)
  /\ UNCHANGED <<producers, job, database, fileJob, detached>>

\* The status write beside it fails: the handler moves on, the update does not
\* stop.
MarkUpdatedFails(w) ==
  /\ run[w].pc = "update"
  /\ Fault
  /\ FailWith(w, "other")
  /\ update' = [update EXCEPT ![w] = "none"]
  /\ detached' = IF update[w] = "running"
                 THEN detached \cup {<<w, run[w].email>>} ELSE detached
  /\ UNCHANGED <<producers, job, database, fileJob>>

DetachedCommits(w, e) ==
  /\ <<w, e>> \in detached
  /\ detached' = detached \ {<<w, e>>}
  /\ adjudicated' = [adjudicated EXCEPT ![e] = TRUE]
  /\ UNCHANGED <<producers, job, status, extraction, file, fileJob, run, update,
                 faults>>

DetachedRejects(w, e) ==
  /\ <<w, e>> \in detached
  /\ \E err \in {"p2002", "other"} : Rejection(err)
  /\ Die(w)
  /\ UNCHANGED <<producers, database, fileJob>>
-----------------------------------------------------------------------------
(* Failures, restarts, and the attachment worker.                            *)

\* A statement inside processEmailJob's try rejects.  createEvent may do so with
\* the unique violation it could not resolve by reading again.
StepFails(w) ==
  /\ run[w].pc \in {"extract", "ignore", "match", "create", "mark", "complete"}
  /\ \E err \in {"p2002", "other"} :
       /\ err = "p2002" => run[w].pc = "create"
       /\ Rejection(err)
       /\ FailWith(w, err)
  /\ UNCHANGED <<producers, job, database, fileJob, update, detached>>

\* One outside it rejects: the status is left as it was.  In "enqueue" this is
\* Redis refusing an attachment job after some were added.
OuterStepFails(w) ==
  /\ run[w].pc \in {"taken", "fanout", "enqueue", "fail"}
  /\ Fault
  /\ GoTo(w, "throw")
  /\ UNCHANGED <<producers, job, database, fileJob, update, detached>>

\* The row changed hands after it was read for the enqueue, as the claim of legacy
\* data changes it: the owner the job names is not the row's, and no retry is made.
Disowned(w) ==
  /\ run[w].pc = "taken"
  /\ Fault
  /\ run' = [run EXCEPT ![w] = NoRun]
  /\ LET e == run[w].email IN
       job' = IF job[e].lock = w THEN [job EXCEPT ![e] = Refused(@)] ELSE job
  /\ UNCHANGED <<producers, database, fileJob, update, detached>>

\* SIGKILL, out of memory, or a host recycled past its grace period.
Crash(w) ==
  /\ Busy(w)
  /\ Fault
  /\ Die(w)
  /\ UNCHANGED <<producers, database, fileJob>>

\* systemd: Restart=on-failure.
Restart(w) ==
  /\ run[w].pc = "down"
  /\ GoTo(w, "idle")
  /\ UNCHANGED <<producers, job, database, fileJob, update, detached, faults>>

\* The attachment worker ends with a's job: it is removed when the handler
\* returned, and kept when the attempts are exhausted or its worker was lost twice,
\* at whatever point that was.  A file downloaded but not parsed may run again and
\* fail.
AttachmentSettles(a) ==
  /\ fileJob[a] = "live"
  /\ \E outcome \in {"completed", "failed", "open"}, left \in {"none", "dead"} :
       /\ left = "none" => outcome # "open"
       /\ file' = [file EXCEPT ![a] = outcome]
       /\ fileJob' = [fileJob EXCEPT ![a] = left]
  /\ UNCHANGED <<producers, job, status, extraction, adjudicated, run, update,
                 detached, faults>>

\* The attachment reconciler hands a row back to its queue.  It looks at the
\* attachment's status only, never at the email's; and it looked some time ago,
\* so what the status says now is no guard.
AttachmentRecovered(a) ==
  /\ status[EmailOf[a]] # "absent"
  /\ fileJob[a] = "none"
  /\ fileJob' = [fileJob EXCEPT ![a] = "live"]
  /\ UNCHANGED <<producers, database, job, run, update, detached, faults>>
-----------------------------------------------------------------------------
Init ==
  /\ status = [e \in Emails |-> "absent"]
  /\ aged = {} /\ ingesting = {}
  /\ sweep = [running |-> FALSE, todo |-> {}]
  /\ job = [e \in Emails |-> NoJob]
  /\ extraction = [e \in Emails |-> "none"]
  /\ adjudicated = [e \in Emails |-> FALSE]
  /\ file = [a \in Attachments |-> "open"]
  /\ fileJob = [a \in Attachments |-> "none"]
  /\ run = [w \in Workers |-> NoRun]
  /\ update = [w \in Workers |-> "none"]
  /\ detached = {}
  /\ faults = 0

Api == \/ \E e \in Emails : \/ Persist(e) \/ Enqueue(e) \/ EnqueueFails(e)
                            \/ Age(e) \/ SweepEnqueue(e) \/ SweepEnqueueFails(e)
       \/ SweepStart \/ SweepEnd \/ ApiCrash

Queue == \E e \in Emails : \/ \E w \in Workers : Take(w, e)
                           \/ BackoffElapses(e) \/ LockLapses(e) \/ StalledCheck(e)

\* What the worker does when nothing goes wrong, and the awaited catch.
Handler(w) ==
  \/ MarkProcessing(w) \/ Extract(w) \/ Ignore(w) \/ MatchNone(w) \/ MatchFound(w)
  \/ Create(w) \/ MarkCreated(w) \/ MarkUpdated(w) \/ MarkAcknowledged(w)
  \/ JoinUpdate(w) \/ MarkCompleted(w) \/ ListAttachments(w)
  \/ \E a \in Attachments : EnqueueAttachment(w, a)
  \/ AttachmentsEnqueued(w) \/ MarkFailed(w) \/ FinishJob(w) \/ ThrowJob(w)

\* The floating update settling one way or the other.
Floating(w) ==
  \/ UpdateCommits(w) \/ UpdateRejectsUnawaited(w) \/ UpdateRejectsAwaited(w)
  \/ \E e \in Emails : DetachedCommits(w, e) \/ DetachedRejects(w, e)

Failure(w) == MarkUpdatedFails(w) \/ StepFails(w) \/ OuterStepFails(w) \/ Disowned(w)
              \/ Crash(w)

Next ==
  \/ Api
  \/ Queue
  \/ \E w \in Workers : Handler(w) \/ Floating(w) \/ Failure(w) \/ Restart(w)
  \/ \E a \in Attachments : AttachmentSettles(a) \/ AttachmentRecovered(a)

Spec == Init /\ [][Next]_vars

\* Timers fire, live processes run, systemd restarts the dead, FIFO queues serve
\* every waiting job, and requests end one way or the other.  No fault and no
\* outcome of a choice is ever required.
Fairness ==
  /\ WF_vars(SweepStart) /\ WF_vars(SweepEnd)
  /\ \A e \in Emails :
       /\ WF_vars(Enqueue(e) \/ EnqueueFails(e))
       /\ WF_vars(Age(e)) /\ WF_vars(SweepEnqueue(e))
       /\ WF_vars(\E w \in Workers : Take(w, e))
       /\ WF_vars(BackoffElapses(e)) /\ WF_vars(StalledCheck(e))
  /\ \A w \in Workers :
       WF_vars(Handler(w)) /\ WF_vars(Floating(w)) /\ WF_vars(Restart(w))
  /\ \A a \in Attachments : WF_vars(AttachmentSettles(a))

FairSpec == Spec /\ Fairness
-----------------------------------------------------------------------------
(* Properties.                                                               *)

\* An attachment that has been handed to its queue, or settled by it.
Handed(a) == fileJob[a] # "none" \/ file[a] # "open"

\* The event store never answers for an email whose extraction is not stored, not
\* even through an update left floating by a worker that has given up on it.
AnswersFollowExtraction ==
  \A e \in Emails : adjudicated[e] => extraction[e] # "none"

\* The worker that takes an email's job out of the queue leaves nothing behind:
\* unless it swallowed a duplicate, every attachment has been handed over and, if
\* the email was viable, the event store has committed its answer, although
\* processEmail never awaits the update itself before writing "completed".
FinishedMeansHandled ==
  [][\A e \in Emails, w \in Workers :
       /\ job[e].lock = w
       /\ job'[e].state = "none"
       /\ run[w].error # "p2002"
       => /\ \A a \in FilesOf(e) : Handed(a)
          /\ run[w].verdict # "unviable" => adjudicated[e]]_vars

\* With one worker process: a row that has left "pending" is never stranded in a
\* transient status.  Either something in Redis still stands for it, or the
\* worker is at it (crashes, lapsed locks and failed writes included).
NoLimbo ==
  \A e \in Emails :
    status[e] \in {"processing", "ignored"} => job[e].state # "none" \/ Running(e) # {}

\* With one worker process: "completed" with nothing left to run is the truth
\* about the attachments and about the event store.
CompletedIsDone ==
  \A e \in Emails :
    status[e] = "completed" /\ job[e].state = "none" /\ Running(e) = {}
    => /\ \A a \in FilesOf(e) : Handed(a)
       /\ extraction[e] # "unviable" => adjudicated[e]

\* Every persisted email comes to rest: settled with its job gone, or with the
\* job kept as failed for an operator to see: lost enqueues and sweeps are made good.
AtRest(e) == \/ status[e] \in {"completed", "failed"} /\ job[e].state = "none"
             \/ job[e].state = "failed"
EventuallyAtRest ==
  \A e \in Emails : status[e] # "absent" ~> AtRest(e)
-----------------------------------------------------------------------------
(* The inductive invariant behind AnswersFollowExtraction and                *)
(* FinishedMeansHandled, for any number of workers and emails, and behind    *)
(* NoLimbo and CompletedIsDone for one worker and any number of emails.      *)

\* A lock is held by a worker that is running that very email, on an active job.
LockIsRunning ==
  \A e \in Emails, w \in Workers :
    job[e].lock = w => job[e].state = "active" /\ Busy(w) /\ run[w].email = e

\* Only a job kept as failed has used up its attempts.
AttemptsLeft == \A e \in Emails : job[e].state # "failed" => job[e].made < Attempts

Extracted == {"ignore", "match", "create", "mark", "update", "updateAck", "join",
              "complete", "fanout", "enqueue"}

\* What worker w's place in the handler says about its email.
Answered(w) == \/ run[w].pc \in {"mark", "complete", "fanout", "enqueue"}
               \/ run[w].pc = "finish" /\ run[w].error # "p2002"

PlaceOK(w) ==
  LET e == run[w].email IN
  Busy(w) =>
    /\ e \in Emails
    /\ run[w].pc \in Extracted => extraction[e] # "none"
    /\ run[w].pc = "ignore" => run[w].verdict = "unviable"
    /\ Answered(w) /\ run[w].verdict # "unviable" => adjudicated[e]
    /\ run[w].pc = "enqueue" => /\ run[w].todo \subseteq FilesOf(e)
                                /\ \A a \in FilesOf(e) \ run[w].todo : Handed(a)
    /\ run[w].pc = "finish" /\ run[w].error # "p2002"
       => \A a \in FilesOf(e) : Handed(a)

\* An update is attached to its worker exactly as long as the worker is in the
\* branch that started it, and once committed its answer is in the event store.
UpdateOK(w) ==
  update[w] # "none" =>
    /\ run[w].pc \in {"update", "updateAck", "join"}
    /\ update[w] = "done" => adjudicated[run[w].email]

\* Whoever started an update had stored an extraction first.
DetachedOK == \A t \in detached : extraction[t[2]] # "none"

\* One worker process: nobody else writes the row, the extraction or the job of
\* the email it is at.
OneWorker == \A v, w \in Workers : v = w

\* What that worker can count on at its place: its job, lock or no lock, still
\* stands in Redis, the stored extraction is the one it acts on, and the status
\* is the one it wrote last; and a place outside the error path has no error.
UndisturbedOK(w) ==
  LET e == run[w].email IN
  Busy(w) =>
    /\ job[e].state # "none"
    /\ run[w].pc \notin {"finish", "fail", "throw"} => run[w].error = "none"
    /\ run[w].pc \in Extracted \/ Answered(w) => extraction[e] = run[w].verdict
    /\ Answered(w) /\ run[w].pc \notin {"mark", "complete"} => status[e] = "completed"
    /\ run[w].pc = "finish" /\ run[w].error = "p2002" => status[e] = "failed"

\* What a status says of an email for which nothing stands in Redis.
SettledOK(e) ==
  job[e].state = "none" =>
    /\ status[e] \notin {"processing", "ignored"}
    /\ status[e] = "completed" => /\ \A a \in FilesOf(e) : Handed(a)
                                  /\ extraction[e] # "unviable" => adjudicated[e]

IInv ==
  /\ TypeOK
  /\ LockIsRunning
  /\ AttemptsLeft
  /\ \A w \in Workers : PlaceOK(w) /\ UpdateOK(w)
  /\ DetachedOK
  /\ AnswersFollowExtraction
  /\ OneWorker => /\ \A w \in Workers : UndisturbedOK(w)
                  /\ \A e \in Emails : SettledOK(e)
=============================================================================
