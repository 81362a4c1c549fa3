-------------------------- MODULE AttachmentPipeline --------------------------
(* From a committed Attachment row to a parsed and understood document: the    *)
(* fan-out that enqueues it, the reconciler that repairs a lost enqueue, the   *)
(* worker's handler step by step, its batch life (start, drain, close, exit)   *)
(* and the operator's recovery of failed jobs.  The attachment workflow's      *)
(* concurrency group runs one worker process at a time.                        *)
EXTENDS JobQueue, Sequences

CONSTANTS
  Worker,         \* the one member of Workers
  Files,          \* Attachment ids
  NoFile,         \* what an idle worker runs
  Oldest,         \* the ids in order of createdAt, oldest first
  Parsable,       \* those whose MIME type the parser registry handles
  BatchSize,      \* ATTACHMENT_RECONCILE_BATCH_SIZE
  MaxFaults,      \* bound: crashes, lapsed locks and failed writes
  MaxFanOuts,     \* bound: runs of the email worker over the parent email
  MaxRecoveries   \* bound: jobs the recovery script retries

ASSUME FileAssumption ==
  /\ Workers = {Worker}
  /\ NoFile \notin Files
  /\ Oldest \in Seq(Files)
  /\ \A f \in Files : \E i \in 1..Len(Oldest) : Oldest[i] = f
  /\ Parsable \subseteq Files
  /\ BatchSize \in Nat \ {0}
  /\ MaxFaults \in Nat /\ MaxFanOuts \in Nat /\ MaxRecoveries \in Nat

VARIABLES
  linked,     \* files whose email has its message id and its account
  row,        \* row[f]: processingStatus, parsedAt and parsingError
  understood, \* files with a DocumentIntelligence row
  fanout,     \* ids the email worker has read and not yet enqueued
  sweep,      \* rows the reconciler's cycle has still to enqueue; none between cycles
  job,        \* Redis: the slot of each `attachment-<id>'
  run,        \* the handler: [pc, file]
  life,       \* the worker process
  drained,    \* BullMQ's flag: `drained' was emitted since the last fetch
  check,      \* the getJobCounts round trip: its answer if it has one
  late,       \* ids enqueued since that count was taken, while it is acted on
  fanouts, recoveries, faults   \* bounded counters

counters == <<fanouts, recoveries, faults>>
process == <<run, life, drained, check>>
vars == <<linked, row, understood, fanout, sweep, job, process, late, counters>>

Statuses == {"pending", "processing", "completed", "failed"}
PCs == {"idle", "taken", "unlinked", "processing", "download", "downloadFailed",
        "stored", "parse", "parsed", "parseFailed", "understand", "finish", "throw"}

TypeOK ==
  /\ linked \in SUBSET Files
  /\ row \in [Files -> [status : Statuses, parsedAt : BOOLEAN, parsingError : BOOLEAN]]
  /\ understood \in SUBSET Files
  /\ fanout \in SUBSET Files
  /\ sweep \in SUBSET Files
  /\ job \in [Files -> Job]
  /\ run \in [pc : PCs, file : Files \cup {NoFile}]
  /\ life \in {"down", "up", "closing"}
  /\ drained \in BOOLEAN
  /\ check \in {"none", "asked", "empty", "failed"}
  /\ late \in SUBSET Files
  /\ fanouts \in 0..MaxFanOuts /\ recoveries \in 0..MaxRecoveries
  /\ faults \in 0..MaxFaults

NoRun == [pc |-> "idle", file |-> NoFile]
Fault == faults < MaxFaults /\ faults' = faults + 1 /\ UNCHANGED <<fanouts, recoveries>>
GoTo(pc) == run' = [run EXCEPT !.pc = pc]
Live(f) == job[f].state \in {"waiting", "active", "delayed"}

\* isSettled: nothing of the pipeline is left to do.
Settled(f) ==
  /\ row[f].status = "completed"
  /\ row[f].parsedAt \/ row[f].parsingError \/ f \notin Parsable
-----------------------------------------------------------------------------
(* Producers.  Each goes through enqueueAttachmentProcessing.                *)

\* A new job is noted as late if a drain check has already counted.
Enqueue(f) ==
  /\ job' = [job EXCEPT ![f] = Add(@)]
  /\ late' = IF check = "empty" /\ job[f].state = "none" THEN late \cup {f} ELSE late

\* The email worker lists the files whose download is not complete ...
FanOut ==
  /\ fanout = {} /\ fanouts < MaxFanOuts
  /\ fanout' = {f \in Files : row[f].status # "completed"}
  /\ fanouts' = fanouts + 1
  /\ UNCHANGED <<linked, row, understood, sweep, job, process, late, recoveries, faults>>

\* ... and enqueues them one at a time ...
FanOutEnqueue(f) ==
  /\ f \in fanout
  /\ fanout' = fanout \ {f}
  /\ Enqueue(f)
  /\ UNCHANGED <<linked, row, understood, sweep, process, counters>>

\* ... unless it dies or Redis refuses: the rest of the list is lost.
FanOutLost ==
  /\ fanout # {}
  /\ fanout' = {}
  /\ UNCHANGED <<linked, row, understood, sweep, job, process, late, counters>>

\* getStaleUnfinishedAttachments before `take', in creation order.
Stale == SelectSeq(Oldest, LAMBDA f :
           \/ row[f].status \in {"pending", "processing"}
           \/ /\ row[f].status = "completed"
              /\ ~row[f].parsedAt /\ ~row[f].parsingError)

\* Mutant of Batch: one row too few.
BatchOneShort == {Stale[i] : i \in {n \in 1..Len(Stale) : n < BatchSize}}

Batch == {Stale[i] : i \in {n \in 1..Len(Stale) : n <= BatchSize}}

\* One cycle at a time reads its rows once, and ends with the last of them; a file
\* no parser handles is passed over.  Every row here is older than the minimum age.
SweepStart ==
  /\ sweep = {}
  /\ sweep' = Batch \cap Parsable
  /\ UNCHANGED <<linked, row, understood, fanout, job, process, late, counters>>

SweepEnqueue(f) ==
  /\ f \in sweep
  /\ sweep' = sweep \ {f}
  /\ Enqueue(f)
  /\ UNCHANGED <<linked, row, understood, fanout, process, counters>>

\* Redis refuses one row, which is caught and passed over.
SweepEnqueueFails(f) ==
  /\ f \in sweep
  /\ Fault
  /\ sweep' = sweep \ {f}
  /\ UNCHANGED <<linked, row, understood, fanout, job, process, late>>

\* Mutant of Recover: without resetAttemptsMade.
RecoverOnce(f) ==
  /\ recoveries < MaxRecoveries
  /\ job[f].state = "failed"
  /\ job' = [job EXCEPT ![f].state = "waiting"]
  /\ late' = IF check = "empty" THEN late \cup {f} ELSE late
  /\ recoveries' = recoveries + 1
  /\ UNCHANGED <<linked, row, understood, fanout, sweep, process, fanouts, faults>>

\* One turn of the loop of `recovery:retry-attachments --apply': a selected job, if
\* it is still failed, goes back to waiting with its attempts restored.  The
\* filters may select any; the database is not touched.
Recover(f) ==
  /\ recoveries < MaxRecoveries
  /\ job[f].state = "failed"
  /\ job' = [job EXCEPT ![f] = [@ EXCEPT !.state = "waiting", !.made = 0]]
  /\ late' = IF check = "empty" THEN late \cup {f} ELSE late
  /\ recoveries' = recoveries + 1
  /\ UNCHANGED <<linked, row, understood, fanout, sweep, process, fanouts, faults>>
-----------------------------------------------------------------------------
(* The queue, as the worker sees it.                                         *)

Take(f) ==
  /\ life = "up" /\ run.pc = "idle"
  /\ job[f].state = "waiting"
  /\ job' = [job EXCEPT ![f] = Claim(@, Worker)]
  /\ run' = [pc |-> "taken", file |-> f]
  /\ drained' = FALSE
  /\ UNCHANGED <<linked, row, understood, fanout, sweep, life, check, late, counters>>

BackoffElapses(f) ==
  /\ job[f].state = "delayed"
  /\ job' = [job EXCEPT ![f] = Promote(@)]
  /\ UNCHANGED <<linked, row, understood, fanout, sweep, process, late, counters>>

\* The handler goes on although its lock could not be renewed.
LockLapses(f) ==
  /\ job[f].lock = Worker
  /\ Fault
  /\ job' = [job EXCEPT ![f] = Unlock(@)]
  /\ UNCHANGED <<linked, row, understood, fanout, sweep, process, late>>

\* Redis loses the job between two runs.  (Losing it during a run would leave the
\* worker to the runtime's timeout, as a refused count does.)
RedisLoses(f) ==
  /\ life = "down" /\ job[f].state # "none"
  /\ Fault
  /\ job' = [job EXCEPT ![f] = NoJob]
  /\ UNCHANGED <<linked, row, understood, fanout, sweep, process, late>>

\* A running worker takes stalled jobs back.  One stalled too often reaches its
\* `failed' end through the wait list too, so a fetch follows either way.
StalledCheck(f) ==
  /\ life = "up"
  /\ job[f].state = "active" /\ job[f].lock = NoWorker
  /\ job' = [job EXCEPT ![f] = Reclaim(@)]
  /\ drained' = FALSE
  /\ UNCHANGED <<linked, row, understood, fanout, sweep, run, life, check, late, counters>>
-----------------------------------------------------------------------------
(* The handler, DocumentProcessingService.process.  Each write is awaited.   *)

\* The row is read once, here: settled, beyond retrieval, or work to do.
Load ==
  /\ run.pc = "taken"
  /\ GoTo(CASE Settled(run.file)    -> "finish"
            [] ~Settled(run.file) /\ run.file \notin linked -> "unlinked"
            [] OTHER                -> "processing")
  /\ UNCHANGED <<linked, row, understood, fanout, sweep, job, life, drained, check, late, counters>>

\* One awaited write: at pc, the row takes these values and the handler goes on.
Write(pc, r, next) ==
  /\ run.pc = pc
  /\ row' = [row EXCEPT ![run.file] = r]
  /\ GoTo(next)
  /\ UNCHANGED <<linked, understood, fanout, sweep, job, life, drained, check, late, counters>>

Now == row[run.file]
FailUnlinked == Write("unlinked", [Now EXCEPT !.status = "failed"], "finish")
MarkProcessing == Write("processing", [Now EXCEPT !.status = "processing"], "download")
MarkFailed == Write("downloadFailed", [Now EXCEPT !.status = "failed"], "throw")
MarkCompleted == Write("stored", [Now EXCEPT !.status = "completed"],
                       IF run.file \in Parsable THEN "parse" ELSE "finish")
UpdateParsedResult ==
  Write("parsed", [Now EXCEPT !.parsedAt = TRUE, !.parsingError = FALSE], "understand")
MarkParsingFailed == Write("parseFailed", [Now EXCEPT !.parsingError = TRUE], "finish")

\* Gmail and the disk answer, or do not.
Download ==
  /\ run.pc = "download"
  /\ GoTo("stored") \/ GoTo("downloadFailed")
  /\ UNCHANGED <<linked, row, understood, fanout, sweep, job, life, drained, check, late, counters>>

\* Mutant of Parse: the document is understood before its text is stored.
ParseUnderstandsFirst ==
  /\ run.pc = "parse"
  /\ \/ GoTo("parsed") /\ understood' = understood \cup {run.file}
     \/ GoTo("parseFailed") /\ UNCHANGED understood
  /\ UNCHANGED <<linked, row, fanout, sweep, job, life, drained, check, late, counters>>

Parse ==
  /\ run.pc = "parse"
  /\ GoTo("parsed") \/ GoTo("parseFailed")
  /\ UNCHANGED <<linked, row, understood, fanout, sweep, job, life, drained, check, late, counters>>

\* runDocumentIntelligence: off, failing softly, or writing its row.
Understand ==
  /\ run.pc = "understand"
  /\ understood' \in {understood, understood \cup {run.file}}
  /\ GoTo("finish")
  /\ UNCHANGED <<linked, row, fanout, sweep, job, life, drained, check, late, counters>>

\* The handler returned or threw.  BullMQ believes it only while the lock holds.
Leave ==
  /\ run.pc \in {"finish", "throw"}
  /\ job' = IF job[run.file].lock # Worker THEN job
            ELSE [job EXCEPT ![run.file] =
                    IF run.pc = "finish" THEN Removed ELSE FailAttempt(@)]
  /\ run' = NoRun
  /\ UNCHANGED <<linked, row, understood, fanout, sweep, life, drained, check, late, counters>>

\* A statement of the database rejects outside any catch.  (Document
\* intelligence fails softly instead.)
StepFails ==
  /\ run.pc \in {"taken", "unlinked", "processing", "downloadFailed", "stored",
                 "parsed", "parseFailed"}
  /\ Fault
  /\ GoTo("throw")
  /\ UNCHANGED <<linked, row, understood, fanout, sweep, job, life, drained, check, late>>
-----------------------------------------------------------------------------
(* The life of the worker process, WORKER_EXIT_WHEN_DRAINED=true.            *)

Start ==
  /\ life = "down"
  /\ life' = "up" /\ drained' = FALSE /\ check' = "none"
  /\ UNCHANGED <<linked, row, understood, fanout, sweep, job, run, late, counters>>

\* A fetch found nothing waiting.  Said once, until something is fetched again.
Drained ==
  /\ life = "up" /\ run.pc = "idle" /\ ~drained /\ check \in {"none", "failed"}
  /\ \A f \in Files : job[f].state # "waiting"
  /\ drained' = TRUE /\ check' = "asked"
  /\ UNCHANGED <<linked, row, understood, fanout, sweep, job, run, life, late, counters>>

\* Mutants of Remaining: a pending retry is overlooked; kept failures are counted.
RemainingNow == {f \in Files : job[f].state \in {"waiting", "active"}}
RemainingEver == {f \in Files : job[f].state # "none"}

\* getJobCounts over the types onDrained names.
Remaining == {f \in Files : Live(f)}

\* The count is taken in Redis; the answer is acted on later.
Count ==
  /\ check = "asked"
  /\ check' = IF Remaining = {} THEN "empty" ELSE "none"
  /\ late' = {}
  /\ UNCHANGED <<linked, row, understood, fanout, sweep, job, run, life, drained, counters>>

\* The count fails: the worker stays up, and unless something is fetched again
\* nothing asks a second time.
CountFails ==
  /\ check = "asked"
  /\ Fault
  /\ check' = "failed"
  /\ UNCHANGED <<linked, row, understood, fanout, sweep, job, run, life, drained, late>>

\* shutdown: after an empty count, or on a signal at any time.  Idempotent.
Shutdown ==
  /\ life = "up"
  /\ life' = "closing"
  /\ UNCHANGED <<linked, row, understood, fanout, sweep, job, run, drained, check, late, counters>>

DrainShutdown == check = "empty" /\ Shutdown
Signal == check # "empty" /\ Shutdown

\* worker.close has waited for the active job; the process exits.
Exit ==
  /\ life = "closing" /\ run.pc = "idle"
  /\ life' = "down" /\ drained' = FALSE /\ check' = "none" /\ late' = {}
  /\ UNCHANGED <<linked, row, understood, fanout, sweep, job, run, counters>>

\* Killed: what it held in memory is gone, and its lock will expire.
Crash ==
  /\ life # "down" /\ run.pc # "idle"
  /\ Fault
  /\ life' = "down" /\ drained' = FALSE /\ check' = "none" /\ late' = {}
  /\ run' = NoRun
  /\ job' = [f \in Files |-> IF job[f].lock = Worker THEN Unlock(job[f]) ELSE job[f]]
  /\ UNCHANGED <<linked, row, understood, fanout, sweep>>
-----------------------------------------------------------------------------
\* Whether an email has lost its account (or never had one) does not change.
Init ==
  /\ linked \in {Files, Files \ Parsable}
  /\ row = [f \in Files |-> [status |-> "pending", parsedAt |-> FALSE, parsingError |-> FALSE]]
  /\ understood = {} /\ fanout = {} /\ sweep = {} /\ late = {}
  /\ job = [f \in Files |-> NoJob]
  /\ run = NoRun
  /\ life = "down" /\ drained = FALSE /\ check = "none"
  /\ fanouts = 0 /\ recoveries = 0 /\ faults = 0

Producers ==
  \/ FanOut \/ FanOutLost \/ SweepStart
  \/ \E f \in Files : \/ FanOutEnqueue(f) \/ SweepEnqueue(f) \/ SweepEnqueueFails(f)
                       \/ Recover(f)

Queue == \E f \in Files : \/ Take(f) \/ BackoffElapses(f) \/ LockLapses(f)
                         \/ RedisLoses(f) \/ StalledCheck(f)

Handler ==
  \/ Load \/ FailUnlinked \/ MarkProcessing \/ Download \/ MarkFailed \/ MarkCompleted
  \/ Parse \/ UpdateParsedResult \/ MarkParsingFailed \/ Understand \/ Leave

Process == Start \/ Drained \/ Count \/ CountFails \/ DrainShutdown \/ Signal \/ Exit \/ Crash

Next == Producers \/ Queue \/ Handler \/ StepFails \/ Process

Spec == Init /\ [][Next]_vars

\* The sweep's interval fires, a running process runs, the operator dispatches
\* the workflow again after it ends, and the FIFO queue serves every waiting job
\* of a worker that is idle again and again.  No fan-out, no signal, no recovery
\* and no outcome is required.
Fairness ==
  /\ WF_vars(SweepStart)
  /\ \A f \in Files :
       /\ WF_vars(SweepEnqueue(f)) /\ WF_vars(BackoffElapses(f))
       /\ SF_vars(Take(f)) /\ SF_vars(StalledCheck(f))
  /\ WF_vars(Handler) /\ WF_vars(Start) /\ WF_vars(Drained) /\ WF_vars(Count)
  /\ WF_vars(DrainShutdown) /\ WF_vars(Exit)

FairSpec == Spec /\ Fairness
-----------------------------------------------------------------------------
(* Properties.                                                               *)

\* The answer a row records.
Recorded(f) == CASE row[f].parsedAt -> "parsed"
                 [] ~row[f].parsedAt /\ row[f].parsingError -> "unparsable"
                 [] OTHER -> "none"

Document == INSTANCE DocumentLife WITH answer <- [f \in Files |-> Recorded(f)]

\* Through crashes, replays, re-enqueues and recoveries a file gets one answer and
\* keeps it, and is understood only from text that has been stored, so a crash
\* never leaves an understanding without its text (document-processing.service.ts:251).
AnswersAsPromised == Document!Spec

Answered(f) == row[f].parsedAt \/ row[f].parsingError

AtWork == {"unlinked", "processing", "download", "downloadFailed", "stored", "parse",
           "parsed", "parseFailed"}

\* A job that may still run has an attempt left, and only an active one is locked.
JobOK(j) == /\ j.state \in {"waiting", "active", "delayed"} => j.made < Attempts
            /\ j.lock # NoWorker => j.state = "active"

\* What the handler knows: its file has no answer yet, is downloaded once it is
\* parsed, and has its text stored once it is understood.
PlaceOK ==
  /\ run.pc # "idle" => run.file \in Files
  /\ run.pc \in AtWork => ~Answered(run.file)
  /\ run.pc \in {"parse", "parsed", "parseFailed"} => row[run.file].status = "completed"
  /\ run.pc = "understand" => row[run.file].parsedAt

JobsOK == \A f \in Files : JobOK(job[f])

\* Only a downloaded file has an answer, the two answers exclude each other, and
\* what is understood has been parsed.
AnswersOK ==
  /\ \A f \in Files : /\ Answered(f) => row[f].status = "completed"
                      /\ ~(row[f].parsedAt /\ row[f].parsingError)
  /\ \A f \in understood : row[f].parsedAt

\* What may still run after an empty count was enqueued or recovered since.
DrainOK == check = "empty" => Remaining \subseteq late

\* The inductive invariant behind the promise and behind the batch's end.
IInv == TypeOK /\ JobsOK /\ AnswersOK /\ PlaceOK /\ DrainOK

\* A worker that ends because its queue was drained leaves no work that was there
\* when it counted: a pending retry or a job of a killed run keeps it alive, and
\* what it does leave was enqueued since.
DrainLeavesOnlyLate ==
  [][Exit /\ check = "empty" => {f \in Files : Live(f)} \subseteq late]_vars

\* A batch run ends once nothing is left, whatever it was that emptied the queue;
\* only a count that Redis refused leaves it to the runtime's own timeout.
RunEnds == life = "up" ~> life = "down" \/ check = "failed"

\* A file some parser handles comes to an answer, to a recorded failure, or to a
\* job kept as failed for an operator, though every fan-out may be lost: the
\* reconciler drains its backlog.
AtRest(f) == Settled(f) \/ row[f].status = "failed" \/ job[f].state = "failed"
BacklogDrains == \A f \in Parsable : []<>AtRest(f)
=============================================================================
