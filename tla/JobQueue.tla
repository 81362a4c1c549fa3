------------------------------ MODULE JobQueue ------------------------------
(* One BullMQ job slot, as the producers and workers of this repository use  *)
(* it.  Every producer names its job after the row it stands for             *)
(* (`email-7', `attachment-12'), so a queue is a function from rows to slots *)
(* and at most one job per row exists.  BullMQ and Redis are external: what  *)
(* is modelled is what the options passed by the code ask of them.           *)
EXTENDS Naturals

CONSTANTS
  Workers,     \* worker processes attached to the queue
  NoWorker,    \* the holder of an unlocked job
  Attempts,    \* `attempts: 3' in both producers
  MaxStalled   \* BullMQ's maxStalledCount, left at its default of 1

ASSUME QueueAssumption ==
  /\ NoWorker \notin Workers
  /\ Attempts \in Nat \ {0}
  /\ MaxStalled \in Nat

JobStates == {"none", "waiting", "active", "delayed", "failed"}

\* made: attempts that ended in an error.  stalls: times the job was taken
\* back from a worker that stopped renewing its lock.
Job == [state  : JobStates,
        made   : 0..Attempts,
        stalls : 0..MaxStalled,
        lock   : Workers \cup {NoWorker}]

NoJob == [state |-> "none", made |-> 0, stalls |-> 0, lock |-> NoWorker]

\* queue.add with a deterministic jobId: a no-op while the id is taken, and a
\* failed job keeps its id for ever (removeOnFail: false).
Add(j) == IF j.state = "none" THEN [NoJob EXCEPT !.state = "waiting"] ELSE j

\* A worker fetches the job and holds its lock.
Claim(j, w) == [j EXCEPT !.state = "active", !.lock = w]

\* The handler returned: removeOnComplete frees the id.
Removed == NoJob

\* The handler threw: back off and retry, or keep the job as failed.
FailAttempt(j) ==
  [j EXCEPT !.made  = @ + 1,
            !.lock  = NoWorker,
            !.state = IF j.made + 1 < Attempts THEN "delayed" ELSE "failed"]

\* The handler threw an UnrecoverableError: kept as failed, whatever attempts are left.
Refused(j) == [j EXCEPT !.made = @ + 1, !.lock = NoWorker, !.state = "failed"]

\* The backoff elapsed.
Promote(j) == [j EXCEPT !.state = "waiting"]

\* The lock expired: its holder died, or lost Redis for longer than
\* lockDuration while its handler kept running.
Unlock(j) == [j EXCEPT !.lock = NoWorker]

\* Mutant of Reclaim: one stall too many is forgiven.
ReclaimOffByOne(j) ==
  IF j.stalls <= MaxStalled
  THEN [j EXCEPT !.state = "waiting", !.stalls = @ + 1]
  ELSE [j EXCEPT !.state = "failed"]

\* The stalled-job checker takes back an active job nobody holds.
Reclaim(j) ==
  IF j.stalls < MaxStalled
  THEN [j EXCEPT !.state = "waiting", !.stalls = @ + 1]
  ELSE [j EXCEPT !.state = "failed"]
=============================================================================
