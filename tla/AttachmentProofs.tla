--------------------------- MODULE AttachmentProofs ---------------------------
(* For every set of files, every retry budget and any number of faults, replays *)
(* and recoveries: the attachment pipeline keeps its inductive invariant, and   *)
(* implements the life of a document.                                           *)
EXTENDS AttachmentPipeline, TLAPS

\* The queue operations keep a job slot well formed.
LEMMA SlotOperations ==
  ASSUME NEW j \in Job
  PROVE  /\ Add(j) \in Job /\ Removed \in Job /\ Promote(j) \in Job /\ Unlock(j) \in Job
         /\ \A w \in Workers : Claim(j, w) \in Job
         /\ Reclaim(j) \in Job
         /\ j.made < Attempts => FailAttempt(j) \in Job
<1> USE QueueAssumption DEF Job, JobStates
<1>1. NoJob \in Job /\ Removed \in Job BY DEF NoJob, Removed
<1>2. Add(j) \in Job BY <1>1 DEF Add, NoJob
<1>3. Promote(j) \in Job /\ Unlock(j) \in Job BY DEF Promote, Unlock
<1>4. \A w \in Workers : Claim(j, w) \in Job BY DEF Claim
<1>5. Reclaim(j) \in Job
  <2>1. CASE j.stalls < MaxStalled
    <3>1. j.stalls + 1 \in 0..MaxStalled BY <2>1
    <3> QED BY <2>1, <3>1 DEF Reclaim
  <2>2. CASE ~(j.stalls < MaxStalled)
    BY <2>2 DEF Reclaim
  <2> QED BY <2>1, <2>2
<1>6. ASSUME j.made < Attempts PROVE FailAttempt(j) \in Job
  <2>1. j.made + 1 \in 0..Attempts BY <1>6
  <2>2. (IF j.made + 1 < Attempts THEN "delayed" ELSE "failed") \in JobStates OBVIOUS
  <2> QED BY <2>1, <2>2 DEF FailAttempt
<1> QED BY <1>1, <1>2, <1>3, <1>4, <1>5, <1>6

\* A row is the record of its three columns.
RowType == [status : Statuses, parsedAt : BOOLEAN, parsingError : BOOLEAN]

\* Moving on inside the handler changes the program counter only.
LEMMA GoToRun ==
  ASSUME TypeOK, NEW pc \in PCs, GoTo(pc)
  PROVE  /\ run' \in [pc : PCs, file : Files \cup {NoFile}]
         /\ run'.pc = pc /\ run'.file = run.file
BY DEF TypeOK, GoTo

\* Every queue operation this module uses keeps a slot's bookkeeping right.
LEMMA SlotsStayOK ==
  ASSUME NEW j \in Job, JobOK(j)
  PROVE  /\ JobOK(Add(j)) /\ JobOK(Removed) /\ JobOK(Unlock(j))
         /\ j.state = "delayed" => JobOK(Promote(j))
         /\ j.state = "waiting" /\ j.lock = NoWorker => JobOK(Claim(j, Worker))
         /\ j.state = "active" /\ j.lock = NoWorker => JobOK(Reclaim(j))
         /\ j.lock = Worker => j.made < Attempts /\ JobOK(FailAttempt(j))
<1> USE QueueAssumption, FileAssumption DEF JobOK
<1>1. JobOK(Add(j)) /\ JobOK(Removed) /\ JobOK(Unlock(j))
  BY DEF Add, Removed, Unlock, NoJob, Job
<1>2. j.state = "delayed" => JobOK(Promote(j))
  BY DEF Promote, Job
<1>3. j.state = "waiting" /\ j.lock = NoWorker => JobOK(Claim(j, Worker))
  BY DEF Claim, Job
<1>4. j.state = "active" /\ j.lock = NoWorker => JobOK(Reclaim(j))
  BY DEF Reclaim, Job
<1>5. j.lock = Worker => j.made < Attempts /\ JobOK(FailAttempt(j))
  <2> SUFFICES ASSUME j.lock = Worker PROVE j.made < Attempts /\ JobOK(FailAttempt(j))
    OBVIOUS
  <2>1. j.lock # NoWorker BY DEF Job
  <2>2. j.made < Attempts BY <2>1
  <2> QED BY <2>1, <2>2 DEF FailAttempt, Job
<1> QED BY <1>1, <1>2, <1>3, <1>4, <1>5

\* One awaited write of the handler keeps the types, if what it writes is a row.
LEMMA WriteType ==
  ASSUME IInv, NEW pc \in PCs \ {"idle"}, NEW r \in RowType, NEW next \in PCs,
         Write(pc, r, next)
  PROVE  /\ TypeOK'
         /\ run.file \in Files /\ run.pc = pc
         /\ row' = [row EXCEPT ![run.file] = r]
         /\ run' = [run EXCEPT !.pc = next]
         /\ UNCHANGED <<understood, job>>
<1>1. run.file \in Files BY DEF Write, IInv, PlaceOK
<1>2. row' \in [Files -> RowType] BY <1>1 DEF Write, IInv, TypeOK, RowType
<1>3. run' \in [pc : PCs, file : Files \cup {NoFile}]
  BY GoToRun DEF Write, IInv
<1> QED BY <1>1, <1>2, <1>3 DEF Write, GoTo, IInv, TypeOK, RowType, counters

\* What the handler writes is a row.
LEMMA NowTypes ==
  ASSUME TypeOK, run.file \in Files
  PROVE  /\ \A st \in Statuses : [Now EXCEPT !.status = st] \in RowType
         /\ [Now EXCEPT !.parsedAt = TRUE, !.parsingError = FALSE] \in RowType
         /\ [Now EXCEPT !.parsingError = TRUE] \in RowType
<1>1. Now \in RowType BY DEF TypeOK, RowType, Now
<1>2. \A st \in Statuses : [Now EXCEPT !.status = st] \in RowType
  BY <1>1 DEF RowType
<1>3. [Now EXCEPT !.parsedAt = TRUE, !.parsingError = FALSE] \in RowType
  BY <1>1 DEF RowType
<1>4. [Now EXCEPT !.parsingError = TRUE] \in RowType
  BY <1>1 DEF RowType
<1> QED BY <1>2, <1>3, <1>4

\* Each write of the handler is one.
LEMMA HandlerWrites ==
  ASSUME IInv,
         \/ FailUnlinked \/ MarkProcessing \/ MarkFailed \/ MarkCompleted
         \/ UpdateParsedResult \/ MarkParsingFailed
  PROVE  \E pc \in PCs \ {"idle"}, r \in RowType, next \in PCs : Write(pc, r, next)
<1>1. TypeOK BY DEF IInv
<1>2. run.pc # "idle" => run.file \in Files BY DEF IInv, PlaceOK
<1>3. {"failed", "processing", "completed"} \subseteq Statuses BY DEF Statuses
<1>4. {"unlinked", "processing", "downloadFailed", "stored", "parsed", "parseFailed",
       "finish", "download", "throw", "parse", "understand"} \subseteq PCs BY DEF PCs
<1>5. CASE FailUnlinked
  <2>1. run.file \in Files BY <1>2, <1>5 DEF FailUnlinked, Write
  <2>2. [Now EXCEPT !.status = "failed"] \in RowType BY <1>1, <1>3, <2>1, NowTypes
  <2> QED BY <1>4, <1>5, <2>2 DEF FailUnlinked
<1>6. CASE MarkProcessing
  <2>1. run.file \in Files BY <1>2, <1>6 DEF MarkProcessing, Write
  <2>2. [Now EXCEPT !.status = "processing"] \in RowType BY <1>1, <1>3, <2>1, NowTypes
  <2> QED BY <1>4, <1>6, <2>2 DEF MarkProcessing
<1>7. CASE MarkFailed
  <2>1. run.file \in Files BY <1>2, <1>7 DEF MarkFailed, Write
  <2>2. [Now EXCEPT !.status = "failed"] \in RowType BY <1>1, <1>3, <2>1, NowTypes
  <2> QED BY <1>4, <1>7, <2>2 DEF MarkFailed
<1>8. CASE MarkCompleted
  <2>1. run.file \in Files BY <1>2, <1>8 DEF MarkCompleted, Write
  <2>2. [Now EXCEPT !.status = "completed"] \in RowType BY <1>1, <1>3, <2>1, NowTypes
  <2>3. (IF run.file \in Parsable THEN "parse" ELSE "finish") \in PCs BY <1>4
  <2> QED BY <1>4, <1>8, <2>2, <2>3 DEF MarkCompleted
<1>9. CASE UpdateParsedResult
  <2>1. run.file \in Files BY <1>2, <1>9 DEF UpdateParsedResult, Write
  <2>2. [Now EXCEPT !.parsedAt = TRUE, !.parsingError = FALSE] \in RowType
    BY <1>1, <2>1, NowTypes
  <2> QED BY <1>4, <1>9, <2>2 DEF UpdateParsedResult
<1>10. CASE MarkParsingFailed
  <2>1. run.file \in Files BY <1>2, <1>10 DEF MarkParsingFailed, Write
  <2>2. [Now EXCEPT !.parsingError = TRUE] \in RowType BY <1>1, <2>1, NowTypes
  <2> QED BY <1>4, <1>10, <2>2 DEF MarkParsingFailed
<1> QED BY <1>5, <1>6, <1>7, <1>8, <1>9, <1>10

\* So all of them keep the types, and touch neither job nor understanding.
LEMMA HandlerWriteType ==
  ASSUME IInv,
         \/ FailUnlinked \/ MarkProcessing \/ MarkFailed \/ MarkCompleted
         \/ UpdateParsedResult \/ MarkParsingFailed
  PROVE  TypeOK' /\ UNCHANGED <<understood, job>>
<1>1. PICK pc \in PCs \ {"idle"}, r \in RowType, next \in PCs : Write(pc, r, next)
  BY HandlerWrites
<1> QED BY <1>1, WriteType

\* A recovered job is a slot with its attempts restored.
LEMMA RecoveredSlot ==
  ASSUME NEW j \in Job
  PROVE  LET k == [j EXCEPT !.state = "waiting", !.made = 0] IN
         /\ k \in Job
         /\ j.lock = NoWorker => JobOK(k)
<1> DEFINE k == [j EXCEPT !.state = "waiting", !.made = 0]
<1>1. 0 \in 0..Attempts /\ 0 < Attempts BY QueueAssumption
<1>2. [j EXCEPT !.state = "waiting"] \in Job BY DEF Job, JobStates
<1>3. k \in Job BY <1>1, <1>2 DEF Job, JobStates
<1>4. k.made = 0 /\ k.lock = j.lock BY <1>1 DEF Job, JobStates
<1>5. j.lock = NoWorker => JobOK(k) BY <1>1, <1>4 DEF JobOK
<1> QED BY <1>3, <1>5

\* A fault is within its bound.
LEMMA FaultType ==
  ASSUME TypeOK, Fault
  PROVE  faults' \in 0..MaxFaults /\ fanouts' = fanouts /\ recoveries' = recoveries
BY FileAssumption DEF TypeOK, Fault

\* Every step keeps the types.
LEMMA TypeStep == IInv /\ Next => TypeOK'
<1> SUFFICES ASSUME IInv, Next PROVE TypeOK' OBVIOUS
<1>0. IInv OBVIOUS
<1> USE QueueAssumption, FileAssumption DEF TypeOK, IInv, process, counters
<1>1. CASE Producers
  <2>1. ASSUME NEW f \in Files, Enqueue(f) PROVE job' \in [Files -> Job] /\ late' \in SUBSET Files
    BY <2>1, SlotOperations DEF Enqueue
  <2>2. CASE FanOut
    <3>1. fanout' \in SUBSET Files BY ONLY <2>2 DEF FanOut
    <3>2. fanouts' \in 0..MaxFanOuts
      <4>1. fanouts < MaxFanOuts /\ fanouts' = fanouts + 1 BY <2>2 DEF FanOut
      <4>2. fanouts \in 0..MaxFanOuts /\ MaxFanOuts \in Nat OBVIOUS
      <4> QED BY ONLY <4>1, <4>2
    <3> QED BY <2>2, <3>1, <3>2 DEF FanOut
  <2>3. CASE FanOutLost BY <2>3 DEF FanOutLost
  <2>4. CASE SweepStart
    <3>1. Batch \cap Parsable \in SUBSET Files OBVIOUS
    <3> QED BY <2>4, <3>1 DEF SweepStart
  <2>6. ASSUME NEW f \in Files, FanOutEnqueue(f) PROVE TypeOK'
    BY <2>6, <2>1 DEF FanOutEnqueue
  <2>7. ASSUME NEW f \in Files, SweepEnqueue(f) PROVE TypeOK'
    BY <2>7, <2>1 DEF SweepEnqueue
  <2>8. ASSUME NEW f \in Files, SweepEnqueueFails(f) PROVE TypeOK'
    BY <2>8, FaultType DEF SweepEnqueueFails
  <2>9. ASSUME NEW f \in Files, Recover(f) PROVE TypeOK'
    <3>1. [job[f] EXCEPT !.state = "waiting", !.made = 0] \in Job BY RecoveredSlot
    <3>2. job' \in [Files -> Job] BY <2>9, <3>1 DEF Recover
    <3>3. recoveries' \in 0..MaxRecoveries
      <4>1. recoveries < MaxRecoveries /\ recoveries' = recoveries + 1 BY <2>9 DEF Recover
      <4>2. recoveries \in 0..MaxRecoveries /\ MaxRecoveries \in Nat OBVIOUS
      <4> QED BY ONLY <4>1, <4>2
    <3>4. late' \in SUBSET Files BY <2>9 DEF Recover
    <3> QED BY <2>9, <3>2, <3>3, <3>4 DEF Recover
  <2> QED BY <1>1, <2>2, <2>3, <2>4, <2>6, <2>7, <2>8, <2>9 DEF Producers
<1>2. CASE Queue
  <2>1. ASSUME NEW f \in Files, Take(f) PROVE TypeOK'
    <3>1. job' \in [Files -> Job] BY <2>1, SlotOperations DEF Take
    <3>2. run' \in [pc : PCs, file : Files \cup {NoFile}] BY <2>1 DEF Take, PCs
    <3> QED BY <2>1, <3>1, <3>2 DEF Take
  <2>2. ASSUME NEW f \in Files, BackoffElapses(f) PROVE TypeOK'
    BY <2>2, SlotOperations DEF BackoffElapses
  <2>3. ASSUME NEW f \in Files, LockLapses(f) PROVE TypeOK'
    <3>1. job' \in [Files -> Job] BY <2>3, SlotOperations DEF LockLapses
    <3>2. faults' \in 0..MaxFaults BY <2>3, FileAssumption DEF LockLapses, Fault
    <3> QED BY <2>3, <3>1, <3>2 DEF LockLapses, Fault
  <2>4. ASSUME NEW f \in Files, RedisLoses(f) PROVE TypeOK'
    <3>1. job' \in [Files -> Job] BY <2>4, SlotOperations DEF RedisLoses, Removed
    <3>2. faults' \in 0..MaxFaults BY <2>4, FileAssumption DEF RedisLoses, Fault
    <3> QED BY <2>4, <3>1, <3>2 DEF RedisLoses, Fault
  <2>5. ASSUME NEW f \in Files, StalledCheck(f) PROVE TypeOK'
    BY <2>5, SlotOperations DEF StalledCheck
  <2> QED BY <1>2, <2>1, <2>2, <2>3, <2>4, <2>5 DEF Queue
<1>3. CASE Handler
  <2> USE GoToRun DEF PCs
  <2>1. CASE Load
    <3>1. PICK pc \in PCs : GoTo(pc) BY <2>1 DEF Load
    <3> QED BY <2>1, <3>1 DEF Load
  <2>2. CASE \/ FailUnlinked \/ MarkProcessing \/ MarkFailed \/ MarkCompleted
             \/ UpdateParsedResult \/ MarkParsingFailed
    BY ONLY <1>0, <2>2, HandlerWriteType
  <2>8. CASE Download BY <2>8 DEF Download
  <2>9. CASE Parse BY <2>9 DEF Parse
  <2>10. CASE Understand
    <3>1. run.file \in Files BY <2>10 DEF Understand, PlaceOK
    <3> QED BY <2>10, <3>1 DEF Understand
  <2>11. CASE Leave
    <3>1. run.file \in Files BY <2>11 DEF Leave, PlaceOK
    <3>2. job[run.file] \in Job /\ JobOK(job[run.file]) BY <3>1 DEF JobsOK
    <3>3. job[run.file].lock = Worker => FailAttempt(job[run.file]) \in Job
      BY <3>2, SlotsStayOK, SlotOperations
    <3>4. job' \in [Files -> Job] BY <2>11, <3>1, <3>2, <3>3, SlotOperations DEF Leave
    <3>5. run' \in [pc : PCs, file : Files \cup {NoFile}] BY <2>11 DEF Leave, NoRun
    <3> QED BY <2>11, <3>4, <3>5 DEF Leave
  <2> QED BY <1>3, <2>1, <2>2, <2>8, <2>9, <2>10, <2>11 DEF Handler
<1>4. CASE StepFails
  <2>1. "throw" \in PCs BY DEF PCs
  <2> QED BY <1>4, <2>1, GoToRun DEF StepFails, Fault
<1>5. CASE Process
  <2>1. CASE Start BY <2>1 DEF Start
  <2>2. CASE Drained BY <2>2 DEF Drained
  <2>3. CASE Count BY <2>3 DEF Count
  <2>4. CASE CountFails BY <2>4 DEF CountFails, Fault
  <2>5. CASE DrainShutdown \/ Signal BY <2>5 DEF DrainShutdown, Signal, Shutdown
  <2>6. CASE Exit BY <2>6 DEF Exit
  <2>7. CASE Crash
    <3>1. job' \in [Files -> Job] BY <2>7, SlotOperations DEF Crash
    <3>2. run' \in [pc : PCs, file : Files \cup {NoFile}] BY <2>7 DEF Crash, NoRun, PCs
    <3> QED BY <2>7, <3>1, <3>2, FaultType DEF Crash
  <2> QED BY <1>5, <2>1, <2>2, <2>3, <2>4, <2>5, <2>6, <2>7 DEF Process
<1> QED BY <1>1, <1>2, <1>3, <1>4, <1>5 DEF Next

\* Every step keeps each job's bookkeeping: what may still run has an attempt left.
LEMMA JobsStep == IInv /\ Next => JobsOK'
<1> SUFFICES ASSUME IInv, Next, NEW g \in Files PROVE JobOK(job'[g]) BY DEF JobsOK
<1> USE DEF process, counters
<1>1. job \in [Files -> Job] /\ job[g] \in Job /\ JobOK(job[g])
  BY DEF IInv, TypeOK, JobsOK
<1>2. CASE job' = job BY <1>1, <1>2
<1>3. ASSUME NEW f \in Files, Enqueue(f) PROVE JobOK(job'[g])
  BY <1>1, <1>3, SlotsStayOK DEF Enqueue
<1>4. CASE Producers
  <2>1. ASSUME NEW f \in Files, FanOutEnqueue(f) \/ SweepEnqueue(f) PROVE JobOK(job'[g])
    BY <1>3, <2>1 DEF FanOutEnqueue, SweepEnqueue
  <2>2. ASSUME NEW f \in Files, Recover(f) PROVE JobOK(job'[g])
    <3>1. job[g].state = "failed" => job[g].lock = NoWorker BY <1>1 DEF JobOK
    <3> QED BY <1>1, <2>2, <3>1, RecoveredSlot DEF Recover
  <2>3. CASE FanOut \/ FanOutLost \/ SweepStart
             \/ \E f \in Files : SweepEnqueueFails(f)
    <3>1. job' = job
      BY <2>3 DEF FanOut, FanOutLost, SweepStart, SweepEnqueueFails
    <3> QED BY <1>2, <3>1
  <2> QED BY <1>4, <2>1, <2>2, <2>3 DEF Producers
<1>5. CASE Queue
  <2>1. ASSUME NEW f \in Files, Take(f) PROVE JobOK(job'[g])
    <3>1. f = g => job[g].lock = NoWorker BY <1>1, <2>1 DEF Take, JobOK
    <3> QED BY <1>1, <2>1, <3>1, SlotsStayOK DEF Take
  <2>2. ASSUME NEW f \in Files, BackoffElapses(f) PROVE JobOK(job'[g])
    BY <1>1, <2>2, SlotsStayOK DEF BackoffElapses
  <2>3. ASSUME NEW f \in Files, LockLapses(f) PROVE JobOK(job'[g])
    BY <1>1, <2>3, SlotsStayOK DEF LockLapses
  <2>4. ASSUME NEW f \in Files, RedisLoses(f) PROVE JobOK(job'[g])
    BY <1>1, <2>4, SlotsStayOK DEF RedisLoses, Removed
  <2>5. ASSUME NEW f \in Files, StalledCheck(f) PROVE JobOK(job'[g])
    BY <1>1, <2>5, SlotsStayOK DEF StalledCheck
  <2> QED BY <1>5, <2>1, <2>2, <2>3, <2>4, <2>5 DEF Queue
<1>6. CASE Handler
  <2>1. CASE Leave
    BY <1>1, <2>1, SlotsStayOK DEF Leave
  <2>2. CASE \/ FailUnlinked \/ MarkProcessing \/ MarkFailed \/ MarkCompleted
             \/ UpdateParsedResult \/ MarkParsingFailed
    BY <1>2, <2>2, HandlerWriteType
  <2>3. CASE Load \/ Download \/ Parse \/ Understand
    <3>1. job' = job BY <2>3 DEF Load, Download, Parse, Understand
    <3> QED BY <1>2, <3>1
  <2> QED BY <1>6, <2>1, <2>2, <2>3 DEF Handler
<1>7. CASE StepFails BY <1>2, <1>7 DEF StepFails
<1>8. CASE Process
  <2>1. CASE Crash
    BY <1>1, <2>1, SlotsStayOK DEF Crash
  <2>2. CASE Start \/ Drained \/ Count \/ CountFails \/ DrainShutdown \/ Signal \/ Exit
    <3>1. job' = job
      BY <2>2 DEF Start, Drained, Count, CountFails, DrainShutdown, Signal, Shutdown, Exit
    <3> QED BY <1>2, <3>1
  <2> QED BY <1>8, <2>1, <2>2 DEF Process
<1> QED BY <1>4, <1>5, <1>6, <1>7, <1>8 DEF Next

\* What a step may do to the documents: nothing, with the handler idle, elsewhere
\* or moving on; or one of the handler's own writes.
LEMMA Elsewhere ==
  ASSUME IInv, Producers \/ Queue \/ StepFails \/ Process \/ Leave \/ Load \/ Download
  PROVE  /\ UNCHANGED <<row, understood>>
         /\ \/ run' = run
            \/ run' = NoRun
            \/ run'.file \in Files /\ run'.pc \in {"taken", "throw", "finish"}
            \/ /\ run'.file = run.file /\ run.file \in Files
               /\ run.pc = "taken" /\ ~Settled(run.file)
               /\ run'.pc \in {"unlinked", "processing"}
            \/ /\ run'.file = run.file /\ run.file \in Files
               /\ run.pc = "download" /\ run'.pc \in {"stored", "downloadFailed"}
<1> USE DEF process, counters
<1>1. TypeOK /\ (run.pc # "idle" => run.file \in Files) BY DEF IInv, PlaceOK
<1>2. CASE Producers
  BY <1>2 DEF Producers, FanOut, FanOutLost, SweepStart, FanOutEnqueue,
              SweepEnqueue, SweepEnqueueFails, Recover
<1>3. CASE Queue
  BY <1>3 DEF Queue, Take, BackoffElapses, LockLapses, RedisLoses, StalledCheck
<1>4. CASE StepFails
  <2>1. run.pc # "idle" /\ GoTo("throw") /\ UNCHANGED <<row, understood>>
    BY <1>4 DEF StepFails
  <2> QED BY <1>1, <2>1 DEF GoTo, TypeOK
<1>5. CASE Process
  BY <1>5 DEF Process, Start, Drained, Count, CountFails, DrainShutdown, Signal, Shutdown,
              Exit, Crash
<1>6. CASE Leave BY <1>6 DEF Leave
<1>7. CASE Load
  <2>1. run.pc = "taken" /\ UNCHANGED <<row, understood>> BY <1>7 DEF Load
  <2>2. \/ GoTo("finish")
        \/ ~Settled(run.file) /\ (GoTo("unlinked") \/ GoTo("processing"))
    BY <1>7 DEF Load
  <2> QED BY <1>1, <2>1, <2>2 DEF GoTo, TypeOK
<1>8. CASE Download
  <2>1. /\ run.pc = "download" /\ UNCHANGED <<row, understood>>
        /\ GoTo("stored") \/ GoTo("downloadFailed")
    BY <1>8 DEF Download
  <2> QED BY <1>1, <2>1 DEF GoTo, TypeOK
<1> QED BY <1>2, <1>3, <1>4, <1>5, <1>6, <1>7, <1>8

\* Every step that leaves the rows alone keeps what the handler knows.
LEMMA ElsewhereKeeps ==
  ASSUME IInv, Producers \/ Queue \/ StepFails \/ Process \/ Leave \/ Load \/ Download
  PROVE  AnswersOK' /\ PlaceOK'
<1>1. UNCHANGED <<row, understood>> BY Elsewhere
<1>2. AnswersOK' BY <1>1 DEF IInv, AnswersOK, Answered
<1>3. run.file \in Files /\ ~Settled(run.file) => ~Answered(run.file)
  BY DEF IInv, AnswersOK, Settled, Answered
<1>4. PlaceOK'
  <2>1. CASE run' = run BY <1>1, <2>1 DEF IInv, PlaceOK, Answered
  <2>2. CASE run' = NoRun BY <2>2 DEF PlaceOK, NoRun, AtWork
  <2>3. CASE run'.file \in Files /\ run'.pc \in {"taken", "throw", "finish"}
    BY <2>3 DEF PlaceOK, AtWork
  <2>4. CASE /\ run'.file = run.file /\ run.file \in Files
             /\ run.pc = "taken" /\ ~Settled(run.file)
             /\ run'.pc \in {"unlinked", "processing"}
    BY <1>1, <1>3, <2>4 DEF PlaceOK, AtWork, Answered
  <2>5. CASE /\ run'.file = run.file /\ run.file \in Files
             /\ run.pc = "download" /\ run'.pc \in {"stored", "downloadFailed"}
    BY <1>1, <2>5 DEF IInv, PlaceOK, AtWork, Answered
  <2> QED BY <2>1, <2>2, <2>3, <2>4, <2>5, Elsewhere
<1> QED BY <1>2, <1>4

\* A status written before there is an answer leaves the document as it was.
LEMMA StatusWrites ==
  ASSUME IInv, FailUnlinked \/ MarkProcessing \/ MarkFailed \/ MarkCompleted
  PROVE  /\ AnswersOK' /\ PlaceOK' /\ UNCHANGED understood
         /\ \A f \in Files : /\ row'[f].parsedAt = row[f].parsedAt
                            /\ row'[f].parsingError = row[f].parsingError
<1>1. /\ TypeOK /\ AnswersOK /\ PlaceOK BY DEF IInv
<1>2. PICK st \in {"failed", "processing", "completed"}, next \in PCs :
        /\ row' = [row EXCEPT ![run.file] = [Now EXCEPT !.status = st]]
        /\ GoTo(next) /\ UNCHANGED understood
        /\ run.pc \in AtWork
        /\ next \in {"finish", "download", "throw", "parse"}
        /\ next = "parse" => st = "completed"
  BY DEF FailUnlinked, MarkProcessing, MarkFailed, MarkCompleted, Write, AtWork, PCs
<1>3. run.file \in Files /\ ~Answered(run.file)
  BY <1>1, <1>2 DEF PlaceOK, AtWork
<1>4. \A f \in Files : /\ row'[f].parsedAt = row[f].parsedAt
                       /\ row'[f].parsingError = row[f].parsingError
                       /\ f # run.file => row'[f] = row[f]
                       /\ f = run.file => row'[f].status = st
  BY <1>1, <1>2, <1>3 DEF TypeOK, Now, Statuses
<1>5. AnswersOK' BY <1>1, <1>2, <1>3, <1>4 DEF AnswersOK, Answered, TypeOK
<1>6. run'.pc = next /\ run'.file = run.file BY <1>1, <1>2, GoToRun
<1>7. PlaceOK' BY <1>2, <1>3, <1>4, <1>6 DEF PlaceOK, AtWork, Answered
<1> QED BY <1>2, <1>4, <1>5, <1>7

\* The two writes of an answer: to a downloaded file that had none.
LEMMA AnswerWrites ==
  ASSUME IInv, UpdateParsedResult \/ MarkParsingFailed
  PROVE  /\ AnswersOK' /\ PlaceOK' /\ UNCHANGED understood
         /\ run.file \in Files /\ ~Answered(run.file)
         /\ \A f \in Files \ {run.file} : row'[f] = row[f]
         /\ row'[run.file].parsedAt \/ row'[run.file].parsingError
<1>1. /\ TypeOK /\ AnswersOK /\ PlaceOK BY DEF IInv
<1>2. PICK parsed \in BOOLEAN, next \in {"understand", "finish"} :
        /\ row' = [row EXCEPT ![run.file] =
                      IF parsed THEN [Now EXCEPT !.parsedAt = TRUE, !.parsingError = FALSE]
                      ELSE [Now EXCEPT !.parsingError = TRUE]]
        /\ GoTo(next) /\ UNCHANGED understood
        /\ run.pc \in {"parsed", "parseFailed"}
        /\ next = "understand" => parsed
  BY DEF UpdateParsedResult, MarkParsingFailed, Write
<1>3. run.file \in Files /\ ~Answered(run.file) /\ row[run.file].status = "completed"
  BY <1>1, <1>2 DEF PlaceOK, AtWork
<1>4. /\ \A f \in Files \ {run.file} : row'[f] = row[f]
      /\ row'[run.file].status = "completed"
      /\ row'[run.file].parsedAt = parsed /\ row'[run.file].parsingError = ~parsed
  BY <1>1, <1>2, <1>3 DEF TypeOK, Now, Answered
<1>5. AnswersOK' BY <1>1, <1>2, <1>3, <1>4 DEF AnswersOK, Answered, TypeOK
<1>6. run'.pc = next /\ run'.file = run.file
  BY <1>1, <1>2, GoToRun DEF PCs
<1>7. PlaceOK' BY <1>2, <1>3, <1>4, <1>6 DEF PlaceOK, AtWork
<1> QED BY <1>2, <1>3, <1>4, <1>5, <1>7

\* Reading the text and understanding it write no row; only a stored text is
\* understood.
LEMMA ReadingSteps ==
  ASSUME IInv, Parse \/ Understand
  PROVE  /\ AnswersOK' /\ PlaceOK' /\ UNCHANGED row
         /\ \/ UNCHANGED understood
            \/ \E f \in Files : row[f].parsedAt /\ understood' = understood \cup {f}
<1>1. /\ TypeOK /\ AnswersOK /\ PlaceOK BY DEF IInv
<1>2. CASE Parse
  <2>1. /\ UNCHANGED <<row, understood>> /\ run.pc = "parse"
        /\ GoTo("parsed") \/ GoTo("parseFailed")
    BY <1>2 DEF Parse
  <2>2. run'.pc \in {"parsed", "parseFailed"} /\ run'.file = run.file
    BY <1>1, <2>1, GoToRun DEF PCs
  <2>3. AnswersOK' BY <1>1, <2>1 DEF AnswersOK, Answered
  <2>4. PlaceOK' BY <1>1, <2>1, <2>2 DEF PlaceOK, AtWork, Answered
  <2> QED BY <2>1, <2>3, <2>4
<1>3. CASE Understand
  <2>1. /\ UNCHANGED row /\ run.pc = "understand" /\ GoTo("finish")
        /\ understood' = understood \/ understood' = understood \cup {run.file}
    BY <1>3 DEF Understand
  <2>2. run.file \in Files /\ row[run.file].parsedAt BY <1>1, <2>1 DEF PlaceOK
  <2>3. run'.pc = "finish" /\ run'.file = run.file
    BY <1>1, <2>1, GoToRun DEF PCs
  <2>4. AnswersOK' BY <1>1, <2>1, <2>2 DEF AnswersOK, Answered
  <2>5. PlaceOK' BY <2>2, <2>3 DEF PlaceOK, AtWork
  <2> QED BY <2>1, <2>2, <2>4, <2>5
<1> QED BY <1>2, <1>3

\* After an empty count nothing comes to life unnoticed: a retry, a stalled job taken
\* back or a lapsed lock concerns a job that was live already.
LEMMA DrainStep == IInv /\ Next => DrainOK'
<1> SUFFICES ASSUME IInv, Next, check' = "empty", NEW g \in Files, Live(g)'
             PROVE  g \in late'
  BY DEF DrainOK, Remaining
<1> USE DEF process, counters
<1>1. TypeOK /\ job[g] \in Job /\ \A f \in Files : job[f] \in Job BY DEF IInv, TypeOK
<1>2. check = "empty" /\ Live(g) => g \in late BY DEF IInv, DrainOK, Remaining
<1>3. ASSUME check = "empty", Live(g) \/ job' = job, late \subseteq late'
      PROVE  g \in late'
  BY <1>2, <1>3 DEF Live
<1>4. ASSUME NEW f \in Files, Enqueue(f), check' = check PROVE g \in late'
  <2>1. late \subseteq late' BY <1>4 DEF Enqueue
  <2>2. CASE f = g
    <3>1. CASE job[g].state = "none" BY <1>4, <2>2, <3>1 DEF Enqueue
    <3>2. CASE job[g].state # "none"
      BY <1>1, <1>3, <1>4, <2>1, <2>2, <3>2 DEF Enqueue, Add, TypeOK
    <3> QED BY <3>1, <3>2
  <2>3. CASE f # g
    <3>1. job'[g] = job[g] BY <1>1, <1>4, <2>3 DEF Enqueue, TypeOK
    <3> QED BY <1>3, <1>4, <2>1, <3>1 DEF Live
  <2> QED BY <2>2, <2>3
<1>5. CASE Producers
  <2>1. ASSUME NEW f \in Files, FanOutEnqueue(f) \/ SweepEnqueue(f) PROVE g \in late'
    BY <1>4, <2>1 DEF FanOutEnqueue, SweepEnqueue
  <2>2. ASSUME NEW f \in Files, Recover(f) PROVE g \in late'
    <3>1. CASE f = g BY <2>2, <3>1 DEF Recover
    <3>2. CASE f # g
      <4>1. job'[g] = job[g] BY <1>1, <2>2, <3>2 DEF Recover, TypeOK
      <4> QED BY <1>3, <2>2, <4>1 DEF Live, Recover
    <3> QED BY <3>1, <3>2
  <2>3. CASE FanOut \/ FanOutLost \/ SweepStart
             \/ \E f \in Files : SweepEnqueueFails(f)
    <3>1. UNCHANGED <<job, late, check>>
      BY <2>3 DEF FanOut, FanOutLost, SweepStart, SweepEnqueueFails
    <3> QED BY <1>3, <3>1
  <2> QED BY <1>5, <2>1, <2>2, <2>3 DEF Producers
<1>6. CASE Queue
  <2>1. ASSUME NEW f \in Files, job'[g].state # job[g].state \/ Live(g),
               \/ Take(f) \/ BackoffElapses(f) \/ LockLapses(f)
               \/ RedisLoses(f) \/ StalledCheck(f)
        PROVE  g \in late'
    <3>1. UNCHANGED <<late, check>>
      BY <2>1 DEF Take, BackoffElapses, LockLapses, RedisLoses, StalledCheck
    <3>2. CASE Live(g) BY <1>3, <3>1, <3>2
    <3>3. CASE ~Live(g)
      <4>1. f = g
        BY <1>1, <2>1, <3>3 DEF Take, BackoffElapses, LockLapses, RedisLoses, StalledCheck,
           TypeOK
      <4>2. job[g].state = "failed" \/ job[g].state = "none"
        BY <1>1, <3>3 DEF Live, Job, JobStates
      <4>3. job[g].lock = NoWorker BY <4>2 DEF IInv, JobsOK, JobOK
      <4>4. RedisLoses(f)
        BY <2>1, <4>1, <4>2, <4>3, QueueAssumption, FileAssumption
           DEF Take, BackoffElapses, LockLapses, StalledCheck
      <4>5. job'[g] = NoJob BY <1>1, <4>1, <4>4 DEF RedisLoses, TypeOK
      <4> QED BY <4>5 DEF NoJob, Live
    <3> QED BY <3>2, <3>3
  <2>2. job'[g].state = job[g].state => Live(g) BY DEF Live
  <2> QED BY <1>6, <2>1, <2>2 DEF Queue
<1>7. CASE Handler \/ StepFails
  <2>1. CASE Leave
    <3>1. UNCHANGED <<late, check>> BY <2>1 DEF Leave
    <3>2. Live(g)
      <4>1. CASE job'[g] = job[g] BY <4>1 DEF Live
      <4>2. CASE job'[g] # job[g]
        <5>1. job[run.file].lock = Worker /\ g = run.file
          BY <1>1, <2>1, <4>2 DEF Leave, TypeOK
        <5>2. job[g].state = "active"
          BY <5>1, QueueAssumption, FileAssumption DEF IInv, JobsOK, JobOK
        <5> QED BY <5>2 DEF Live
      <4> QED BY <4>1, <4>2
    <3> QED BY <1>3, <3>1, <3>2
  <2>2. CASE ~Leave
    <3>1. UNCHANGED <<job, late, check>>
      BY <1>7, <2>2 DEF Handler, Load, FailUnlinked, MarkProcessing, MarkFailed,
         MarkCompleted, UpdateParsedResult, MarkParsingFailed, Write, Download, Parse,
         Understand, StepFails
    <3> QED BY <1>3, <3>1
  <2> QED BY <2>1, <2>2
<1>8. CASE Process
  <2>1. CASE Count
    <3>1. Remaining = {} /\ job' = job BY <2>1 DEF Count
    <3> QED BY <3>1 DEF Remaining, Live
  <2>2. CASE DrainShutdown \/ Signal
    BY <1>3, <2>2 DEF DrainShutdown, Signal, Shutdown
  <2> QED BY <1>8, <2>1, <2>2 DEF Process, Start, Drained, CountFails, Exit, Crash
<1> QED BY <1>5, <1>6, <1>7, <1>8 DEF Next

\* The invariant is inductive.
LEMMA InvStep == IInv /\ [Next]_vars => IInv'
<1> SUFFICES ASSUME IInv, [Next]_vars PROVE IInv' OBVIOUS
<1>1. CASE Next
  <2>1. TypeOK' /\ JobsOK' BY <1>1, TypeStep, JobsStep
  <2>2. AnswersOK' /\ PlaceOK'
    BY <1>1, ElsewhereKeeps, StatusWrites, AnswerWrites, ReadingSteps DEF Next, Handler
  <2>3. DrainOK' BY <1>1, DrainStep
  <2> QED BY <2>1, <2>2, <2>3 DEF IInv
<1>2. CASE UNCHANGED vars
  BY <1>2 DEF vars, process, counters, IInv, TypeOK, JobsOK, JobOK, AnswersOK, Answered,
              PlaceOK, AtWork, DrainOK, Remaining, Live
<1> QED BY <1>1, <1>2

\* It holds at first: nothing has an answer, and no job exists.
LEMMA InvInit == Init => IInv
<1> SUFFICES ASSUME Init PROVE IInv OBVIOUS
<1>1. NoJob \in Job BY SlotOperations, QueueAssumption DEF NoJob, Job, JobStates
<1>2. TypeOK
  <2>1. row \in [Files -> RowType] BY DEF Init, RowType, Statuses
  <2>2. job \in [Files -> Job] BY <1>1 DEF Init
  <2>3. run \in [pc : PCs, file : Files \cup {NoFile}] BY DEF Init, NoRun, PCs
  <2>4. linked \in SUBSET Files BY DEF Init
  <2>5. 0 \in 0..MaxFaults /\ 0 \in 0..MaxFanOuts /\ 0 \in 0..MaxRecoveries
    BY FileAssumption
  <2> QED BY <2>1, <2>2, <2>3, <2>4, <2>5 DEF Init, TypeOK, RowType
<1>3. JobsOK BY QueueAssumption DEF Init, JobsOK, JobOK, NoJob
<1>4. AnswersOK /\ PlaceOK BY DEF Init, AnswersOK, Answered, PlaceOK, NoRun, AtWork
<1>5. DrainOK BY DEF Init, DrainOK
<1> QED BY <1>2, <1>3, <1>4, <1>5 DEF IInv

\* For any files, retry budget and number of faults: the inductive invariant of the
\* attachment pipeline, and with it the types, hold throughout.
THEOREM PipelineInvariant == Spec => []IInv
BY InvInit, InvStep, PTL DEF Spec

\* A batch run that ends because its queue was drained leaves behind only what came
\* to life since it counted: a pending retry, or a job of a killed run, keeps it up.
THEOREM DrainIsHonest == Spec => DrainLeavesOnlyLate
<1>1. IInv => (Exit /\ check = "empty" => {f \in Files : Live(f)} \subseteq late)
  BY DEF IInv, DrainOK, Remaining
<1>2. DrainLeavesOnlyLate
        <=> [][Exit /\ check = "empty" => {f \in Files : Live(f)} \subseteq late]_vars
  BY DEF DrainLeavesOnlyLate
<1> QED BY <1>1, <1>2, PipelineInvariant, PTL
-----------------------------------------------------------------------------
(* The refinement.                                                            *)

\* The answer a row records depends on its two columns.
LEMMA SameAnswers ==
  ASSUME \A f \in Files : /\ row'[f].parsedAt = row[f].parsedAt
                         /\ row'[f].parsingError = row[f].parsingError
  PROVE  [f \in Files |-> Recorded(f)]' = [f \in Files |-> Recorded(f)]
BY DEF Recorded

\* Every step of the pipeline is a step of some document's life, or none.
LEMMA DocumentStep == IInv /\ IInv' /\ [Next]_vars => [Document!Next]_(Document!docVars)
<1> SUFFICES ASSUME IInv, IInv', [Next]_vars
             PROVE  Document!Next \/ UNCHANGED Document!docVars
  OBVIOUS
<1> DEFINE answer == [f \in Files |-> Recorded(f)]
<1>1. CASE UNCHANGED <<row, understood>>
  BY <1>1, SameAnswers DEF Document!docVars
<1>2. CASE FailUnlinked \/ MarkProcessing \/ MarkFailed \/ MarkCompleted
  BY <1>2, StatusWrites, SameAnswers DEF Document!docVars
<1>3. CASE UpdateParsedResult \/ MarkParsingFailed
  <2> DEFINE r == run.file
             a == IF row'[r].parsedAt THEN "parsed" ELSE "unparsable"
  <2>1. /\ r \in Files /\ ~Answered(r)
        /\ row'[r].parsedAt \/ row'[r].parsingError
        /\ \A f \in Files \ {r} : row'[f] = row[f]
        /\ UNCHANGED understood
    BY <1>3, AnswerWrites
  <2>2. answer[r] = "none" BY <2>1 DEF Recorded, Answered
  <2>3. answer' = [answer EXCEPT ![r] = a]
    <3>1. ASSUME NEW f \in Files PROVE answer'[f] = IF f = r THEN a ELSE answer[f]
      BY <2>1, <3>1 DEF Recorded
    <3> QED BY <2>1, <3>1
  <2>4. Document!Answer(r)
    BY <2>1, <2>2, <2>3 DEF Document!Answer
  <2> QED BY <2>1, <2>4 DEF Document!Next
<1>4. CASE Parse \/ Understand
  <2>1. CASE UNCHANGED understood BY <1>1, <1>4, <2>1, ReadingSteps
  <2>2. ASSUME NEW f \in Files, row[f].parsedAt, understood' = understood \cup {f},
               UNCHANGED row
        PROVE  Document!Understand(f)
    <3>1. answer[f] = "parsed" BY <2>2 DEF Recorded
    <3>2. answer' = answer BY <2>2, SameAnswers
    <3> QED BY <2>2, <3>1, <3>2 DEF Document!Understand
  <2> QED BY <1>4, <2>1, <2>2, ReadingSteps DEF Document!Next
<1> QED
  <2>1. CASE Producers \/ Queue \/ StepFails \/ Process \/ Leave \/ Load \/ Download
    BY <1>1, <2>1, Elsewhere
  <2>2. CASE UNCHANGED vars BY <1>1, <2>2 DEF vars
  <2> QED BY <1>2, <1>3, <1>4, <2>1, <2>2 DEF Next, Handler

\* No document has an answer at first.
LEMMA DocumentInit == Init => Document!Init
BY DEF Init, Document!Init, Recorded

\* The attachment pipeline implements the life of a document: through every crash,
\* replay, re-enqueue and recovery a file gets one answer, keeps it, and is understood
\* only from text that has been stored.
THEOREM PipelineKeepsPromise == Spec => AnswersAsPromised
<1>1. Init => Document!Init BY DocumentInit
<1>2. IInv /\ IInv' /\ [Next]_vars => [Document!Next]_(Document!docVars)
  BY DocumentStep
<1> QED BY <1>1, <1>2, PipelineInvariant, PTL DEF Spec, AnswersAsPromised, Document!Spec
=============================================================================
