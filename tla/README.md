# Placement-Tracker: a TLA+ verification project

Placement-Tracker reads a student's placement mail, extracts the events
announced in it (company, round, date, venue), recognises which stored event a
mail is about, and creates or revises it; attachments are downloaded, parsed and
matched against the student. This directory holds TLA+ models of the system,
TLC configurations that check them on small instances, and TLAPS proofs of
their safety properties and of one refinement for every instance. Paths below are relative to
`backend/src/` unless they start with `docs/`, `client/`, `deploy/`, `.github/`
or `backend/`.

## 1. Inventory

| Component | State it keeps | Operations | Correct when |
|---|---|---|---|
| Email ingestion and reconciliation (`modules/email/email.{controller,repository,producer,reconciler,scheduler}.ts`) | the `Email` row and its status; the BullMQ job `email-<id>`; the reconciler's running flag and its list | commit a row, enqueue it, sweep for rows left pending | a committed row reaches the queue although row and job share no transaction; a sweep never disturbs a row in flight |
| Email worker (`workers/email.worker.ts`, `modules/email/email.{processor,service}.ts`) | the job's lock, attempts and stalls; what the handler holds between two awaits; an event update it did not await | mark processing, extract, match, update or create an event, mark completed, fan out, fail, retry | what the status says is true; no row is stranded; nothing is done for an email before its extraction is stored |
| Extraction (`modules/extraction/`, `email.parser.ts`) and time (`event.utils.ts`) | none | patterns, the model's answer, merge, score, gate; upcoming or past | dates come from the text; an identity is stable; vague claims are reviewed; an event passes with its own day |
| Recognition (`modules/matching/`) | none | exact, soft and loose tier | one event or none, never one whose round contradicts |
| Event store (`modules/event/`) | `Event` rows with a unique key, `EventUpdate` history | create, update, a reviewer's edit | key, row and history agree; a person's decision outlasts a machine's |
| Attachment pipeline (`modules/attachment/`, `.github/workflows/production-attachment-worker.yml`, `backend/scripts/recovery/`) | `Attachment` row, its job, the worker's life and drain check | fan-out, sweep, download, parse, understand, retry, drain and exit, recover | one answer per file, for good; no work left behind by a drained run; the backlog drains |
| Gmail synchronisation (`modules/gmail/`) | history cursor, reauthorisation flag, token | full and incremental sync, schedule, connect | no message is lost between two cursors; a reconnected mailbox is not flagged |
| Sign-in and sessions (`modules/auth/`, `gmail.controller.ts`) | session records, the index for bulk revocation, the OAuth flow in the session | begin, callback, gate, CSRF, logout, expiry | no fixation; every sign-in revocable; an outage ends no session |
| Client (`client/src/`) | the Dashboard's loading, error, saving and logging-out flags, cookies | fetch, save, log out, sign in | nothing turns for ever |
| Legacy-data claim (`backend/scripts/migration/claim-legacy-data.ts`) | `userId` of every row, one open transaction | discover, resolve, move, verify, commit | mail goes to its addressee; nothing is taken from a person; owners agree |
| Event-identity cleanup (`backend/scripts/cleanup/`) | the reviewed artifact, one SERIALIZABLE transaction | plan, report, plan again, merge, delete, rewrite, verify | what is deleted is what was reviewed and exported |
| Migration rehearsal and verifier (`backend/scripts/migration/{verify,cleanup}.ts`, `stages/`) | dumps and databases on disk | backup, restore, compare | (sequence of external tools) |
| Parsers and storage; AI core and document intelligence; users and participation; configuration; deployment | files; insights, shortlists; identity and profile; constants | parse, classify, resolve, upsert | see section 6 |

Interactions. The controller and the Gmail sync commit a row and call the email
producer. The email worker calls extraction, recognition and the event store,
then the attachment queue. Both reconcilers hand rows back to the same
producers. A reviewer edits events through the API while workers hold copies of
them. The scripts write the tables of a running service. Shared state is
PostgreSQL (rows) and Redis (jobs, sessions), with no transaction across the two,
and nothing but a status column to tell one from the other.

What is hard here:

- every `await` in a handler lets other requests and workers run: guards look at
  copies, lists are read once and worked through later;
- `email.service.ts:101` starts an event update and does not await it until after
  the status write beside it;
- a job's lock may lapse while its handler goes on, so that two handlers run for
  one email; a worker that crashes leaves the row in `processing`;
- a job that failed for good keeps its id (`removeOnFail: false`) and makes every
  later `add` a no-op, while a job that completed frees its id;
- retries replay an observation after other observations have been applied;
- the drain check counts jobs in Redis and acts on the answer later, and BullMQ
  says `drained` only once until something is fetched;
- two syncs of one mailbox run on two copies of its cursor and token;
- express-session loads a copy per request and writes the whole copy back;
- the scripts decide by what they read before their transaction.

The full list, each at its line and with the properties that watch it, is in
`PROJECT.json` under `hazards`.

## 2. Modules

| Module | Models |
|---|---|
| `JobQueue` | one BullMQ job slot: add, claim, fail, promote, unlock, reclaim, remove; the options are those of `email.producer.ts` and `attachment.queue.ts`, BullMQ itself is external |
| `EmailPipeline` (EXTENDS `JobQueue`) | ingestion, reconciler, email worker, floating update, fan-out, crashes |
| `AttachmentPipeline` (EXTENDS `JobQueue`) | fan-out, reconciler, handler, the worker's life, recovery |
| `DocumentLife` | what the attachment pipeline promises: one answer per file, for good |
| `Matching` | key, round identity, score, three tiers |
| `EventStore` (EXTENDS `Matching`) | recognition query by query, update, create, the reviewer's edit |
| `Extraction` | one email read on several days with any answer of the model; upcoming and past |
| `GmailSync` | one mailbox, the scheduler and a request |
| `WebSession` | one browser, its page and its requests against the session store |
| `LegacyClaim` | the claim's transaction against the service and a second operator |
| `EventCleanup` | the cleanup's plan and transaction against worker, dashboard and reviewer |
| `MC...` (eight modules) | instances for TLC: emails, observations, texts, rows, symmetry |
| `EmailPipelineProofs`, `AttachmentProofs`, `EventStoreProofs`, `GmailSyncProofs`, `WebSessionProofs`, `LegacyClaimProofs`, `EventCleanupProofs`, `ExtractionProofs` | theorems about the module in their name, with their proofs |

Operators introduced by "Mutant of X" are plausible bugs of X. Replacing X by its
mutant breaks the property that `PROJECT.json` names beside it under `mutants`.

### EmailPipeline

`status`, `extraction`, `adjudicated` and `file` are the database: the email's
status, the verdict stored for it, whether the event store has committed an answer
to it, and an attachment's status. `job` and `fileJob` are Redis. `run[w]` is
worker process w: a program counter named after the await it stands at, the
verdict it holds, the error it caught and the list it iterates. `update[w]` is
the promise of the event update it started; `detached` holds promises whose
starter has moved on to its catch. The actions between `Persist` and `ApiCrash`
are the API process, `Take` to `StalledCheck` the queue, `MarkProcessing` to
`ThrowJob` the handler in the order of the code, and the rest the floating
update, the failures, systemd, and what the attachment worker does as far as it
shows here. A handler whose lock has lapsed goes on (`LockLapses`) and every
statement it still executes takes effect; only the removal of the job is
refused. Between the enqueue and the attempt the legacy-data claim may give the
mailbox to its person: the payload's owner and the row's then differ, and the handler
refuses the job before anything is written (`Disowned`, `email.worker.ts:71-75`), which
keeps it failed whatever attempts are left.

Awaits that read and cannot change the outcome (loading the row, resolving the
owner) are merged with the next write. A failed read is `StepFails` or
`OuterStepFails`. `MarkUpdated` and `MarkAcknowledged` are the two halves of one
await, since the row is written before the promise resolves and the update may
settle in between.

### EventStore

`events` and `history` are the two tables, `task[x]` an executor (a worker run or
a request to `POST /event`) with the copy it read. Every query of the three tiers
is an action, for the table may change between them, and so is every statement of
the update's transaction: `RecordDate` and `RecordVenue` insert the entries, which
nobody else sees yet, `Write` updates the row as it is by then and commits,
`RollBack` is the unique key's refusal, a deadlock or the transaction's time-out.
`prisma.$transaction` runs at READ COMMITTED, where the statements of two executors
interleave as far as row locks let them: an entry's foreign key holds the event FOR
KEY SHARE (`Sharing`), for which only an update of a column of a unique key waits,
that is one to another `eventKey` (`Lockable`). `createEvent`'s lookup, insert and
second lookup are three actions, and `Post` is the API's creation, with whatever
status the caller sends. A reviewer's edit is `Confirm`. `Begin` may start any
observation at any time and any number of times up to `MaxRuns`: a replay of a job
is a second `Begin`.

Abstractions: dates are days; confidence is in percent; a score is the code's times
10000, so that the code's comparisons are exact in integers; the time of an event
is treated like its venue by the code (but cannot be cleared) and is left out;
`reviewReason` is text; round names are compared after the code's lower-casing, so
that members of `Stages` differ; every query is by owner, so one tenant is the
whole table.

### AttachmentPipeline and DocumentLife

`row` is the `Attachment` row (processingStatus, parsedAt, parsingError), `linked`
the files whose email still has its message id and account, `understood` those
with a `DocumentIntelligence` row. `fanout` and `sweep` are what is left of the
lists the email worker and the reconciler have read; a new sweep starts when the
last is done, as the scheduler's `isRunning` has it. Every file starts `pending`.
`run` is the handler, with one place per awaited write of
`DocumentProcessingService.process`. `life`, `drained` and `check` are the process:
the attachment worker is started by a workflow, asks `getJobCounts` when BullMQ says
`drained`, and closes on an empty count. `Count` takes the count; `DrainShutdown`
acts on it later, and `late` notes what was enqueued in between. `Recover` is one
turn of `recovery:retry-attachments`. The workflow's concurrency group runs one
worker process, so there is one handler; its lock may still lapse under it.

`DocumentLife` has two actions, `Answer` and `Understand`. Under the refinement
mapping an answer is what the row records (`Recorded`); downloads, retries,
replays that write `processing` over `completed`, crashes, sweeps and recoveries
are all stutters. Which store holds the file, checksums and the parsers' output
are left out; whether a download or a parse succeeds is a free choice.

### GmailSync

`account` is the `GmailAccount` row; `sync[c]` a caller (the scheduler, whose
`isRunning` flag excludes only itself, or a request) with its copy of that row, the
history id it will write, the messages it still has to look at and the one it
looked up and did not find. Google numbers messages in order of arrival; `oldest`
bounds what its history still covers, so that an incremental sync may be answered
404 and turn into a full one; `revoked` are the refused tokens. `Watermark` and
`List` are two calls, in the order of the code; that order is what makes overlap
safe. A message whose own sync fails is caught, counted (`skipped`), and the
cursor passes it. The pages of a listing, and those of a history, are fetched in one
step; decoding of headers and bodies is left out.

### WebSession

`store`, `index` and `drawn` are Redis and express-session's ids; `req[r]` is a
request with the session copy it loaded and whether that copy is dirty; `jar`,
`csrf`, `atGoogle` and `page` are the browser and the Dashboard. A request goes
through `RequireAuth`, `RequireCsrf`, its handler and `End`, which writes the copy
back; establishing a session is regenerate, save, index, three awaits that may each
fail; a logout destroys and then unindexes. The callback URL may be presented any
number of times and by overlapping requests. `Age`, `Expire`, `FlowLapses` and
`Disable` happen at any time.

### LegacyClaim

`owner` is the `userId` of the rows of six tables, told apart by what their
composite foreign keys name (`Parent`); a whole mailbox moves by ON UPDATE CASCADE
(`Within`). `draft[c]` is what run c's transaction has updated and locked,
`claim[c]` its place and what discovery read, the accounts among it (`seen`).
`account` is the `User` table: a login creates an account or rewrites its address to
the one Google reports (`SignIn`), an administrator changes a status in SQL
(`SetStatus`, no code does), both at any time, before, during and after a run.
Writers of late rows read an owner (`ReadOwner`) and insert by it later
(`InsertRow`): the foreign key refuses a row whose parent has changed hands and
waits while the move is uncommitted. The checks before COMMIT are translated one by
one (`Verified`), and the process may die at any statement (`Abandon`).
`MoveMailboxes` is the loop over mailboxes in one step: rows of a moved mailbox are
locked, so that the order among them cannot be observed. The dry run and the reports
change nothing.

### EventCleanup

`events` are committed rows; `run` is the script with its snapshot, its draft and
the reviewed artifact (`rewrites`, `history`). `Report` plans and writes the
artifact, `Begin` plans again inside the SERIALIZABLE transaction, then merge,
deletions and rewrites go statement by statement in the order of the code, each
failing with 40001 if another transaction has written its row since the snapshot
(`SerializationFailure`) or with a unique violation (`collision`). Others write
through `Match`/`Update` (a worker on its copy), `Create` (worker or dashboard) and
`Confirm` (the reviewer), and wait for rows and keys the script has written.
A row keeps the columns the script looks at. A key is company and date: no step of
the script, and no write of the others modelled here, changes a round.

### Extraction

The state is the email, the day and the readings that passed the gate. A text is
the record of what the patterns find in it: a company, words of rounds, explicit
dates with or without a year, a relative date, a clock, cues of a venue. `Clean`
drops the quoted thread; the `Pattern...` operators are the priorities of the
extractors; `Merged...` the merge with the model's answer, which nothing
constrains; `Confidence` the score less the penalties, in thousandths;
`Viable` the gate of `processEmail`. `Expired` is `classifyTemporalStatus`, with
the +5:30 of India, in half hours; the calendar has months of one length
(`MonthDays`, `YearMonths`). The regular expressions themselves, and how a
confidence is worded, are left out.

## 3. What the runs check

Passing runs:

| Run | Instance | Shows |
|---|---|---|
| `email_one_worker` | 1 email, 1 attachment, 1 worker, 3 attempts, 2 faults, fairness | `NoLimbo`: a transient status always has a job or a running handler behind it; `CompletedIsDone`: a completed email with nothing running has its attachments handed over and its answer committed; `IInv`; `EventuallyAtRest` |
| `email_two_workers` | 1 email, 1 attachment, 2 workers, 1 attempt, 2 faults | `AnswersFollowExtraction`: no answer before its extraction; `FinishedMeansHandled`: whoever removes the job has done its work |
| `events_two_executors` | 2 executors, a reviewer, 3 observations, 5 runs, 1 edit | `KeyFollowsDate`: the key carries the row's date; `TwinsOnlyByEdit`: no race leaves two rows with one company, round and day; `HistoryTellsEveryChange`: a change and its entry are committed together or not at all |
| `events_one_executor` | 1 executor, a reviewer, 5 observations, 5 runs, 1 edit | `IInv`; `HistoryChains`, `TrustLostOnlyFromConfirmed` |
| `files_one_worker` | an image and a PDF, 2 attempts, 1 fault, 1 fan-out, 1 recovery, fairness | `AnswersAsPromised`: the refinement of `DocumentLife`; `DrainLeavesOnlyLate`: a drained run leaves no work that was there when it counted; `RunEnds`; `BacklogDrains`; `IInv` |
| `gmail_two_callers` | 2 messages, 2 connections, 1 fault, fairness | `NoGaps`: the cursor passes no message neither stored nor counted as failed; `IInv`; `EventuallyStored` |
| `web_one_browser` | 2 overlapping requests, 1 sign-in, 2 faults | `IInv`; `AnonymousStaysAnonymous` (no fixation), `Revocable`, `GoodSessionsSurvive`, `NothingTurnsForever` |
| `claim_two_operators` | 2 runs with any `--to`, 2 mailboxes, 3 users whose accounts change, 2 late rows | `IInv`; `OwnersAgree`, `NeverTakenFromAPerson`, `ClaimIsComplete`; `MailToItsAddressee`: whoever owns mail of a mailbox was, in the accounts a committed run read, the one live account with its address |
| `cleanup_apply` | 8 events of 2 owners, 2 writes by others | `IInv`; `DeletesOnlyAsReviewed`, `HistoryExported`, `NothingUnreported`, `PlanDelivers`, `OnlyOthersCollide` |
| `reading_twice` | 817 emails, each read twice on one or two days around a new year, with any of 66 answers or none | `OnANamedDay`, `SameIdentity`, `TrustIsEarned`, `PassesWithItsDay` |

`IInv` is the inductive invariant of the module's proofs, its type invariant
included.

`NoLimbo` and `CompletedIsDone` are stated for one worker process, the deployment
in `deploy/systemd`. With two, a zombie handler may write the status of an email
whose job the other worker has already finished; `FinishedMeansHandled` is what
remains true of any number of workers.

What the history promises depends on the number of executors. `HistoryTellsEveryChange`
holds for any number: it is the law of `docs/01_Domain_Model/EventUpdate.md:488-492` (and
of `Event.md:543` and `588`) that a change and its entry commit as one act. It is a
property of commits and says nothing of the order among them. Two executors that have
read the same copy write two entries with the same old value, and their ids need not
follow the order in which the row was written: T1 inserts, T2 inserts, updates and
commits, T1 updates and commits, and the row holds T1's value under an entry of T2's.
So the last entry of a field need not say what the row says. A reschedule has no
better protection than a venue: it waits only if the key it writes differs from the
key the row has by then, so that one to a day where the event is already does not wait
and overtakes another that does.
`HistoryChains`, which says that each entry starts where the last ended and the last
ends at the row, is therefore stated for one executor, as is
`TrustLostOnlyFromConfirmed`.

One executor is less than it sounds: it is a hypothesis on the runs of `processEmail`
that are under way at once, and one worker process with a concurrency of one does not
establish it. The event update floats (`email.service.ts:101`): when the status write
beside it fails, or the job's lock lapses, the next attempt may begin while the update
of the last is still open.

`TwinsOnlyByEdit` is about the race of two inserts, and of an insert with a reschedule,
which the unique key decides; a reviewer's edit of company and round leaves the
key as it was and can make twins, which is why the property ends with the first edit.
`KeyFollowsDate` would not notice such a duplicate.

Violated runs. Each states a sentence of the repository, and TLC shows a behaviour
of the code that breaks it; `findings` in `PROJECT.json` quotes the sentences.

| Run | What TLC shows |
|---|---|
| `events_confirm_race` | an update matched before the reviewer's confirmation overrides it |
| `gmail_reauth_race` | a sync begun before a reconnection fails with the old token and flags the mailbox after it; the scheduler leaves it alone from then on |

### Bounds

- Email. `MaxFaults = 2`: crashes, lapsed locks, failed statements, changes of
  owner. Two lapsed locks use up `MaxStalled = 1`, a fault and a unique violation
  (which needs no fault) mix with the code's three attempts, so that every way a job
  may end is reached. `email_two_workers` spends its size on interleavings instead:
  both faults may hit the zombie and its successor, and a failed attempt is the
  last. One email, since emails share nothing but workers. With one attachment a
  fan-out is done or not; the theorems cover every number of attachments, emails and
  workers.
- Events. `MaxRuns = 5`, `MaxEdits = 1`: a creation, a revision, a race, a replay and one
  more. Observations are chosen so that each tier matches something, a reschedule
  collides with another event, a venue is set and cleared, two events tie, and one
  observation is below the threshold.
- Files. Two files, one of which no parser handles, are what the batch, the drain
  check and a lost fan-out need; a download or a parse may fail without a fault, so
  that two attempts exhaust a job, and one recovery gives it a new budget; the fault
  crashes a worker at any write, lapses a lock, loses a job or refuses a statement.
  `BatchSize = 2` leaves room for the row that never leaves the backlog: see section
  5 for smaller ones.
- Gmail. Two messages are one before and one after a cursor; two connections are
  one revocation and one reconnection. The last connection is not revoked, so that
  something is left to sync.
- Web. Two requests overlap (two callbacks, a logout and a fetch, a save and a
  reload); two session ids are the one before and the one after the sign-in.
- Claim. Ann has the first mailbox's address; cy has the second's, on a disabled account
  that may be enabled and disabled again; bob signs in with either address, in any
  order and any number of times. So the first mailbox has one claimant or two, the
  second none, one or two, and each may come or go at any step. One message has a file,
  one predates mailboxes, one event has a history; a message and an event arrive
  meanwhile.
- Cleanup. Both duplicate pairs, the deleted event with a history, an excluded row, one
  more spelling to rewrite and another owner's row; a write by another between any
  two steps, and a second to build on it (a rename, then a move).
- Reading. Dates with and without a year, one that does not exist, each relative
  date, each clock, each cue of a venue. Days 15 and 16 are the last of a year and
  the first of the next.
- `CHECK_DEADLOCK FALSE` where the system may stop: the event store is passive, a
  script ends, an email has been read, and `files_one_worker` when the worker is
  up, idle and nothing arrives. The email pipeline, Gmail and the browser never stop.

### Fairness

Email pipeline: the reconciler's interval fires and its loop goes on
(`email.scheduler.ts`), a request ends one way or the other, backoffs elapse,
BullMQ serves waiting jobs in order and checks for stalled ones, a live process
executes its next statement, a transaction in flight settles, and systemd
restarts a dead worker (`Restart=on-failure`). Weak fairness suffices: each of
these stays enabled until it happens.

Attachment pipeline: the same, except that the worker ends with every drained queue
and is dispatched again, and that it works one job at a time. `Take` and
`StalledCheck` of a given file are therefore enabled again and again rather than for
good, and have strong fairness: the queue is FIFO, and the stalled check runs on
every start. No fan-out, signal or recovery is required to occur.

Gmail: the scheduler's interval fires, and a caller under way gets an answer or its
timeout (`GMAIL_REQUEST_TIMEOUT_MS`). Nobody is obliged to sync by hand or to
reconnect.

No fault, no particular verdict of a parser or a model and no particular outcome of
a transaction is ever assumed to occur or not to occur.

## 4. What is proved

Every safety property of the passing runs is a theorem, for every value of the
constants that the assumptions admit; the listed ones are in `PROJECT.json` under
`theorems`. Each component has a module of proofs. They are built alike: an
inductive invariant `IInv` at the end of the component's module, which TLC checks in a
run as well (that of `Extraction`, where it quadruples the time of the run, on the
constants of `reading_twice` by hand), lemmas about the operators, one lemma or step
per action, and the theorems.

### Assumptions

- `QueueAssumption`, `EmailAssumption`, `FileAssumption`, `SyncAssumption`: any sets of
  emails, attachments, workers, files and callers, any attempts, batch and bounds;
  one attachment worker process, as the workflow's concurrency group has it.
- `StoreAssumption`: any executors, observations, dates and bounds; `silent` is not a
  venue.
- `SessionAssumption`: any number of overlapping requests and sign-ins, and ids
  enough for each.
- `ClaimAssumption`: any users, runs and rows, any accounts to begin with (`Known`), any
  addresses Google may report of each user (`Logins`), any accounts an administrator may
  touch (`Managed`). A row is in one table and its
  parent in the table its foreign key names (`schema.prisma`), and a row that is there
  from the start has its parent there, as the foreign keys demand.
- `CleanupAssumption`: the constants of `event-identity-plan.ts` are not arbitrary, and
  what the proofs use of them is listed and no more: the unique index holds of the
  inventory; the ids to delete are distinct and inventoried, the merged duplicate and
  event 54 among them, the survivor of the merge and the rows to be left alone not;
  deleted rows have no history but event 54; whatever else is expected is
  canonical in its company; an approved group keeps one member at most;
  `canonicalCompanySpelling` is idempotent.
- `ExtractionAssumption`: any emails, answers and spellings, and a calendar of equal
  months. Nothing is assumed of an answer.

`NoLimbo` and `CompletedIsDone` have the hypothesis `OneWorker`, `HistoryChains` and
`TrustLostOnlyFromConfirmed` the hypothesis `OneExecutor`: both are false without it
(section 3).

### Arguments

`EmailPipelineProofs`. `FinishedMeansHandled` speaks of the moment a job is removed; what
makes it true is spread over the handler's steps, so the invariant says what each
place in the handler implies: `LockIsRunning` (a lock is held by a worker running
that email), `AttemptsLeft` (only a kept job has used up its attempts),
`PlaceOK` (past extraction it is stored, past the answer it is committed, past
the fan-out's element it is handed over), `UpdateOK` (a resolved update has
committed) and `DetachedOK` (a floating update has a stored extraction behind it).
The argument rests on `GrowsStep`: extraction, answer and hand-over are never
undone, so that what another worker does cannot disturb a place. From there
`PlaceStep` treats the worker that moves, `OthersStay` the others, and
`LockStep` and `AnswerStep` the queue and the database. With one worker nobody else
writes the row it is at: `UndisturbedOK` says that its job still stands, with or
without the lock, that the stored extraction is the one it acts on and the status
the one it wrote, and `SettledOK` what may be said of an email whose job is gone.
`NeverInLimbo` and `CompletedIsTrue` follow.

`AttachmentProofs`. That a file is answered once cannot be read off the writes, which
overwrite: it holds because the handler decides at `Load` and one worker runs
at a time, so the invariant says that a file in work has no answer yet, that a file
at the parser is downloaded and one at its understanding has its text stored
(`PlaceOK`), that a job which may run has an attempt left (`JobsOK`), and that only
a downloaded file has an answer, of one kind (`AnswersOK`). Each step of the pipeline
is then an `Answer`, an `Understand` or a stutter of `DocumentLife`
(`PipelineKeepsPromise`). `DrainOK` carries an empty count to the exit it decides:
all that remains by then came since (`DrainIsHonest`).

`EventStoreProofs`. The statements of a transaction are apart, but its entries are seen
by nobody before `Write` commits them with the row. `Inserted` says what an open
transaction has inserted: an entry for each field in which its copy and its observation
differ, under an id that no committed entry and no other transaction has (`IdsOK`,
since the sequence never gives an id twice). `Write` runs when all of them are in and
puts the observation's values into the row, whatever the copy said, so that each value
it changes has its new entry and each entry names what the row now says
(`EveryChangeIsTold`); nothing else touches date, venue or history. Date and key are
columns of one UPDATE (`KeysFollow`). Until a reviewer edits, every row and every copy
has the company and the round of its key (`KeysSpell`), so that the unique key keeps
rows apart, not only keys (`NoTwins`). With one executor a copy is `Fresh` until it is
used: only a reviewer can come between, and all that a reviewer leaves unlike the copy
is the company, the round and the confirmation; and the ids it inserts under come after
all that is committed. Hence the old value of an entry is the new value of the last and
the last is the row's (`HistoryIsAChain`), and certainty that is lowered was a
person's (`TrustIsKept`).

`GmailSyncProofs`. `PlaceOK` keeps an account for each caller: a copy just loaded has a
cursor behind which all is handled, a list in work leaves nothing up to the id it
will write but what is handled, still listed or in hand, and a caller about to write
has nothing left. The mailbox and what is handled only grow (`TipGrows`,
`HandledGrows`), so that no other caller can disturb it, in whatever order the
cursors are written; a cursor that goes backwards is covered too.

`WebSessionProofs`. `Fits` relates one request to the store: a copy whose record
lives agrees with it on who is signed in, a session being established is not the
one in the cookie jar, and a session on its way out of the index has not been
reported as signed in. `Together` relates two requests: copies of one session agree on
who is signed in, and an id that is being established is nobody else's. `Weave`
shows from this that a whole copy may be written back without turning an anonymous
record into a signed-in one, and each await of the handlers is a use of it. What
the page waits for is an invariant of its own, part of `IInv`.

`LegacyClaimProofs`. A row in a draft belongs to the placeholder and goes to the
addressee of its mailbox (`DraftOK`); two runs never hold the same row (`LocksOK`); a
mailbox is mapped to its only match in the accounts discovery read, which the run keeps
(`RunOK`), however accounts change meanwhile; and a transaction
about to commit passes its checks still (`StillVerified`), since insertions wait for
what is locked and every other owner stays what it is. `OwnersAgree` is kept by the
cascades because a row has the mailbox of its parent (`BoxOfParent`).

`EventCleanupProofs`. From the inventory to the postconditions:
`OnlyTheInventory` (the preconditions' count leaves room for no other row), `ThePlan`
(which rows are rewritten, and how), `OneOfEachGroup` (no two survivors share an
identity), `FirstRewrite` (there is a first one while any is left). The invariant says of
an open transaction what it has written, each row from the row it read, and that what
others write meanwhile is tolerable: `OneRow` shows that they write no row and no key
of the draft, so that a row which has moved on fails the script's statement.
Hence a planned key that is taken was taken by somebody else (`TakenByOthers`), and
the rows at the commit are the snapshot's, merged, deleted and rewritten
(`FinalRows`, `FinalSurvivors`), which satisfy the postconditions (`Delivered`).
A row that is deleted is the reviewed one because a transaction that writes a row
others have written since its snapshot fails (`OnlyTheCommitDeletes`).

`ExtractionProofs`. A reading is what some answer made of this email on its day, past the
gate (the lemma `ReadingInvariant`, which is only where the theorems start from); they are
about that function. `RoundTrip` is the
calendar's: the number of the date of a day number is that number, from `Division`.
With it every date that passes is one the text names or its relative word means
(`DateIsNamed`), whether the patterns found it or the validation let it through.
`VagueIsUncertain` adds up scores and penalties, and `Passes` is the arithmetic of
half hours around midnight in India.

### Only model-checked

The liveness properties `EventuallyAtRest`, `EventuallyStored`, `RunEnds` and
`BacklogDrains`: liveness under fairness and ENABLED are out of this prover's reach.
The constants of `event-identity-plan.ts` are read into `CleanupAssumption` by
hand, and TLC evaluates each assumption on the instances of the runs. That a text is
the record of what the patterns find in it is abstraction, not theorem.

## 5. Where code and documents part

Seen while modelling, without a run of their own (a sentence each is enough to
see them in the code, or no sentence of the repository denies them):

- Email. `processEmail` writes `ignored` and the processor then writes `completed`
  over it (`email.processor.ts:25`, against `docs/02_Backend/Gmail_Synchronization.md:170`).
  A row in the sweep's list may be processed and its job removed before the sweep adds
  it again (`email.reconciler.ts:35`, against its line 22). The update that floats
  beside the status write may reject before anyone awaits it, which ends the process
  (`email.service.ts:101`). A failed job keeps its id, so that an email left pending
  by two crashes is never processed (`email.producer.ts:39`, against
  `docs/deployment.md:1165`). The same befalls an email whose mailbox the claim moves
  while its job is queued: the attempt is refused for good (`email.worker.ts:71-75`), and
  the reconciler's adds find the failed job's id.
- Events. A replay after another observation reverts the event and writes history
  (`event.service.ts:55`, against `Event_Intelligence.md:573`). After a reviewer
  corrects a round, the exact tier still matches the old key
  (`matching.service.ts:39`, against `ADR-006:279`). The last history entry may name a
  value other than the row's, when two executors update one event at once (section 3).
- Attachments. The recovery batch is the oldest rows first, and rows no parser handles
  that stay completed and unparsed never leave it: `BacklogDrains` fails if
  `BatchSize` is no more than their number (`attachment.repository.ts:92-93`). A
  pending row no parser handles is never recovered (`attachment.reconciler.ts:81-83`).
  A row whose email lost its account is failed without a failed job, so that "failed
  rows always have a job" (`attachment.repository.ts:73`) has an exception. A drain
  count that Redis refuses leaves the worker up until the runtime's timeout, which
  is why `RunEnds` names it.
- Gmail. The cursor may go backwards (against `Gmail_Synchronization.md:349`), which
  is harmless: `NoGaps` holds. A message whose own sync failed is passed for good by an
  incremental cursor; only the next full listing would find it.
- Sessions. A request loaded before a logout writes its session back after it
  (`session.service.ts:118`: touching `lastSeenAt` makes the copy dirty). Two
  callbacks of one flow both pass the state check of their own copies; Google
  exchanges the code once. A save or an index that fails after the regeneration
  leaves a live session behind an answer of 500. A slower older fetch overwrites
  a newer one on the page.
- Claim. "The placeholder owns nothing" (`claim-legacy-data.ts:586-587`) is checked
  before COMMIT; an event whose owner was read earlier, inserted after the check, is
  left with the placeholder. `ClaimIsComplete` is what does hold. Accounts are read
  before the transaction (`claim-legacy-data.ts:178-191`) and nothing between BEGIN and
  COMMIT (753-820) looks at them again: a mailbox may go to an account which by then has
  been disabled, has another address or has a namesake. That the new owner is the one
  live account at the COMMIT is false, and `MailToItsAddressee` does not say it.
- Cleanup. The artifact is written before the transaction, so that a run which then
  aborts leaves one that reports what did not happen; a failed run is never retried.
- Extraction. `Event.isTimeEstimated` is never written, so an estimated "evening"
  counts as a stated 18:00 and drives expiry (against `event.utils.ts:29`). The
  model's time is not validated against the text, and its round wins where it is
  one the system knows, so that the round, unlike the company, need not be the same
  at a second reading. "tomorrow" counts from the day of processing. "31 feb" rolls
  over, "13 pm" is read as 25:00, "today" is scored but never parsed as a date.
  `extractData` passes "raw text" to `extractVenue` for its newlines
  (`email.parser.ts:457`), but `processEmail` has flattened it by then.

## 6. Not modelled, and the plan

Not modelled: the migration rehearsal and verifier (a sequence of `pg_dump`,
`pg_restore` and read-only comparisons, whose state is in the tools); parsers and file
storage (bytes); the AI core and document intelligence (calls to an outside model that
fail softly; their answers are choices in `Extraction` and `AttachmentPipeline`, and
participant matching compares strings); users and participation (single-statement
upserts and read-only derivations); configuration; layout, filters and the profile
section of the client; provisioning. The email worker's graceful shutdown, and its
optional mode that ends the process once the queue is drained
(`WORKER_EXIT_WHEN_DRAINED`, `email.worker.ts:244-323`), are the attachment worker's line
by line and are modelled there; `EmailPipeline` has the deployment in `deploy/systemd`,
which leaves the mode off and keeps the worker up.

Worth doing next, in order of weight:

1. `EmailLifecycle`, an abstract life of an email that `EmailPipeline` implements as
   `AttachmentPipeline` implements `DocumentLife`.
2. Compositions: `EmailPipeline` with `AttachmentPipeline` in place of its
   `AttachmentSettles`, and with `EventStore`, so that an observation is replayed
   exactly when the queue retries a job.
3. The hazards no property watches: the `completed` written over `ignored`, candidates
   of equal score, the exact tier after a reviewer's edit of the round, and the
   session written back after a logout. The code has them as section 5 says, so
   that a property would have to say what should hold instead.
