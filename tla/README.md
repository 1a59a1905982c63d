# AngeMedia Gateway: TLA+ verification project

TLA+ modules that model the AngeMedia gateway (`scripts/angemedia_gateway`):
its job pipeline, the requests it executes itself, its files, its accounts and
keys, the switch of queue backends and the assistant chat; TLC configurations that check them on small
instances, and TLAPS proofs of the main safety properties for every instance.
`PROJECT.json` maps every definition to the lines it models. Paths below are
relative to `scripts/angemedia_gateway/`.

## 1. Inventory

The gateway accepts image and video requests over HTTP, forwards them to media
providers and keeps jobs, history and files in one SQLite database. Requests
either run inside the HTTP request (the synchronous flows) or become *jobs*
executed by background processes (the queued flow).

| Part | State it keeps | Operations | Hard behaviour |
|---|---|---|---|
| Job state machine (`repositories/jobs.py`, `job_attempts.py`) | `jobs`, `job_attempts` rows | insert, versioned transition, claim of an attempt, finish, cleanup | every writer works from a row it read earlier |
| Outbox and dispatcher (`repositories/job_dispatches.py`, `services/job_dispatcher.py`, `cli/dispatcher.py`) | `job_dispatches` rows with lease and token | claim batch, publish, acknowledge, release, requeue | expiring leases, acknowledgement lost after publish, several dispatchers |
| Worker runtime and stage handlers (`services/worker_runtime.py`, `image_job_worker.py`, `video_job_worker.py`, `video_job_finalizer.py`) | none between messages | read, check, claim, provider call, persist | redelivery, crash in the middle, billable calls, attempt limit |
| Celery/Redis backend (`queue/celery_*.py`, `worker/tasks.py`) | messages in the broker | publish, deliver, acknowledge late | at-least-once delivery, visibility timeout, loss |
| Local backend (`queue/local_backend.py`, `local_lock.py`, `services/local_worker_failure_recovery.py`) | one locked process | execute inside publish, recover | dispatcher and worker die together |
| Admission (`services/job_admission.py`) | - | insert job and first dispatch unless an equal request is active | two equal requests at once |
| Client polling (`services/video_generation.get_video`, `job_lifecycle.py`) | - | poll the provider, mark the job | marks a job the workers are executing |
| Synchronous flows (`image_generation.py`, `image_execution.py`, `create_video`, `video_job_refresh.py`) | job, task, history, asset rows in separate transactions | create, fallback over providers, poll, refresh | check-then-act across an await, crash between two writes |
| Queue runtime switch (`queue_runtime.py`) | environment file, environment, two processes | switch, rollback | jobs admitted during the switch, failing rollback, crash |
| Admin auth, gateway keys (`admin_auth.py`, `cli/reset_admin.py`, `gateway_keys.py`) | users, sessions, failure counters, keys | login, lockout, account change, reset, revoke | the reset command runs beside the API |
| Storage and retention (`media.py`, `routes/storage.py`, `maintenance_retention.py`) | files, `.part` files, assets, history, uploads | download, upload, delete, orphan sweep, retention | files and rows change at different times, in several processes |
| Assistant (`assistant_chat_service.py`, `assistant_tools.py`, `assistant_sessions.py`) | sessions, messages, runs | ask, stream, archive, purge | a session is archived while an answer is on its way |
| Migrations (`db/migrations.py`) | schema versions | apply once | failure in the middle |
| Provider configuration, diagnostics, Studio UI | settings | overlays, queries | little shared state |

How they meet: admission writes a job and its first dispatch in one
transaction; a dispatcher leases dispatches and publishes them; a worker reads
the job, claims an attempt (a compare-and-swap on the job's version), calls the
provider and persists the result together with the next dispatch. Client
polling, requeue and cleanup change the same rows from HTTP requests. Nothing
but SQLite transactions synchronises these actors. Inside the API process there
is one more rule: it is one event loop, so a handler that does not await runs
alone. The modules of the API's own handlers (`DirectGateway`, `MediaStore`,
`AdminAuth`, `Assistant`) interleave at awaits, at steps of other processes and
at crashes, and nowhere else.

What makes each part correct:

* job state machine: one outcome per job, never taken back; history agrees with it;
* outbox: an active job always has something that continues it; a published row is not undone by a dispatcher that lost its lease;
* workers: no second billable execution; one running attempt, of the current stage; no attempt past the limit (Celery); a job past the submit ends although workers die;
* local backend: every job ends; what is marked published was executed; only ambiguous executions are failed by recovery;
* synchronous flows: an accepted task is on record; an active image job has a request that ends it; a succeeded job has its rows; every request is answered;
* storage: no half-written generated file under its served name and no uploads row of a half-written upload, no leaked `.part` file, no image of a worker without an asset row of its file;
* accounts and keys: one administrator; a session ends with the credentials it was opened with; a revoked key stays out;
* queue switch: a reported outcome is the state of file, environment and processes; only jobs admitted during a switch can be stranded;
* assistant: only tools the skill allows are called; questions, answers and runs of a session stay together.

## 2. Modules

| Module | Models | Notes |
|---|---|---|
| `JobTables` | job and attempt rows, tables, transition, claim | operators on rows, no variables |
| `Outbox` | `job_dispatches` and dispatcher processes | extends `JobTables` |
| `StageWorker` | worker processes, admission, requeue, cleanup | extends `Outbox` |
| `ClientPolling` | `get_video` | extends `StageWorker` |
| `JobContract` | what the gateway promises about a job | abstract specification |
| `Gateway` | whole state, shared properties, refinement mapping | extends `ClientPolling` |
| `CeleryGateway` | the Redis/Celery deployment | extends `Gateway` |
| `LocalGateway` | the brokerless deployment | extends `Gateway` |
| `DirectGateway` | requests the API executes itself: images with routing and fallback, videos, polls, refresh | extends `JobTables` |
| `MediaStore` | files, `.part` files and the rows that name them, in API and workers | |
| `QueueSwitch` | the switch between local queue and Celery, with rollback | |
| `AdminAuth` | administrator, sessions, lockout, gateway keys, reset command | |
| `Assistant` | chat requests, tools, sessions | |
| `MCCelery`, `MCLocal`, `MCDirect`, `MCMedia`, `MCSwitch`, `MCAdmin`, `MCAssistant` | instances for TLC | |
| `CeleryGatewayProofs`, `PipelineProofs` | proofs about the Celery deployment: shape, limits and published rows; the stages of a job, charges and the contract | the second extends the first |
| `LocalProofs` | proofs about the local deployment, the contract included | extends `LocalGateway` |
| `DirectProofs`, `MediaStoreProofs`, `QueueSwitchProofs`, `AdminAuthProofs`, `AssistantProofs` | proofs | each extends its component |

### State and code

* `job[j]` is the `jobs` row: `status`, `stage`, `version`, and `task` for
  "`external_task_id` is set". `"absent"` is a row not inserted yet,
  `"deleted"` one that cleanup removed.
* `attempt[j][a]` is the `job_attempts` row with attempt number `a`.
* `dispatch[d]` is a `job_dispatches` row: job, stage and attempt of its
  payload, lease (`token`, `expired`) and `attempt_count` (`tries`).
* `dispatcher[p]` and `worker[w]` are program counters of processes with what
  they remember: the batch; the message, the snapshot of the job read first
  (`snap`), the version obtained at the claim (`ver`), the provider's answer.
* `queue` holds the broker's messages. A message is identified by its
  dispatch (the Celery task id is the dispatch id), so two copies in the
  broker at once are one element; a copy in the broker beside one being
  executed is represented.
* `calls[j]` counts billable provider executions; it is an observer, nothing
  reads it. `sent` records what the broker accepted.
* `generation[j]`, `asset[j]`: a history or asset row is linked to the job. A
  succeeded job need not have a linked asset: the row of a file that an earlier
  job produced too stays linked to that job (`save_asset` keeps `job_id`), and
  the video finalizer accepts a missing file (`SavedAssets`). `assets.job_id` is
  no foreign key: a client's poll may link an asset to a job deleted meanwhile.
* `faults` is the number of faults that may still happen.

One SQLite transaction is one step. A worker takes five of them per message:
`StartedOn` (read the job), `Check` (read the attempt and decide), `Claim`,
`ProviderCall`, `Persist`; everything may interleave in between. `Persist` is
one action for `_persist_success`, `_persist_failure`, `_schedule`, `_fail`,
`_retry` and `finalize_imported_video`, because they have one shape: transition
the job, finish the attempt, write the next dispatch or the history rows, all or
nothing. `Outcome` says which target status and stage each answer leads to.

What is abstracted: time (a delay is a pending row nobody claimed yet, a lease
ends in `LeaseExpires`, the elapsed-time limit of polling may strike at any
attempt), texts, events, errors' wording, payloads. A claim token is the
dispatcher's name, since a dispatcher has one batch at a time. `attempt_count`
saturates at `MaxDispatchAttempts`, the only value it is compared with.
`jobs.max_attempts` and the worker policy's limit are one constant.

The modules beside the pipeline:

* `DirectGateway`: `loop` is the handler the event loop runs, `handler[h]` what
  request `h` remembers between two statements (its operation, job, task, the
  providers left to try, the provider's answer). A handler keeps the loop until
  it is at an await (`Awaits`); each of its database writes is a step, so a
  `Crash` or a `DatabaseError` falls between any two. `job`, `taskOf`, `hashOf`,
  `videoTask`, `generation`, `asset` are the tables; `accepted` and `lost` are
  observers. `Plans` is every chain `resolve_chain` can return while providers
  are enabled and disabled, and the request hash contains it.
* `MediaStore`: `disk[f]` is a file under its final name, `part[i]` the `.part`
  file of import `i`; `imp[i]` is the import, in the API or in a worker;
  `asset`, `history`, `upload` are the rows; `admin` is the deletion the API is
  serving, whose queries and unlinks are separate steps. A job's result has one
  file name (`stable_filename` is a hash of the content), which two jobs may
  share.
* `QueueSwitch`: `file` and `env` are the two configurations, `proc` what the
  dispatcher and the worker were started with, `sw` the program counter of
  `switch_backend` or of its rollback (`roll`), `outcome` what was reported
  last. Each step is one action, and `StepFails` its failure.
* `AdminAuth`: the rows of `admin_users`, `admin_sessions`,
  `admin_login_attempts` and `gateway_api_keys`, and the one request `req` being
  served; `Reset` is the command-line tool. `epoch` counts credential changes;
  a session remembers the epoch of its password check.
* `Assistant`: `session` and `transcript` are the rows, `turn[c]` a request:
  question, guard, tools, model, answer, run. `PlanTools` is `plan_tools` over
  the terms a message contains.

### Faults

`DatabaseError` makes the next transaction of a worker fail, with the handler's
own reaction; `WorkerCrash` loses a Celery worker (`acks_late`,
`reject_on_worker_lost`: the message returns); `VisibilityTimeout` redelivers a
message still being executed; `BrokerLoss` drops one; `DispatcherFault` is a
refused or unacknowledged publish, a failed acknowledgement or the loss of a
dispatcher. On the local backend `ProcessCrash`, `RecoveryError`,
`ClaimedEventError` and `MarkFails` take their place. In `DirectGateway`,
`MediaStore` and `QueueSwitch` a process dies between any two steps and starts
again; in `DirectGateway` and `Assistant` a statement fails; in `Assistant` a
client disconnects and cancels its stream.

## 3. Runs

| Run | Instance | Checks | Result |
|---|---|---|---|
| `celery_video` | 1 video job, 2 workers, 1 dispatcher, 3 attempts, 1 requeue, 1 client poll, 1 fault of any kind | `TypeOK`, `AtMostOneBillableCall`, `RecordsMatchOutcome`, `RunningAttemptOwnsStage`, `ActiveHasWork`, `AttemptWithinLimit`, `TerminalIsFinal`, `ImplementsContract` | holds, 1.6 million states |
| `celery_images` | 2 image jobs, 2 dispatchers, batches of 2, 1 worker, 1 fault | `RecordsMatchOutcome`, `PublishedIsFinal`, `ImplementsContract` | holds, 1.0 million states |
| `celery_live` | 1 video job, 2 workers, 1 crash, redelivery or dispatcher fault | `PolledJobSettles` | holds, 0.27 million states |
| `celery_submit_recovery` | 1 video job, 1 worker, 1 database error | `SubmittedJobResumes` | violated, see findings |
| `local_video` | 1 video job, 2 faults, 1 client poll | `OverrunOnlyAfterSubmitRetry`, `ActiveIsDelivered`, `PublishedWasHandled`, `ImplementsContract`, `EventuallySettled` | holds, 0.15 million states |
| `local_image` | 1 image job, 4 faults | `RecordsMatchOutcome`, `EventuallySettled` | holds |
| `local_redelivery` | 1 video job, 1 fault | `RecoveryFailsOnlyAmbiguous` | violated, see findings |
| `direct` | 2 handlers, 3 requests (images, videos, polls, refreshes), 2 image and 2 video jobs, 2 providers, 1 fault | `DirectTypeOK`, `ImageInsertNeverRefused`, `AcceptedTaskOnRecord`, `ActiveImageHasRequest`, `SucceededImageRecorded`, `RefreshedHasAsset`, `OutcomeIsFinal`, `RequestsAnswered` | holds, 0.51 million states |
| `media_store` | 1 import in a worker, 1 in the API, 2 images with one file name, 1 video, 1 upload, any number of deletions and crashes | `MediaTypeOK`, `FinalFileComplete`, `PartHasOwner`, `DownloadedIsComplete`, `ImageSuccessSavesAsset` | holds, 2.8 million states |
| `admin_auth` | 2 names, 2 passwords, 2 sessions, 1 key, lock after 2 failures, 3 credential changes | `AdminTypeOK`, `SessionsFollowCredentials`, `RevokedKeyStaysOut` | holds, 61,000 states |
| `queue_switch` | 2 jobs, local queue and 2 brokers, any number of switches, failures and crashes | `SwitchTypeOK`, `SwitchIsAllOrNothing`, `StrandedOnlyByRace` | holds, 0.34 million states |
| `assistant` | 2 requests, 3 sessions, every combination of terms in a message | `AssistantTypeOK`, `TranscriptWhole` | holds, 67,000 states |

Bounds. Jobs do not share rows except through dispatchers and the request
hash, so one job shows the pipeline and two show the dispatchers' batches.
`MaxAttempts = 3` is the smallest limit the policy allows and leaves room for
submit, poll and import. The number of dispatch rows is `MaxAttempts +
MaxRequeues`, the most a job can create, so that the bound never blocks a
step; in `celery_images` two jobs have one row each and no requeue. In the
liveness runs `MaxDispatchAttempts` is larger than the number of faults:
otherwise the dispatcher gives a row up and the job is never settled, which is
how the code behaves (see hazards). `CHECK_DEADLOCK FALSE` in the pipeline and
`direct` runs, whose jobs and requests are finite in number: when all are
settled, or stuck after faults, the system has nothing to do. `media_store`,
`admin_auth`, `queue_switch` and `assistant` are checked for deadlock.
In `direct` two handlers are enough for each race (two equal requests, refresh
against poll or cleanup) and the third request meets what the first two, or a
fault, left behind. In `admin_auth` `MaxFailures` is 2 instead of 5: the lock is
reached after a failure that does not lock. `media_store` needs two processes,
because the races are between them, and two jobs with one file name.
`RequeueOrphaned` is part of the local deployment as well but never enabled
there: `PublishedWasHandled` says why.

Symmetry is used for runs without liveness properties only.

Fairness. The dispatcher loop runs until it is stopped and is restarted by its
supervisor (`cli/dispatcher.main`); a Celery pool keeps taking messages and a
running handler goes on; time passes, so a lease ends. These are weak fairness
on the dispatchers, on each worker and on `LeaseExpires`. In `direct` each
handler has strong fairness: asyncio resumes ready handlers in the order they
became ready and every provider call has a timeout, so a suspended handler that
finds the loop free again and again is resumed. Nothing is assumed about
clients, admins or faults.

Worth knowing beside the properties that hold: on the local backend a submit
whose task id is on record can be retried by recovery up to the last attempt,
and `handle_submit` then schedules the first poll as attempt `MaxAttempts + 1`,
which `WorkerRuntime` refuses and recovery turns into a terminal failure.
`OverrunOnlyAfterSubmitRetry` says that this is the only way past the limit
there; on Celery, where a submit has one attempt, there is none
(`AttemptWithinLimit`, checked and proved).

Other behaviour the models keep as it is, because no document says otherwise:

* Attempt numbers can meet on the local backend. If recovery retries a stage
  that raised before its attempt was written and the old row could not be marked,
  both rows are delivered, each schedules its successor, and with enough faults
  two rows carry the same number (`job_dispatches` has no unique constraint). The
  second is a duplicate and recovery fails the job. So `ActiveHasWork` does not
  hold there (5 attempts and 3 faults show it); `ActiveIsDelivered` does.
* `create_video`: of two equal requests both may be accepted by the provider;
  the unique index refuses the second job, whose task is then only in
  `video_tasks` (`AcceptedTaskOnRecord`). With `wait_for_completion` a timeout
  loses the task id.
* An image job that a crash interrupts stays queued or running, and its hash
  refuses equal requests from then on (`lost`).
* The orphan sweep does not look at the assets table. A file it takes leaves an
  assets row without a file, and an import it overtakes fails
  (`ImageSuccessSavesAsset`); a video succeeds without an asset.
* Jobs with equal content share a file, and the assets row stays with the first
  of them (`Linked` in `MediaStore`, `SavedAssets` in the pipeline): a later one
  succeeds with its generation but without a linked asset.
* Uploads are written in place: `/uploads/{filename}` can serve one that is half
  written. `FinalFileComplete` says that it has no uploads row yet.
* A starting process removes the `.part` files of all others; their imports
  fail, and never publish a partial file (`DownloadedIsComplete`).
* A job admitted during a switch can be published to the queue that is being
  left. It then stays active and every later switch is refused. A crash in the
  middle of a switch followed by a plain start of the package leaves the old
  dispatcher running, and a switch that begins in such a state and fails
  restores it faithfully.
* A login that the reset command overtakes between password check and insert
  gets a session for the old credentials (`overtaken`).
* An answer that is on its way when its session is archived is stored in the
  archived session. `list_assistant_messages` returns the oldest messages of a
  long session, not the newest.

### Findings

1. `local_redelivery`: the process crashes after a poll attempt was finished and
   the next poll written, but before the row is marked published. The row is
   delivered again and handled as a duplicate (the attempt no longer runs), and
   `handle_duplicate` fails the job although its task id is on record and the
   next poll is pending in the outbox. The module's documentation says that safe
   video stages are retried and ambiguous ones failed
   (`local_worker_failure_recovery.py:4-6`); the method's own docstring accepts
   the failure ("If a duplicate still surfaces here, failing it is safer than
   replaying Provider work", 43-45), although nothing billable would be replayed
   here. A redelivered, finished submit fails the job in the same way; it is not
   one of `_SAFE_VIDEO_STAGES`, so the property leaves it out.
2. `celery_submit_recovery`: a database error after an accepted submit saves
   the task id and raises; Celery acknowledges the message and nothing delivers
   it again, while the stored hint promises that delivery will resume. The
   redelivery path is correct (a second call of `handle` resumes); what is
   missing is the redelivery.

## 4. Proofs

TLAPS proves, about `CeleryGateway!Spec` and for any sets of jobs, workers,
dispatchers and rows, any limits and any number and kind of faults:

| Theorem | Statement | Inductive invariant |
|---|---|---|
| `GatewayInvariant`, `TypeCorrect`, `AttemptsBounded` | `Spec => []GatewayInv`, `[]TypeOK`, `[]AttemptWithinLimit` | `GatewayInv` |
| `PublishedStaysFinal` | `Spec => PublishedIsFinal` | `GatewayInv` |
| `PipelineInvariant`, `OneRunningAttempt`, `WorkNeverLost` | `Spec => []PipelineInv`, `[]RunningAttemptOwnsStage`, `[]ActiveHasWork` | `GatewayInv`, `PipelineInv` |
| `TerminalStaysFinal` | `Spec => TerminalIsFinal` | `GatewayInv` |
| `HistoryMatchesOutcome` | `Spec => []RecordsMatchOutcome` | `GatewayInv`, `PipelineInv`, `SavingFits` |
| `NoDoubleCharge` | `Spec => []AtMostOneBillableCall` | `GatewayInv`, `BillingInv` |
| `CeleryImplementsContract` | `Spec => ImplementsContract` | `ChargeInv` |

Assumptions are the named `ASSUME`s of the modules: kinds of jobs,
`MaxAttempts >= 3` (the policy's own check), positive batch size and publish
limit, placeholders outside their sets, `Backend = "celery"`. TLC evaluates
them on every run.

The argument. `TypeOK` is not inductive: that `Persist` writes only attempt
numbers of the table needs the limit to hold for every row and every worker
about to schedule. `GatewayInv` adds to it: dispatcher batches, broker messages
and workers' messages refer to rows that were created (`ReferencesCreated`,
`MessagesCreated`); a created row names a job, an executable stage and an
attempt within the limit, and a *billable stage only as attempt 1*
(`RowsWellFormed`); an unused row is referred to by nobody (`UnusedRowsFree`);
and a worker that holds the answer of a poll or an import which may be
scheduled again is below the limit (`PollsBelowLimit`). A row marked
published is only changed by the requeue of a queued job and by cleanup
(`RowStep`): a dispatcher claims only pending rows or expired claims, and marks
or releases a row only while that is `publishing` under its own token.

`PipelineInv` says how attempts and dispatches of a job fit together, which no
table constraint does. An active job has one current attempt n (`Progress`):
earlier attempts are finished, later ones do not exist, no dispatch asks for
more than n, and while attempt n does not run there is a dispatch that asks for
it and is still to be published, was published, or was given up after
`MaxDispatchAttempts` tries (`Alive`). From this
`OneRunningAttempt` and `WorkNeverLost` are immediate; that it is inductive
needs what workers carry across their provider calls: the row a worker read is
the job's row as long as the version is the same (`SnapshotInv`), and a worker
whose version is still current works on the running attempt (`HolderInv`). So a
transaction that passes the version check finishes the current attempt, and one
that does not changes nothing. `HistoryMatchesOutcome` uses
`KindStages` (an image job is only ever settled by its image stage) and that a
client's poll marks video jobs only: whoever makes an image job succeed writes
its generation in the same transaction. The poll links its asset in a later
transaction than its mark; `SavingFits` (a job between the two has succeeded, or
is deleted) is what keeps such a link off active and failed jobs; it is part of
`LocalInv` too.

`NoDoubleCharge` needs
`BillingInv` on top: per job, the executions made and the workers about to make
one (`Calling`) are together at most one, and exist only when the job is
`Spent`, that is attempt 1 is on record or the row is deleted (`ChargedOnce`).
It holds because all billable dispatches ask for attempt 1 and a claim needs
attempt 1 to be free. This is where the resumable-stage test matters: a submit whose
task id is unknown is never resumed. `TerminalStaysFinal` follows from the status
table, the type invariant and the claim's `WHERE` clause.

The refinement. `JobContract` lets a job be charged only while it runs, and
succeed only once it was charged. `ContractInv` supplies both: a worker about to
make the billable call holds the current version of a running job
(`SubmitInv`), and a job with a task on record, or a worker with an accepted
result, was charged (`TaskInv`, `PaidInv`). Each step of the gateway is then a
step of the contract for one job, or a stutter: `StatusMove` names the only ways
a row changes, `RowRefines` and `CallRefines` map a changed row and a changed
count, `StepRefines` puts them together. The four invariants together are
`ChargeInv`.

About `LocalGateway!Spec`, for any jobs, rows and limits and any number and kind
of faults:

| Theorem | Statement |
|---|---|
| `LocalInvariant`, `LocalTypeCorrect` | `Spec => []LocalInv`, `[]TypeOK` |
| `LocalChargesOnce` | `Spec => []AtMostOneBillableCall` |
| `LocalPublishedWasHandled` | `Spec => []PublishedWasHandled` |
| `LocalAttemptLimit` | `Spec => []OverrunOnlyAfterSubmitRetry` |
| `LocalRecordsMatchOutcome`, `LocalRunningAttempt` | `Spec => []RecordsMatchOutcome`, `[]RunningAttemptOwnsStage` |
| `LocalActiveIsDelivered` | `Spec => []ActiveIsDelivered`, with `DeliveryInv` beside `LocalInv` |
| `LocalTerminalIsFinal`, `LocalPublishedIsFinal` | `Spec => TerminalIsFinal`, `PublishedIsFinal` |
| `LocalImplementsContract` | `Spec => ImplementsContract` |

The invariants of the Celery deployment do not carry over: the recovery repeats
a submit under a later attempt number and may pass the limit by one, so
`RowsWellFormed` is false here. `LocalInv` argues from two other facts.

* There is one process (`LocalAssumption`; `LocalQueueProcessLock` in the code),
  so a worker that is busy is the run of the row its dispatcher holds
  (`WorkFits`). While its job is still queued the snapshot it works with is the
  row itself (`SnapshotFits`), so a verdict "stale" or "terminal" implies that
  somebody took the job up. This is what `publish` needs before it may return:
  a row is about to be marked (`BatchFits`), or marked (`RowFits`), only when
  its job has left `queued`, hence `LocalPublishedWasHandled`; and `requeue-stale`,
  which only takes queued jobs, never reopens a published row.
* A task id once on record stays. Every dispatch past the submit, and every
  submit after attempt 1, has it (`RowFits`), and it is recorded only after the
  one charge (`JobFits`). A worker about to make the call holds a running job
  that was not charged yet and cannot be claimed for attempt 1 again
  (`CallFits`); nobody moves that job meanwhile, since a client can only poll a
  task that exists. So a repeated submit finds the id and does not call, and an
  attempt whose id was never recorded is failed by the recovery, not repeated.

`RunningAttemptOwnsStage` needs that a worker past its claim holds the running
attempt while the job's version is its own (`HolderFits`); the recovery writes
under the same version test. The limit: a poll that may be scheduled again is
below it (`ResultFits`), and the recovery repeats a stage only below it, so the
poll after a submit repeated as the last attempt is the only row past it
(`WithinLimit`). The refinement maps each step to one step of the contract for
one job as it does for Celery.

`ActiveIsDelivered` takes the place `ActiveHasWork` has for Celery. There a
running attempt counts as work, because its message is redelivered; here the
process that ran it may be dead and only the outbox brings the job back, so the
row must stay until another one serves the job. `DeliveryInv` says why that is
so: a row about to be marked, and the message of a handler that ended with a
plain result, is not needed by its job (`MarkServed`, `DoneServed`). A plain
"stale" or "terminal" shows this only if the worker's view is current while its
job is active (`Current`): nobody but a client's poll moves the job meanwhile,
and the poll ends it. A running image job was claimed (`ImageClaimed`), so an
image claim is not refused as stale while the job is active. The exception is
the row given up after `dispatch_max_attempts`, as for Celery.

About the other components, for any number of jobs, files, imports, processes,
brokers, users, sessions and requests:

| Theorem | Statement | Inductive invariant |
|---|---|---|
| `MediaTypeCorrect`, `ServedFilesAreWhole`, `NoPartFileLeaks` | `MediaSpec => []MediaTypeOK`, `[]FinalFileComplete`, `[]PartHasOwner` | `MediaInv` |
| `ImportedIsWhole`, `ManagedImageHasAsset` | `MediaSpec => DownloadedIsComplete`, `ImageSuccessSavesAsset` | `MediaInv` |
| `SwitchTypeCorrect`, `AllOrNothing`, `OnlyLateJobsStranded` | `SwitchSpec => []SwitchTypeOK`, `[]SwitchIsAllOrNothing`, `[]StrandedOnlyByRace` | `SwitchInv` |
| `AdminTypeCorrect`, `SessionsEndWithCredentials`, `RevokedIsForEver` | `AdminSpec => []AdminTypeOK`, `[]SessionsFollowCredentials`, `RevokedKeyStaysOut` | `AdminInv` |
| `TranscriptIsWhole`, `AssistantTypeCorrect` | `AssistantSpec => []TranscriptWhole`, `[]AssistantTypeOK` | `ChatInv`, `PlanInv` |
| `AcceptedTasksRecorded`, `ActiveImagesHaveRequests`, `SucceededImagesRecorded`, `ImageInsertsSucceed` | `DirectSpec => []AcceptedTaskOnRecord`, `[]ActiveImageHasRequest`, `[]SucceededImageRecorded`, `[]ImageInsertNeverRefused` | `DirectInv` |
| `DirectTypeCorrect` | `DirectSpec => []DirectTypeOK` | `DirectInv`, `TypesInv` |
| `DirectOutcomeFinal`, `RefreshNeedsAsset` | `DirectSpec => OutcomeIsFinal`, `RefreshedHasAsset` | `DirectInv` |

* `MediaInv`: a served name is never half-written because what replaces it is a
  `.part` file whose download is over, and that one is whole or gone
  (`StreamedIsWhole`); the row of an upload is written once its file is
  (`UploadIsWhole`); an import has a job of its own kind of process
  (`ImportHasJob`), which is what tells a worker's failed import from one of the
  API, whose job may succeed with the remote URL.
* `SwitchInv`: nothing is touched before jobs are counted and the broker has
  answered (`UntouchedBefore`); after that each step has put one more of file,
  environment and processes on the configuration the switch, or the rollback,
  is to end on (`Progress`, `Goal`); a job that is not late exists only while
  nothing is touched (`OnTime`), because the count refuses the switch otherwise.
* `AdminInv`: a change ends the sessions of two names only, so ending all of
  them rests on there being one administrator (`OneAdmin`); a login past its
  password check is current until the credentials change (`LoginCurrent`).
* `ChatInv`: the question of a request in flight is in its session unless that
  was archived or torn (`QuestionKept`), and an unopened session is empty.

* `PlanInv`: what a request in flight has left to call is a sequence of at most
  four tools its skill allows. That every plan is one is proved by cases on the
  skill (`PlanAllowed`), for any words in the message.
* `DirectInv`: the handler that holds the event loop is the only one between two
  awaits (`LoopOK`), so each may rely on what it last read and wrote (`Turn`):
  an image request finds its job in the status it left it in (`ImageTurn`), a
  video request past its submit has an accepted task (`VideoTurn`), a poll has a
  task on record (`PollTurn`). No two image requests work on one job
  (`OneOwner`), and only video jobs carry a task (`TasksAreAccepted`).
  `ImageInsertsSucceed` is the part of `ImageTurn` at the insert.
* `TypesInv`: an image request that still has a provider to call has a route
  left, and its hash is one of its request and its plan (`RequestFits`). That
  every plan is a sequence of providers is a fact about `ResolveChain`, which is
  a recursive function. The library's induction theorems take an operator and
  cannot be instantiated here; `NatSetInduction` states induction for a *set* of
  numbers, from the well-foundedness of `<`, and with it `LoopExists` (the
  recursion has a solution) and `ResolvedRoutes` (it keeps enabled routes of the
  chain only) are proved for every chain.

Every inductive invariant was checked with TLC on an instance of its
specification before it was proved. Assumptions: `MediaAssumption` (kinds and
names of jobs, placeholders outside their sets), `SwitchAssumption` (brokers are
not reserved words), `AdminAssumption`, `AssistantAssumption`, and of
`DirectGateway` `RequestAssumption`, `SentinelAssumption`, `ChainAssumption`
(`DEFAULT_CHAIN` is a list) and `DirectBoundsAssumption`.

Only model-checked are the liveness properties (`EventuallySettled`,
`PolledJobSettles`, `RequestsAnswered`): fairness and ENABLED are out of this
prover's reach.

## 5. Not modelled

* Permanent publish errors (a malformed message) and stages without a handler:
  no row the gateway writes leads there.
* Deleting history, assets or files by hand in the pipeline modules;
  `RecordsMatchOutcome` is about the pipeline's own writes. `MediaStore` has the
  deletions.
* A worker limit different from the job's limit after a reconfiguration.
* Two equal requests in the pipeline runs: admission's test is modelled
  (`SameRequest`), the runs use distinct requests. `direct` uses equal ones.
* The alternate hash of the legacy version of image requests: it only widens
  what counts as equal.
* Anything between starting a process and writing its pid file
  (`queue_runtime.py:327-337`): a crash of the API there, or a failing write of
  the pid file, which leaves a running process that the next switch does not find.
* A `.part` file that the cleanup of a starting process cannot unlink (the error
  is counted and skipped): `PartHasOwner` assumes that it can.
* Retention (a day at least) that strikes jobs or sessions of a request still
  in progress: no request lasts that long.
* Prompt enhancement and generation plans of the assistant, provider protocols,
  network I/O, text processing, presentation, the UI.
* Migrations and provider configuration: one writer, run before, or between, the
  states the modules describe.

## 6. Plan

1. Done: job tables, outbox, workers, both backends, client polling, contract;
   proofs of types, attempt limit, single charge and final outcome.
2. Done: the synchronous flows with routing and fallback, files and rows, the
   queue switch, accounts and keys, the assistant chat; proofs about them.
3. Done: the stage pipeline of a job, published rows, history, the refinement of
   the contract, and the synchronous flows are proved; every safety property
   checked on the Celery deployment is a theorem. The same for the local
   deployment: types, limit, published rows, no forgotten job, single charge and
   the contract.
4. Two attempt limits (of the job and of the worker's configuration).
5. Migrations: savepoints, demotion of duplicate active jobs.
