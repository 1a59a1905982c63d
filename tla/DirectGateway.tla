--------------------------- MODULE DirectGateway ---------------------------
(***************************************************************************)
(* Requests the API process executes itself, without the queue: POST       *)
(* /v1/images/generations (image_generation, image_execution), POST        *)
(* /v1/videos (video_generation), GET /v1/videos/{id} (get_video) and the  *)
(* refresh of a legacy video job (video_job_refresh).                      *)
(*                                                                         *)
(* The API is one process with one event loop: a handler keeps the loop    *)
(* until it awaits a provider, so between two awaits no other handler      *)
(* runs.  Its database writes are separate transactions all the same, and  *)
(* the process may die between two of them.                                *)
(***************************************************************************)
EXTENDS JobTables, Sequences

CONSTANTS
    Handler,        \* requests in progress
    Request,        \* request contents
    RequestKind,    \* Request -> {"image", "video"}
    HashOf,         \* Request -> the hash of its contents, NoHash without a stable identity
    Task,           \* task ids the video provider hands out
    DefaultChain,   \* the providers of DEFAULT_CHAIN, in order
    MaxRequests,    \* bound on the requests of a behaviour
    MaxFaults,      \* bound on crashes and database errors
    NoHandler, NoJob, NoTask, NoRequest, NoHash

ASSUME RequestAssumption ==
    /\ RequestKind \in [Request -> {"image", "video"}]
    /\ DOMAIN HashOf = Request
ASSUME SentinelAssumption ==
    /\ NoHandler \notin Handler /\ NoJob \notin Job
    /\ NoTask \notin Task /\ NoRequest \notin Request
ASSUME DirectBoundsAssumption == MaxRequests \in Nat /\ MaxFaults \in Nat

VARIABLES
    loop,        \* the handler the event loop is running
    handler,     \* what each request is doing
    job,         \* the jobs table
    hashOf,      \* jobs.request_hash
    taskOf,      \* jobs.external_task_id
    videoTask,   \* the video_tasks table: task id -> "none" or a status
    generation,  \* generations rows: of a job, or of a task without a job id
    asset,       \* assets rows: of a job, or of a task without a job id
    accepted,    \* task ids create_video has received from the provider (observer)
    lost,        \* what a fault left behind: unrecorded tasks, abandoned jobs (observer)
    requests,    \* requests left
    faults       \* faults left

tables == <<job, hashOf, taskOf, videoTask, generation, asset>>
observers == <<accepted, lost>>
vars == <<loop, handler, tables, observers, requests, faults>>

\* What a poll reports.  get_video does not count "success" as completion;
\* refresh, generate_video and the worker do.
Answers == {"running", "completed", "success", "failed"}
CompletedStatuses == {"completed", "success"}
ClientCompletedStatuses == {"completed"}

Providers == {DefaultChain[i] : i \in DOMAIN DefaultChain}
ASSUME ChainAssumption == DefaultChain \in Seq(Providers)

\* resolve_chain: of the default chain, or of the one route of an explicit
\* model, the routes whose provider is enabled.
ResolveChain(wanted, enabled) ==
    LET chain[n \in 0..Len(wanted)] ==
          IF n = 0 THEN << >>
          ELSE IF wanted[n] \in enabled THEN Append(chain[n - 1], wanted[n])
          ELSE chain[n - 1]
    IN  chain[Len(wanted)]

\* build_image_execution_plan while any set of providers is enabled; an empty
\* chain is refused.
Plans ==
    {ResolveChain(wanted, enabled) : wanted \in {DefaultChain} \cup {<<p>> : p \in Providers},
                                     enabled \in SUBSET Providers} \ {<< >>}

\* build_image_request_hash_payload: the chain the request resolved to is part of
\* it, so toggling a provider makes an equal request a different one.
ImageHash(r, chain) == IF HashOf[r] = NoHash THEN NoHash ELSE <<HashOf[r], chain>>
VideoHash(r) == HashOf[r]
Hashes == {NoHash} \cup {VideoHash(r) : r \in Request}
                   \cup {ImageHash(r, chain) : r \in Request, chain \in Plans}

HandlerStates ==
    [op: {"none", "image", "video", "wait", "poll", "refresh"},
     pc: {"idle", "insert", "start", "call", "record", "asset", "succeed", "fail",
          "submit", "upsert", "mark", "poll"},
     req: Request \cup {NoRequest}, job: Job \cup {NoJob}, task: Task \cup {NoTask},
     routes: Seq(Providers),
     answer: Answers, file: BOOLEAN]

Idle == [op |-> "none", pc |-> "idle", req |-> NoRequest, job |-> NoJob,
         task |-> NoTask, routes |-> << >>, answer |-> "running", file |-> FALSE]

DirectInit ==
    /\ loop = NoHandler
    /\ handler = [h \in Handler |-> Idle]
    /\ job = [j \in Job |-> AbsentJob]
    /\ hashOf = [j \in Job |-> NoHash]
    /\ taskOf = [j \in Job |-> NoTask]
    /\ videoTask = [t \in Task |-> "none"]
    /\ generation = {} /\ asset = {}
    /\ accepted = {} /\ lost = {}
    /\ requests = MaxRequests /\ faults = MaxFaults

\* Where a handler is suspended: an HTTP call to a provider or a download.
Awaits == {"call", "submit", "poll"}

\* The types, and the discipline of the event loop: the handler that runs is the
\* only one that neither waits for a provider nor has answered.
DirectTypeOK ==
    /\ loop \in Handler \cup {NoHandler}
    /\ handler \in [Handler -> HandlerStates]
    /\ job \in [Job -> JobRows]
    /\ hashOf \in [Job -> Hashes]
    /\ taskOf \in [Job -> Task \cup {NoTask}]
    /\ videoTask \in [Task -> Answers \cup {"none", "submitted"}]
    /\ generation \subseteq (Job \cup Task) /\ asset \subseteq (Job \cup Task)
    /\ accepted \subseteq Task
    /\ lost \subseteq (Task \cup Job)
    /\ requests \in 0..MaxRequests /\ faults \in 0..MaxFaults
    /\ \A h \in Handler : loop = h <=> handler[h].pc \notin Awaits \cup {"idle"}

\* The handler goes on as x; it gives the loop up at an await or when it answers.
Go(h, x) ==
    /\ handler' = [handler EXCEPT ![h] = x]
    /\ loop' = IF x.pc \in Awaits \cup {"idle"} THEN NoHandler ELSE h

At(h, ops, pc) == handler[h].op \in ops /\ handler[h].pc = pc

\* A handler runs its next statement, or is resumed with the answer it awaits.
Running(h, ops, pc) == loop = h /\ At(h, ops, pc)
Resumed(h, ops, pc) == loop = NoHandler /\ At(h, ops, pc)

\* A new request.
Accept(h, x) ==
    /\ loop = NoHandler
    /\ handler[h] = Idle
    /\ requests > 0
    /\ requests' = requests - 1
    /\ Go(h, x)
    /\ UNCHANGED <<tables, observers, faults>>

\* find_recent_job_by_request_hash and the partial unique index
\* uq_jobs_active_request_hash; a request without a hash matches nothing.
SameHash(j, kind, hash) == hash # NoHash /\ hashOf[j] = hash /\ KindOf[j] = kind
InFlight(kind, hash, statuses) ==
    \E j \in Job : SameHash(j, kind, hash) /\ job[j].status \in statuses
HashFor(x) == IF x.op = "image" THEN ImageHash(x.req, x.routes) ELSE VideoHash(x.req)
IndexRefuses(x) == InFlight(RequestKind[x.req], HashFor(x), ActiveStatuses)

\* Mutant: a queued image job is not seen.
ImageAdmissionStatusesRunning == {"running"}

ImageAdmissionStatuses == {"queued", "running"}
VideoAdmissionStatuses == {"running"}

Fresh(j, kind) == job[j].status = "absent" /\ KindOf[j] = kind

\* JobLifecycle.mark_*, update_job_status: read the version, then transition
\* from it.  Nothing in this process runs in between.
StageAfter(row, status) == IF status \in TerminalStatuses THEN "finalize" ELSE row.stage
Markable(j, status) ==
    CanTransition(KindOf[j], job[j], job[j].version, status, StageAfter(job[j], status))
Marked(j, status) ==
    [job EXCEPT ![j] = Transitioned(@, status, StageAfter(@, status), FALSE)]

Unbudgeted == UNCHANGED <<requests, faults>>

\* Bounds: a request starts only while an id for its job and its task is left.
Pending(op) == {h \in Handler : handler[h].op = op}
JobLeft(op, kind) ==
    Cardinality({j \in Job : Fresh(j, kind)})
      > Cardinality({h \in Pending(op) : handler[h].job = NoJob})
TaskLeft ==
    Cardinality(Task \ accepted)
      > Cardinality({h \in Pending("video") \cup Pending("wait") : handler[h].task = NoTask})

-----------------------------------------------------------------------------
(* POST /v1/images/generations *)

\* Plan, hash and duplicate check; the 400, 404, 409 and 503 answers change nothing.
CreateImage(h, r) ==
    /\ RequestKind[r] = "image"
    /\ JobLeft("image", "image")
    /\ \E plan \in Plans :
         /\ ~InFlight("image", ImageHash(r, plan), ImageAdmissionStatuses)
         /\ Accept(h, [Idle EXCEPT !.op = "image", !.pc = "insert", !.req = r, !.routes = plan])

\* JobLifecycle.create: the row, or the IntegrityError of the unique index.
InsertJob(h, kind, row, next) ==
    LET x == handler[h]
    IN  \/ /\ IndexRefuses(x)
           /\ Go(h, Idle)
           /\ UNCHANGED tables
        \/ /\ ~IndexRefuses(x)
           /\ \E j \in Job :
                /\ Fresh(j, kind)
                /\ job' = [job EXCEPT ![j] = row]
                /\ hashOf' = [hashOf EXCEPT ![j] = HashFor(x)]
                /\ taskOf' = [taskOf EXCEPT ![j] = x.task]
                /\ Go(h, [x EXCEPT !.job = j, !.pc = next])
           /\ UNCHANGED <<videoTask, generation, asset>>

CreateImageJob(h) ==
    /\ Running(h, {"image"}, "insert")
    /\ InsertJob(h, "image", [InsertedJob("image") EXCEPT !.stage = "admitted"], "start")
    /\ UNCHANGED observers /\ Unbudgeted

MarkImageRunning(h) ==
    /\ Running(h, {"image"}, "start")
    /\ job' = Marked(handler[h].job, "running")
    /\ Go(h, [handler[h] EXCEPT !.pc = "call"])
    /\ UNCHANGED <<hashOf, taskOf, videoTask, generation, asset, observers>> /\ Unbudgeted

\* How the call of a provider ends: with a result that is localized or not, or
\* with an error, which any transport, status or protocol failure becomes.
CallEnds == {"localized", "remote", "error"}

\* Mutant: a failed provider goes back to the end of the plan.
ExecuteImageForever(h) ==
    LET x == handler[h]
    IN  /\ Resumed(h, {"image"}, "call")
        /\ \E end \in CallEnds :
             Go(h, IF end # "error" THEN [x EXCEPT !.pc = "record", !.file = (end = "localized")]
                   ELSE [x EXCEPT !.routes = Append(Tail(@), Head(@))])
        /\ UNCHANGED <<tables, observers>> /\ Unbudgeted

\* The provider of the next route answers, or it fails, is unknown or (a custom
\* one) gone, and the one after it is tried.
ExecuteImage(h) ==
    LET x == handler[h]
    IN  /\ Resumed(h, {"image"}, "call")
        /\ \E end \in CallEnds :
             Go(h, IF end # "error" THEN [x EXCEPT !.pc = "record", !.file = (end = "localized")]
                   ELSE [x EXCEPT !.routes = Tail(@),
                                  !.pc = IF Len(x.routes) > 1 THEN "call" ELSE "fail"])
        /\ UNCHANGED <<tables, observers>> /\ Unbudgeted

\* Mutant: the job is marked before its history row is written.
RecordImageLate(h) ==
    LET x == handler[h]
    IN  /\ Running(h, {"image"}, "record")
        /\ job' = Marked(x.job, "succeeded")
        /\ Go(h, [x EXCEPT !.pc = "asset"])
        /\ UNCHANGED <<hashOf, taskOf, videoTask, generation, asset, observers>> /\ Unbudgeted

\* _complete_image_success: three transactions.
RecordImage(h) ==
    LET x == handler[h]
    IN  /\ Running(h, {"image"}, "record")
        /\ generation' = generation \cup {x.job}
        /\ Go(h, [x EXCEPT !.pc = "asset"])
        /\ UNCHANGED <<job, hashOf, taskOf, videoTask, asset, observers>> /\ Unbudgeted

\* save_generated_asset.  The row of a file that an earlier job or task has
\* stays with it, and a file that is gone by now is skipped; assets.job_id is
\* no foreign key, so the job need not exist any more.
SavesAsset(owner) == asset' \in {asset, asset \cup {owner}}

SaveImageAsset(h) ==
    LET x == handler[h]
    IN  /\ Running(h, {"image"}, "asset")
        /\ IF x.file THEN SavesAsset(x.job) ELSE UNCHANGED asset
        /\ Go(h, [x EXCEPT !.pc = "succeed"])
        /\ UNCHANGED <<job, hashOf, taskOf, videoTask, generation, observers>> /\ Unbudgeted

MarkImageSucceeded(h) ==
    /\ Running(h, {"image"}, "succeed")
    /\ job' = Marked(handler[h].job, "succeeded")
    /\ Go(h, Idle)
    /\ UNCHANGED <<hashOf, taskOf, videoTask, generation, asset, observers>> /\ Unbudgeted

\* Mutant: the error is re-raised and the job forgotten.
MarkImageFailureForgotten(h) ==
    /\ Running(h, {"image"}, "fail")
    /\ Go(h, Idle)
    /\ UNCHANGED <<tables, observers>> /\ Unbudgeted

\* _mark_image_failure, then the exception is re-raised to the client.
MarkImageFailure(h) ==
    /\ Running(h, {"image"}, "fail")
    /\ job' = Marked(handler[h].job, "failed")
    /\ Go(h, Idle)
    /\ UNCHANGED <<hashOf, taskOf, videoTask, generation, asset, observers>> /\ Unbudgeted

ImageStep(h) ==
    \/ CreateImageJob(h) \/ MarkImageRunning(h) \/ ExecuteImage(h)
    \/ RecordImage(h) \/ SaveImageAsset(h) \/ MarkImageSucceeded(h)
    \/ MarkImageFailure(h)

-----------------------------------------------------------------------------
(* POST /v1/videos *)

\* The duplicate check, only for a request that does not wait for completion.
CreateVideo(h, r) ==
    /\ RequestKind[r] = "video"
    /\ TaskLeft
    /\ \/ /\ JobLeft("video", "video")
          /\ ~InFlight("video", VideoHash(r), VideoAdmissionStatuses)
          /\ Accept(h, [Idle EXCEPT !.op = "video", !.pc = "submit", !.req = r])
       \/ Accept(h, [Idle EXCEPT !.op = "wait", !.pc = "submit", !.req = r])

\* The provider took the task (and, for "wait", finished it), or raised.
SubmitVideo(h) ==
    LET x == handler[h]
    IN  /\ Resumed(h, {"video", "wait"}, "submit")
        /\ \/ /\ Go(h, Idle)
              /\ UNCHANGED accepted
           \/ \E t \in Task \ accepted, answer \in Answers, file \in BOOLEAN :
                /\ IF x.op = "wait" THEN answer \in CompletedStatuses
                                    ELSE answer = "running" /\ ~file
                /\ accepted' = accepted \cup {t}
                /\ Go(h, [x EXCEPT !.task = t, !.pc = "upsert", !.answer = answer, !.file = file])
        /\ UNCHANGED <<tables, lost>> /\ Unbudgeted

\* Where a handler goes after upsert_video_task.
AfterUpsert(x) ==
    CASE x.op = "video" -> "insert"
      [] x.op = "wait" -> "record"
      [] x.op = "poll" -> "mark"
      [] x.op = "refresh" -> IF x.answer \in CompletedStatuses /\ x.file THEN "asset" ELSE "mark"
      [] OTHER -> "idle"

\* Mutant: the task is recorded after the job, so a refused insert loses it.
UpsertVideoTaskLate(h) ==
    LET x == handler[h]
    IN  /\ Running(h, {"video", "wait", "poll", "refresh"}, "upsert")
        /\ videoTask' = IF x.op = "video" THEN videoTask
                                          ELSE [videoTask EXCEPT ![x.task] = x.answer]
        /\ Go(h, [x EXCEPT !.pc = AfterUpsert(x)])
        /\ UNCHANGED <<job, hashOf, taskOf, generation, asset, observers>> /\ Unbudgeted

UpsertVideoTask(h) ==
    LET x == handler[h]
    IN  /\ Running(h, {"video", "wait", "poll", "refresh"}, "upsert")
        /\ videoTask' = [videoTask EXCEPT ![x.task] =
                           IF x.op = "video" THEN "submitted" ELSE x.answer]
        /\ Go(h, [x EXCEPT !.pc = AfterUpsert(x)])
        /\ UNCHANGED <<job, hashOf, taskOf, generation, asset, observers>> /\ Unbudgeted

\* _create_video_job: running from the start, with its task id.
CreateVideoJob(h) ==
    /\ Running(h, {"video"}, "insert")
    /\ InsertJob(h, "video", [status |-> "running", stage |-> "admitted",
                              version |-> 0, task |-> TRUE], "record")
    /\ UNCHANGED observers /\ Unbudgeted

\* The history row and the asset row carry no job id.
RecordVideo(h) ==
    LET x == handler[h]
    IN  /\ Running(h, {"video", "wait"}, "record")
        /\ generation' = generation \cup {x.task}
        /\ Go(h, [x EXCEPT !.pc = "asset"])
        /\ UNCHANGED <<job, hashOf, taskOf, videoTask, asset, observers>> /\ Unbudgeted

SaveVideoAsset(h) ==
    LET x == handler[h]
    IN  /\ Running(h, {"video", "wait"}, "asset")
        /\ IF x.file THEN SavesAsset(x.task) ELSE UNCHANGED asset
        /\ Go(h, Idle)
        /\ UNCHANGED <<job, hashOf, taskOf, videoTask, generation, observers>> /\ Unbudgeted

VideoStep(h) ==
    \/ SubmitVideo(h) \/ UpsertVideoTask(h) \/ CreateVideoJob(h)
    \/ RecordVideo(h) \/ SaveVideoAsset(h)

-----------------------------------------------------------------------------
(* GET /v1/videos/{id} and the refresh of a legacy job: the job is read, the *)
(* provider polled and the file downloaded, and only then the job is marked. *)

GetVideo(h, t) ==
    LET found == {j \in Job : Exists(job[j]) /\ taskOf[j] = t}
    IN  /\ t \in accepted
        /\ \E j \in IF found = {} THEN {NoJob} ELSE found :
             Accept(h, [Idle EXCEPT !.op = "poll", !.pc = "poll", !.task = t, !.job = j])

\* VideoJobRefreshService.refresh past its guards: an active video job with a
\* task id, outside the throttle interval.  Its other answers change nothing.
Refresh(h, j) ==
    /\ KindOf[j] = "video"
    /\ Active(job[j])
    /\ taskOf[j] # NoTask
    /\ Accept(h, [Idle EXCEPT !.op = "refresh", !.pc = "poll", !.task = taskOf[j], !.job = j])

\* An error ends get_video; refresh marks the job running and then raises.
PollAnswered(h) ==
    LET x == handler[h]
    IN  /\ Resumed(h, {"poll", "refresh"}, "poll")
        /\ \/ Go(h, IF x.op = "poll" THEN Idle ELSE [x EXCEPT !.pc = "mark"])
           \/ \E answer \in Answers, file \in BOOLEAN :
                /\ file => answer \in CompletedStatuses
                /\ Go(h, [x EXCEPT !.pc = "upsert", !.answer = answer, !.file = file])
        /\ UNCHANGED <<tables, observers>> /\ Unbudgeted

\* get_video: a legal transition of the job read before the poll, or it raises.
MarkPolled(h) ==
    LET x == handler[h]
        target == IF x.answer \in ClientCompletedStatuses THEN "succeeded" ELSE "failed"
        decided == x.job # NoJob /\ x.answer \in ClientCompletedStatuses \cup {"failed"}
        saves == x.answer \in ClientCompletedStatuses /\ x.file
    IN  /\ Running(h, {"poll"}, "mark")
        /\ IF decided /\ ~Markable(x.job, target)
           THEN Go(h, Idle)
           ELSE Go(h, IF saves THEN [x EXCEPT !.pc = "asset"] ELSE Idle)
        /\ job' = IF decided /\ Markable(x.job, target) THEN Marked(x.job, target) ELSE job
        /\ UNCHANGED <<hashOf, taskOf, videoTask, generation, asset, observers>> /\ Unbudgeted

SavePolledAsset(h) ==
    LET x == handler[h]
    IN  /\ Running(h, {"poll"}, "asset")
        /\ SavesAsset(IF x.job = NoJob THEN x.task ELSE x.job)
        /\ Go(h, Idle)
        /\ UNCHANGED <<job, hashOf, taskOf, videoTask, generation, observers>> /\ Unbudgeted

\* _import_completed saves the asset before it looks for one of the job.
ImportCompleted(h) ==
    LET x == handler[h]
    IN  /\ Running(h, {"refresh"}, "asset")
        /\ SavesAsset(x.job)
        /\ Go(h, [x EXCEPT !.pc = "mark"])
        /\ UNCHANGED <<job, hashOf, taskOf, videoTask, generation, observers>> /\ Unbudgeted

\* Mutant: completion is believed without looking for the asset.
RefreshTargetUnchecked(x) ==
    CASE x.answer = "failed" -> "failed"
      [] x.answer \in CompletedStatuses -> "succeeded"
      [] OTHER -> "running"

RefreshTarget(x) ==
    CASE x.answer = "failed" -> "failed"
      [] x.answer \in CompletedStatuses /\ x.file /\ x.job \in asset -> "succeeded"
      [] OTHER -> "running"

\* _mark_running, _mark_failed, _import_completed: update_job_status raises on
\* a job that became terminal meanwhile and does nothing on a deleted one.
MarkRefreshed(h) ==
    LET x == handler[h]
    IN  /\ Running(h, {"refresh"}, "mark")
        /\ job' = IF Markable(x.job, RefreshTarget(x)) THEN Marked(x.job, RefreshTarget(x))
                                                       ELSE job
        /\ Go(h, Idle)
        /\ UNCHANGED <<hashOf, taskOf, videoTask, generation, asset, observers>> /\ Unbudgeted

PollStep(h) ==
    \/ PollAnswered(h) \/ MarkPolled(h) \/ SavePolledAsset(h)
    \/ ImportCompleted(h) \/ MarkRefreshed(h)

-----------------------------------------------------------------------------
\* cleanup_jobs: terminal rows go, their assets and history are unlinked.
CleanupJob(j) ==
    /\ loop = NoHandler
    /\ Terminal(job[j])
    /\ job' = [job EXCEPT ![j] = [AbsentJob EXCEPT !.status = "deleted"]]
    /\ hashOf' = [hashOf EXCEPT ![j] = NoHash]
    /\ taskOf' = [taskOf EXCEPT ![j] = NoTask]
    /\ generation' = generation \ {j}
    /\ asset' = asset \ {j}
    /\ UNCHANGED <<loop, handler, videoTask, observers>> /\ Unbudgeted

\* The running handler's transaction raises.  Only the image flow past
\* mark_running catches it (and marks the job failed), the import of a
\* refresh, and the asset of a poll, whose answer is complete then.
DatabaseError(h) ==
    LET x == handler[h]
        caught == x.op = "image" /\ x.pc \in {"record", "asset", "succeed"}
        forgiven == x.op = "refresh" /\ x.pc = "asset"
    IN  /\ loop = h
        /\ faults > 0
        /\ faults' = faults - 1
        /\ Go(h, CASE caught -> [x EXCEPT !.pc = "fail"]
                   [] forgiven -> [x EXCEPT !.pc = "mark", !.file = FALSE]
                   [] OTHER -> Idle)
        /\ lost' = lost \cup (IF x.op = "image" /\ x.pc \in {"start", "fail"} THEN {x.job} ELSE {})
                        \cup (IF x.op \in {"video", "wait"} /\ x.pc = "upsert" THEN {x.task} ELSE {})
        /\ UNCHANGED <<tables, accepted, requests>>

\* Mutant: the restarted process still believes a handler holds the loop.
CrashKeepsLoop ==
    /\ faults > 0
    /\ faults' = faults - 1
    /\ handler' = [h \in Handler |-> Idle]
    /\ UNCHANGED <<loop, tables, observers, requests>>

\* The API process dies and is started again; it looks at no unfinished job.
Crash ==
    /\ faults > 0
    /\ faults' = faults - 1
    /\ handler' = [h \in Handler |-> Idle]
    /\ loop' = NoHandler
    /\ lost' = lost \cup {handler[h].job : h \in {g \in Pending("image") : handler[g].job # NoJob}}
                    \cup {handler[h].task : h \in {g \in Handler :
                            At(g, {"video", "wait"}, "upsert")}}
    /\ UNCHANGED <<tables, accepted, requests>>

HandlerStep(h) == ImageStep(h) \/ VideoStep(h) \/ PollStep(h)

DirectNext ==
    \/ \E h \in Handler :
         \/ HandlerStep(h)
         \/ DatabaseError(h)
         \/ \E r \in Request : CreateImage(h, r) \/ CreateVideo(h, r)
         \/ \E t \in Task : GetVideo(h, t)
         \/ \E j \in Job : Refresh(h, j)
    \/ \E j \in Job : CleanupJob(j)
    \/ Crash

\* asyncio runs ready handlers in the order they became ready and every
\* provider call has a timeout, so a suspended request is resumed again.
DirectSpec ==
    DirectInit /\ [][DirectNext]_vars /\ \A h \in Handler : SF_vars(HandlerStep(h))

-----------------------------------------------------------------------------
(* Properties *)

\* An image request that passed the duplicate check is never refused by the
\* unique index: check and insert run in one turn of the event loop and look
\* at the same statuses, whatever an earlier crash left queued.
ImageInsertNeverRefused ==
    \A h \in Handler : At(h, {"image"}, "insert") => ~IndexRefuses(handler[h])

\* Every task id create_video received is in video_tasks, even when an equal
\* request won the race for the job row, unless the write of it failed.
AcceptedTaskOnRecord ==
    \A t \in accepted :
        \/ videoTask[t] # "none"
        \/ t \in lost
        \/ \E h \in Handler : handler[h].task = t /\ handler[h].pc = "upsert"

\* An image job that is queued or running has a request executing it: every
\* path of create_image ends in a terminal status, short of a crash or of a
\* failed write of the status itself.
ActiveImageHasRequest ==
    \A j \in Job :
        KindOf[j] = "image" /\ Active(job[j]) /\ j \notin lost =>
            \E h \in Handler : handler[h].op = "image" /\ handler[h].job = j

\* A succeeded image job has its history row, also after a crash between the
\* three transactions of _complete_image_success.
SucceededImageRecorded ==
    \A j \in Job : KindOf[j] = "image" /\ job[j].status = "succeeded" => j \in generation

\* Refresh marks a job succeeded only when a local asset is linked to it, even
\* when the job was cleaned up or marked by get_video while it polled.
RefreshedHasAsset ==
    [][\A j \in Job :
         /\ job[j].status # "succeeded"
         /\ job'[j].status = "succeeded"
         /\ loop \in Pending("refresh")
         => j \in asset']_vars

\* A late answer of a slower poll or refresh never changes the outcome of a job.
OutcomeIsFinal ==
    [][\A j \in Job : Terminal(job[j]) => job'[j].status \in {job[j].status, "deleted"}]_vars

\* Every request is answered: the handlers sharing the event loop never wait
\* for one another, and the fallback over the providers ends.
RequestsAnswered == \A h \in Handler : handler[h] # Idle ~> handler[h] = Idle
=============================================================================
