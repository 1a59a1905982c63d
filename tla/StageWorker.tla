---------------------------- MODULE StageWorker ----------------------------
(***************************************************************************)
(* One worker process executing stage messages: WorkerRuntime.handle, the  *)
(* image_generate handler and the three video stage handlers.  A worker    *)
(* reads the job, reads the attempt, claims the attempt, calls the         *)
(* provider and persists the result in five separate steps; anything may   *)
(* happen between two of them.                                             *)
(*                                                                         *)
(* How a message reaches a worker, and what the end of a handler means,    *)
(* depends on the queue backend; CeleryGateway and LocalGateway say so.    *)
(***************************************************************************)
EXTENDS Outbox

CONSTANTS
    Worker,        \* worker processes
    Backend,       \* "celery" or "local"
    MaxRequeues    \* bound on the requeues of one job

ASSUME BackendAssumption == Backend \in {"celery", "local"}
ASSUME MaxRequeuesAssumption == MaxRequeues \in Nat

VARIABLES
    job,          \* the jobs table
    attempt,      \* the job_attempts table
    worker,       \* what each worker process is doing
    calls,        \* billable provider executions started for a job (observer)
    generation,   \* a generations row is linked to the job
    asset         \* an assets row is linked to the job

workVars == <<job, attempt, worker, calls, generation, asset>>

\* The answers of a provider call, and "known": a submit whose task id is
\* already on record.
Results == {"none", "ok", "error", "missing", "rejected", "known", "pending",
            "completed", "failed", "timeout", "imported"}

\* What a handler returns, "raised" when it raises.
Verdicts == {"duplicate", "ambiguous", "inflight", "terminal", "stale",
             "raised", "handled"}

WorkerStates ==
    [pc: {"idle", "check", "claim", "call", "persist", "recover", "done", "decide"},
     msg: Dispatch \cup {NoDispatch}, snap: JobRows, ver: Nat,
     res: Results \cup Verdicts]

WorkTypeOK ==
    /\ job \in [Job -> JobRows]
    /\ \A j \in Job : job[j].stage \in StagesByKind[KindOf[j]]
    /\ attempt \in [Job -> [AttemptNumbers -> AttemptRows]]
    /\ worker \in [Worker -> WorkerStates]
    /\ calls \in [Job -> Nat]
    /\ generation \in [Job -> BOOLEAN]
    /\ asset \in [Job -> BOOLEAN]

IdleWorker ==
    [pc |-> "idle", msg |-> NoDispatch, snap |-> AbsentJob, ver |-> 0, res |-> "none"]

WorkInit ==
    /\ job = [j \in Job |-> AbsentJob]
    /\ attempt = [j \in Job |-> NoAttempts]
    /\ worker = [w \in Worker |-> IdleWorker]
    /\ calls = [j \in Job |-> 0]
    /\ generation = [j \in Job |-> FALSE]
    /\ asset = [j \in Job |-> FALSE]

\* The message a worker holds; its job, stage and attempt never change.
Msg(w) == dispatch[worker[w].msg]

(***************************************************************************)
(* A handler ends.  Celery acknowledges the task whether it returned or    *)
(* raised (task_acks_on_failure_or_timeout); the local backend looks at    *)
(* the verdict.                                                            *)
(***************************************************************************)
Ended(w, verdict) ==
    IF Backend = "celery"
    THEN IdleWorker
    ELSE [IdleWorker EXCEPT !.pc = "done", !.msg = worker[w].msg, !.res = verdict]

(***************************************************************************)
(* WorkerRuntime.handle                                                    *)
(***************************************************************************)
\* get_job: the snapshot the whole handler works with.
StartedOn(d) ==
    IF Exists(job[dispatch[d].job])
    THEN [IdleWorker EXCEPT !.pc = "check", !.msg = d, !.snap = job[dispatch[d].job]]
    ELSE IF Backend = "celery"
         THEN IdleWorker
         ELSE [IdleWorker EXCEPT !.pc = "done", !.msg = d, !.res = "raised"]

\* Mutants: a submit is repeated like a poll; an import is not repeated.
ResumableSubmit(stage, snap) == stage \in {"video_submit", "video_poll", "asset_import"}
ResumablePollOnly(stage, snap) == stage = "video_poll" \/ (stage = "video_submit" /\ snap.task)

\* A stage whose repetition calls no billable provider operation.
Resumable(stage, snap) ==
    \/ stage \in {"video_poll", "asset_import"}
    \/ stage = "video_submit" /\ snap.task

\* What handle does with the message, given the attempt row it reads now.
HandleVerdict(m, snap, row) ==
    IF row.status # "none"
    THEN IF /\ row.status = "running"
            /\ Resumable(m.stage, snap)
            /\ Active(snap)
            /\ snap.stage = m.stage
         THEN "handled" ELSE "duplicate"
    ELSE IF Terminal(snap) THEN "terminal"
    ELSE IF m.attempt > MaxAttempts THEN "raised"
    ELSE IF snap.stage # m.stage THEN "stale"
    ELSE "handled"

Check(w) ==
    LET m == Msg(w)
        verdict == HandleVerdict(m, worker[w].snap, attempt[m.job][m.attempt])
    IN  /\ worker[w].pc = "check"
        /\ worker' = [worker EXCEPT ![w] =
                        IF verdict = "handled" THEN [worker[w] EXCEPT !.pc = "claim"]
                                               ELSE Ended(w, verdict)]
        /\ UNCHANGED <<job, attempt, calls, generation, asset>>
        /\ UNCHANGED outboxVars

(***************************************************************************)
(* VideoJobWorker._claim and the claim transaction of ImageJobWorker       *)
(***************************************************************************)
Repeated(stage, otherwise) == IF stage = "video_submit" THEN "ambiguous" ELSE otherwise

ClaimVerdict(m, snap, rows, row) ==
    IF rows[m.attempt].status # "none"
    THEN IF KindOf[m.job] = "video" /\ rows[m.attempt].status = "running"
                                    /\ Resumable(m.stage, snap)
         THEN "resumed" ELSE Repeated(m.stage, "duplicate")
    ELSE IF KindOf[m.job] = "video" /\ RunningStageAttempt(rows, m.stage)
         THEN Repeated(m.stage, "inflight")
    ELSE IF CanClaim(row, snap.version, m.stage, KindOf[m.job] = "video")
         THEN "claimed" ELSE "stale"

\* After a claim, handle_submit does not call the provider for a job whose
\* snapshot already carries a task id.
AfterClaim(w, version) ==
    IF Msg(w).stage = "video_submit" /\ worker[w].snap.task
    THEN [worker[w] EXCEPT !.pc = "persist", !.ver = version, !.res = "known"]
    ELSE [worker[w] EXCEPT !.pc = "call", !.ver = version]

Claim(w) ==
    LET m == Msg(w)
        snap == worker[w].snap
        verdict == ClaimVerdict(m, snap, attempt[m.job], job[m.job])
    IN  /\ worker[w].pc = "claim"
        /\ \/ /\ verdict = "claimed"
              /\ job' = [job EXCEPT ![m.job] = Claimed(job[m.job])]
              /\ attempt' = [attempt EXCEPT ![m.job] =
                               WithAttempt(attempt[m.job], m.attempt, m.stage)]
              /\ worker' = [worker EXCEPT ![w] = AfterClaim(w, job[m.job].version + 1)]
           \/ /\ verdict = "resumed"
              /\ worker' = [worker EXCEPT ![w] = AfterClaim(w, snap.version)]
              /\ UNCHANGED <<job, attempt>>
           \/ /\ verdict \notin {"claimed", "resumed"}
              /\ worker' = [worker EXCEPT ![w] = Ended(w, verdict)]
              /\ UNCHANGED <<job, attempt>>
        /\ UNCHANGED <<calls, generation, asset>>
        /\ UNCHANGED outboxVars

(***************************************************************************)
(* The provider call.  "rejected" stands for a payload that does not       *)
(* parse, a disabled provider or an unusable result URL; "timeout" for     *)
(* VideoPipelinePolicy.exhausted, which holds at the attempt limit and may *)
(* hold at any earlier attempt because of the elapsed time.                *)
(***************************************************************************)
\* Mutant: off by one at the limit.
ExhaustedLate(a) == a > MaxAttempts

Exhausted(a) == a >= MaxAttempts

ImageResults == {"ok", "missing", "error", "rejected"}

SubmitResults == {"ok", "error", "rejected"}

PollResults(a) ==
    IF Exhausted(a) THEN {"timeout"}
    ELSE {"pending", "completed", "failed", "error", "rejected", "timeout"}

ImportResults == {"imported", "failed", "error", "rejected", "timeout"}

CallResults(stage, a) ==
    CASE stage = "image_generate" -> ImageResults
      [] stage = "video_submit"   -> SubmitResults
      [] stage = "video_poll"     -> PollResults(a)
      [] OTHER                    -> ImportResults

\* The call reached a provider operation that creates (and bills) media.
Billable(stage, res) ==
    stage \in {"image_generate", "video_submit"} /\ res # "rejected"

ProviderCall(w) ==
    LET m == Msg(w)
    IN  /\ worker[w].pc = "call"
        /\ \E res \in CallResults(m.stage, m.attempt) :
             /\ worker' = [worker EXCEPT ![w].pc = "persist", ![w].res = res]
             /\ calls' = IF Billable(m.stage, res)
                         THEN [calls EXCEPT ![m.job] = @ + 1] ELSE calls
        /\ UNCHANGED <<job, attempt, generation, asset>>
        /\ UNCHANGED outboxVars

(***************************************************************************)
(* The persisting transactions: _persist_success, _persist_failure,        *)
(* _schedule, _fail, _retry and finalize_imported_video.                   *)
(***************************************************************************)
Succeeded == [status |-> "succeeded", stage |-> "finalize", attempt |-> "succeeded"]
Failed == [status |-> "failed", stage |-> "finalize", attempt |-> "failed"]
Scheduled(stage, attemptStatus) ==
    [status |-> "running", stage |-> stage, attempt |-> attemptStatus]

Retried(stage, a) == IF Exhausted(a) THEN Failed ELSE Scheduled(stage, "failed")

Outcome(stage, a, res) ==
    CASE stage = "image_generate" /\ res = "ok"               -> Succeeded
      [] stage = "video_submit" /\ res \in {"ok", "known"}    -> Scheduled("video_poll", "succeeded")
      [] stage = "video_poll" /\ res = "pending"              -> Scheduled("video_poll", "succeeded")
      [] stage = "video_poll" /\ res = "completed"            -> Scheduled("asset_import", "succeeded")
      [] stage = "asset_import" /\ res = "imported"           -> Succeeded
      [] stage \in {"video_poll", "asset_import"} /\ res = "error" -> Retried(stage, a)
      [] OTHER                                                -> Failed

\* The handler catches StaleJobVersion around this transaction.
CatchesStale(stage, res) ==
    \/ stage = "image_generate" /\ res # "rejected"
    \/ stage = "video_submit" /\ res = "ok"
    \/ stage = "asset_import" /\ res = "imported"

\* Mutant: the asset is linked whatever the outcome.
SavedAssetsAnyway(status) == BOOLEAN

\* Whether save_generated_asset links an asset to the job.  It need not: a file
\* that is gone by now is skipped (the image handler counts the files, result
\* "missing"; the video finalizer does not), and save_asset leaves the row of
\* a file of the same name to the job that was linked to it first.
SavedAssets(status) == IF status = "succeeded" THEN BOOLEAN ELSE {FALSE}

Persist(w) ==
    LET m == Msg(w)
        j == m.job
        row == job[j]
        res == worker[w].res
        out == Outcome(m.stage, m.attempt, res)
    IN  /\ worker[w].pc = "persist"
        /\ \/ /\ CanTransition(KindOf[j], row, worker[w].ver, out.status, out.stage)
              /\ out.status = "running" => HasFreeRow
              /\ job' = [job EXCEPT ![j] =
                           Transitioned(row, out.status, out.stage, out.status = "running")]
              /\ attempt' = [attempt EXCEPT ![j] =
                               WithFinished(attempt[j], m.attempt, out.attempt)]
              /\ dispatch' = IF out.status = "running"
                             THEN WithDispatch(dispatch, j, out.stage, m.attempt + 1)
                             ELSE dispatch
              /\ generation' = [generation EXCEPT ![j] = @ \/ out.status = "succeeded"]
              /\ \E saved \in SavedAssets(out.status) :
                   asset' = [asset EXCEPT ![j] = @ \/ saved]
              /\ worker' = [worker EXCEPT ![w] = Ended(w, "handled")]
           \/ /\ ~CanTransition(KindOf[j], row, worker[w].ver, out.status, out.stage)
              /\ worker' = [worker EXCEPT ![w] =
                   Ended(w, IF StaleVersion(row, worker[w].ver) /\ CatchesStale(m.stage, res)
                            THEN "stale" ELSE "raised")]
              /\ UNCHANGED <<job, attempt, dispatch, generation, asset>>
        /\ UNCHANGED <<calls, dispatcher, queue, sent>>

(***************************************************************************)
(* _record_submitted_recovery: the task id of an accepted submit whose     *)
(* poll dispatch could not be written; the exception is raised again.      *)
(***************************************************************************)
RecordSubmittedRecovery(w) ==
    LET j == Msg(w).job
    IN  /\ worker[w].pc = "recover"
        /\ job' = IF CanTransition(KindOf[j], job[j], worker[w].ver, "running", "video_submit")
                  THEN [job EXCEPT ![j] = Transitioned(job[j], "running", "video_submit", TRUE)]
                  ELSE job
        /\ worker' = [worker EXCEPT ![w] = Ended(w, "raised")]
        /\ UNCHANGED <<attempt, calls, generation, asset>>
        /\ UNCHANGED outboxVars

(***************************************************************************)
(* A database error (a lock timeout, a full disk) in the step the worker   *)
(* is about to take.  The image handler then tries to record a failure,    *)
(* handle_submit to save the task id, handle_asset_import to retry; every  *)
(* other handler lets the exception out.                                   *)
(***************************************************************************)
DatabaseError(w) ==
    LET stage == Msg(w).stage
        res == worker[w].res
    IN  /\ worker[w].pc \in {"check", "claim", "persist", "recover"}
        /\ worker' = [worker EXCEPT ![w] =
             CASE worker[w].pc = "persist" /\ stage = "image_generate" /\ res = "ok"
                    -> [worker[w] EXCEPT !.res = "error"]
               [] worker[w].pc = "persist" /\ stage = "asset_import" /\ res = "failed"
                    -> [worker[w] EXCEPT !.res = "error"]
               [] worker[w].pc = "persist" /\ stage = "video_submit" /\ res = "ok"
                    -> [worker[w] EXCEPT !.pc = "recover"]
               [] OTHER -> Ended(w, "raised")]
        /\ UNCHANGED <<job, attempt, calls, generation, asset>>
        /\ UNCHANGED outboxVars

WorkerStep(w) ==
    \/ Check(w)
    \/ Claim(w)
    \/ ProviderCall(w)
    \/ Persist(w)
    \/ RecordSubmittedRecovery(w)

(***************************************************************************)
(* JobAdmissionService.admit: one transaction that finds an active job     *)
(* with the same request hash or inserts the job with its first dispatch.  *)
(***************************************************************************)
Admit(j, sameRequest) ==
    /\ job[j].status = "absent"
    /\ \A i \in sameRequest : ~Active(job[i])
    /\ HasFreeRow
    /\ job' = [job EXCEPT ![j] = InsertedJob(KindOf[j])]
    /\ dispatch' = WithDispatch(dispatch, j, AdmissionStage(KindOf[j]), 1)
    /\ UNCHANGED <<attempt, worker, calls, generation, asset, dispatcher, queue, sent>>

(***************************************************************************)
(* requeue_orphaned_published_dispatches for one job: a queued job without *)
(* any attempt whose message was published gets a second dispatch.         *)
(***************************************************************************)
\* Dispatches of the job that were given up, the requeued ones among them.
Requeues(j) == Cardinality({d \in Dispatch : dispatch[d].job = j /\ dispatch[d].status = "failed"})

RequeueOrphaned(j) ==
    /\ Requeues(j) < MaxRequeues
    /\ job[j].status = "queued"
    /\ \A a \in AttemptNumbers : attempt[j][a].status = "none"
    /\ HasFreeRow
    /\ \E d \in Dispatch :
         /\ dispatch[d].job = j
         /\ dispatch[d].status = "published"
         /\ dispatch' = WithDispatch([dispatch EXCEPT ![d].status = "failed"],
                                     j, dispatch[d].stage, dispatch[d].attempt)
    /\ UNCHANGED workVars
    /\ UNCHANGED <<dispatcher, queue, sent>>

(***************************************************************************)
(* cleanup_jobs (the admin's cleanup and the retention sweep): a terminal  *)
(* job goes with its events, attempts and dispatches; media is unlinked.   *)
(***************************************************************************)
\* Mutant: cleanup takes active jobs too.
CleanupJobAny(j) ==
    /\ Exists(job[j])
    /\ job' = [job EXCEPT ![j].status = "deleted"]
    /\ attempt' = [attempt EXCEPT ![j] = NoAttempts]
    /\ dispatch' = [d \in Dispatch |-> IF dispatch[d].job = j
                                       THEN Unleased(dispatch[d], "deleted")
                                       ELSE dispatch[d]]
    /\ generation' = [generation EXCEPT ![j] = FALSE]
    /\ asset' = [asset EXCEPT ![j] = FALSE]
    /\ UNCHANGED <<worker, calls, dispatcher, queue, sent>>

CleanupJob(j) ==
    /\ Terminal(job[j])
    /\ job' = [job EXCEPT ![j].status = "deleted"]
    /\ attempt' = [attempt EXCEPT ![j] = NoAttempts]
    /\ dispatch' = [d \in Dispatch |-> IF dispatch[d].job = j
                                       THEN Unleased(dispatch[d], "deleted")
                                       ELSE dispatch[d]]
    /\ generation' = [generation EXCEPT ![j] = FALSE]
    /\ asset' = [asset EXCEPT ![j] = FALSE]
    /\ UNCHANGED <<worker, calls, dispatcher, queue, sent>>
=============================================================================
