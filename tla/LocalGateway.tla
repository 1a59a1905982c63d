---------------------------- MODULE LocalGateway ----------------------------
(***************************************************************************)
(* The gateway on the brokerless local backend: LocalQueueBackend.publish  *)
(* runs the worker synchronously inside the dispatcher process, one row at *)
(* a time, and LocalWorkerFailureRecovery decides what an exception or a   *)
(* repeated delivery means.  LocalQueueProcessLock lets one such process   *)
(* run; a crash ends dispatcher and worker together, and the lease brings  *)
(* the row back to the restarted process.                                  *)
(***************************************************************************)
EXTENDS Gateway

ASSUME LocalAssumption ==
    /\ Backend = "local"
    /\ BatchSize = 1
    /\ Worker = Dispatcher
    /\ \E p \in Dispatcher : Dispatcher = {p}

(***************************************************************************)
(* LocalQueueBackend.publish                                               *)
(***************************************************************************)
\* The dispatch_claimed event is written and WorkerRuntime.handle entered.
LocalPublish(p) ==
    /\ dispatcher[p].pc = "publish"
    /\ \E d \in dispatcher[p].batch :
         /\ dispatch[d].status # "deleted"
         /\ dispatcher' = [dispatcher EXCEPT ![p].pc = "run", ![p].row = d]
         /\ worker' = [worker EXCEPT ![p] = StartedOn(d)]
    /\ UNCHANGED <<job, attempt, calls, generation, asset, dispatch, queue, sent>>

\* publish returns the message id: the worker is through with the row.
PublishReturns(p) ==
    /\ dispatcher' = [dispatcher EXCEPT ![p].pc = "mark"]
    /\ sent' = sent \cup {dispatcher[p].row}
    /\ worker' = [worker EXCEPT ![p] = IdleWorker]

\* Mutant: an exception of the worker is dropped.
NothingToRecoverEver(j) == TRUE

\* handle_unhandled and handle_duplicate answer "missing" or "terminal".
NothingToRecover(j) == ~Active(job[j])

\* Mutant: a duplicate delivery counts as handled.
RepeatedDeliveryPartial == {"ambiguous", "inflight"}

RepeatedDelivery == {"duplicate", "ambiguous", "inflight"}

\* A plain result, or get_job shows that there is nothing left to recover.
LocalReturn(p) ==
    /\ worker[p].pc = "done"
    /\ \/ worker[p].res \notin RepeatedDelivery \cup {"raised"}
       \/ NothingToRecover(Msg(p).job)
    /\ PublishReturns(p)
    /\ UNCHANGED <<job, attempt, calls, generation, asset, dispatch, queue>>

\* get_job of handle_unhandled / handle_duplicate finds an active job.
RecoveryRead(p) ==
    /\ worker[p].pc = "done"
    /\ worker[p].res \in RepeatedDelivery \cup {"raised"}
    /\ ~NothingToRecover(Msg(p).job)
    /\ worker' = [worker EXCEPT ![p].pc = "decide", ![p].snap = job[Msg(p).job]]
    /\ UNCHANGED <<job, attempt, calls, generation, asset>>
    /\ UNCHANGED outboxVars

\* Mutant: a submit without a task id is retried too.
CanResumeAnyStage(m, snap) == KindOf[m.job] = "video"

\* handle_unhandled retries a video stage that can be repeated safely.
CanResume(m, snap) ==
    KindOf[m.job] = "video" /\ Resumable(m.stage, snap)

\* Mutant: off by one at the attempt limit.
RetriesUnhandledLate(p) ==
    /\ worker[p].res = "raised"
    /\ CanResume(Msg(p), worker[p].snap)
    /\ Msg(p).attempt <= MaxAttempts

RetriesUnhandled(p) ==
    /\ worker[p].res = "raised"
    /\ CanResume(Msg(p), worker[p].snap)
    /\ Msg(p).attempt < MaxAttempts

\* _schedule_retry: finish the attempt, keep the stage, dispatch the next one.
ScheduleRetry(p) ==
    LET m == Msg(p)
        j == m.job
    IN  /\ worker[p].pc = "decide"
        /\ RetriesUnhandled(p)
        /\ CanTransition(KindOf[j], job[j], worker[p].snap.version, "running", m.stage)
        /\ HasFreeRow
        /\ job' = [job EXCEPT ![j] = Transitioned(job[j], "running", m.stage, FALSE)]
        /\ attempt' = [attempt EXCEPT ![j] = WithFinished(attempt[j], m.attempt, "failed")]
        /\ dispatch' = WithDispatch(dispatch, j, m.stage, m.attempt + 1)
        /\ PublishReturns(p)
        /\ UNCHANGED <<calls, generation, asset, queue>>

\* _fail_terminal: an ambiguous execution is never repeated.
FailTerminal(p) ==
    LET m == Msg(p)
        j == m.job
    IN  /\ worker[p].pc = "decide"
        /\ ~RetriesUnhandled(p)
        /\ CanTransition(KindOf[j], job[j], worker[p].snap.version, "failed", "finalize")
        /\ job' = [job EXCEPT ![j] = Transitioned(job[j], "failed", "finalize", FALSE)]
        /\ attempt' = [attempt EXCEPT ![j] = WithFinished(attempt[j], m.attempt, "failed")]
        /\ PublishReturns(p)
        /\ UNCHANGED <<calls, generation, asset, dispatch, queue>>

RecoveryTarget(p) ==
    IF RetriesUnhandled(p) THEN [status |-> "running", stage |-> Msg(p).stage]
                           ELSE [status |-> "failed", stage |-> "finalize"]

\* The recovery transaction is refused.  StaleJobVersionError is swallowed
\* and publish returns; a deleted job or an illegal stage change is raised to
\* dispatch_once, which releases the row for another publish.
RecoveryRefused(p) ==
    LET j == Msg(p).job
        target == RecoveryTarget(p)
        version == worker[p].snap.version
    IN  /\ worker[p].pc = "decide"
        /\ ~CanTransition(KindOf[j], job[j], version, target.status, target.stage)
        /\ IF StaleVersion(job[j], version)
           THEN PublishReturns(p)
           ELSE /\ dispatcher' = [dispatcher EXCEPT ![p].pc = "release"]
                /\ worker' = [worker EXCEPT ![p] = IdleWorker]
                /\ UNCHANGED sent
        /\ UNCHANGED <<job, attempt, calls, generation, asset, dispatch, queue>>

(***************************************************************************)
(* Faults                                                                  *)
(***************************************************************************)
\* The process dies, or a database error leaves dispatch_once.
ProcessCrash(p) ==
    /\ dispatcher[p].pc # "idle"
    /\ dispatcher' = [dispatcher EXCEPT ![p] = IdleDispatcher]
    /\ worker' = [worker EXCEPT ![p] = IdleWorker]
    /\ UNCHANGED <<job, attempt, calls, generation, asset, dispatch, queue, sent>>

\* A database error in a recovery transaction is raised to dispatch_once.
RecoveryError(p) ==
    /\ worker[p].pc \in {"done", "decide"}
    /\ worker[p].res \in RepeatedDelivery \cup {"raised"}
    /\ dispatcher' = [dispatcher EXCEPT ![p].pc = "release"]
    /\ worker' = [worker EXCEPT ![p] = IdleWorker]
    /\ UNCHANGED <<job, attempt, calls, generation, asset, dispatch, queue, sent>>

\* The dispatch_claimed event cannot be written: nothing was started.
ClaimedEventError(p) ==
    /\ dispatcher[p].pc = "publish"
    /\ \E d \in dispatcher[p].batch :
         dispatcher' = [dispatcher EXCEPT ![p].pc = "release", ![p].row = d]
    /\ UNCHANGED <<dispatch, queue, sent>>
    /\ UNCHANGED workVars

Fault ==
    /\ faults > 0
    /\ faults' = faults - 1
    /\ UNCHANGED api
    /\ \E p \in Dispatcher :
         \/ DatabaseError(p)
         \/ RecoveryError(p)
         \/ ProcessCrash(p)
         \/ ClaimedEventError(p)
         \/ MarkFails(p) /\ UNCHANGED workVars

\* The steps of the one dispatcher/worker process.
ProcessStep(p) ==
    \/ ClaimPendingDispatches(p) /\ UNCHANGED workVars
    \/ LocalPublish(p)
    \/ PublishDeleted(p) /\ UNCHANGED workVars
    \/ WorkerStep(p)
    \/ LocalReturn(p)
    \/ RecoveryRead(p)
    \/ ScheduleRetry(p)
    \/ FailTerminal(p)
    \/ RecoveryRefused(p)
    \/ MarkDispatchPublished(p) /\ UNCHANGED workVars
    \/ ReleaseDispatch(p) /\ UNCHANGED workVars

Next ==
    \/ /\ \/ \E j \in Job : Admit(j, {})
          \/ \E j \in Job : RequeueOrphaned(j)
          \/ \E j \in Job : CleanupJob(j)
          \/ \E p \in Dispatcher : ProcessStep(p)
          \/ \E d \in Dispatch : LeaseExpires(d) /\ UNCHANGED workVars
       /\ UNCHANGED <<api, faults>>
    \/ \E j \in Job : ApiStep(j) /\ UNCHANGED faults
    \/ Fault

Spec == Init /\ [][Next]_vars

\* The dispatcher loop keeps running (the supervisor restarts it), and a
\* lease that nobody renews runs out.
FairSpec ==
    /\ Spec
    /\ \A p \in Dispatcher : WF_vars(ProcessStep(p) /\ UNCHANGED <<api, faults>>)
    /\ \A d \in Dispatch : WF_vars(LeaseExpires(d) /\ UNCHANGED <<workVars, api, faults>>)

-----------------------------------------------------------------------------
\* Local delivery is synchronous: a row marked published was executed, so its
\* job has left "queued" and /v1/admin/jobs/requeue-stale finds nothing to do
\* (LocalQueueBackend.publish returns only after handle or the recovery did).
PublishedWasHandled ==
    \A d \in Dispatch :
       dispatch[d].status = "published" => job[dispatch[d].job].status # "queued"

\* The row is still to be delivered (again), or was given up after
\* dispatch_max_attempts.
Undelivered(d) ==
    \/ dispatch[d].status \in {"pending", "publishing"}
    \/ dispatch[d].status = "failed" /\ dispatch[d].tries = MaxDispatchAttempts

\* No active job is forgotten: whatever crashes, raises or is recovered, the
\* outbox keeps a row for its current stage that is not marked published.  An
\* attempt that runs is not enough, its process may be dead by now
\* (dispatch_once marks a row only after the worker or the recovery ended its
\* stage, and _schedule and _schedule_retry write the next row with it).
ActiveIsDelivered ==
    \A j \in Job : Active(job[j]) =>
       \E d \in Dispatch : /\ dispatch[d].job = j
                           /\ dispatch[d].stage = job[j].stage
                           /\ Undelivered(d)

\* Recovery keeps the attempt limit, with one exception: a submit whose task
\* id is on record may be retried as the last attempt, and handle_submit then
\* schedules the first poll without looking at the limit.  WorkerRuntime
\* refuses that poll.
OverrunOnlyAfterSubmitRetry ==
    \A d \in Dispatch : dispatch[d].attempt > MaxAttempts =>
       /\ dispatch[d].stage = "video_poll"
       /\ \E e \in Dispatch : /\ dispatch[e].job = dispatch[d].job
                              /\ dispatch[e].stage = "video_submit"
                              /\ dispatch[e].attempt = MaxAttempts

\* Nothing about the job is ambiguous: its task id is on record, no attempt is
\* running and the outbox holds a dispatch for its current stage.
Unambiguous(j) ==
    /\ KindOf[j] = "video"
    /\ job[j].task
    /\ \A a \in AttemptNumbers : attempt[j][a].status # "running"
    /\ \E d \in Dispatch : /\ dispatch[d].job = j
                           /\ dispatch[d].stage = job[j].stage
                           /\ dispatch[d].status = "pending"
                           /\ attempt[j][dispatch[d].attempt].status = "none"

\* "Safe video stages are retried through the durable SQLite outbox with a
\* new attempt number; ambiguous stages are failed terminally": local recovery
\* of a safe stage (_SAFE_VIDEO_STAGES) never fails a job that is waiting for
\* its next dispatch.
RecoveryFailsOnlyAmbiguous ==
    [][\A p \in Dispatcher, j \in Job :
         /\ worker[p].pc = "decide" /\ Msg(p).job = j
         /\ Msg(p).stage \in {"video_poll", "asset_import"}
         /\ Unambiguous(j)
         => job'[j].status # "failed"]_vars
=============================================================================
