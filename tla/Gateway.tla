------------------------------ MODULE Gateway ------------------------------
(***************************************************************************)
(* What the two queue backends share: the whole state, its initial value,  *)
(* the bound on faults, and the properties both deployments must have.     *)
(***************************************************************************)
EXTENDS ClientPolling

CONSTANT MaxFaults   \* bound on faults in a behaviour

ASSUME MaxFaultsAssumption == MaxFaults \in Nat

VARIABLE faults   \* faults that may still happen

vars == <<dispatch, dispatcher, queue, sent, job, attempt, worker, calls,
          generation, asset, api, faults>>

Init ==
    /\ OutboxInit
    /\ WorkInit
    /\ ApiInit
    /\ faults = MaxFaults

\* Every table and every process state has its declared shape; in particular
\* a persisting worker asks for no attempt number beyond AttemptNumbers.
TypeOK ==
    /\ OutboxTypeOK
    /\ WorkTypeOK
    /\ ApiTypeOK
    /\ faults \in 0..MaxFaults

-----------------------------------------------------------------------------
(***************************************************************************)
(* Safety                                                                  *)
(***************************************************************************)
\* A job starts at most one provider execution that creates (and bills)
\* media, whatever is redelivered, requeued, crashed or polled: the attempt
\* guard of WorkerRuntime.handle and of the claim transactions.
AtMostOneBillableCall == \A j \in Job : calls[j] <= 1

\* The outcome of a job is decided once: a terminal status is only ever
\* replaced by the deletion of the row (transition_job_in_connection).
TerminalIsFinal ==
    [][\A j \in Job : Terminal(job[j]) => job'[j].status \in {job[j].status, "deleted"}]_vars

\* History rows agree with the job they are linked to: a generation exists
\* only for a succeeded job, a succeeded image job has its generation, and no
\* job that is active or failed has an asset, whether a worker's transaction
\* linked it (_persist_success, finalize_imported_video) or a client's poll
\* did after its mark (get_video).  The poll's asset may outlive the job.
RecordsMatchOutcome ==
    \A j \in Job :
       /\ generation[j] => job[j].status = "succeeded"
       /\ KindOf[j] = "image" /\ job[j].status = "succeeded" => generation[j]
       /\ asset[j] => job[j].status \in {"succeeded", "deleted"}

\* A client's poll saves the asset of a job it has marked: no later step of
\* a worker or of another poll makes that job anything but succeeded or gone.
SavingFits ==
    \A j \in Job : api[j].pc = "saving" => job[j].status \in {"succeeded", "deleted"}

\* An active job has at most one running attempt, and it is one of the job's
\* current stage (_claim, _schedule and the attempt uniqueness together).
RunningAttemptOwnsStage ==
    \A j \in Job : Active(job[j]) =>
       \A a, b \in AttemptNumbers :
          attempt[j][a].status = "running" =>
             /\ attempt[j][a].stage = job[j].stage
             /\ attempt[j][b].status = "running" => a = b

\* A dispatch that can still lead to an attempt: not given up, and its
\* attempt number not used yet.
Unattempted(j, d) ==
    /\ dispatch[d].job = j
    /\ dispatch[d].stage = job[j].stage
    /\ dispatch[d].status \in {"pending", "publishing", "published"}
    /\ attempt[j][dispatch[d].attempt].status = "none"

\* The outbox is complete: an active job either has a running attempt or a
\* dispatch for its current stage, unless publishing was given up after
\* dispatch_max_attempts (_schedule and admit write both in one transaction).
ActiveHasWork ==
    \A j \in Job : Active(job[j]) =>
       \/ \E a \in AttemptNumbers : attempt[j][a].status = "running"
       \/ \E d \in Dispatch : Unattempted(j, d)
       \/ \E d \in Dispatch : /\ dispatch[d].job = j
                             /\ dispatch[d].status = "failed"
                             /\ dispatch[d].tries = MaxDispatchAttempts

\* No dispatch asks for an attempt past the job's limit, so the worker never
\* rejects its own follow-up with worker_attempt_limit_rejected.  (Celery; the
\* local backend has one exception, OverrunOnlyAfterSubmitRetry.)
AttemptWithinLimit ==
    \A d \in Dispatch : dispatch[d].status # "none" => dispatch[d].attempt <= MaxAttempts

\* A row marked published stays so, whatever a dispatcher whose lease ran out
\* still does with it; only the requeue of a queued job and cleanup end it
\* (the claim token in mark_dispatch_published and release_dispatch).
PublishedIsFinal ==
    [][\A d \in Dispatch :
         dispatch[d].status = "published" =>
            \/ dispatch'[d].status \in {"published", "deleted"}
            \/ dispatch'[d].status = "failed" /\ job[dispatch[d].job].status = "queued"]_vars

\* The promise of JobContract, with the job row's status and the provider
\* executions counted by the model.
Contract == INSTANCE JobContract
    WITH status <- [j \in Job |-> job[j].status], charges <- calls

\* The gateway implements the contract: every step is a contract step of one
\* job or invisible to it.
ImplementsContract == Contract!ContractSpec

(***************************************************************************)
(* Liveness                                                                *)
(***************************************************************************)
\* Every admitted job is eventually settled: the stage chain ends within the
\* attempt limit.
EventuallySettled == \A j \in Job : Active(job[j]) ~> ~Active(job[j])
=============================================================================
