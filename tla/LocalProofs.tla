---------------------------- MODULE LocalProofs ----------------------------
(***************************************************************************)
(* Theorems about LocalGateway, for any jobs, any number of dispatches and *)
(* any limits: the brokerless deployment implements JobContract, marks a   *)
(* row published only when its message was handled and its job does not    *)
(* need it any more, and passes the attempt limit only by the poll after a *)
(* retried submit.                                                         *)
(*                                                                         *)
(* The argument differs from the one for Celery.  Messages are delivered   *)
(* one at a time, so nothing depends on versions held by a second worker;  *)
(* but a message is delivered again after every crash, and the recovery    *)
(* repeats stages, so the attempt number no longer says what happened.     *)
(* What carries the proof is the task id: once it is on record it stays,   *)
(* a submit is repeated only with it, and it is recorded only after the    *)
(* one billable call.                                                      *)
(***************************************************************************)
EXTENDS LocalGateway, TLAPS

\* Rows that create_job_dispatch has written.
Created == {d \in Dispatch : dispatch[d].status # "none"}

\* The job was taken up: it is admitted and not queued any more.
Started(j) == job[j].status \notin {"absent", "queued"}

\* The attempt limit, with the one exception of OverrunOnlyAfterSubmitRetry.
WithinLimit(r) ==
    \/ r.attempt <= MaxAttempts
    \/ /\ r.stage = "video_poll"
       /\ \E e \in Created : /\ dispatch[e].job = r.job
                             /\ dispatch[e].stage = "video_submit"
                             /\ dispatch[e].attempt = MaxAttempts

\* What a dispatch row says about its job: it belongs to the job's pipeline
\* and is never ahead of it; a stage past the submit, and a repeated submit,
\* has the task id on record; a row marked published was handled.
RowFits(r) ==
    /\ r.job \in Job
    /\ job[r.job].status # "absent"
    /\ r.stage \in {"image_generate", "video_submit", "video_poll", "asset_import"}
    /\ r.stage = "image_generate" <=> KindOf[r.job] = "image"
    /\ r.stage = "image_generate" => r.attempt = 1
    /\ r.stage = "video_submit" => r.attempt = 1 \/ job[r.job].task
    /\ r.stage = "video_poll" =>
         /\ job[r.job].task
         /\ job[r.job].stage \in {"video_poll", "asset_import", "finalize"}
    /\ r.stage = "asset_import" =>
         /\ job[r.job].task
         /\ job[r.job].stage \in {"asset_import", "finalize"}
    /\ WithinLimit(r)
    /\ job[r.job].status = "queued" => r.stage = job[r.job].stage
    /\ r.status = "published" => Started(r.job)

\* The process refers to created rows, and is about to mark a row published
\* only when its job was taken up.
BatchFits(p) ==
    /\ dispatcher[p].batch \subseteq Created
    /\ dispatcher[p].pc = "mark" =>
         dispatcher[p].row \in Created /\ Started(dispatch[dispatcher[p].row].job)

\* The outbox: created rows fit their jobs, the other ones are untouched.
RowsInv ==
    /\ \A d \in Created : RowFits(dispatch[d])
    /\ \A d \in Dispatch \ Created : dispatch[d] = UnusedRow
    /\ \A p \in Dispatcher : BatchFits(p)

\* The job was billed before, or can no longer be claimed for attempt 1.
Spent(j) == attempt[j][1].status # "none" \/ job[j].status = "deleted"

\* The rows of one job: nothing happened before it was taken up, the task id
\* means one charge, and a charge leaves its attempt behind.
JobFits(j) ==
    /\ job[j].status # "canceled"
    /\ job[j].status # "absent" => job[j].stage # "admitted"
    /\ ~Started(j) => /\ ~job[j].task
                      /\ \A a \in AttemptNumbers : attempt[j][a].status = "none"
    /\ job[j].status = "absent" => job[j] = AbsentJob
    /\ attempt[j][MaxAttempts + 1].status = "none"
    /\ calls[j] <= 1
    /\ calls[j] # 0 => Spent(j)
    /\ job[j].task => calls[j] = 1
    /\ api[j].pc # "idle" => KindOf[j] = "video" /\ job[j].task

JobsInv == \A j \in Job : JobFits(j)

\* The worker is about to make a billable call.
Calling(p) ==
    worker[p].pc = "call" /\ Msg(p).stage \in {"image_generate", "video_submit"}

\* The worker claimed (or resumed) its attempt and has not written its result.
Holds(p) == worker[p].pc \in {"call", "persist", "recover"}

\* The worker works with a snapshot of its job's row.
Snapped(p) == worker[p].pc \notin {"idle", "done"}

\* The snapshot is not newer than the row, and is the row while the job is
\* still queued; a repeated submit saw the task id.
SnapshotFits(p) ==
    LET m == Msg(p)
        snap == worker[p].snap
        row == job[m.job]
    IN  /\ Exists(snap)
        /\ snap.version <= row.version
        /\ snap.task => row.task
        /\ row.status = "queued" => snap = row
        /\ m.stage = "video_submit" /\ m.attempt > 1 => snap.task

\* A worker past its claim: the job was taken up, and as long as the version
\* is current the attempt is running.
HolderFits(p) ==
    LET m == Msg(p)
        row == job[m.job]
    IN  /\ Started(m.job)
        /\ worker[p].ver <= row.version
        /\ Exists(row) /\ worker[p].ver = row.version =>
             attempt[m.job][m.attempt].status = "running"

\* The charge is made once, while the job runs and before anything is known.
CallFits(p) ==
    LET j == Msg(p).job
    IN  job[j].status = "running" /\ calls[j] = 0 /\ Spent(j)

\* What a provider's answer means when it is about to be written.
ResultFits(p) ==
    LET m == Msg(p)
        res == worker[p].res
    IN  /\ m.stage = "video_poll" /\ res \in {"pending", "completed"} => m.attempt < MaxAttempts
        /\ m.stage \in {"image_generate", "video_submit"} /\ res = "ok" => calls[m.job] = 1
        /\ m.stage = "video_submit" /\ res = "known" => worker[p].snap.task

\* The one process.
WorkFits(p) ==
    /\ worker[p].pc # "idle" =>
         /\ worker[p].msg \in Created
         /\ dispatcher[p].pc = "run"
         /\ dispatcher[p].row = worker[p].msg
    /\ Snapped(p) => SnapshotFits(p)
    /\ worker[p].pc = "claim" \/ Holds(p) => Msg(p).attempt <= MaxAttempts
    /\ Holds(p) => HolderFits(p)
    /\ Calling(p) => CallFits(p)
    /\ worker[p].pc = "persist" => ResultFits(p)
    /\ worker[p].pc = "recover" => Msg(p).stage = "video_submit" /\ calls[Msg(p).job] = 1
    /\ worker[p].pc = "done" /\ worker[p].res \notin RepeatedDelivery \cup {"raised"} =>
         Started(Msg(p).job)

WorkInv == \A p \in Dispatcher : WorkFits(p)

LocalInv ==
    /\ TypeOK /\ RowsInv /\ JobsInv /\ WorkInv
    /\ RecordsMatchOutcome /\ SavingFits /\ RunningAttemptOwnsStage

-----------------------------------------------------------------------------
(***************************************************************************)
(* Rows                                                                    *)
(***************************************************************************)
\* One process runs, and its worker is inside it.
LEMMA OneProcess == Worker = Dispatcher /\ \A p, q \in Dispatcher : p = q
  BY LocalAssumption

\* A handler's end leaves a verdict for the recovery.
LEMMA EndedIsDone ==
    ASSUME NEW w, NEW verdict
    PROVE  Ended(w, verdict) = [pc |-> "done", msg |-> worker[w].msg, snap |-> AbsentJob,
                                ver |-> 0, res |-> verdict]
  BY LocalAssumption DEF Ended, IdleWorker

\* The first attempt and the last one are attempt numbers.
LEMMA Numbers ==
    /\ MaxAttempts \in Nat /\ MaxAttempts >= 3
    /\ 1 \in AttemptNumbers /\ MaxAttempts + 1 \in AttemptNumbers
    /\ \A a \in AttemptNumbers : a \in Nat /\ a >= 1 /\ a <= MaxAttempts + 1
  BY MaxAttemptsAssumption DEF AttemptNumbers

\* A claim is a transition that keeps the stage.
LEMMA ClaimTransits ==
    ASSUME NEW row \in JobRows
    PROVE  Claimed(row) = Transitioned(row, "running", row.stage, FALSE)
  BY DEF Claimed, Transitioned, JobRows

\* An admission writes a typed row of the job's kind.
LEMMA InsertedType ==
    ASSUME NEW j \in Job
    PROVE  /\ InsertedJob(KindOf[j]) \in JobRows
           /\ InsertedJob(KindOf[j]).stage \in StagesByKind[KindOf[j]]
           /\ InsertedJob(KindOf[j]).stage = AdmissionStage(KindOf[j])
           /\ InsertedJob(KindOf[j]).status = "queued"
           /\ InsertedJob(KindOf[j]).version = 0
           /\ ~InsertedJob(KindOf[j]).task
           /\ AdmissionStage(KindOf[j]) \in {"image_generate", "video_submit"}
           /\ AdmissionStage(KindOf[j]) = "image_generate" <=> KindOf[j] = "image"
  BY KindAssumption
     DEF InsertedJob, AdmissionStage, StagesByKind, JobRows, RowStatuses, ValidStatuses,
         ActiveStatuses, Stages

\* A new attempt is typed and touches one row only.
LEMMA AttemptTaken ==
    ASSUME NEW rows \in [AttemptNumbers -> AttemptRows], NEW a \in AttemptNumbers,
           NEW stage \in Stages
    PROVE  /\ WithAttempt(rows, a, stage) \in [AttemptNumbers -> AttemptRows]
           /\ WithAttempt(rows, a, stage)[a].status = "running"
           /\ WithAttempt(rows, a, stage)[a].stage = stage
           /\ \A b \in AttemptNumbers : b # a => WithAttempt(rows, a, stage)[b] = rows[b]
  BY DEF WithAttempt, AttemptRows

\* A finished attempt is typed, is not running, and nothing else changes.
LEMMA AttemptFinished ==
    ASSUME NEW rows \in [AttemptNumbers -> AttemptRows], NEW a \in AttemptNumbers,
           NEW status \in {"succeeded", "failed"}
    PROVE  /\ WithFinished(rows, a, status) \in [AttemptNumbers -> AttemptRows]
           /\ WithFinished(rows, a, status)[a].status # "running"
           /\ \A b \in AttemptNumbers :
                /\ b # a => WithFinished(rows, a, status)[b] = rows[b]
                /\ WithFinished(rows, a, status)[b].stage = rows[b].stage
                /\ WithFinished(rows, a, status)[b].status = "none" <=> rows[b].status = "none"
                /\ WithFinished(rows, a, status)[b].status = "running" => rows[b].status = "running"
  BY DEF WithFinished, AttemptRows

\* What a persisting transaction may write.
LEMMA OutcomeType ==
    ASSUME NEW stage, NEW a, NEW res
    PROVE  /\ Outcome(stage, a, res).status \in {"running", "succeeded", "failed"}
           /\ Outcome(stage, a, res).stage \in {"video_poll", "asset_import", "finalize"}
           /\ Outcome(stage, a, res).attempt \in {"succeeded", "failed"}
           /\ Outcome(stage, a, res).status = "running" =>
                /\ Outcome(stage, a, res).stage \in {"video_poll", "asset_import"}
                /\ \/ stage = "video_submit" /\ res \in {"ok", "known"}
                                             /\ Outcome(stage, a, res).stage = "video_poll"
                   \/ stage = "video_poll" /\ res \in {"pending", "completed"}
                   \/ stage \in {"video_poll", "asset_import"} /\ ~Exhausted(a)
           /\ Outcome(stage, a, res).status = "succeeded" =>
                \/ stage = "image_generate" /\ res = "ok"
                \/ stage = "asset_import"
  BY DEF Outcome, Succeeded, Failed, Scheduled, Retried

-----------------------------------------------------------------------------
(***************************************************************************)
(* Who writes the rows of a job                                            *)
(***************************************************************************)
OutcomeOf(p) == Outcome(Msg(p).stage, Msg(p).attempt, worker[p].res)

\* The claim of a new attempt of the job.
Takes(p, j) ==
    /\ Claim(p)
    /\ Msg(p).job = j
    /\ ClaimVerdict(Msg(p), worker[p].snap, attempt[j], job[j]) = "claimed"

\* A persisting transaction that is not refused.
Settles(p, j) ==
    /\ Persist(p)
    /\ Msg(p).job = j
    /\ CanTransition(KindOf[j], job[j], worker[p].ver, OutcomeOf(p).status, OutcomeOf(p).stage)

\* The task id of an accepted submit is saved.
Saves(p, j) ==
    /\ RecordSubmittedRecovery(p)
    /\ Msg(p).job = j
    /\ CanTransition(KindOf[j], job[j], worker[p].ver, "running", "video_submit")

\* The recovery dispatches the stage again, or fails the job.
Retries(p, j) == ScheduleRetry(p) /\ Msg(p).job = j
GivesUp(p, j) == FailTerminal(p) /\ Msg(p).job = j

\* A client's poll that marks the job.
Marks(j) ==
    /\ ApiMark(j)
    /\ CanTransition(KindOf[j], job[j], job[j].version, ApiStatus(api[j].pc), "finalize")

\* The facts about the tables that every step needs.
LEMMA Tables ==
    ASSUME TypeOK
    PROVE  /\ dispatch \in [Dispatch -> DispatchRows]
           /\ dispatcher \in [Dispatcher -> DispatcherStates]
           /\ job \in [Job -> JobRows]
           /\ \A j \in Job : job[j].stage \in StagesByKind[KindOf[j]]
           /\ attempt \in [Job -> [AttemptNumbers -> AttemptRows]]
           /\ worker \in [Dispatcher -> WorkerStates]
           /\ calls \in [Job -> Nat]
           /\ generation \in [Job -> BOOLEAN] /\ asset \in [Job -> BOOLEAN]
           /\ api \in [Job -> ApiStates]
           /\ Created \subseteq Dispatch
  BY OneProcess DEF TypeOK, OutboxTypeOK, WorkTypeOK, ApiTypeOK, Created

\* The row of the message the worker holds.
LEMMA MessageRow ==
    ASSUME LocalInv, NEW p \in Dispatcher, worker[p].pc # "idle"
    PROVE  /\ worker[p].msg \in Created /\ worker[p].msg \in Dispatch
           /\ Msg(p) = dispatch[worker[p].msg] /\ Msg(p) \in DispatchRows
           /\ RowFits(Msg(p))
           /\ Msg(p).job \in Job /\ Msg(p).stage \in Stages /\ Msg(p).attempt \in AttemptNumbers
           /\ job[Msg(p).job].status # "absent"
<1>1. worker[p].msg \in Created
  BY DEF LocalInv, WorkInv, WorkFits
<1>2. RowFits(Msg(p)) /\ Msg(p) = dispatch[worker[p].msg] /\ Msg(p) \in DispatchRows
  BY <1>1, Tables DEF LocalInv, RowsInv, Msg
<1> QED
  BY <1>1, <1>2, Tables DEF RowFits, DispatchRows, LocalInv

\* A row marked published was handled, so the requeue finds no orphan.
LEMMA NoRequeue ==
    ASSUME LocalInv, NEW j \in Job
    PROVE  ~RequeueOrphaned(j)
<1>1. ASSUME NEW d \in Dispatch, dispatch[d].status = "published", dispatch[d].job = j
      PROVE  job[j].status # "queued"
  BY <1>1 DEF LocalInv, RowsInv, RowFits, Created, Started
<1> QED
  BY <1>1 DEF RequeueOrphaned

\* The rows of a job change by its admission, its cleanup, a transaction of the
\* process or a client's mark, and by nothing else.
LEMMA JobStep ==
    ASSUME LocalInv, Next, NEW j \in Job
    PROVE  \/ job'[j] = job[j] /\ attempt'[j] = attempt[j]
           \/ Admit(j, {})
           \/ CleanupJob(j)
           \/ \E p \in Dispatcher : \/ Takes(p, j) \/ Settles(p, j) \/ Saves(p, j)
                                    \/ Retries(p, j) \/ GivesUp(p, j)
           \/ Marks(j)
<1> DEFINE Same == job'[j] = job[j] /\ attempt'[j] = attempt[j]
<1>1. /\ job \in [Job -> JobRows] /\ attempt \in [Job -> [AttemptNumbers -> AttemptRows]]
  BY Tables DEF LocalInv
<1>2. CASE UNCHANGED <<job, attempt>>
  BY <1>2
<1>3. ASSUME NEW i \in Job, Admit(i, {})
      PROVE  Same \/ i = j
  BY <1>1, <1>3 DEF Admit
<1>4. ASSUME NEW i \in Job, CleanupJob(i)
      PROVE  Same \/ i = j
  BY <1>1, <1>4 DEF CleanupJob
<1>5. ASSUME NEW p \in Dispatcher, Claim(p)
      PROVE  Same \/ Takes(p, j)
  BY <1>1, <1>5 DEF Claim, Takes
<1>6. ASSUME NEW p \in Dispatcher, Persist(p)
      PROVE  Same \/ Settles(p, j)
  BY <1>1, <1>6 DEF Persist, Settles, OutcomeOf
<1>7. ASSUME NEW p \in Dispatcher, RecordSubmittedRecovery(p)
      PROVE  Same \/ Saves(p, j)
  BY <1>1, <1>7 DEF RecordSubmittedRecovery, Saves
<1>8. ASSUME NEW p \in Dispatcher, ScheduleRetry(p)
      PROVE  Same \/ Retries(p, j)
  BY <1>1, <1>8 DEF ScheduleRetry, Retries
<1>9. ASSUME NEW p \in Dispatcher, FailTerminal(p)
      PROVE  Same \/ GivesUp(p, j)
  BY <1>1, <1>9 DEF FailTerminal, GivesUp
<1>10. ASSUME NEW i \in Job, ApiStep(i)
       PROVE  Same \/ Marks(j)
  BY <1>1, <1>2, <1>10 DEF ApiStep, ApiPoll, ApiMark, ApiMarkStale, ApiSaveAsset, workVars, Marks
<1>11. ASSUME NEW p \in Dispatcher, ProcessStep(p)
       PROVE  \/ Same \/ Takes(p, j) \/ Settles(p, j) \/ Saves(p, j)
              \/ Retries(p, j) \/ GivesUp(p, j)
  <2>1. CASE WorkerStep(p)
    BY <1>2, <1>5, <1>6, <1>7, <2>1 DEF WorkerStep, Check, ProviderCall
  <2> QED
    BY <1>2, <1>8, <1>9, <1>11, <2>1
       DEF ProcessStep, LocalPublish, LocalReturn, RecoveryRead, RecoveryRefused, workVars
<1>12. CASE Fault
  BY <1>2, <1>12 DEF Fault, DatabaseError, RecoveryError, ProcessCrash, ClaimedEventError, workVars
<1> QED
  BY <1>2, <1>3, <1>4, <1>10, <1>11, <1>12, NoRequeue DEF Next, workVars

\* The transactions that move an admitted job.
MovedBy(p, j) ==
    Takes(p, j) \/ Settles(p, j) \/ Saves(p, j) \/ Retries(p, j) \/ GivesUp(p, j)

Moved(j) == (\E p \in Dispatcher : MovedBy(p, j)) \/ Marks(j)

\* What a claim found and what it wrote.
LEMMA TakesRows ==
    ASSUME LocalInv, NEW p \in Dispatcher, NEW j \in Job, Takes(p, j)
    PROVE  /\ worker[p].pc = "claim" /\ Active(job[j])
           /\ Msg(p).attempt \in AttemptNumbers /\ Msg(p).attempt <= MaxAttempts
           /\ Msg(p).stage \in Stages
           /\ attempt[j][Msg(p).attempt].status = "none"
           /\ KindOf[j] = "video" => ~RunningStageAttempt(attempt[j], Msg(p).stage)
           /\ KindOf[j] # "video" => job[j].status = "queued"
           /\ job[j].stage = Msg(p).stage
           /\ job' = [job EXCEPT ![j] = Transitioned(job[j], "running", job[j].stage, FALSE)]
           /\ attempt' = [attempt EXCEPT ![j] =
                            WithAttempt(attempt[j], Msg(p).attempt, Msg(p).stage)]
           /\ worker' = [worker EXCEPT ![p] = AfterClaim(p, job[j].version + 1)]
           /\ UNCHANGED <<dispatch, dispatcher, calls, generation, asset>>
<1>1. worker[p].pc = "claim"
  BY DEF Takes, Claim
<1>2. /\ Msg(p).attempt \in AttemptNumbers /\ Msg(p).stage \in Stages
      /\ Msg(p).attempt <= MaxAttempts
  BY <1>1, MessageRow DEF LocalInv, WorkInv, WorkFits
<1>3. /\ attempt[j][Msg(p).attempt].status = "none"
      /\ KindOf[j] = "video" => ~RunningStageAttempt(attempt[j], Msg(p).stage)
      /\ CanClaim(job[j], worker[p].snap.version, Msg(p).stage, KindOf[j] = "video")
  BY DEF Takes, ClaimVerdict, Repeated
<1>4. /\ Active(job[j]) /\ job[j].stage = Msg(p).stage
      /\ KindOf[j] # "video" => job[j].status = "queued"
  BY <1>3 DEF CanClaim, Active, ActiveStatuses
<1>5. Claimed(job[j]) = Transitioned(job[j], "running", job[j].stage, FALSE)
  BY Tables, ClaimTransits DEF LocalInv
<1> QED
  BY <1>1, <1>2, <1>3, <1>4, <1>5 DEF Takes, Claim, outboxVars

\* What a persisting transaction found and what it wrote.
LEMMA SettlesRows ==
    ASSUME LocalInv, NEW p \in Dispatcher, NEW j \in Job, Settles(p, j)
    PROVE  LET out == OutcomeOf(p)
           IN  /\ worker[p].pc = "persist"
               /\ CanTransition(KindOf[j], job[j], worker[p].ver, out.status, out.stage)
               /\ Msg(p).attempt \in AttemptNumbers /\ Msg(p).attempt <= MaxAttempts
               /\ out.status = "running" => HasFreeRow
               /\ job' = [job EXCEPT ![j] =
                            Transitioned(job[j], out.status, out.stage, out.status = "running")]
               /\ attempt' = [attempt EXCEPT ![j] =
                                WithFinished(attempt[j], Msg(p).attempt, out.attempt)]
               /\ dispatch' = IF out.status = "running"
                              THEN WithDispatch(dispatch, j, out.stage, Msg(p).attempt + 1)
                              ELSE dispatch
               /\ generation' = [generation EXCEPT ![j] = @ \/ out.status = "succeeded"]
               /\ \E saved \in SavedAssets(out.status) :
                    asset' = [asset EXCEPT ![j] = @ \/ saved]
               /\ worker' = [worker EXCEPT ![p] = Ended(p, "handled")]
               /\ UNCHANGED <<dispatcher, calls>>
<1>1. worker[p].pc = "persist"
  BY DEF Settles, Persist
<1>2. Msg(p).attempt \in AttemptNumbers /\ Msg(p).attempt <= MaxAttempts
  BY <1>1, MessageRow DEF LocalInv, WorkInv, WorkFits, Holds
<1> QED
  BY <1>1, <1>2 DEF Settles, Persist, OutcomeOf

\* What the saving of a task id found and what it wrote.
LEMMA SavesRows ==
    ASSUME NEW p \in Dispatcher, NEW j \in Job, Saves(p, j)
    PROVE  /\ worker[p].pc = "recover"
           /\ CanTransition(KindOf[j], job[j], worker[p].ver, "running", "video_submit")
           /\ job' = [job EXCEPT ![j] = Transitioned(job[j], "running", "video_submit", TRUE)]
           /\ worker' = [worker EXCEPT ![p] = Ended(p, "raised")]
           /\ UNCHANGED <<attempt, dispatch, dispatcher, calls, generation, asset>>
  BY DEF Saves, RecordSubmittedRecovery, outboxVars

\* What a retry of the recovery found and what it wrote.
LEMMA RetriesRows ==
    ASSUME LocalInv, NEW p \in Dispatcher, NEW j \in Job, Retries(p, j)
    PROVE  /\ worker[p].pc = "decide" /\ KindOf[j] = "video"
           /\ Resumable(Msg(p).stage, worker[p].snap)
           /\ Msg(p).attempt \in AttemptNumbers /\ Msg(p).attempt < MaxAttempts
           /\ CanTransition(KindOf[j], job[j], worker[p].snap.version, "running", Msg(p).stage)
           /\ HasFreeRow
           /\ job' = [job EXCEPT ![j] = Transitioned(job[j], "running", Msg(p).stage, FALSE)]
           /\ attempt' = [attempt EXCEPT ![j] = WithFinished(attempt[j], Msg(p).attempt, "failed")]
           /\ dispatch' = WithDispatch(dispatch, j, Msg(p).stage, Msg(p).attempt + 1)
           /\ PublishReturns(p)
           /\ UNCHANGED <<calls, generation, asset>>
<1>1. worker[p].pc = "decide"
  BY DEF Retries, ScheduleRetry
<1>2. Msg(p).attempt \in AttemptNumbers
  BY <1>1, MessageRow
<1> QED
  BY <1>1, <1>2 DEF Retries, ScheduleRetry, RetriesUnhandled, CanResume

\* What a terminal failure of the recovery found and what it wrote.
LEMMA GivesUpRows ==
    ASSUME LocalInv, NEW p \in Dispatcher, NEW j \in Job, GivesUp(p, j)
    PROVE  /\ worker[p].pc = "decide"
           /\ Msg(p).attempt \in AttemptNumbers
           /\ CanTransition(KindOf[j], job[j], worker[p].snap.version, "failed", "finalize")
           /\ job' = [job EXCEPT ![j] = Transitioned(job[j], "failed", "finalize", FALSE)]
           /\ attempt' = [attempt EXCEPT ![j] = WithFinished(attempt[j], Msg(p).attempt, "failed")]
           /\ PublishReturns(p)
           /\ UNCHANGED <<calls, dispatch, generation, asset>>
<1>1. worker[p].pc = "decide"
  BY DEF GivesUp, FailTerminal
<1>2. Msg(p).attempt \in AttemptNumbers
  BY <1>1, MessageRow
<1> QED
  BY <1>1, <1>2 DEF GivesUp, FailTerminal

\* What a client's mark found and what it wrote.
LEMMA MarksRows ==
    ASSUME NEW j \in Job, Marks(j)
    PROVE  LET status == ApiStatus(api[j].pc)
           IN  /\ api[j].pc # "idle"
               /\ status \in {"succeeded", "failed"}
               /\ CanTransition(KindOf[j], job[j], job[j].version, status, "finalize")
               /\ job' = [job EXCEPT ![j] = Transitioned(job[j], status, "finalize", FALSE)]
               /\ UNCHANGED <<attempt, worker, dispatch, dispatcher, calls, generation, asset>>
  BY DEF Marks, ApiMark, ApiStatus, outboxVars

\* One transition of an existing row along both tables.
Transits(j) ==
    \E status \in {"running", "succeeded", "failed"}, stage \in Stages, task \in BOOLEAN :
       /\ Exists(job[j])
       /\ status \in StatusTransitions[job[j].status]
       /\ stage \in StagesByKind[KindOf[j]]
       /\ stage \in StageTransitions[job[j].stage]
       /\ stage # "admitted"
       /\ job' = [job EXCEPT ![j] = Transitioned(job[j], status, stage, task)]

\* Every transaction that moves a job is such a transition.
LEMMA MovedTransits ==
    ASSUME LocalInv, NEW j \in Job, Moved(j)
    PROVE  Transits(j)
<1>1. job \in [Job -> JobRows] /\ job[j] \in JobRows /\ job[j].stage \in StagesByKind[KindOf[j]]
  BY Tables DEF LocalInv
<1>2. ASSUME NEW status \in {"running", "succeeded", "failed"}, NEW stage \in Stages,
             NEW task \in BOOLEAN, NEW version, stage # "admitted",
             CanTransition(KindOf[j], job[j], version, status, stage),
             job' = [job EXCEPT ![j] = Transitioned(job[j], status, stage, task)]
      PROVE  Transits(j)
  BY <1>2 DEF Transits, CanTransition
<1>3. ASSUME NEW p \in Dispatcher, Takes(p, j)
      PROVE  Transits(j)
  <2>1. /\ Active(job[j])
        /\ job' = [job EXCEPT ![j] = Transitioned(job[j], "running", job[j].stage, FALSE)]
    BY <1>3, TakesRows
  <2>2. Exists(job[j]) /\ "running" \in StatusTransitions[job[j].status]
    BY <2>1 DEF Active, Exists, ActiveStatuses, ValidStatuses, StatusTransitions
  <2>3. /\ job[j].stage \in StageTransitions[job[j].stage] /\ job[j].stage \in Stages
        /\ job[j].stage # "admitted"
    <3>1. job[j].stage # "admitted"
      BY <2>1 DEF LocalInv, JobsInv, JobFits, Active, ActiveStatuses
    <3> QED
      BY <1>1, <3>1 DEF JobRows, Stages, StageTransitions
  <2> QED
    BY <1>1, <2>1, <2>2, <2>3 DEF Transits
<1>4. ASSUME NEW p \in Dispatcher, Settles(p, j)
      PROVE  Transits(j)
  <2>1. /\ OutcomeOf(p).status \in {"running", "succeeded", "failed"}
        /\ OutcomeOf(p).stage \in Stages /\ OutcomeOf(p).stage # "admitted"
    BY OutcomeType DEF OutcomeOf, Stages
  <2> QED
    BY <1>2, <1>4, <2>1, SettlesRows
<1>5. ASSUME NEW p \in Dispatcher, Saves(p, j)
      PROVE  Transits(j)
  BY <1>2, <1>5, SavesRows DEF Stages
<1>6. ASSUME NEW p \in Dispatcher, Retries(p, j)
      PROVE  Transits(j)
  <2>1. Msg(p).stage \in Stages /\ Msg(p).stage # "admitted"
    BY <1>6, RetriesRows, MessageRow DEF RowFits
  <2> QED
    BY <1>2, <1>6, <2>1, RetriesRows
<1>7. ASSUME NEW p \in Dispatcher, GivesUp(p, j)
      PROVE  Transits(j)
  BY <1>2, <1>7, GivesUpRows DEF Stages
<1>8. ASSUME Marks(j)
      PROVE  Transits(j)
  BY <1>2, <1>8, MarksRows DEF Stages
<1> QED
  BY <1>3, <1>4, <1>5, <1>6, <1>7, <1>8 DEF Moved, MovedBy

\* What a transition does to the row.
LEMMA TransitsRow ==
    ASSUME TypeOK, NEW j \in Job, Transits(j)
    PROVE  /\ job' \in [Job -> JobRows]
           /\ \A i \in Job \ {j} : job'[i] = job[i]
           /\ Exists(job[j])
           /\ job'[j].status \in {"running", "succeeded", "failed"}
           /\ job'[j].status \in StatusTransitions[job[j].status]
           /\ job'[j].stage \in StagesByKind[KindOf[j]]
           /\ job'[j].stage \in StageTransitions[job[j].stage]
           /\ job'[j].stage # "admitted"
           /\ job'[j].version = job[j].version + 1
           /\ job[j].task => job'[j].task
<1>1. PICK status \in {"running", "succeeded", "failed"}, stage \in Stages, task \in BOOLEAN :
        /\ Exists(job[j])
        /\ status \in StatusTransitions[job[j].status]
        /\ stage \in StagesByKind[KindOf[j]]
        /\ stage \in StageTransitions[job[j].stage]
        /\ stage # "admitted"
        /\ job' = [job EXCEPT ![j] = Transitioned(job[j], status, stage, task)]
  BY DEF Transits
<1>2. job \in [Job -> JobRows] /\ job[j] \in JobRows
  BY Tables
<1> DEFINE row == Transitioned(job[j], status, stage, task)
<1>3. /\ row \in JobRows /\ row.status = status /\ row.stage = stage
      /\ row.version = job[j].version + 1
      /\ job[j].task => row.task
  BY <1>2 DEF Transitioned, JobRows, RowStatuses, ValidStatuses, ActiveStatuses, TerminalStatuses
<1>4. job' = [job EXCEPT ![j] = row]
  BY <1>1
<1> HIDE DEF row
<1> QED
  BY <1>1, <1>2, <1>3, <1>4

-----------------------------------------------------------------------------
(***************************************************************************)
(* What only moves forward                                                 *)
(***************************************************************************)
\* A job's row after a step: its version, task id and stage never go back, a
\* change of a row that stays raises the version, and only an admission makes
\* a job queued.
Forward(j) ==
    /\ job'[j] \in JobRows /\ job'[j].stage \in StagesByKind[KindOf[j]]
    /\ job[j].status # "absent" =>
         /\ job'[j].status # "absent"
         /\ job[j].version <= job'[j].version
         /\ job[j].task => job'[j].task
         /\ job'[j].status = "queued" => job'[j] = job[j]
         /\ Exists(job'[j]) /\ job'[j].version = job[j].version => job'[j] = job[j]
         /\ \A later \in {{"video_poll", "asset_import", "finalize"},
                          {"asset_import", "finalize"}} :
              job[j].stage \in later => job'[j].stage \in later
    /\ Started(j) => Started(j)'
    /\ job[j].status # "canceled" => job'[j].status # "canceled"
    /\ job'[j].status = "absent" => job'[j] = job[j]
    /\ job[j].status = "deleted" => job'[j] = job[j]
    /\ job[j].status = "absent" \/ job[j].stage # "admitted" =>
         job'[j].status = "absent" \/ job'[j].stage # "admitted"

LEMMA RowForward ==
    ASSUME LocalInv, Next, NEW j \in Job
    PROVE  Forward(j)
<1>1. /\ job \in [Job -> JobRows] /\ job[j] \in JobRows
      /\ job[j].stage \in StagesByKind[KindOf[j]] /\ job[j].version \in Nat
  BY Tables DEF LocalInv, JobRows
<1>2. CASE job'[j] = job[j]
  BY <1>1, <1>2 DEF Forward, Started
<1>3. CASE Admit(j, {})
  <2>1. job'[j] = InsertedJob(KindOf[j]) /\ job[j].status = "absent"
    BY <1>1, <1>3 DEF Admit
  <2> QED
    BY <2>1, InsertedType DEF Forward, Started
<1>4. CASE CleanupJob(j)
  <2>1. /\ job'[j] = [job[j] EXCEPT !.status = "deleted"]
        /\ job[j].status \in {"succeeded", "failed", "canceled"}
    BY <1>1, <1>4 DEF CleanupJob, Terminal, TerminalStatuses
  <2>2. /\ job'[j] \in JobRows /\ job'[j].status = "deleted" /\ job'[j].stage = job[j].stage
        /\ job'[j].version = job[j].version /\ job'[j].task = job[j].task
    BY <1>1, <2>1 DEF JobRows, RowStatuses
  <2> QED
    BY <1>1, <2>1, <2>2
       DEF Forward, Started, Exists, ValidStatuses, ActiveStatuses, TerminalStatuses
<1>5. CASE Moved(j)
  <2>1. /\ job'[j] \in JobRows
        /\ job'[j].status \in {"running", "succeeded", "failed"}
        /\ job'[j].stage \in StagesByKind[KindOf[j]]
        /\ job'[j].stage \in StageTransitions[job[j].stage]
        /\ job'[j].stage # "admitted"
        /\ job'[j].version = job[j].version + 1
        /\ job[j].task => job'[j].task
        /\ Exists(job[j])
    BY <1>5, MovedTransits, TransitsRow DEF LocalInv
  <2>2. \A later \in {{"video_poll", "asset_import", "finalize"},
                      {"asset_import", "finalize"}} :
          job[j].stage \in later => job'[j].stage \in later
    BY <2>1 DEF StageTransitions
  <2> QED
    BY <1>1, <2>1, <2>2
       DEF Forward, Started, Exists, ValidStatuses, ActiveStatuses, TerminalStatuses
<1> QED
  BY <1>2, <1>3, <1>4, <1>5, JobStep DEF Moved, MovedBy

\* No step deletes a dispatch row or changes what it asks for.
RowsKept ==
    \A d \in Created :
       /\ d \in Created'
       /\ dispatch'[d].job = dispatch[d].job
       /\ dispatch'[d].stage = dispatch[d].stage
       /\ dispatch'[d].attempt = dispatch[d].attempt

-----------------------------------------------------------------------------
(***************************************************************************)
(* The dispatch rows                                                       *)
(***************************************************************************)
\* A row keeps its type through a lease and a release.
LEMMA RowUpdates ==
    ASSUME NEW row \in DispatchRows, NEW p \in Dispatcher,
           NEW status \in DispatchStatuses
    PROVE  LeasedTo(row, p) \in DispatchRows /\ Unleased(row, status) \in DispatchRows
<1>1. SmallerOf(row.tries + 1, MaxDispatchAttempts) \in 0..MaxDispatchAttempts
  BY DispatchAttemptsAssumption DEF SmallerOf, DispatchRows
<1>2. LeasedTo(row, p) \in DispatchRows
  BY <1>1 DEF LeasedTo, DispatchRows, DispatchStatuses
<1> QED
  BY <1>2 DEF Unleased, DispatchRows, DispatchStatuses

\* The row create_job_dispatch writes.
LEMMA PendingRowType ==
    ASSUME NEW j \in Job, NEW stage \in Stages, NEW a \in AttemptNumbers
    PROVE  /\ PendingRow(j, stage, a) \in DispatchRows
           /\ PendingRow(j, stage, a).status = "pending"
           /\ PendingRow(j, stage, a).job = j
           /\ PendingRow(j, stage, a).stage = stage
           /\ PendingRow(j, stage, a).attempt = a
  BY DispatchAttemptsAssumption DEF PendingRow, DispatchRows, DispatchStatuses

\* An existing row after a step: the same request; marked published only for
\* a job that was taken up, and then for good.
Keeps(d) ==
    /\ dispatch[d].status # "none" /\ dispatch'[d].status # "none"
    /\ dispatch'[d].job = dispatch[d].job
    /\ dispatch'[d].stage = dispatch[d].stage
    /\ dispatch'[d].attempt = dispatch[d].attempt
    /\ dispatch'[d].status = "published" => Started(dispatch[d].job)
    /\ dispatch[d].status = "published" => dispatch'[d].status \in {"published", "deleted"}

\* A row that a step creates: the first dispatch of an admission, the next
\* stage of a persisting transaction, or the repetition of the recovery.
New(d) ==
    \/ \E j \in Job :
         /\ Admit(j, {})
         /\ dispatch'[d] = PendingRow(j, AdmissionStage(KindOf[j]), 1)
    \/ \E p \in Dispatcher, j \in Job :
         \/ /\ Settles(p, j) /\ OutcomeOf(p).status = "running"
            /\ dispatch'[d] = PendingRow(j, OutcomeOf(p).stage, Msg(p).attempt + 1)
         \/ /\ Retries(p, j)
            /\ dispatch'[d] = PendingRow(j, Msg(p).stage, Msg(p).attempt + 1)

RowStep(d) ==
    \/ dispatch'[d] = dispatch[d]
    \/ Keeps(d)
    \/ dispatch[d].status = "none" /\ New(d)

\* A new row, everything else untouched.
LEMMA Creates ==
    ASSUME LocalInv, HasFreeRow, NEW j \in Job, NEW stage \in Stages, NEW a \in AttemptNumbers,
           dispatch' = WithDispatch(dispatch, j, stage, a)
    PROVE  /\ dispatch' \in [Dispatch -> DispatchRows]
           /\ \A d \in Dispatch :
                \/ dispatch'[d] = dispatch[d]
                \/ dispatch[d].status = "none" /\ dispatch'[d] = PendingRow(j, stage, a)
<1>1. dispatch \in [Dispatch -> DispatchRows]
  BY Tables DEF LocalInv
<1>2. FreshDispatch \in Dispatch /\ dispatch[FreshDispatch].status = "none"
  BY DEF HasFreeRow, FreshDispatch
<1>3. PendingRow(j, stage, a) \in DispatchRows
  BY PendingRowType
<1> QED
  BY <1>1, <1>2, <1>3 DEF WithDispatch

\* A dispatcher step on the table.
LEMMA LeaseStep ==
    ASSUME LocalInv,
           \/ \E p \in Dispatcher :
                ClaimPendingDispatches(p) \/ MarkDispatchPublished(p) \/ ReleaseDispatch(p)
           \/ \E d \in Dispatch : LeaseExpires(d)
           \/ \E j \in Job : CleanupJob(j)
    PROVE  /\ dispatch' \in [Dispatch -> DispatchRows]
           /\ \A d \in Dispatch : RowStep(d)
<1>1. dispatch \in [Dispatch -> DispatchRows]
  BY Tables DEF LocalInv
<1>2. ASSUME NEW d \in Dispatch, dispatch[d].status = "published"
      PROVE  Started(dispatch[d].job)
  BY <1>2 DEF LocalInv, RowsInv, RowFits, Created
<1>3. ASSUME NEW p \in Dispatcher, ClaimPendingDispatches(p)
      PROVE  /\ dispatch' \in [Dispatch -> DispatchRows]
             /\ \A d \in Dispatch : RowStep(d)
  <2>1. PICK batch \in SUBSET Claimable :
          dispatch' = [d \in Dispatch |-> IF d \in batch THEN LeasedTo(dispatch[d], p)
                                                          ELSE dispatch[d]]
    BY <1>3 DEF ClaimPendingDispatches
  <2>2. \A d \in Dispatch : LeasedTo(dispatch[d], p) \in DispatchRows
    BY <1>1, RowUpdates DEF DispatchStatuses
  <2>3. dispatch' \in [Dispatch -> DispatchRows]
    BY <1>1, <2>1, <2>2
  <2>4. ASSUME NEW d \in Dispatch, d \in batch
        PROVE  Keeps(d)
    <3>1. dispatch'[d] = LeasedTo(dispatch[d], p) /\ dispatch[d].status \in {"pending", "publishing"}
      BY <2>1, <2>4 DEF Claimable
    <3>2. LeasedTo(dispatch[d], p).status = "publishing"
      BY <1>1 DEF LeasedTo, DispatchRows
    <3>3. /\ dispatch'[d].job = dispatch[d].job /\ dispatch'[d].stage = dispatch[d].stage
          /\ dispatch'[d].attempt = dispatch[d].attempt
      BY <1>1, <3>1 DEF LeasedTo, DispatchRows
    <3> QED
      BY <3>1, <3>2, <3>3 DEF Keeps
  <2>5. \A d \in Dispatch : d \notin batch => dispatch'[d] = dispatch[d]
    BY <2>1
  <2> QED
    BY <2>3, <2>4, <2>5 DEF RowStep
<1>4. ASSUME NEW p \in Dispatcher, NEW status \in {"published", "failed", "pending"},
             LET d == dispatcher[p].row
             IN  dispatch' = IF HoldsClaim(p, d)
                             THEN [dispatch EXCEPT ![d] = Unleased(dispatch[d], status)]
                             ELSE dispatch,
             status = "published" => Started(dispatch[dispatcher[p].row].job)
      PROVE  /\ dispatch' \in [Dispatch -> DispatchRows]
             /\ \A d \in Dispatch : RowStep(d)
  <2> DEFINE d == dispatcher[p].row
  <2>1. status \in DispatchStatuses
    BY DEF DispatchStatuses
  <2>2. dispatch' \in [Dispatch -> DispatchRows]
    BY <1>1, <1>4, <2>1, RowUpdates
  <2>3. ASSUME NEW e \in Dispatch, HoldsClaim(p, d), e = d
        PROVE  Keeps(e)
    <3>1. dispatch'[e] = Unleased(dispatch[e], status) /\ dispatch[e].status = "publishing"
      BY <1>1, <1>4, <2>3 DEF HoldsClaim
    <3>2. Unleased(dispatch[e], status).status = status
      BY <1>1 DEF Unleased, DispatchRows
    <3> QED
      BY <1>1, <1>4, <2>3, <3>1, <3>2 DEF Keeps, Unleased, DispatchRows
  <2> QED
    BY <1>1, <1>4, <2>2, <2>3 DEF RowStep
<1>5. ASSUME NEW p \in Dispatcher, MarkDispatchPublished(p)
      PROVE  /\ dispatch' \in [Dispatch -> DispatchRows]
             /\ \A d \in Dispatch : RowStep(d)
  <2>1. Started(dispatch[dispatcher[p].row].job)
    BY <1>5 DEF MarkDispatchPublished, LocalInv, RowsInv, BatchFits
  <2> QED
    BY <1>4, <1>5, <2>1 DEF MarkDispatchPublished
<1>6. ASSUME NEW p \in Dispatcher, ReleaseDispatch(p)
      PROVE  /\ dispatch' \in [Dispatch -> DispatchRows]
             /\ \A d \in Dispatch : RowStep(d)
  BY <1>4, <1>6 DEF ReleaseDispatch
<1>7. ASSUME NEW e \in Dispatch, LeaseExpires(e)
      PROVE  /\ dispatch' \in [Dispatch -> DispatchRows]
             /\ \A d \in Dispatch : RowStep(d)
  <2>1. dispatch[e].status = "publishing" /\ dispatch' = [dispatch EXCEPT ![e].expired = TRUE]
    BY <1>7 DEF LeaseExpires
  <2>2. dispatch' \in [Dispatch -> DispatchRows]
    BY <1>1, <2>1 DEF DispatchRows
  <2>3. Keeps(e)
    BY <1>1, <2>1 DEF Keeps, DispatchRows
  <2> QED
    BY <1>1, <2>1, <2>2, <2>3 DEF RowStep
<1>8. ASSUME NEW j \in Job, CleanupJob(j)
      PROVE  /\ dispatch' \in [Dispatch -> DispatchRows]
             /\ \A d \in Dispatch : RowStep(d)
  <2>1. dispatch' = [d \in Dispatch |-> IF dispatch[d].job = j
                                        THEN Unleased(dispatch[d], "deleted") ELSE dispatch[d]]
    BY <1>8 DEF CleanupJob
  <2>2. Dispatcher # {}
    BY LocalAssumption
  <2>3. \A d \in Dispatch : Unleased(dispatch[d], "deleted") \in DispatchRows
    BY <1>1, <2>2, RowUpdates DEF DispatchStatuses
  <2>4. dispatch' \in [Dispatch -> DispatchRows]
    BY <1>1, <2>1, <2>3
  <2>5. ASSUME NEW d \in Dispatch, dispatch[d].job = j
        PROVE  Keeps(d)
    <3>1. dispatch[d].status # "none"
      BY <2>5, NoJobAssumption DEF LocalInv, RowsInv, Created, UnusedRow
    <3>2. dispatch'[d] = Unleased(dispatch[d], "deleted")
      BY <2>1, <2>5
    <3>3. Unleased(dispatch[d], "deleted").status = "deleted" /\ "deleted" \in DispatchStatuses
      BY <1>1 DEF Unleased, DispatchRows, DispatchStatuses
    <3>4. /\ dispatch'[d].job = dispatch[d].job /\ dispatch'[d].stage = dispatch[d].stage
          /\ dispatch'[d].attempt = dispatch[d].attempt
      BY <1>1, <3>2 DEF Unleased, DispatchRows
    <3>5. dispatch[d].status = "published" => Started(dispatch[d].job)
      BY <1>2
    <3> QED
      BY <3>1, <3>2, <3>3, <3>4, <3>5 DEF Keeps
  <2> QED
    BY <2>1, <2>4, <2>5 DEF RowStep
<1> QED
  BY <1>3, <1>5, <1>6, <1>7, <1>8

\* Every step on every row.
LEMMA RowsStep ==
    ASSUME LocalInv, Next
    PROVE  /\ dispatch' \in [Dispatch -> DispatchRows]
           /\ \A d \in Dispatch : RowStep(d)
<1>1. dispatch \in [Dispatch -> DispatchRows]
  BY Tables DEF LocalInv
<1>2. CASE UNCHANGED dispatch
  BY <1>1, <1>2 DEF RowStep
<1>3. ASSUME NEW j \in Job, Admit(j, {})
      PROVE  /\ dispatch' \in [Dispatch -> DispatchRows]
             /\ \A d \in Dispatch : RowStep(d)
  <2>1. AdmissionStage(KindOf[j]) \in Stages /\ 1 \in AttemptNumbers
    BY InsertedType, Numbers DEF Stages
  <2>2. HasFreeRow /\ dispatch' = WithDispatch(dispatch, j, AdmissionStage(KindOf[j]), 1)
    BY <1>3 DEF Admit
  <2> QED
    BY <1>3, <2>1, <2>2, Creates DEF RowStep, New
<1>4. ASSUME NEW p \in Dispatcher, Persist(p)
      PROVE  /\ dispatch' \in [Dispatch -> DispatchRows]
             /\ \A d \in Dispatch : RowStep(d)
  <2>1. PICK j \in Job : j = Msg(p).job
    BY <1>4, MessageRow DEF Persist
  <2>2. CASE UNCHANGED dispatch
    BY <1>1, <2>2 DEF RowStep
  <2>3. CASE ~UNCHANGED dispatch
    <3>1. Settles(p, j)
      BY <1>4, <2>1, <2>3 DEF Persist, Settles, OutcomeOf
    <3>2. /\ OutcomeOf(p).status = "running" /\ HasFreeRow
          /\ dispatch' = WithDispatch(dispatch, j, OutcomeOf(p).stage, Msg(p).attempt + 1)
          /\ Msg(p).attempt + 1 \in AttemptNumbers
      BY <2>3, <3>1, SettlesRows, Numbers DEF AttemptNumbers
    <3>3. OutcomeOf(p).stage \in Stages
      BY OutcomeType DEF OutcomeOf, Stages
    <3> QED
      BY <3>1, <3>2, <3>3, Creates DEF RowStep, New
  <2> QED
    BY <2>2, <2>3
<1>5. ASSUME NEW p \in Dispatcher, ScheduleRetry(p)
      PROVE  /\ dispatch' \in [Dispatch -> DispatchRows]
             /\ \A d \in Dispatch : RowStep(d)
  <2>1. PICK j \in Job : j = Msg(p).job /\ Msg(p).stage \in Stages
    BY <1>5, MessageRow DEF ScheduleRetry
  <2>2. Retries(p, j)
    BY <1>5, <2>1 DEF Retries
  <2>3. /\ HasFreeRow /\ Msg(p).attempt \in AttemptNumbers /\ Msg(p).attempt < MaxAttempts
        /\ dispatch' = WithDispatch(dispatch, j, Msg(p).stage, Msg(p).attempt + 1)
    BY <2>2, RetriesRows
  <2>4. Msg(p).attempt + 1 \in AttemptNumbers
    BY <2>3, Numbers DEF AttemptNumbers
  <2> QED
    BY <2>1, <2>2, <2>3, <2>4, Creates DEF RowStep, New
<1>6. ASSUME NEW p \in Dispatcher, ProcessStep(p)
      PROVE  /\ dispatch' \in [Dispatch -> DispatchRows]
             /\ \A d \in Dispatch : RowStep(d)
  <2>1. CASE WorkerStep(p)
    BY <1>2, <1>4, <2>1
       DEF WorkerStep, Check, Claim, ProviderCall, RecordSubmittedRecovery, outboxVars
  <2> QED
    BY <1>2, <1>5, <1>6, <2>1, LeaseStep
       DEF ProcessStep, LocalPublish, PublishDeleted, LocalReturn, RecoveryRead, FailTerminal,
           RecoveryRefused, outboxVars
<1>7. CASE Fault
  BY <1>2, <1>7
     DEF Fault, DatabaseError, RecoveryError, ProcessCrash, ClaimedEventError, MarkFails, outboxVars
<1>8. ASSUME NEW j \in Job, ApiStep(j)
      PROVE  UNCHANGED dispatch
  BY <1>8 DEF ApiStep, ApiPoll, ApiMark, ApiMarkStale, ApiSaveAsset, outboxVars
<1> QED
  BY <1>2, <1>3, <1>6, <1>7, <1>8, NoRequeue, LeaseStep DEF Next

\* Created rows stay, and stay what they are.
LEMMA RowsStay ==
    ASSUME LocalInv, Next
    PROVE  /\ RowsKept
           /\ \A d \in Created' \ Created : d \in Dispatch /\ New(d)
           /\ \A d \in Dispatch \ Created' : d \notin Created /\ dispatch'[d] = dispatch[d]
<1>1. \A d \in Dispatch : RowStep(d)
  BY RowsStep
<1>2. ASSUME NEW d, New(d)
      PROVE  dispatch'[d].status = "pending"
  <2>1. \E j, stage, a : dispatch'[d] = PendingRow(j, stage, a)
    BY <1>2 DEF New
  <2> QED
    BY <2>1 DEF PendingRow
<1> QED
  BY <1>1, <1>2 DEF RowStep, Keeps, RowsKept, Created

\* What an existing row says about its job stays true.
LEMMA KeptFits ==
    ASSUME LocalInv, Next, NEW d \in Created
    PROVE  RowFits(dispatch[d])'
<1> DEFINE r == dispatch[d]
<1>0. RowFits(r) /\ d \in Dispatch /\ r.job \in Job
  BY Tables DEF LocalInv, RowsInv, RowFits
<1> PICK j \in Job : j = r.job
  BY <1>0
<1>1. RowFits(r) /\ d \in Dispatch /\ j = r.job
  BY <1>0
<1>2. Forward(j)
  BY <1>1, RowForward
<1>3. /\ dispatch'[d].job = j /\ dispatch'[d].stage = r.stage /\ dispatch'[d].attempt = r.attempt
      /\ RowsKept
  BY RowsStay DEF RowsKept
<1>4. dispatch'[d].status = "published" => Started(j)
  <2>1. RowStep(d)
    BY <1>1, RowsStep
  <2>2. r.status = "published" => Started(j)
    BY <1>1 DEF RowFits
  <2>3. dispatch[d].status # "none"
    BY DEF Created
  <2> QED
    BY <2>1, <2>2, <2>3 DEF RowStep, Keeps
<1>5. WithinLimit(dispatch[d])'
  <2>1. CASE r.attempt <= MaxAttempts
    BY <1>3, <2>1 DEF WithinLimit
  <2>2. CASE ~(r.attempt <= MaxAttempts)
    <3>1. /\ r.stage = "video_poll"
          /\ \E e \in Created : /\ dispatch[e].job = r.job
                                /\ dispatch[e].stage = "video_submit"
                                /\ dispatch[e].attempt = MaxAttempts
      BY <1>1, <2>2 DEF RowFits, WithinLimit
    <3>2. \E e \in Created' : /\ dispatch'[e].job = r.job
                              /\ dispatch'[e].stage = "video_submit"
                              /\ dispatch'[e].attempt = MaxAttempts
      BY <1>3, <3>1 DEF RowsKept
    <3> QED
      BY <1>3, <3>1, <3>2 DEF WithinLimit
  <2> QED
    BY <2>1, <2>2
<1>6. Started(j) => Started(j)'
  BY <1>2 DEF Forward
<1> HIDE DEF r
<1>7. /\ job'[j].status # "absent"
      /\ r.stage = "video_submit" => r.attempt = 1 \/ job'[j].task
      /\ r.stage = "video_poll" =>
           job'[j].task /\ job'[j].stage \in {"video_poll", "asset_import", "finalize"}
      /\ r.stage = "asset_import" =>
           job'[j].task /\ job'[j].stage \in {"asset_import", "finalize"}
      /\ job'[j].status = "queued" => r.stage = job'[j].stage
  BY <1>1, <1>2 DEF RowFits, Forward
<1>8. /\ r.stage \in {"image_generate", "video_submit", "video_poll", "asset_import"}
      /\ r.stage = "image_generate" <=> KindOf[j] = "image"
      /\ r.stage = "image_generate" => r.attempt = 1
  BY <1>1 DEF RowFits
<1> QED
  BY <1>1, <1>3, <1>4, <1>5, <1>6, <1>7, <1>8 DEF RowFits

\* The first dispatch of a job fits the job.
LEMMA AdmittedFits ==
    ASSUME LocalInv, NEW j \in Job, Admit(j, {}), NEW d,
           dispatch'[d] = PendingRow(j, AdmissionStage(KindOf[j]), 1)
    PROVE  RowFits(dispatch[d])'
<1>1. AdmissionStage(KindOf[j]) \in Stages
  BY InsertedType DEF Stages
<1>2. /\ dispatch'[d].status = "pending" /\ dispatch'[d].job = j
      /\ dispatch'[d].stage = AdmissionStage(KindOf[j]) /\ dispatch'[d].attempt = 1
  BY <1>1, PendingRowType, Numbers
<1>3. job'[j] = InsertedJob(KindOf[j])
  BY Tables DEF Admit, LocalInv
<1>4. WithinLimit(dispatch[d])'
  BY <1>2, Numbers DEF WithinLimit
<1> QED
  BY <1>2, <1>3, <1>4, InsertedType DEF RowFits

\* The next stage of a pipeline fits the job.
LEMMA SettledFits ==
    ASSUME LocalInv, Next, NEW p \in Dispatcher, NEW j \in Job, Settles(p, j),
           OutcomeOf(p).status = "running", NEW d,
           dispatch'[d] = PendingRow(j, OutcomeOf(p).stage, Msg(p).attempt + 1)
    PROVE  RowFits(dispatch[d])'
<1> DEFINE m == Msg(p)
           stage == OutcomeOf(p).stage
<1>1. /\ worker[p].pc = "persist" /\ m.job = j
      /\ m.attempt \in AttemptNumbers /\ m.attempt <= MaxAttempts
      /\ job' = [job EXCEPT ![j] = Transitioned(job[j], OutcomeOf(p).status, stage,
                                                OutcomeOf(p).status = "running")]
  BY SettlesRows DEF Settles
<1>2. RowFits(m) /\ worker[p].msg \in Created /\ m = dispatch[worker[p].msg]
  BY <1>1, MessageRow
<1>3. /\ stage \in {"video_poll", "asset_import"}
      /\ \/ m.stage = "video_submit" /\ stage = "video_poll"
         \/ m.stage = "video_poll" /\ worker[p].res \in {"pending", "completed"}
         \/ m.stage \in {"video_poll", "asset_import"} /\ ~Exhausted(m.attempt)
  BY OutcomeType DEF OutcomeOf
<1>4. m.stage # "video_submit" => m.attempt < MaxAttempts
  <2>1. m.stage = "video_poll" /\ worker[p].res \in {"pending", "completed"}
          => m.attempt < MaxAttempts
    BY <1>1 DEF LocalInv, WorkInv, WorkFits, ResultFits
  <2> QED
    BY <1>1, <1>3, <2>1, Numbers DEF Exhausted
<1>5. /\ dispatch'[d].status = "pending" /\ dispatch'[d].job = j
      /\ dispatch'[d].stage = stage /\ dispatch'[d].attempt = m.attempt + 1
  <2>1. stage \in Stages /\ m.attempt + 1 \in AttemptNumbers
    BY <1>1, <1>3, Numbers DEF Stages, AttemptNumbers
  <2> QED
    BY <2>1, PendingRowType
<1>6. /\ job'[j].status = "running" /\ job'[j].stage = stage /\ job'[j].task
  BY <1>1, Tables DEF Transitioned, LocalInv
<1>7. WithinLimit(dispatch[d])'
  <2>1. CASE m.attempt < MaxAttempts
    BY <1>1, <1>5, <2>1, Numbers DEF WithinLimit
  <2>2. CASE m.stage = "video_submit" /\ m.attempt = MaxAttempts
    <3>1. /\ worker[p].msg \in Created' /\ dispatch'[worker[p].msg].job = j
          /\ dispatch'[worker[p].msg].stage = "video_submit"
          /\ dispatch'[worker[p].msg].attempt = MaxAttempts
      BY <1>1, <1>2, <2>2, RowsStay DEF RowsKept
    <3> QED
      BY <1>3, <1>5, <2>2, <3>1 DEF WithinLimit
  <2> QED
    BY <1>1, <1>4, <2>1, <2>2, Numbers
<1>8. KindOf[j] # "image"
  BY <1>1, <1>2, <1>3 DEF RowFits
<1> HIDE DEF m, stage
<1> QED
  BY <1>3, <1>5, <1>6, <1>7, <1>8 DEF RowFits

\* A repeated stage fits the job.
LEMMA RetriedFits ==
    ASSUME LocalInv, Next, NEW p \in Dispatcher, NEW j \in Job, Retries(p, j), NEW d,
           dispatch'[d] = PendingRow(j, Msg(p).stage, Msg(p).attempt + 1)
    PROVE  RowFits(dispatch[d])'
<1> DEFINE m == Msg(p)
<1>1. /\ worker[p].pc = "decide" /\ m.job = j /\ KindOf[j] = "video"
      /\ Resumable(m.stage, worker[p].snap)
      /\ m.attempt \in AttemptNumbers /\ m.attempt < MaxAttempts
      /\ job' = [job EXCEPT ![j] = Transitioned(job[j], "running", m.stage, FALSE)]
  BY RetriesRows DEF Retries
<1>2. RowFits(m) /\ m.stage \in Stages
  BY <1>1, MessageRow
<1>3. /\ dispatch'[d].status = "pending" /\ dispatch'[d].job = j
      /\ dispatch'[d].stage = m.stage /\ dispatch'[d].attempt = m.attempt + 1
  <2>1. m.attempt + 1 \in AttemptNumbers
    BY <1>1, Numbers DEF AttemptNumbers
  <2> QED
    BY <1>2, <2>1, PendingRowType
<1>4. job[j].task
  <2>1. worker[p].snap.task => job[j].task
    BY <1>1 DEF LocalInv, WorkInv, WorkFits, Snapped, SnapshotFits
  <2> QED
    BY <1>1, <1>2, <2>1 DEF Resumable, RowFits
<1>5. job'[j].status = "running" /\ job'[j].stage = m.stage /\ job'[j].task
  BY <1>1, <1>4, Tables DEF Transitioned, LocalInv
<1>6. WithinLimit(dispatch[d])'
  BY <1>1, <1>3, Numbers DEF WithinLimit
<1>7. m.stage \in {"video_submit", "video_poll", "asset_import"}
  BY <1>1, <1>2 DEF RowFits
<1> HIDE DEF m
<1> QED
  BY <1>1, <1>3, <1>5, <1>6, <1>7 DEF RowFits

\* Every row fits its job after every step.
LEMMA RowsFit ==
    ASSUME LocalInv, Next
    PROVE  /\ \A d \in Created' : RowFits(dispatch[d])'
           /\ \A d \in Dispatch \ Created' : dispatch'[d] = UnusedRow
<1>1. ASSUME NEW d \in Created' \ Created
      PROVE  RowFits(dispatch[d])'
  <2>1. New(d)
    BY RowsStay
  <2> QED
    BY <2>1, AdmittedFits, SettledFits, RetriedFits DEF New
<1>2. ASSUME NEW d \in Dispatch \ Created'
      PROVE  dispatch'[d] = UnusedRow
  <2>1. d \notin Created /\ dispatch'[d] = dispatch[d]
    BY RowsStay
  <2> QED
    BY <2>1 DEF LocalInv, RowsInv
<1> QED
  BY <1>1, <1>2, KeptFits

-----------------------------------------------------------------------------
(***************************************************************************)
(* The dispatcher loop                                                     *)
(***************************************************************************)
\* NextRow only ever shrinks the batch.
LEMMA NextRowType ==
    ASSUME LocalInv, NEW p \in Dispatcher
    PROVE  /\ NextRow(p) \in DispatcherStates
           /\ NextRow(p).batch \subseteq Created
           /\ NextRow(p).pc \in {"idle", "publish"}
<1>1. dispatcher[p].batch \subseteq Created /\ Created \subseteq Dispatch
  BY DEF LocalInv, RowsInv, BatchFits, Created
<1> QED
  BY <1>1 DEF NextRow, IdleDispatcher, DispatcherStates

\* publish returns only when the job of the row was taken up: the handler
\* says so, there is nothing to recover, the recovery wrote the row, or
\* somebody else did since the recovery read it.
LEMMA ReturnsHandled ==
    ASSUME LocalInv, Next, NEW p \in Dispatcher, NEW j \in Job, Msg(p).job = j,
           \/ LocalReturn(p) \/ ScheduleRetry(p) \/ FailTerminal(p)
           \/ RecoveryRefused(p) /\ StaleVersion(job[j], worker[p].snap.version)
    PROVE  Started(j)'
<1>1. Started(j) => Started(j)'
  BY RowForward DEF Forward
<1>2. worker[p].pc \in {"done", "decide"}
  BY DEF LocalReturn, ScheduleRetry, FailTerminal, RecoveryRefused
<1>3. job[j].status # "absent" /\ job[j] \in JobRows
  BY <1>2, MessageRow, Tables DEF LocalInv
<1>4. CASE LocalReturn(p)
  <2>1. CASE worker[p].res \notin RepeatedDelivery \cup {"raised"}
    BY <1>1, <1>4, <2>1 DEF LocalReturn, LocalInv, WorkInv, WorkFits
  <2>2. CASE NothingToRecover(j)
    BY <1>1, <1>3, <2>2 DEF NothingToRecover, Active, ActiveStatuses, Started
  <2> QED
    BY <1>4, <2>1, <2>2 DEF LocalReturn
<1>5. CASE ScheduleRetry(p) \/ FailTerminal(p)
  <2>1. Moved(j)
    BY <1>5 DEF Moved, MovedBy, Retries, GivesUp
  <2>2. job'[j].status \in {"running", "succeeded", "failed"}
    BY <2>1, MovedTransits, TransitsRow DEF LocalInv
  <2> QED
    BY <2>2 DEF Started
<1>6. CASE RecoveryRefused(p) /\ StaleVersion(job[j], worker[p].snap.version)
  <2>1. job[j].status = "queued" => worker[p].snap = job[j]
    BY <1>6 DEF RecoveryRefused, LocalInv, WorkInv, WorkFits, Snapped, SnapshotFits
  <2> QED
    BY <1>1, <1>3, <1>6, <2>1 DEF StaleVersion, Started
<1> QED
  BY <1>4, <1>5, <1>6

\* The worker is busy only inside publish, with the row that is published.
Linked(p) ==
    worker[p].pc # "idle" => dispatcher[p].pc = "run" /\ dispatcher[p].row = worker[p].msg

\* The dispatcher's state after a step that keeps it, or replaces it by one
\* that is about no row.
LEMMA BatchKept ==
    ASSUME LocalInv, Next, NEW p \in Dispatcher,
           \/ dispatcher' = dispatcher
           \/ \E s \in DispatcherStates : /\ s.batch \subseteq Created /\ s.pc # "mark"
                                          /\ dispatcher' = [dispatcher EXCEPT ![p] = s]
    PROVE  dispatcher' \in [Dispatcher -> DispatcherStates] /\ BatchFits(p)'
<1>1. /\ dispatcher \in [Dispatcher -> DispatcherStates] /\ BatchFits(p)
      /\ RowsKept /\ Created \subseteq Created'
  BY Tables, RowsStay DEF LocalInv, RowsInv, RowsKept
<1>2. CASE dispatcher' = dispatcher
  <2>1. CASE dispatcher[p].pc = "mark"
    <3>1. PICK d \in Created : d = dispatcher[p].row
      BY <1>1, <2>1 DEF BatchFits
    <3>2. PICK j \in Job : j = dispatch[d].job
      BY DEF LocalInv, RowsInv, RowFits
    <3>3. Started(j) /\ (Started(j) => Started(j)')
      BY <1>1, <2>1, <3>1, <3>2, RowForward DEF BatchFits, Forward
    <3>4. d \in Created' /\ dispatch'[d].job = j
      BY <1>1, <3>2 DEF RowsKept
    <3> QED
      BY <1>1, <1>2, <3>1, <3>3, <3>4 DEF BatchFits, Started
  <2> QED
    BY <1>1, <1>2, <2>1 DEF BatchFits
<1>3. ASSUME NEW s \in DispatcherStates, s.batch \subseteq Created, s.pc # "mark",
             dispatcher' = [dispatcher EXCEPT ![p] = s]
      PROVE  dispatcher' \in [Dispatcher -> DispatcherStates] /\ BatchFits(p)'
  <2>1. dispatcher'[p] = s /\ dispatcher' \in [Dispatcher -> DispatcherStates]
    BY <1>1, <1>3
  <2> QED
    BY <1>1, <1>3, <2>1 DEF BatchFits
<1> QED
  BY <1>2, <1>3

\* The end of publish.
LEMMA ReturnFits ==
    ASSUME LocalInv, Next, NEW p \in Dispatcher, PublishReturns(p),
           \/ LocalReturn(p) \/ ScheduleRetry(p) \/ FailTerminal(p)
           \/ RecoveryRefused(p) /\ StaleVersion(job[Msg(p).job], worker[p].snap.version)
    PROVE  dispatcher' \in [Dispatcher -> DispatcherStates] /\ BatchFits(p)' /\ Linked(p)'
<1>1. /\ worker[p].pc \in {"done", "decide"}
  BY DEF LocalReturn, ScheduleRetry, FailTerminal, RecoveryRefused
<1>2. /\ worker[p].msg \in Created /\ dispatcher[p].row = worker[p].msg
      /\ Msg(p) = dispatch[worker[p].msg]
  BY <1>1, MessageRow DEF LocalInv, WorkInv, WorkFits
<1>3. PICK j \in Job : j = Msg(p).job
  BY <1>1, MessageRow
<1>4. Started(j)'
  BY <1>3, ReturnsHandled
<1>5. PICK d \in Created : d = worker[p].msg
  BY <1>2
<1>6. d \in Created' /\ dispatch'[d].job = j /\ Created \subseteq Created'
  BY <1>2, <1>3, <1>5, RowsStay DEF RowsKept
<1>7. /\ dispatcher \in [Dispatcher -> DispatcherStates] /\ worker \in [Dispatcher -> WorkerStates]
      /\ dispatcher[p].batch \subseteq Created
  BY Tables DEF LocalInv, RowsInv, BatchFits
<1>8. /\ dispatcher' \in [Dispatcher -> DispatcherStates]
      /\ dispatcher'[p].row = d /\ dispatcher'[p].batch = dispatcher[p].batch
      /\ worker'[p].pc = "idle"
  BY <1>2, <1>5, <1>7 DEF PublishReturns, DispatcherStates, IdleWorker
<1> QED
  BY <1>4, <1>6, <1>7, <1>8 DEF BatchFits, Linked, Started

\* Every step keeps the loop in order.
LEMMA BatchStep ==
    ASSUME LocalInv, Next, NEW p \in Dispatcher
    PROVE  dispatcher' \in [Dispatcher -> DispatcherStates] /\ BatchFits(p)' /\ Linked(p)'
<1> DEFINE Good == dispatcher' \in [Dispatcher -> DispatcherStates] /\ BatchFits(p)' /\ Linked(p)'
<1>1. /\ dispatcher \in [Dispatcher -> DispatcherStates] /\ worker \in [Dispatcher -> WorkerStates]
      /\ dispatcher[p].batch \subseteq Created /\ Created \subseteq Dispatch
      /\ Linked(p)
      /\ \A q \in Dispatcher : q = p
  BY Tables, OneProcess DEF LocalInv, RowsInv, BatchFits, WorkInv, WorkFits, Linked
<1>2. ASSUME UNCHANGED dispatcher,
             \/ UNCHANGED worker
             \/ worker[p].pc # "idle" /\ worker'[p].msg = worker[p].msg
      PROVE  Good
  BY <1>1, <1>2, BatchKept DEF Linked
<1>3. ASSUME NEW s \in DispatcherStates, s.batch \subseteq Created, s.pc # "mark",
             dispatcher' = [dispatcher EXCEPT ![p] = s],
             \/ worker'[p] = IdleWorker
             \/ UNCHANGED worker /\ dispatcher[p].pc # "run"
      PROVE  Good
  <2>1. worker'[p].pc = "idle"
    BY <1>1, <1>3 DEF Linked, IdleWorker
  <2> QED
    BY <1>3, <2>1, BatchKept DEF Linked
<1>4. ASSUME NEW pc \in {"run", "release"}, NEW d \in dispatcher[p].batch
      PROVE  /\ [dispatcher[p] EXCEPT !.pc = pc, !.row = d] \in DispatcherStates
             /\ [dispatcher[p] EXCEPT !.pc = pc, !.row = d].batch = dispatcher[p].batch
             /\ [dispatcher[p] EXCEPT !.pc = pc, !.row = d].pc = pc
             /\ [dispatcher[p] EXCEPT !.pc = pc, !.row = d].row = d
  BY <1>1 DEF DispatcherStates
<1>5. CASE ClaimPendingDispatches(p) /\ UNCHANGED workVars
  <2>1. PICK batch \in SUBSET Claimable :
          dispatcher' = [dispatcher EXCEPT ![p] =
                           [pc |-> "publish", batch |-> batch, row |-> NoDispatch]]
    BY <1>5 DEF ClaimPendingDispatches
  <2>2. batch \subseteq Created
    BY DEF Claimable, Created
  <2>3. [pc |-> "publish", batch |-> batch, row |-> NoDispatch] \in DispatcherStates
    BY <1>1, <2>2 DEF DispatcherStates
  <2> QED
    BY <1>3, <1>5, <2>1, <2>2, <2>3 DEF ClaimPendingDispatches, workVars
<1>6. CASE LocalPublish(p)
  <2>1. PICK d \in dispatcher[p].batch :
          /\ dispatcher' = [dispatcher EXCEPT ![p].pc = "run", ![p].row = d]
          /\ worker' = [worker EXCEPT ![p] = StartedOn(d)]
    BY <1>6 DEF LocalPublish
  <2>2. dispatcher' = [dispatcher EXCEPT ![p] = [dispatcher[p] EXCEPT !.pc = "run", !.row = d]]
    BY <1>1, <2>1
  <2>3. StartedOn(d).msg = d
    BY LocalAssumption DEF StartedOn, IdleWorker
  <2>4. dispatcher'[p].pc = "run" /\ dispatcher'[p].row = d
    BY <1>1, <2>2 DEF DispatcherStates
  <2>5. worker'[p].msg = d
    BY <1>1, <2>1, <2>3
  <2> QED
    BY <1>1, <1>4, <2>2, <2>4, <2>5, BatchKept DEF Linked
<1>7. CASE (PublishDeleted(p) /\ UNCHANGED workVars) \/ ClaimedEventError(p)
  <2>1. PICK d \in dispatcher[p].batch :
          dispatcher' = [dispatcher EXCEPT ![p].pc = "release", ![p].row = d]
    BY <1>7 DEF PublishDeleted, ClaimedEventError
  <2>2. dispatcher' = [dispatcher EXCEPT ![p] =
                         [dispatcher[p] EXCEPT !.pc = "release", !.row = d]]
    BY <1>1, <2>1
  <2>3. UNCHANGED worker /\ dispatcher[p].pc = "publish"
    BY <1>7 DEF PublishDeleted, ClaimedEventError, workVars
  <2> QED
    BY <1>1, <1>3, <1>4, <2>2, <2>3
<1>8. ASSUME dispatcher' = [dispatcher EXCEPT ![p].pc = "release"],
             worker' = [worker EXCEPT ![p] = IdleWorker]
      PROVE  Good
  <2>1. /\ [dispatcher[p] EXCEPT !.pc = "release"] \in DispatcherStates
        /\ [dispatcher[p] EXCEPT !.pc = "release"].batch = dispatcher[p].batch
        /\ [dispatcher[p] EXCEPT !.pc = "release"].pc = "release"
    BY <1>1 DEF DispatcherStates
  <2>2. dispatcher' = [dispatcher EXCEPT ![p] = [dispatcher[p] EXCEPT !.pc = "release"]]
    BY <1>1, <1>8
  <2>3. worker'[p] = IdleWorker
    BY <1>1, <1>8
  <2> QED
    BY <1>1, <1>3, <2>1, <2>2, <2>3
<1>9. CASE RecoveryRefused(p) \/ RecoveryError(p)
  <2>1. CASE PublishReturns(p) /\ RecoveryRefused(p)
                               /\ StaleVersion(job[Msg(p).job], worker[p].snap.version)
    BY <2>1, ReturnFits
  <2> QED
    BY <1>8, <1>9, <2>1 DEF RecoveryRefused, RecoveryError
<1>10. CASE LocalReturn(p) \/ ScheduleRetry(p) \/ FailTerminal(p)
  <2>1. PublishReturns(p)
    BY <1>10 DEF LocalReturn, ScheduleRetry, FailTerminal
  <2> QED
    BY <1>10, <2>1, ReturnFits
<1>11. CASE UNCHANGED workVars /\ (MarkDispatchPublished(p) \/ ReleaseDispatch(p) \/ MarkFails(p))
  <2>1. /\ dispatcher' = [dispatcher EXCEPT ![p] = NextRow(p)]
        /\ UNCHANGED worker /\ dispatcher[p].pc # "run"
    BY <1>11 DEF MarkDispatchPublished, ReleaseDispatch, MarkFails, workVars
  <2>2. /\ NextRow(p) \in DispatcherStates /\ NextRow(p).batch \subseteq Created
        /\ NextRow(p).pc # "mark"
    BY NextRowType
  <2> QED
    BY <1>3, <2>1, <2>2
<1>12. CASE ProcessCrash(p)
  <2>1. /\ IdleDispatcher \in DispatcherStates /\ IdleDispatcher.batch \subseteq Created
        /\ IdleDispatcher.pc # "mark"
    BY DEF IdleDispatcher, DispatcherStates
  <2>2. worker'[p] = IdleWorker
    BY <1>1, <1>12 DEF ProcessCrash
  <2> QED
    BY <1>3, <1>12, <2>1, <2>2 DEF ProcessCrash
<1>13. CASE WorkerStep(p) \/ RecoveryRead(p) \/ DatabaseError(p)
  <2>1. UNCHANGED dispatcher /\ worker[p].pc # "idle" /\ worker[p] \in WorkerStates
    BY <1>1, <1>13
       DEF WorkerStep, Check, Claim, ProviderCall, Persist, RecordSubmittedRecovery, RecoveryRead,
           DatabaseError, outboxVars
  <2>2. ASSUME NEW verdict
        PROVE  Ended(p, verdict).msg = worker[p].msg
    BY EndedIsDone
  <2>3. ASSUME NEW version
        PROVE  AfterClaim(p, version).msg = worker[p].msg
    BY <2>1 DEF AfterClaim, WorkerStates
  <2>4. /\ [worker[p] EXCEPT !.pc = "claim"].msg = worker[p].msg
        /\ [worker[p] EXCEPT !.res = "error"].msg = worker[p].msg
        /\ [worker[p] EXCEPT !.pc = "recover"].msg = worker[p].msg
    BY <2>1 DEF WorkerStates
  <2>5. ASSUME Check(p)
        PROVE  worker'[p].msg = worker[p].msg
    BY <1>1, <2>2, <2>4, <2>5 DEF Check
  <2>6. ASSUME Claim(p)
        PROVE  worker'[p].msg = worker[p].msg
    BY <1>1, <2>2, <2>3, <2>6 DEF Claim
  <2>7. ASSUME ProviderCall(p) \/ RecoveryRead(p)
        PROVE  worker'[p].msg = worker[p].msg
    BY <1>1, <2>7 DEF ProviderCall, RecoveryRead, WorkerStates
  <2>8. ASSUME Persist(p) \/ RecordSubmittedRecovery(p)
        PROVE  worker'[p].msg = worker[p].msg
    <3>1. \E verdict : worker' = [worker EXCEPT ![p] = Ended(p, verdict)]
      BY <2>8 DEF Persist, RecordSubmittedRecovery
    <3> QED
      BY <1>1, <2>2, <3>1
  <2>9. ASSUME DatabaseError(p)
        PROVE  worker'[p].msg = worker[p].msg
    BY <1>1, <2>2, <2>4, <2>9 DEF DatabaseError
  <2>10. worker'[p].msg = worker[p].msg
    BY <1>13, <2>5, <2>6, <2>7, <2>8, <2>9 DEF WorkerStep
  <2> QED
    BY <1>2, <2>1, <2>10
<1>14. ASSUME NEW j \in Job, Admit(j, {}) \/ CleanupJob(j) \/ ApiStep(j)
       PROVE  UNCHANGED <<dispatcher, worker>>
  BY <1>14 DEF Admit, CleanupJob, ApiStep, ApiPoll, ApiMark, ApiMarkStale, ApiSaveAsset,
               outboxVars, workVars
<1>15. ASSUME NEW d \in Dispatch, LeaseExpires(d), UNCHANGED workVars
       PROVE  UNCHANGED <<dispatcher, worker>>
  BY <1>15 DEF LeaseExpires, workVars
<1>16. CASE \E q \in Dispatcher : ProcessStep(q)
  <2>1. ProcessStep(p)
    BY <1>1, <1>16
  <2> QED
    BY <1>5, <1>6, <1>7, <1>9, <1>10, <1>11, <1>13, <2>1 DEF ProcessStep
<1>17. CASE Fault
  <2>1. \/ DatabaseError(p) \/ RecoveryError(p) \/ ProcessCrash(p) \/ ClaimedEventError(p)
        \/ MarkFails(p) /\ UNCHANGED workVars
    BY <1>1, <1>17 DEF Fault
  <2> QED
    BY <1>7, <1>9, <1>11, <1>12, <1>13, <2>1
<1> QED
  BY <1>2, <1>14, <1>15, <1>16, <1>17, NoRequeue DEF Next

-----------------------------------------------------------------------------
(***************************************************************************)
(* Attempts and charges                                                    *)
(***************************************************************************)
\* A job's attempts after a step: none past the limit, none before the job is
\* taken up, and a spent job stays spent.
LEMMA AttemptForward ==
    ASSUME LocalInv, Next, NEW j \in Job
    PROVE  /\ attempt'[j] \in [AttemptNumbers -> AttemptRows]
           /\ attempt'[j][MaxAttempts + 1].status = "none"
           /\ Spent(j) => Spent(j)'
           /\ ~Started(j)' => \A a \in AttemptNumbers : attempt'[j][a].status = "none"
<1>1. /\ attempt \in [Job -> [AttemptNumbers -> AttemptRows]]
      /\ attempt[j] \in [AttemptNumbers -> AttemptRows]
      /\ job \in [Job -> JobRows] /\ job[j] \in JobRows
  BY Tables DEF LocalInv
<1>2. /\ attempt[j][MaxAttempts + 1].status = "none"
      /\ ~Started(j) => \A a \in AttemptNumbers : attempt[j][a].status = "none"
  BY DEF LocalInv, JobsInv, JobFits
<1>3. Started(j) => Started(j)'
  BY RowForward DEF Forward
<1>4. job[j].status = "deleted" => job'[j].status = "deleted"
  BY RowForward DEF Forward
<1>5. CASE attempt'[j] = attempt[j]
  BY <1>1, <1>2, <1>3, <1>4, <1>5 DEF Spent
<1>6. CASE CleanupJob(j)
  <2>1. attempt'[j] = NoAttempts /\ job'[j].status = "deleted"
    BY <1>1, <1>6 DEF CleanupJob, JobRows
  <2>2. NoAttempts \in [AttemptNumbers -> AttemptRows]
    BY DEF NoAttempts, NoAttempt, AttemptRows, Stages
  <2>3. \A a \in AttemptNumbers : NoAttempts[a].status = "none"
    BY DEF NoAttempts, NoAttempt
  <2> QED
    BY <2>1, <2>2, <2>3, Numbers DEF Spent, Started
<1>7. ASSUME NEW p \in Dispatcher, Takes(p, j)
      PROVE  /\ attempt'[j] \in [AttemptNumbers -> AttemptRows]
             /\ attempt'[j][MaxAttempts + 1].status = "none"
             /\ attempt[j][1].status # "none" => attempt'[j][1].status # "none"
             /\ Started(j)'
  <2>1. /\ Msg(p).attempt \in AttemptNumbers /\ Msg(p).attempt <= MaxAttempts
        /\ Msg(p).stage \in Stages
        /\ attempt' = [attempt EXCEPT ![j] =
                         WithAttempt(attempt[j], Msg(p).attempt, Msg(p).stage)]
    BY <1>7, TakesRows
  <2>2. attempt'[j] = WithAttempt(attempt[j], Msg(p).attempt, Msg(p).stage)
    BY <1>1, <2>1
  <2>3. Msg(p).attempt # MaxAttempts + 1
    BY <2>1, Numbers
  <2>4. Started(j)'
    <3>1. job'[j].status \in {"running", "succeeded", "failed"}
      BY <1>7, MovedTransits, TransitsRow DEF LocalInv, Moved, MovedBy
    <3> QED
      BY <3>1 DEF Started
  <2>5. /\ attempt'[j] \in [AttemptNumbers -> AttemptRows]
        /\ attempt'[j][Msg(p).attempt].status = "running"
        /\ \A b \in AttemptNumbers : b # Msg(p).attempt => attempt'[j][b] = attempt[j][b]
    BY <1>1, <2>1, <2>2, AttemptTaken
  <2> QED
    BY <1>2, <2>3, <2>4, <2>5, Numbers
<1>8. ASSUME NEW a \in AttemptNumbers, NEW status \in {"succeeded", "failed"},
             attempt' = [attempt EXCEPT ![j] = WithFinished(attempt[j], a, status)]
      PROVE  /\ attempt'[j] \in [AttemptNumbers -> AttemptRows]
             /\ \A b \in AttemptNumbers :
                  attempt'[j][b].status = "none" <=> attempt[j][b].status = "none"
  <2>1. attempt'[j] = WithFinished(attempt[j], a, status)
    BY <1>1, <1>8
  <2> QED
    BY <1>1, <2>1, AttemptFinished
<1>9. ASSUME NEW p \in Dispatcher, Settles(p, j) \/ Retries(p, j) \/ GivesUp(p, j)
      PROVE  /\ attempt'[j] \in [AttemptNumbers -> AttemptRows]
             /\ \A b \in AttemptNumbers :
                  attempt'[j][b].status = "none" <=> attempt[j][b].status = "none"
  <2>1. OutcomeOf(p).attempt \in {"succeeded", "failed"}
    BY OutcomeType DEF OutcomeOf
  <2>2. CASE Settles(p, j)
    BY <1>8, <2>1, <2>2, SettlesRows
  <2>3. CASE Retries(p, j)
    BY <1>8, <2>3, RetriesRows
  <2>4. CASE GivesUp(p, j)
    BY <1>8, <2>4, GivesUpRows
  <2> QED
    BY <1>9, <2>2, <2>3, <2>4
<1>10. CASE Admit(j, {}) \/ Marks(j) \/ \E p \in Dispatcher : Saves(p, j)
  BY <1>5, <1>10, MarksRows, SavesRows DEF Admit
<1>11. CASE \E p \in Dispatcher : Takes(p, j)
  BY <1>4, <1>7, <1>11 DEF Spent
<1>12. CASE \E p \in Dispatcher : Settles(p, j) \/ Retries(p, j) \/ GivesUp(p, j)
  BY <1>2, <1>3, <1>4, <1>9, <1>12, Numbers DEF Spent
<1> QED
  BY <1>5, <1>6, <1>10, <1>11, <1>12, JobStep

\* The only charge of a job.
Charges(p, j) ==
    /\ ProviderCall(p) /\ Calling(p) /\ Msg(p).job = j
    /\ job[j].status = "running" /\ calls[j] = 0 /\ Spent(j)
    /\ calls' = [calls EXCEPT ![j] = 1]
    /\ UNCHANGED job

\* A step charges one job once, or nothing.
LEMMA CallStep ==
    ASSUME LocalInv, Next
    PROVE  UNCHANGED calls \/ \E p \in Dispatcher, j \in Job : Charges(p, j)
<1>1. ASSUME NEW p \in Dispatcher, ProviderCall(p), ~UNCHANGED calls
      PROVE  \E j \in Job : Charges(p, j)
  <2>1. PICK j \in Job : j = Msg(p).job
    BY <1>1, MessageRow DEF ProviderCall
  <2>2. Calling(p) /\ calls' = [calls EXCEPT ![j] = calls[j] + 1] /\ UNCHANGED job
    BY <1>1, <2>1 DEF ProviderCall, Billable, Calling
  <2>3. job[j].status = "running" /\ calls[j] = 0 /\ Spent(j)
    BY <2>1, <2>2 DEF LocalInv, WorkInv, WorkFits, CallFits
  <2>4. calls' = [calls EXCEPT ![j] = 1]
    BY <2>2, <2>3
  <2> QED
    BY <1>1, <2>1, <2>2, <2>3, <2>4 DEF Charges
<1>2. ASSUME NEW p \in Dispatcher, ProcessStep(p)
      PROVE  UNCHANGED calls \/ ProviderCall(p)
  BY <1>2 DEF ProcessStep, WorkerStep, Check, Claim, Persist, RecordSubmittedRecovery,
              LocalPublish, LocalReturn, RecoveryRead, ScheduleRetry, FailTerminal,
              RecoveryRefused, workVars
<1>3. CASE Fault
  BY <1>3 DEF Fault, DatabaseError, RecoveryError, ProcessCrash, ClaimedEventError, workVars
<1>4. ASSUME NEW j \in Job, Admit(j, {}) \/ CleanupJob(j) \/ ApiStep(j)
      PROVE  UNCHANGED calls
  BY <1>4 DEF Admit, CleanupJob, ApiStep, ApiPoll, ApiMark, ApiMarkStale, ApiSaveAsset, workVars
<1> QED
  BY <1>1, <1>2, <1>3, <1>4, NoRequeue DEF Next, workVars

\* The task id is written only after the charge.
LEMMA TaskCharged ==
    ASSUME LocalInv, Next, NEW j \in Job, job'[j].task
    PROVE  calls[j] = 1
<1>1. job \in [Job -> JobRows] /\ job[j] \in JobRows
  BY Tables DEF LocalInv
<1>2. CASE job[j].task
  BY <1>2 DEF LocalInv, JobsInv, JobFits
<1>3. CASE Admit(j, {})
  BY <1>1, <1>3, InsertedType DEF Admit
<1>4. CASE CleanupJob(j)
  <2>1. job'[j].task = job[j].task
    BY <1>1, <1>4 DEF CleanupJob, JobRows
  <2> QED
    BY <1>2, <2>1
<1>5. ASSUME NEW status, NEW stage, ~job[j].task,
             job' = [job EXCEPT ![j] = Transitioned(job[j], status, stage, FALSE)]
      PROVE  FALSE
  BY <1>1, <1>5 DEF Transitioned
<1>6. ASSUME NEW p \in Dispatcher, Saves(p, j)
      PROVE  calls[j] = 1
  BY <1>6, SavesRows DEF Saves, LocalInv, WorkInv, WorkFits
<1>7. ASSUME NEW p \in Dispatcher, Settles(p, j), ~job[j].task
      PROVE  calls[j] = 1
  <2>1. /\ worker[p].pc = "persist" /\ Msg(p).job = j
        /\ job' = [job EXCEPT ![j] = Transitioned(job[j], OutcomeOf(p).status, OutcomeOf(p).stage,
                                                  OutcomeOf(p).status = "running")]
    BY <1>7, SettlesRows DEF Settles
  <2>2. OutcomeOf(p).status = "running"
    BY <1>1, <1>7, <2>1 DEF Transitioned
  <2>3. /\ Msg(p).stage \in {"video_submit", "video_poll", "asset_import"}
        /\ Msg(p).stage = "video_submit" => worker[p].res \in {"ok", "known"}
    BY <2>2, OutcomeType DEF OutcomeOf
  <2>4. Msg(p).stage = "video_submit"
    BY <1>7, <2>1, <2>3, MessageRow DEF RowFits
  <2>5. worker[p].snap.task => job[j].task
    BY <2>1 DEF LocalInv, WorkInv, WorkFits, Snapped, SnapshotFits
  <2> QED
    BY <1>7, <2>1, <2>3, <2>4, <2>5 DEF LocalInv, WorkInv, WorkFits, ResultFits
<1>8. CASE job'[j] = job[j]
  BY <1>2, <1>8
<1>9. ASSUME ~job[j].task, NEW p \in Dispatcher, Takes(p, j) \/ Retries(p, j) \/ GivesUp(p, j)
      PROVE  FALSE
  <2>1. CASE Takes(p, j)
    <3>1. job' = [job EXCEPT ![j] = Transitioned(job[j], "running", job[j].stage, FALSE)]
      BY <2>1, TakesRows
    <3> QED
      BY <1>5, <1>9, <3>1
  <2>2. CASE Retries(p, j)
    <3>1. job' = [job EXCEPT ![j] = Transitioned(job[j], "running", Msg(p).stage, FALSE)]
      BY <2>2, RetriesRows
    <3> QED
      BY <1>5, <1>9, <3>1
  <2>3. CASE GivesUp(p, j)
    BY <1>5, <1>9, <2>3, GivesUpRows
  <2> QED
    BY <1>9, <2>1, <2>2, <2>3
<1>10. ASSUME ~job[j].task, Marks(j)
       PROVE  FALSE
  BY <1>5, <1>10, MarksRows
<1> QED
  BY <1>2, <1>3, <1>4, <1>6, <1>7, <1>8, <1>9, <1>10, JobStep

\* A client's poll is about a task on record.
LEMMA ApiForward ==
    ASSUME LocalInv, Next, NEW j \in Job, api'[j].pc # "idle"
    PROVE  (KindOf[j] = "video" /\ job[j].task /\ Exists(job[j])) \/ api[j].pc # "idle"
<1>1. api \in [Job -> ApiStates]
  BY Tables DEF LocalInv
<1>2. CASE UNCHANGED api
  BY <1>2
<1>3. ASSUME NEW i \in Job, ApiStep(i)
      PROVE  (KindOf[j] = "video" /\ job[j].task /\ Exists(job[j])) \/ api[j].pc # "idle"
  BY <1>1, <1>3 DEF ApiStep, ApiPoll, ApiMark, ApiMarkStale, ApiSaveAsset, ApiStates
<1> QED
  BY <1>2, <1>3 DEF Next, Fault

\* Every job fits after every step.
LEMMA JobsFit ==
    ASSUME LocalInv, Next, NEW j \in Job
    PROVE  JobFits(j)'
<1>1. JobFits(j) /\ Forward(j)
  BY RowForward DEF LocalInv, JobsInv
<1>2. calls \in [Job -> Nat] /\ calls[j] \in {0, 1}
  <2>1. calls \in [Job -> Nat] /\ calls[j] \in Nat
    BY Tables DEF LocalInv
  <2>2. calls[j] <= 1
    BY <1>1 DEF JobFits
  <2> QED
    BY <2>1, <2>2
<1>3. /\ calls'[j] \in {0, 1}
      /\ calls[j] = 1 => calls'[j] = 1
      /\ calls'[j] # 0 => Spent(j)
  BY <1>1, <1>2, CallStep DEF Charges, JobFits
<1>4. job'[j].task => calls'[j] = 1
  BY <1>3, TaskCharged
<1>5. ~Started(j)' => ~job'[j].task
  <2>1. CASE job'[j].status = "absent"
    BY <1>1, <2>1 DEF Forward, JobFits, Started
  <2>2. CASE job'[j].status = "queued" /\ job[j].status # "absent"
    BY <1>1, <2>2 DEF Forward, JobFits, Started
  <2>3. CASE job'[j].status = "queued" /\ job[j].status = "absent"
    <3>1. calls[j] = 0
      BY <1>1, <1>2, <2>3, Numbers DEF JobFits, Spent, Started, AbsentJob
    <3> QED
      BY <3>1, TaskCharged
  <2> QED
    BY <2>1, <2>2, <2>3 DEF Started
<1>6. api'[j].pc # "idle" => KindOf[j] = "video" /\ job'[j].task
  <2>1. api'[j].pc # "idle" => KindOf[j] = "video" /\ job[j].task
    BY <1>1, ApiForward DEF JobFits
  <2> QED
    BY <1>1, <2>1 DEF Forward, JobFits, Started
<1>7. /\ job'[j].status # "canceled"
      /\ job'[j].status # "absent" => job'[j].stage # "admitted"
      /\ job'[j].status = "absent" => job'[j] = AbsentJob
  BY <1>1 DEF Forward, JobFits
<1> QED
  BY <1>3, <1>4, <1>5, <1>6, <1>7, AttemptForward DEF JobFits

-----------------------------------------------------------------------------
(***************************************************************************)
(* The worker inside the process                                           *)
(***************************************************************************)
\* The message stays what it was while the worker holds it.
LEMMA MessageKept ==
    ASSUME LocalInv, Next, NEW p \in Dispatcher, worker[p].pc # "idle",
           worker'[p].msg = worker[p].msg
    PROVE  /\ worker'[p].msg \in Created'
           /\ Msg(p)'.job = Msg(p).job
           /\ Msg(p)'.stage = Msg(p).stage
           /\ Msg(p)'.attempt = Msg(p).attempt
<1>1. worker[p].msg \in Created
  BY MessageRow
<1> QED
  BY <1>1, RowsStay DEF RowsKept, Msg

\* The attempts of a job change only together with its row.
LEMMA QuietAttempts ==
    ASSUME LocalInv, Next, NEW j \in Job, job'[j] = job[j]
    PROVE  attempt'[j] = attempt[j]
<1>1. job \in [Job -> JobRows] /\ job[j] \in JobRows /\ job[j].version \in Nat
  BY Tables DEF LocalInv, JobRows
<1>2. ~Admit(j, {})
  BY <1>1, InsertedType DEF Admit
<1>3. ~CleanupJob(j)
  <2>1. CleanupJob(j) => job'[j].status = "deleted"
    BY <1>1 DEF CleanupJob, JobRows
  <2> QED
    BY <2>1 DEF CleanupJob, Terminal, TerminalStatuses
<1>4. ~Moved(j)
  <2>1. Moved(j) => job'[j].version = job[j].version + 1
    BY MovedTransits, TransitsRow DEF LocalInv
  <2> QED
    BY <1>1, <2>1
<1> QED
  BY <1>2, <1>3, <1>4, JobStep DEF Moved, MovedBy

\* A charge that was made stays, and only the calling worker makes one.
LEMMA ChargeKept ==
    ASSUME LocalInv, Next, NEW j \in Job
    PROVE  /\ calls[j] = 1 => calls'[j] = 1
           /\ \A p \in Dispatcher : ~ProviderCall(p) => calls'[j] = calls[j]
<1>1. calls \in [Job -> Nat]
  BY Tables DEF LocalInv
<1> QED
  BY <1>1, CallStep, OneProcess DEF Charges

\* While the worker is about to make its call, nobody else moves the job: a
\* client cannot poll a task that does not exist yet.
LEMMA CallerAlone ==
    ASSUME LocalInv, Next, NEW p \in Dispatcher, Calling(p), ~ProviderCall(p),
           NEW j \in Job, j = Msg(p).job
    PROVE  job'[j].status = "running" /\ calls'[j] = 0 /\ Spent(j)'
<1>1. job[j].status = "running" /\ calls[j] = 0 /\ Spent(j) /\ worker[p].pc = "call"
  BY DEF LocalInv, WorkInv, WorkFits, CallFits, Calling
<1>2. Spent(j)'
  BY <1>1, AttemptForward
<1>3. calls'[j] = 0
  BY <1>1, ChargeKept
<1>4. \A q \in Dispatcher : ~MovedBy(q, j)
  <2>1. \A q \in Dispatcher : worker[q].pc = "call"
    BY <1>1, OneProcess
  <2> QED
    BY <2>1, TakesRows, SettlesRows, SavesRows, RetriesRows, GivesUpRows DEF MovedBy
<1>5. ~Marks(j)
  <2>1. Marks(j) => api[j].pc # "idle"
    BY MarksRows
  <2>2. api[j].pc # "idle" => calls[j] = 1
    BY DEF LocalInv, JobsInv, JobFits
  <2> QED
    BY <1>1, <2>1, <2>2
<1>6. ~Admit(j, {}) /\ ~CleanupJob(j)
  BY <1>1 DEF Admit, CleanupJob, Terminal, TerminalStatuses
<1>7. job'[j] = job[j]
  BY <1>4, <1>5, <1>6, JobStep DEF MovedBy
<1> QED
  BY <1>1, <1>2, <1>3, <1>7

\* A worker that does nothing: what it knows stays true.
LEMMA WorkStays ==
    ASSUME LocalInv, Next, NEW p \in Dispatcher, UNCHANGED worker
    PROVE  WorkFits(p)'
<1>1. WorkFits(p) /\ Linked(p)' /\ worker \in [Dispatcher -> WorkerStates]
  BY BatchStep, Tables DEF LocalInv, WorkInv
<1>2. CASE worker[p].pc = "idle"
  BY <1>2 DEF WorkFits, Snapped, Holds, Calling
<1>3. CASE worker[p].pc # "idle"
  <2>1. /\ worker'[p].msg \in Created' /\ Msg(p)'.job = Msg(p).job
        /\ Msg(p)'.stage = Msg(p).stage /\ Msg(p)'.attempt = Msg(p).attempt
    BY <1>3, MessageKept
  <2>2. PICK j \in Job : j = Msg(p).job
    BY <1>3, MessageRow
  <2>3. /\ Forward(j) /\ job[j].status # "absent" /\ job[j] \in JobRows /\ job[j].version \in Nat
        /\ job'[j].version \in Nat /\ worker[p] \in WorkerStates /\ worker[p].ver \in Nat
        /\ worker[p].snap.version \in Nat
    BY <1>1, <1>3, <2>2, MessageRow, RowForward, Tables
       DEF LocalInv, Forward, JobRows, WorkerStates
  <2>4. ~ProviderCall(p)
    BY <1>1 DEF ProviderCall, WorkerStates
  <2>5. calls'[j] = calls[j]
    BY <2>4, ChargeKept
  <2>6. Snapped(p)' => SnapshotFits(p)'
    BY <1>1, <2>1, <2>2, <2>3 DEF WorkFits, Snapped, SnapshotFits, Forward
  <2>7. Holds(p)' => HolderFits(p)'
    <3>1. ASSUME Holds(p)
          PROVE  Started(j)' /\ worker[p].ver <= job'[j].version
      BY <1>1, <2>2, <2>3, <3>1 DEF WorkFits, HolderFits, Forward
    <3>2. ASSUME Holds(p), Exists(job'[j]), worker[p].ver = job'[j].version
          PROVE  attempt'[j][Msg(p).attempt].status = "running"
      <4>1. worker[p].ver <= job[j].version /\ job[j].version <= job'[j].version
        BY <1>1, <2>2, <2>3, <3>2 DEF WorkFits, HolderFits, Forward
      <4>2. job[j].version = job'[j].version
        BY <2>3, <3>2, <4>1
      <4>3. job'[j] = job[j]
        BY <2>3, <3>2, <4>2 DEF Forward
      <4>4. attempt'[j] = attempt[j]
        BY <4>3, QuietAttempts
      <4> QED
        BY <1>1, <2>2, <3>2, <4>3, <4>4 DEF WorkFits, HolderFits
    <3> QED
      BY <2>1, <2>2, <3>1, <3>2 DEF HolderFits, Holds, Started
  <2>8. Calling(p)' => CallFits(p)'
    <3>1. Calling(p)' => Calling(p)
      BY <2>1 DEF Calling
    <3> QED
      BY <2>1, <2>2, <2>4, <3>1, CallerAlone DEF CallFits, Spent
  <2>9. worker'[p].pc = "persist" => ResultFits(p)'
    BY <1>1, <2>1, <2>2, <2>5 DEF WorkFits, ResultFits
  <2>10. /\ worker'[p].pc = "recover" => Msg(p)'.stage = "video_submit" /\ calls'[Msg(p)'.job] = 1
         /\ worker'[p].pc = "claim" \/ Holds(p)' => Msg(p)'.attempt <= MaxAttempts
    BY <1>1, <2>1, <2>2, <2>5 DEF WorkFits, Holds
  <2>11. worker'[p].pc = "done" /\ worker'[p].res \notin RepeatedDelivery \cup {"raised"}
           => Started(Msg(p).job)'
    <3>1. worker'[p].pc = "done" /\ worker'[p].res \notin RepeatedDelivery \cup {"raised"}
            => Started(j)'
      BY <1>1, <2>2, <2>3 DEF WorkFits, Forward
    <3> QED
      BY <2>1, <2>2, <3>1 DEF Started
  <2> QED
    BY <1>1, <2>1, <2>6, <2>7, <2>8, <2>9, <2>10, <2>11 DEF WorkFits, Linked
<1> QED
  BY <1>2, <1>3

\* A worker that stops.
LEMMA WorkIdle ==
    ASSUME NEW p \in Dispatcher, worker'[p] = IdleWorker
    PROVE  WorkFits(p)'
<1>1. worker'[p].pc = "idle"
  BY DEF IdleWorker
<1> QED
  BY <1>1 DEF WorkFits, Snapped, Holds, Calling

\* A handler that ends: a plain verdict means that the job was taken up.
LEMMA WorkDone ==
    ASSUME LocalInv, Next, NEW p \in Dispatcher, worker[p].pc # "idle",
           NEW verdict, worker' = [worker EXCEPT ![p] = Ended(p, verdict)],
           verdict \notin RepeatedDelivery \cup {"raised"} => Started(Msg(p).job)
    PROVE  WorkFits(p)'
<1>1. worker'[p] = Ended(p, verdict)
  BY Tables DEF LocalInv
<1>2. worker'[p].pc = "done" /\ worker'[p].msg = worker[p].msg /\ worker'[p].res = verdict
  BY <1>1, EndedIsDone
<1>3. worker'[p].msg \in Created' /\ Msg(p)'.job = Msg(p).job /\ Linked(p)'
  BY <1>2, MessageKept, BatchStep
<1>4. PICK j \in Job : j = Msg(p).job
  BY MessageRow
<1>5. verdict \notin RepeatedDelivery \cup {"raised"} => Started(j)'
  BY <1>4, RowForward DEF Forward
<1>6. verdict \notin RepeatedDelivery \cup {"raised"} => Started(Msg(p).job)'
  BY <1>3, <1>4, <1>5 DEF Started
<1> QED
  BY <1>2, <1>3, <1>6 DEF WorkFits, Snapped, Holds, Calling, Linked

\* publish enters the handler with a fresh snapshot.
LEMMA WorkStarts ==
    ASSUME LocalInv, Next, NEW p \in Dispatcher, LocalPublish(p)
    PROVE  WorkFits(p)'
<1>1. worker \in [Dispatcher -> WorkerStates] /\ Linked(p)'
  BY Tables, BatchStep DEF LocalInv
<1>2. PICK d \in Created : worker' = [worker EXCEPT ![p] = StartedOn(d)]
  BY DEF LocalPublish, LocalInv, RowsInv, BatchFits
<1>3. UNCHANGED <<job, dispatch>> /\ d \in Created'
  BY DEF LocalPublish, Created
<1>4. PICK j \in Job : j = dispatch[d].job /\ RowFits(dispatch[d])
  BY DEF LocalInv, RowsInv, RowFits
<1>5. CASE ~Exists(job[j])
  <2>1. worker'[p].pc = "done" /\ worker'[p].msg = d /\ worker'[p].res = "raised"
    BY <1>1, <1>2, <1>4, <1>5, LocalAssumption DEF StartedOn, IdleWorker
  <2> QED
    BY <1>1, <1>3, <2>1 DEF WorkFits, Snapped, Holds, Calling, Linked
<1>6. CASE Exists(job[j])
  <2>1. worker'[p].pc = "check" /\ worker'[p].msg = d /\ worker'[p].snap = job[j]
    BY <1>1, <1>2, <1>4, <1>6 DEF StartedOn, IdleWorker
  <2>2. Msg(p)' = dispatch[d]
    BY <1>3, <2>1 DEF Msg
  <2>3. job[j].version \in Nat /\ dispatch[d].attempt \in Nat
    BY Tables, Numbers DEF LocalInv, JobRows, DispatchRows
  <2>4. SnapshotFits(p)'
    BY <1>3, <1>4, <1>6, <2>1, <2>2, <2>3 DEF SnapshotFits, RowFits
  <2> QED
    BY <1>1, <1>3, <2>1, <2>4 DEF WorkFits, Snapped, Holds, Calling, Linked
<1> QED
  BY <1>5, <1>6

\* A worker whose job is queued knows the job's row, and asks for its stage.
LEMMA QueuedKnown ==
    ASSUME LocalInv, NEW p \in Dispatcher, worker[p].pc \in {"check", "claim"}, ~Started(Msg(p).job)
    PROVE  LET m == Msg(p)
           IN  /\ worker[p].snap = job[m.job] /\ job[m.job].status = "queued"
               /\ job[m.job].stage = m.stage
               /\ \A a \in AttemptNumbers : attempt[m.job][a].status = "none"
<1>1. RowFits(Msg(p)) /\ Msg(p).job \in Job /\ job[Msg(p).job].status = "queued"
  BY MessageRow DEF Started
<1>2. worker[p].snap = job[Msg(p).job]
  BY <1>1 DEF LocalInv, WorkInv, WorkFits, Snapped, SnapshotFits
<1>3. \A a \in AttemptNumbers : attempt[Msg(p).job][a].status = "none"
  BY <1>1 DEF LocalInv, JobsInv, JobFits
<1> QED
  BY <1>1, <1>2, <1>3 DEF RowFits

\* The check of WorkerRuntime.handle.
LEMMA WorkChecks ==
    ASSUME LocalInv, Next, NEW p \in Dispatcher, Check(p)
    PROVE  WorkFits(p)'
<1> DEFINE verdict == HandleVerdict(Msg(p), worker[p].snap, attempt[Msg(p).job][Msg(p).attempt])
<1>1. /\ worker[p].pc = "check"
      /\ UNCHANGED <<job, attempt, calls, dispatch>>
      /\ worker' = [worker EXCEPT ![p] = IF verdict = "handled"
                                         THEN [worker[p] EXCEPT !.pc = "claim"]
                                         ELSE Ended(p, verdict)]
  BY DEF Check, outboxVars
<1>2. Msg(p).job \in Job /\ Msg(p).attempt \in AttemptNumbers /\ RowFits(Msg(p))
  BY <1>1, MessageRow
<1>3. CASE verdict = "handled"
  <2>1. worker[p] \in WorkerStates /\ worker'[p] = [worker[p] EXCEPT !.pc = "claim"]
    BY <1>1, <1>3, Tables DEF LocalInv
  <2>2. worker'[p].pc = "claim" /\ worker'[p].msg = worker[p].msg /\ worker'[p].snap = worker[p].snap
    BY <2>1 DEF WorkerStates
  <2>3. worker'[p].msg \in Created' /\ Msg(p)' = Msg(p) /\ Linked(p)'
    BY <1>1, <2>2, MessageKept, BatchStep DEF Msg
  <2>4. SnapshotFits(p)'
    <3>1. SnapshotFits(p)
      BY <1>1 DEF LocalInv, WorkInv, WorkFits, Snapped
    <3> QED
      BY <1>1, <2>2, <2>3, <3>1 DEF SnapshotFits
  <2>5. Msg(p).attempt <= MaxAttempts
    <3>1. CASE attempt[Msg(p).job][Msg(p).attempt].status # "none"
      <4>1. Msg(p).attempt # MaxAttempts + 1
        BY <1>2, <3>1 DEF LocalInv, JobsInv, JobFits
      <4> QED
        BY <1>2, <4>1, Numbers
    <3>2. CASE attempt[Msg(p).job][Msg(p).attempt].status = "none"
      <4>1. ~(Msg(p).attempt > MaxAttempts)
        BY <1>3, <3>2 DEF HandleVerdict
      <4> QED
        BY <1>2, <4>1, Numbers
    <3> QED
      BY <3>1, <3>2
  <2> QED
    BY <2>2, <2>3, <2>4, <2>5 DEF WorkFits, Snapped, Holds, Calling, Linked
<1>4. CASE verdict # "handled"
  <2>1. worker' = [worker EXCEPT ![p] = Ended(p, verdict)]
    BY <1>1, <1>4
  <2>2. verdict \notin RepeatedDelivery \cup {"raised"} => Started(Msg(p).job)
    <3>1. SUFFICES ASSUME ~Started(Msg(p).job)
                   PROVE  verdict \in {"raised", "handled"}
      BY <1>4
    <3>2. /\ worker[p].snap.status = "queued" /\ worker[p].snap.stage = Msg(p).stage
          /\ attempt[Msg(p).job][Msg(p).attempt].status = "none"
      BY <1>1, <1>2, <3>1, QueuedKnown
    <3> QED
      BY <3>2 DEF HandleVerdict, Terminal, TerminalStatuses
  <2> QED
    BY <1>1, <2>1, <2>2, WorkDone
<1> QED
  BY <1>3, <1>4

\* What a claim hands to the handler.
LEMMA AfterClaimed ==
    ASSUME TypeOK, NEW p \in Dispatcher, NEW version,
           worker' = [worker EXCEPT ![p] = AfterClaim(p, version)]
    PROVE  LET known == Msg(p).stage = "video_submit" /\ worker[p].snap.task
           IN  /\ worker'[p].msg = worker[p].msg
               /\ worker'[p].snap = worker[p].snap
               /\ worker'[p].ver = version
               /\ known => worker'[p].pc = "persist" /\ worker'[p].res = "known"
               /\ ~known => worker'[p].pc = "call"
<1>1. worker[p] \in WorkerStates /\ worker'[p] = AfterClaim(p, version)
  BY Tables
<1>2. CASE Msg(p).stage = "video_submit" /\ worker[p].snap.task
  <2>1. worker'[p] = [worker[p] EXCEPT !.pc = "persist", !.ver = version, !.res = "known"]
    BY <1>1, <1>2 DEF AfterClaim
  <2>2. ASSUME NEW w \in WorkerStates,
               NEW next, next = [w EXCEPT !.pc = "persist", !.ver = version, !.res = "known"]
        PROVE  /\ next.msg = w.msg /\ next.snap = w.snap
               /\ next.ver = version /\ next.pc = "persist" /\ next.res = "known"
    BY <2>2 DEF WorkerStates
  <2>3. /\ worker'[p].msg = worker[p].msg /\ worker'[p].snap = worker[p].snap
        /\ worker'[p].ver = version /\ worker'[p].pc = "persist" /\ worker'[p].res = "known"
    BY <1>1, <2>1, <2>2
  <2> QED
    BY <1>2, <2>3
<1>3. CASE ~(Msg(p).stage = "video_submit" /\ worker[p].snap.task)
  <2>1. worker'[p] = [worker[p] EXCEPT !.pc = "call", !.ver = version]
    BY <1>1, <1>3 DEF AfterClaim
  <2>2. ASSUME NEW w \in WorkerStates, NEW next, next = [w EXCEPT !.pc = "call", !.ver = version]
        PROVE  next.msg = w.msg /\ next.snap = w.snap /\ next.ver = version /\ next.pc = "call"
    BY <2>2 DEF WorkerStates
  <2>3. /\ worker'[p].msg = worker[p].msg /\ worker'[p].snap = worker[p].snap
        /\ worker'[p].ver = version /\ worker'[p].pc = "call"
    BY <1>1, <2>1, <2>2
  <2> QED
    BY <1>3, <2>3
<1> QED
  BY <1>2, <1>3

\* A worker past its claim, given what the claim established.
LEMMA WorkHolds ==
    ASSUME LocalInv, Next, NEW p \in Dispatcher, NEW j \in Job, j = Msg(p).job,
           NEW version \in Nat, worker[p].pc = "claim",
           worker' = [worker EXCEPT ![p] = AfterClaim(p, version)],
           Started(j)', version <= job'[j].version,
           attempt'[j][Msg(p).attempt].status = "running",
           Msg(p).stage \in {"image_generate", "video_submit"} =>
              \/ Msg(p).stage = "video_submit" /\ worker[p].snap.task
              \/ job'[j].status = "running" /\ calls'[j] = 0 /\ Spent(j)'
    PROVE  WorkFits(p)'
<1> DEFINE known == Msg(p).stage = "video_submit" /\ worker[p].snap.task
<1>1. /\ worker'[p].msg = worker[p].msg /\ worker'[p].snap = worker[p].snap
      /\ worker'[p].ver = version
      /\ known => worker'[p].pc = "persist" /\ worker'[p].res = "known"
      /\ ~known => worker'[p].pc = "call"
  BY AfterClaimed DEF LocalInv
<1>2. /\ worker'[p].msg \in Created' /\ Linked(p)' /\ Msg(p)'.job = j
      /\ Msg(p)'.stage = Msg(p).stage /\ Msg(p)'.attempt = Msg(p).attempt
  BY <1>1, MessageKept, BatchStep
<1>3. SnapshotFits(p) /\ Msg(p).attempt <= MaxAttempts
  BY DEF LocalInv, WorkInv, WorkFits, Snapped
<1>4. /\ Forward(j) /\ job[j].status # "absent" /\ job[j].version \in Nat /\ job'[j].version \in Nat
      /\ worker[p].snap.version \in Nat
  BY MessageRow, RowForward, Tables DEF LocalInv, Forward, JobRows, WorkerStates
<1>5. SnapshotFits(p)'
  BY <1>1, <1>2, <1>3, <1>4 DEF SnapshotFits, Forward
<1>6. HolderFits(p)'
  BY <1>1, <1>2 DEF HolderFits, Started
<1>7. Calling(p)' => CallFits(p)'
  BY <1>1, <1>2 DEF Calling, CallFits, Spent
<1>8. worker'[p].pc = "persist" => ResultFits(p)'
  BY <1>1, <1>2 DEF ResultFits
<1> QED
  BY <1>1, <1>2, <1>3, <1>5, <1>6, <1>7, <1>8 DEF WorkFits, Linked

\* The claim transaction.
LEMMA WorkClaims ==
    ASSUME LocalInv, Next, NEW p \in Dispatcher, Claim(p)
    PROVE  WorkFits(p)'
<1>1. worker[p].pc = "claim" /\ UNCHANGED <<calls, dispatch>>
  BY DEF Claim, outboxVars
<1>2. PICK j \in Job : j = Msg(p).job
  BY <1>1, MessageRow
<1>3. /\ Msg(p).attempt \in AttemptNumbers /\ RowFits(Msg(p)) /\ Msg(p).attempt \in Nat
      /\ job \in [Job -> JobRows] /\ job[j] \in JobRows /\ job[j].version \in Nat
      /\ worker[p].snap.version \in Nat /\ SnapshotFits(p) /\ calls[j] \in Nat
  BY <1>1, MessageRow, Numbers, Tables
     DEF LocalInv, JobRows, WorkerStates, WorkInv, WorkFits, Snapped
<1> DEFINE verdict == ClaimVerdict(Msg(p), worker[p].snap, attempt[j], job[j])
<1>4. CASE verdict = "claimed"
  <2>1. Takes(p, j)
    BY <1>2, <1>4 DEF Takes
  <2>2. /\ Active(job[j])
        /\ Msg(p).stage \in Stages
        /\ attempt[j][Msg(p).attempt].status = "none"
        /\ job' = [job EXCEPT ![j] = Transitioned(job[j], "running", job[j].stage, FALSE)]
        /\ attempt' = [attempt EXCEPT ![j] = WithAttempt(attempt[j], Msg(p).attempt, Msg(p).stage)]
        /\ worker' = [worker EXCEPT ![p] = AfterClaim(p, job[j].version + 1)]
    BY <2>1, TakesRows
  <2>3. job'[j].status = "running" /\ job'[j].version = job[j].version + 1
    BY <1>3, <2>2 DEF Transitioned
  <2>4. attempt'[j][Msg(p).attempt].status = "running"
    <3>1. /\ attempt[j] \in [AttemptNumbers -> AttemptRows]
          /\ attempt'[j] = WithAttempt(attempt[j], Msg(p).attempt, Msg(p).stage)
      BY <2>2, Tables DEF LocalInv
    <3> QED
      BY <1>3, <2>2, <3>1, AttemptTaken
  <2>5. ASSUME Msg(p).stage \in {"image_generate", "video_submit"},
               ~(Msg(p).stage = "video_submit" /\ worker[p].snap.task)
        PROVE  calls'[j] = 0 /\ Spent(j)'
    <3>1. Msg(p).attempt = 1
      <4>1. CASE Msg(p).stage = "image_generate"
        BY <1>3, <4>1 DEF RowFits
      <4>2. CASE Msg(p).stage = "video_submit"
        <5>1. ~(Msg(p).attempt > 1)
          BY <1>3, <2>5, <4>2 DEF SnapshotFits
        <5> QED
          BY <1>3, <5>1, Numbers
      <4> QED
        BY <2>5, <4>1, <4>2
    <3>2. ~Spent(j)
      BY <2>2, <3>1 DEF Spent, Active, ActiveStatuses
    <3>3. calls[j] = 0
      BY <3>2 DEF LocalInv, JobsInv, JobFits
    <3> QED
      BY <1>1, <2>4, <3>1, <3>3 DEF Spent
  <2>6. job[j].version + 1 \in Nat /\ job[j].version + 1 <= job'[j].version
    BY <1>3, <2>3
  <2>7. Started(j)'
    BY <2>3 DEF Started
  <2> QED
    BY <1>1, <1>2, <2>2, <2>3, <2>4, <2>5, <2>6, <2>7, WorkHolds
<1>5. CASE verdict = "resumed"
  <2>1. /\ worker' = [worker EXCEPT ![p] = AfterClaim(p, worker[p].snap.version)]
        /\ UNCHANGED <<job, attempt>>
    BY <1>2, <1>5 DEF Claim
  <2>2. /\ KindOf[j] = "video" /\ attempt[j][Msg(p).attempt].status = "running"
        /\ Resumable(Msg(p).stage, worker[p].snap)
    BY <1>2, <1>5 DEF ClaimVerdict, Repeated
  <2>3. Started(j)
    BY <1>3, <2>2 DEF LocalInv, JobsInv, JobFits
  <2>4. worker[p].snap.version <= job[j].version
    BY <1>2, <1>3 DEF SnapshotFits
  <2>5. Msg(p).stage # "image_generate"
    BY <1>2, <1>3, <2>2 DEF RowFits
  <2>6. Msg(p).stage = "video_submit" => worker[p].snap.task
    BY <2>2 DEF Resumable
  <2>7. Started(j)' /\ attempt'[j][Msg(p).attempt].status = "running"
    BY <2>1, <2>2, <2>3 DEF Started
  <2>8. worker[p].snap.version <= job'[j].version
    BY <2>1, <2>4
  <2> QED
    BY <1>1, <1>2, <1>3, <2>1, <2>5, <2>6, <2>7, <2>8, WorkHolds
<1>6. CASE verdict \notin {"claimed", "resumed"}
  <2>1. worker' = [worker EXCEPT ![p] = Ended(p, verdict)]
    BY <1>2, <1>6 DEF Claim
  <2>2. verdict \notin RepeatedDelivery \cup {"raised"} => Started(Msg(p).job)
    <3>1. SUFFICES ASSUME ~Started(Msg(p).job)
                   PROVE  verdict \in RepeatedDelivery \cup {"claimed"}
      BY <1>6
    <3>2. /\ worker[p].snap = job[j] /\ job[j].status = "queued"
          /\ job[j].stage = Msg(p).stage
          /\ \A a \in AttemptNumbers : attempt[j][a].status = "none"
      BY <1>1, <1>2, <3>1, QueuedKnown
    <3>3. ~RunningStageAttempt(attempt[j], Msg(p).stage)
      BY <3>2 DEF RunningStageAttempt
    <3>4. CanClaim(job[j], worker[p].snap.version, Msg(p).stage, KindOf[j] = "video")
      BY <3>2 DEF CanClaim, ActiveStatuses
    <3> QED
      BY <1>2, <1>3, <3>2, <3>3, <3>4 DEF ClaimVerdict
  <2> QED
    BY <1>1, <2>1, <2>2, WorkDone
<1> QED
  BY <1>4, <1>5, <1>6

\* A worker past its claim that goes on without touching the tables.
LEMMA HoldsOn ==
    ASSUME LocalInv, Next, NEW p \in Dispatcher, Holds(p), Holds(p)',
           UNCHANGED <<job, attempt, dispatch>>,
           worker'[p].msg = worker[p].msg, worker'[p].snap = worker[p].snap,
           worker'[p].ver = worker[p].ver, ~Calling(p)',
           worker'[p].pc = "persist" => ResultFits(p)',
           worker'[p].pc = "recover" => Msg(p).stage = "video_submit" /\ calls'[Msg(p).job] = 1
    PROVE  WorkFits(p)'
<1>1. worker[p].pc # "idle" /\ Snapped(p) /\ Snapped(p)' /\ worker'[p].pc # "done"
  BY DEF Holds, Snapped
<1>2. worker'[p].msg \in Created' /\ Linked(p)' /\ Msg(p)' = Msg(p)
  BY <1>1, MessageKept, BatchStep DEF Msg
<1>3. SnapshotFits(p) /\ HolderFits(p) /\ Msg(p).attempt <= MaxAttempts
  BY <1>1 DEF LocalInv, WorkInv, WorkFits
<1>4. SnapshotFits(p)' /\ HolderFits(p)'
  BY <1>2, <1>3 DEF SnapshotFits, HolderFits, Started
<1> QED
  BY <1>1, <1>2, <1>3, <1>4 DEF WorkFits, Linked

\* The provider call.
LEMMA WorkCalls ==
    ASSUME LocalInv, Next, NEW p \in Dispatcher, ProviderCall(p)
    PROVE  WorkFits(p)'
<1>1. PICK res \in CallResults(Msg(p).stage, Msg(p).attempt) :
        /\ worker[p].pc = "call"
        /\ UNCHANGED <<job, attempt, dispatch>>
        /\ worker' = [worker EXCEPT ![p].pc = "persist", ![p].res = res]
        /\ calls' = IF Billable(Msg(p).stage, res)
                    THEN [calls EXCEPT ![Msg(p).job] = @ + 1] ELSE calls
  BY DEF ProviderCall, outboxVars
<1>2. PICK j \in Job : j = Msg(p).job /\ RowFits(Msg(p)) /\ Msg(p).attempt \in Nat
  BY <1>1, MessageRow, Numbers
<1>3. worker[p] \in WorkerStates /\ worker \in [Dispatcher -> WorkerStates] /\ calls \in [Job -> Nat]
  BY Tables DEF LocalInv
<1>4. /\ worker'[p].msg = worker[p].msg /\ worker'[p].snap = worker[p].snap
      /\ worker'[p].ver = worker[p].ver /\ worker'[p].pc = "persist" /\ worker'[p].res = res
  BY <1>1, <1>3 DEF WorkerStates
<1>5. Msg(p)' = Msg(p)
  BY <1>1, <1>4 DEF Msg
<1>6. /\ Msg(p).stage = "video_poll" /\ res \in {"pending", "completed"} => Msg(p).attempt < MaxAttempts
      /\ ~(Msg(p).stage = "video_submit" /\ res = "known")
  <2>1. CASE Msg(p).stage = "video_poll"
    BY <1>1, <1>2, <2>1, Numbers DEF CallResults, PollResults, Exhausted
  <2>2. CASE Msg(p).stage = "video_submit"
    BY <1>1, <2>2 DEF CallResults, SubmitResults
  <2> QED
    BY <2>1, <2>2
<1>7. Msg(p).stage \in {"image_generate", "video_submit"} /\ res = "ok" => calls'[j] = 1
  <2>1. SUFFICES ASSUME Msg(p).stage \in {"image_generate", "video_submit"}, res = "ok"
                 PROVE  calls'[j] = 1
    OBVIOUS
  <2>2. calls[j] = 0
    BY <1>1, <1>2, <2>1 DEF LocalInv, WorkInv, WorkFits, Calling, CallFits
  <2>3. Billable(Msg(p).stage, res)
    BY <2>1 DEF Billable
  <2> QED
    BY <1>1, <1>2, <1>3, <2>2, <2>3
<1>8. ResultFits(p)'
  BY <1>2, <1>4, <1>5, <1>6, <1>7 DEF ResultFits
<1> QED
  BY <1>1, <1>4, <1>8, HoldsOn DEF Holds, Calling

\* The persisting transactions and the saving of a task id end the handler.
LEMMA WorkPersists ==
    ASSUME LocalInv, Next, NEW p \in Dispatcher, Persist(p) \/ RecordSubmittedRecovery(p)
    PROVE  WorkFits(p)'
<1>1. Holds(p) /\ worker[p].pc # "idle"
  BY DEF Persist, RecordSubmittedRecovery, Holds
<1>2. Started(Msg(p).job)
  BY <1>1 DEF LocalInv, WorkInv, WorkFits, HolderFits
<1>3. \E verdict : worker' = [worker EXCEPT ![p] = Ended(p, verdict)]
  BY DEF Persist, RecordSubmittedRecovery
<1> QED
  BY <1>1, <1>2, <1>3, WorkDone

\* A database error in the handler.
LEMMA WorkErrs ==
    ASSUME LocalInv, Next, NEW p \in Dispatcher, DatabaseError(p)
    PROVE  WorkFits(p)'
<1> DEFINE stage == Msg(p).stage
           res == worker[p].res
<1>1. /\ worker[p].pc \in {"check", "claim", "persist", "recover"} /\ worker[p].pc # "idle"
      /\ UNCHANGED <<job, attempt, calls, dispatch>>
      /\ worker[p] \in WorkerStates /\ worker \in [Dispatcher -> WorkerStates]
  BY Tables DEF DatabaseError, outboxVars, LocalInv
<1>2. \/ /\ worker[p].pc = "persist" /\ stage \in {"image_generate", "asset_import"}
         /\ worker' = [worker EXCEPT ![p] = [worker[p] EXCEPT !.res = "error"]]
      \/ /\ worker[p].pc = "persist" /\ stage = "video_submit" /\ res = "ok"
         /\ worker' = [worker EXCEPT ![p] = [worker[p] EXCEPT !.pc = "recover"]]
      \/ worker' = [worker EXCEPT ![p] = Ended(p, "raised")]
  BY DEF DatabaseError
<1>3. ASSUME worker[p].pc = "persist", stage \in {"image_generate", "asset_import"},
             worker' = [worker EXCEPT ![p] = [worker[p] EXCEPT !.res = "error"]]
      PROVE  WorkFits(p)'
  <2>1. /\ worker'[p].msg = worker[p].msg /\ worker'[p].snap = worker[p].snap
        /\ worker'[p].ver = worker[p].ver /\ worker'[p].pc = "persist" /\ worker'[p].res = "error"
    BY <1>1, <1>3 DEF WorkerStates
  <2>2. ResultFits(p)'
    BY <2>1 DEF ResultFits
  <2> QED
    BY <1>1, <1>3, <2>1, <2>2, HoldsOn DEF Holds, Calling
<1>4. ASSUME worker[p].pc = "persist", stage = "video_submit", res = "ok",
             worker' = [worker EXCEPT ![p] = [worker[p] EXCEPT !.pc = "recover"]]
      PROVE  WorkFits(p)'
  <2>1. /\ worker'[p].msg = worker[p].msg /\ worker'[p].snap = worker[p].snap
        /\ worker'[p].ver = worker[p].ver /\ worker'[p].pc = "recover"
    BY <1>1, <1>4 DEF WorkerStates
  <2>2. calls[Msg(p).job] = 1
    BY <1>4 DEF LocalInv, WorkInv, WorkFits, ResultFits
  <2> QED
    BY <1>1, <1>4, <2>1, <2>2, HoldsOn DEF Holds, Calling
<1>5. ASSUME worker' = [worker EXCEPT ![p] = Ended(p, "raised")]
      PROVE  WorkFits(p)'
  BY <1>1, <1>5, WorkDone
<1> QED
  BY <1>2, <1>3, <1>4, <1>5

\* The recovery reads the job again.
LEMMA WorkRecovers ==
    ASSUME LocalInv, Next, NEW p \in Dispatcher, RecoveryRead(p)
    PROVE  WorkFits(p)'
<1>1. /\ worker[p].pc = "done" /\ Active(job[Msg(p).job])
      /\ worker' = [worker EXCEPT ![p].pc = "decide", ![p].snap = job[Msg(p).job]]
      /\ UNCHANGED <<job, dispatch>>
      /\ worker[p] \in WorkerStates /\ worker \in [Dispatcher -> WorkerStates]
  BY Tables DEF RecoveryRead, NothingToRecover, outboxVars, LocalInv
<1>2. PICK j \in Job : j = Msg(p).job /\ RowFits(Msg(p)) /\ Msg(p).attempt \in Nat
  BY <1>1, MessageRow, Numbers
<1>3. /\ worker'[p].msg = worker[p].msg /\ worker'[p].snap = job[j] /\ worker'[p].pc = "decide"
  BY <1>1, <1>2 DEF WorkerStates
<1>4. worker'[p].msg \in Created' /\ Linked(p)' /\ Msg(p)' = Msg(p)
  BY <1>1, <1>3, MessageKept, BatchStep DEF Msg
<1>5. Exists(job[j]) /\ job[j].version \in Nat
  BY <1>1, <1>2, Tables DEF Active, Exists, ActiveStatuses, ValidStatuses, LocalInv, JobRows
<1>6. SnapshotFits(p)'
  BY <1>1, <1>2, <1>3, <1>4, <1>5 DEF SnapshotFits, RowFits
<1> QED
  BY <1>3, <1>4, <1>6 DEF WorkFits, Snapped, Holds, Calling, Linked

\* Every step keeps the process in order.
LEMMA WorkFit ==
    ASSUME LocalInv, Next
    PROVE  WorkInv'
<1>1. SUFFICES ASSUME NEW p \in Dispatcher
               PROVE  WorkFits(p)'
  BY DEF WorkInv
<1>2. worker \in [Dispatcher -> WorkerStates] /\ \A q \in Dispatcher : q = p
  BY Tables, OneProcess DEF LocalInv
<1>3. ASSUME worker' = [worker EXCEPT ![p] = IdleWorker]
      PROVE  WorkFits(p)'
  BY <1>2, <1>3, WorkIdle
<1>4. CASE UNCHANGED worker
  BY <1>4, WorkStays
<1>5. ASSUME NEW j \in Job, Admit(j, {}) \/ CleanupJob(j) \/ ApiStep(j)
      PROVE  UNCHANGED worker
  BY <1>5 DEF Admit, CleanupJob, ApiStep, ApiPoll, ApiMark, ApiMarkStale, ApiSaveAsset, workVars
<1>6. CASE \E q \in Dispatcher : ProcessStep(q)
  <2>1. ProcessStep(p)
    BY <1>2, <1>6
  <2>2. CASE WorkerStep(p)
    BY <2>2, WorkChecks, WorkClaims, WorkCalls, WorkPersists DEF WorkerStep
  <2>3. CASE LocalReturn(p) \/ ScheduleRetry(p) \/ FailTerminal(p) \/ RecoveryRefused(p)
    BY <1>3, <2>3 DEF LocalReturn, ScheduleRetry, FailTerminal, RecoveryRefused, PublishReturns
  <2> QED
    BY <1>4, <2>1, <2>2, <2>3, WorkStarts, WorkRecovers DEF ProcessStep, workVars
<1>7. CASE Fault
  <2>1. \/ DatabaseError(p) \/ RecoveryError(p) \/ ProcessCrash(p) \/ ClaimedEventError(p)
        \/ MarkFails(p) /\ UNCHANGED workVars
    BY <1>2, <1>7 DEF Fault
  <2> QED
    BY <1>3, <1>4, <2>1, WorkErrs DEF RecoveryError, ProcessCrash, ClaimedEventError, workVars
<1> QED
  BY <1>4, <1>5, <1>6, <1>7, NoRequeue DEF Next, workVars

-----------------------------------------------------------------------------
(***************************************************************************)
(* The records of a job and its running attempt                            *)
(***************************************************************************)
\* The history rows change with a persisting transaction, a cleanup or the
\* asset a client's poll saves after its mark.
LEMMA RecordStep ==
    ASSUME LocalInv, Next, NEW j \in Job
    PROVE  \/ /\ generation'[j] = generation[j]
              /\ asset'[j] => asset[j] \/ api[j].pc = "saving"
           \/ CleanupJob(j)
           \/ \E p \in Dispatcher : Settles(p, j)
<1>1. generation \in [Job -> BOOLEAN] /\ asset \in [Job -> BOOLEAN]
  BY Tables DEF LocalInv
<1> DEFINE Same == /\ generation'[j] = generation[j]
                   /\ asset'[j] => asset[j] \/ api[j].pc = "saving"
<1>2. CASE UNCHANGED <<generation, asset>>
  BY <1>2
<1>3. ASSUME NEW i \in Job, CleanupJob(i)
      PROVE  Same \/ i = j
  BY <1>1, <1>3 DEF CleanupJob
<1>4. ASSUME NEW p \in Dispatcher, Persist(p)
      PROVE  Same \/ Settles(p, j)
  BY <1>1, <1>4 DEF Persist, Settles, OutcomeOf
<1>5. ASSUME NEW i \in Job, ApiStep(i)
      PROVE  Same
  <2>1. CASE ApiSaveAsset(i)
    BY <1>1, <2>1 DEF ApiSaveAsset
  <2> QED
    BY <1>2, <1>5, <2>1 DEF ApiStep, ApiPoll, ApiMark, ApiMarkStale, workVars
<1>6. ASSUME NEW p \in Dispatcher, ProcessStep(p)
      PROVE  Same \/ Settles(p, j)
  BY <1>2, <1>4, <1>6
     DEF ProcessStep, WorkerStep, Check, Claim, ProviderCall, RecordSubmittedRecovery,
         LocalPublish, LocalReturn, RecoveryRead, ScheduleRetry, FailTerminal, RecoveryRefused,
         workVars
<1>7. CASE Fault
  BY <1>2, <1>7 DEF Fault, DatabaseError, RecoveryError, ProcessCrash, ClaimedEventError, workVars
<1>8. ASSUME NEW i \in Job, Admit(i, {})
      PROVE  UNCHANGED <<generation, asset>>
  BY <1>8 DEF Admit
<1> QED
  BY <1>2, <1>3, <1>5, <1>6, <1>7, <1>8, NoRequeue DEF Next, workVars

\* A succeeded job stays so until it is deleted, and a deleted one is gone.
LEMMA SucceededOrGone ==
    ASSUME LocalInv, Next, NEW j \in Job, job[j].status \in {"succeeded", "deleted"}
    PROVE  job'[j].status \in {"succeeded", "deleted"}
<1>1. job \in [Job -> JobRows] /\ job[j] \in JobRows
  BY Tables DEF LocalInv
<1>2. ~Admit(j, {})
  BY DEF Admit
<1>3. CASE CleanupJob(j)
  BY <1>1, <1>3 DEF CleanupJob, JobRows
<1>4. CASE Moved(j)
  <2>1. PICK status \in {"running", "succeeded", "failed"}, stage \in Stages, task \in BOOLEAN :
          /\ Exists(job[j])
          /\ status \in StatusTransitions[job[j].status]
          /\ job' = [job EXCEPT ![j] = Transitioned(job[j], status, stage, task)]
    BY <1>4, MovedTransits DEF Transits
  <2>2. job[j].status = "succeeded" /\ job'[j].status = status
    BY <1>1, <2>1 DEF Exists, ValidStatuses, ActiveStatuses, TerminalStatuses, Transitioned
  <2>3. status = "succeeded"
    BY <2>1, <2>2 DEF StatusTransitions
  <2> QED
    BY <2>2, <2>3
<1> QED
  BY <1>2, <1>3, <1>4, JobStep DEF Moved, MovedBy

\* A poll goes on to save its asset only by a mark that succeeded.
LEMMA SavingStep ==
    ASSUME LocalInv, Next, NEW j \in Job, api'[j].pc = "saving"
    PROVE  api[j].pc = "saving" \/ (Marks(j) /\ api[j].pc = "localized")
<1>1. api \in [Job -> ApiStates]
  BY Tables DEF LocalInv
<1>2. CASE UNCHANGED api
  BY <1>2
<1>3. ASSUME NEW i \in Job, ApiPoll(i)
      PROVE  api[j].pc = "saving"
  BY <1>1, <1>3 DEF ApiPoll
<1>4. ASSUME NEW i \in Job, ApiMark(i)
      PROVE  api[j].pc = "saving" \/ (Marks(j) /\ api[j].pc = "localized")
  <2> DEFINE legal == CanTransition(KindOf[i], job[i], job[i].version,
                                    ApiStatus(api[i].pc), "finalize")
             pc == IF legal /\ api[i].pc = "localized" THEN "saving" ELSE "idle"
  <2>1. api' = [api EXCEPT ![i].pc = pc]
    BY <1>4 DEF ApiMark
  <2>2. i # j => api'[j] = api[j]
    BY <1>1, <2>1
  <2>3. i = j => api'[j].pc = pc
    BY <1>1, <2>1 DEF ApiStates
  <2> QED
    BY <1>4, <2>2, <2>3 DEF Marks
<1>5. ASSUME NEW i \in Job, ApiMarkStale(i) \/ ApiSaveAsset(i)
      PROVE  api[j].pc = "saving"
  BY <1>1, <1>5 DEF ApiMarkStale, ApiSaveAsset, ApiStates
<1>6. ASSUME NEW i \in Job, ApiStep(i)
      PROVE  api[j].pc = "saving" \/ (Marks(j) /\ api[j].pc = "localized")
  BY <1>3, <1>4, <1>5, <1>6 DEF ApiStep
<1> QED
  BY <1>2, <1>6 DEF Next, Fault

\* A job whose asset is about to be saved has succeeded, or is gone by then.
LEMMA SavingKept ==
    ASSUME LocalInv, Next
    PROVE  SavingFits'
<1>1. SUFFICES ASSUME NEW j \in Job, api'[j].pc = "saving"
               PROVE  job'[j].status \in {"succeeded", "deleted"}
  BY DEF SavingFits
<1>2. CASE api[j].pc = "saving"
  BY <1>2, SucceededOrGone DEF LocalInv, SavingFits
<1>3. CASE Marks(j) /\ api[j].pc = "localized"
  <2>1. job' = [job EXCEPT ![j] = Transitioned(job[j], "succeeded", "finalize", FALSE)]
    BY <1>3, MarksRows DEF ApiStatus
  <2>2. job \in [Job -> JobRows]
    BY Tables DEF LocalInv
  <2> QED
    BY <2>1, <2>2 DEF Transitioned
<1> QED
  BY <1>1, <1>2, <1>3, SavingStep

\* A job that stays succeeded, or is not succeeded, keeps its records; the
\* transaction that makes it succeeded writes them.
LEMMA RecordsFit ==
    ASSUME LocalInv, Next
    PROVE  RecordsMatchOutcome'
<1>1. SUFFICES ASSUME NEW j \in Job
               PROVE  /\ generation'[j] => job'[j].status = "succeeded"
                      /\ KindOf[j] = "image" /\ job'[j].status = "succeeded" => generation'[j]
                      /\ asset'[j] => job'[j].status \in {"succeeded", "deleted"}
  BY DEF RecordsMatchOutcome
<1>2. /\ generation[j] => job[j].status = "succeeded"
      /\ KindOf[j] = "image" /\ job[j].status = "succeeded" => generation[j]
      /\ asset[j] => job[j].status \in {"succeeded", "deleted"}
      /\ api[j].pc = "saving" => job[j].status \in {"succeeded", "deleted"}
  BY DEF LocalInv, RecordsMatchOutcome, SavingFits
<1>3. /\ generation \in [Job -> BOOLEAN] /\ asset \in [Job -> BOOLEAN]
      /\ job \in [Job -> JobRows] /\ job[j] \in JobRows
  BY Tables DEF LocalInv
<1>4. CASE CleanupJob(j)
  <2>1. ~generation'[j] /\ job'[j].status = "deleted"
    BY <1>3, <1>4 DEF CleanupJob, JobRows
  <2> QED
    BY <2>1
<1>5. CASE \E p \in Dispatcher : Settles(p, j)
  <2>1. PICK p \in Dispatcher : Settles(p, j)
    BY <1>5
  <2>2. /\ worker[p].pc = "persist" /\ Msg(p).job = j
        /\ CanTransition(KindOf[j], job[j], worker[p].ver, OutcomeOf(p).status, OutcomeOf(p).stage)
        /\ job' = [job EXCEPT ![j] = Transitioned(job[j], OutcomeOf(p).status, OutcomeOf(p).stage,
                                                  OutcomeOf(p).status = "running")]
        /\ generation' = [generation EXCEPT ![j] = @ \/ OutcomeOf(p).status = "succeeded"]
        /\ \E saved \in SavedAssets(OutcomeOf(p).status) :
             asset' = [asset EXCEPT ![j] = @ \/ saved]
    BY <2>1, SettlesRows DEF Settles
  <2>3. job'[j].status = OutcomeOf(p).status
    BY <1>3, <2>2 DEF Transitioned
  <2>4. job[j].status = "succeeded" => OutcomeOf(p).status = "succeeded"
    BY <2>2 DEF CanTransition, StatusTransitions
  <2>5. generation'[j] <=> generation[j] \/ OutcomeOf(p).status = "succeeded"
    BY <1>3, <2>2
  <2>6. asset'[j] => asset[j] \/ OutcomeOf(p).status = "succeeded"
    BY <1>3, <2>2 DEF SavedAssets
  <2>7. asset[j] => job'[j].status \in {"succeeded", "deleted"}
    BY <1>2, SucceededOrGone
  <2> QED
    BY <1>2, <2>3, <2>4, <2>5, <2>6, <2>7
<1>6. ASSUME generation'[j] = generation[j],
             ~CleanupJob(j), \A p \in Dispatcher : ~Settles(p, j)
      PROVE  job'[j].status = job[j].status \/ (~generation[j] /\ (KindOf[j] = "image" => job'[j].status # "succeeded"))
  <2>1. CASE Admit(j, {})
    BY <1>2, <1>3, <2>1, InsertedType DEF Admit
  <2>2. ASSUME NEW status \in {"running", "failed"}, NEW stage, NEW task, NEW version,
               CanTransition(KindOf[j], job[j], version, status, stage),
               job' = [job EXCEPT ![j] = Transitioned(job[j], status, stage, task)]
        PROVE  ~generation[j] /\ job'[j].status # "succeeded"
    BY <1>2, <1>3, <2>2 DEF CanTransition, StatusTransitions, Transitioned
  <2>3. ASSUME NEW p \in Dispatcher, Takes(p, j)
        PROVE  ~generation[j] /\ job'[j].status # "succeeded"
    <3>1. /\ Active(job[j])
          /\ job' = [job EXCEPT ![j] = Transitioned(job[j], "running", job[j].stage, FALSE)]
      BY <2>3, TakesRows
    <3> QED
      BY <1>2, <1>3, <3>1 DEF Active, ActiveStatuses, Transitioned
  <2>4. ASSUME NEW p \in Dispatcher, Saves(p, j)
        PROVE  ~generation[j] /\ job'[j].status # "succeeded"
    BY <2>2, <2>4, SavesRows
  <2>5. ASSUME NEW p \in Dispatcher, Retries(p, j)
        PROVE  ~generation[j] /\ job'[j].status # "succeeded"
    <3>1. /\ CanTransition(KindOf[j], job[j], worker[p].snap.version, "running", Msg(p).stage)
          /\ job' = [job EXCEPT ![j] = Transitioned(job[j], "running", Msg(p).stage, FALSE)]
      BY <2>5, RetriesRows
    <3> QED
      BY <2>2, <3>1
  <2>6. ASSUME NEW p \in Dispatcher, GivesUp(p, j)
        PROVE  ~generation[j] /\ job'[j].status # "succeeded"
    BY <2>2, <2>6, GivesUpRows
  <2>7. ASSUME Marks(j)
        PROVE  job'[j].status = job[j].status \/ (~generation[j] /\ KindOf[j] # "image")
    <3>1. /\ KindOf[j] # "image"
      BY <2>7, MarksRows DEF LocalInv, JobsInv, JobFits
    <3>2. /\ ApiStatus(api[j].pc) \in StatusTransitions[job[j].status]
          /\ job' = [job EXCEPT ![j] = Transitioned(job[j], ApiStatus(api[j].pc), "finalize", FALSE)]
      BY <2>7, MarksRows DEF CanTransition
    <3>3. job'[j].status = ApiStatus(api[j].pc)
      BY <1>3, <3>2 DEF Transitioned
    <3>4. ASSUME job[j].status = "succeeded"
          PROVE  job'[j].status = "succeeded"
      <4>1. ApiStatus(api[j].pc) \in StatusTransitions["succeeded"]
        BY <3>2, <3>4
      <4> QED
        BY <3>3, <4>1 DEF StatusTransitions
    <3> QED
      BY <1>2, <3>1, <3>4
  <2> QED
    BY <1>6, <2>1, <2>3, <2>4, <2>5, <2>6, <2>7, JobStep
<1>7. CASE ~CleanupJob(j) /\ \A p \in Dispatcher : ~Settles(p, j)
  <2>1. /\ generation'[j] = generation[j]
        /\ asset'[j] => asset[j] \/ api[j].pc = "saving"
    BY <1>7, RecordStep
  <2>2. asset'[j] => job'[j].status \in {"succeeded", "deleted"}
    BY <1>2, <2>1, SucceededOrGone
  <2> QED
    BY <1>2, <1>6, <1>7, <2>1, <2>2
<1> QED
  BY <1>4, <1>5, <1>7

\* A claim starts an attempt of the job's stage when none runs; every other
\* transaction that keeps the job active ends the attempt or keeps the stage.
LEMMA RunningFits ==
    ASSUME LocalInv, Next
    PROVE  RunningAttemptOwnsStage'
<1>1. SUFFICES ASSUME NEW j \in Job, Active(job'[j]), NEW a \in AttemptNumbers,
                      NEW b \in AttemptNumbers, attempt'[j][a].status = "running"
               PROVE  /\ attempt'[j][a].stage = job'[j].stage
                      /\ attempt'[j][b].status = "running" => a = b
  BY DEF RunningAttemptOwnsStage
<1>2. \A c, e \in AttemptNumbers : Active(job[j]) /\ attempt[j][c].status = "running" =>
        /\ attempt[j][c].stage = job[j].stage
        /\ attempt[j][e].status = "running" => c = e
  BY DEF LocalInv, RunningAttemptOwnsStage
<1>3. /\ job \in [Job -> JobRows] /\ job[j] \in JobRows
      /\ attempt \in [Job -> [AttemptNumbers -> AttemptRows]]
      /\ attempt[j] \in [AttemptNumbers -> AttemptRows]
  BY Tables DEF LocalInv
<1>4. ASSUME Active(job[j]),
             \A c \in AttemptNumbers : attempt'[j][c].status = "running" =>
               attempt[j][c].status = "running" /\ attempt'[j][c].stage = attempt[j][c].stage,
             job'[j].stage = job[j].stage
      PROVE  /\ attempt'[j][a].stage = job'[j].stage
             /\ attempt'[j][b].status = "running" => a = b
  BY <1>1, <1>2, <1>4
<1>5. CASE job'[j] = job[j] /\ attempt'[j] = attempt[j]
  BY <1>1, <1>4, <1>5
<1>6. CASE Admit(j, {})
  <2>1. job[j].status = "absent" /\ UNCHANGED attempt
    BY <1>6 DEF Admit
  <2>2. attempt[j][a].status = "none"
    BY <2>1 DEF LocalInv, JobsInv, JobFits, Started
  <2> QED
    BY <1>1, <2>1, <2>2
<1>7. CASE CleanupJob(j)
  <2>1. job'[j].status = "deleted"
    BY <1>3, <1>7 DEF CleanupJob, JobRows
  <2> QED
    BY <1>1, <2>1 DEF Active, ActiveStatuses
<1>8. ASSUME NEW p \in Dispatcher, Takes(p, j)
      PROVE  /\ attempt'[j][a].stage = job'[j].stage
             /\ attempt'[j][b].status = "running" => a = b
  <2>1. /\ Active(job[j]) /\ Msg(p).attempt \in AttemptNumbers /\ Msg(p).stage \in Stages
        /\ KindOf[j] = "video" => ~RunningStageAttempt(attempt[j], Msg(p).stage)
        /\ KindOf[j] # "video" => job[j].status = "queued"
        /\ job[j].stage = Msg(p).stage
        /\ job' = [job EXCEPT ![j] = Transitioned(job[j], "running", job[j].stage, FALSE)]
        /\ attempt' = [attempt EXCEPT ![j] = WithAttempt(attempt[j], Msg(p).attempt, Msg(p).stage)]
    BY <1>8, TakesRows
  <2>2. \A c \in AttemptNumbers : attempt[j][c].status # "running"
    <3>1. CASE KindOf[j] = "video"
      BY <1>2, <2>1, <3>1 DEF RunningStageAttempt
    <3>2. CASE KindOf[j] # "video"
      BY <2>1, <3>2 DEF LocalInv, JobsInv, JobFits, Started
    <3> QED
      BY <3>1, <3>2
  <2>3. job'[j].stage = job[j].stage
    BY <1>3, <2>1 DEF Transitioned
  <2>4. attempt'[j] = WithAttempt(attempt[j], Msg(p).attempt, Msg(p).stage)
    BY <1>3, <2>1
  <2>5. /\ attempt'[j][Msg(p).attempt].stage = Msg(p).stage
        /\ \A c \in AttemptNumbers : c # Msg(p).attempt => attempt'[j][c] = attempt[j][c]
    BY <1>3, <2>1, <2>4, AttemptTaken
  <2> QED
    BY <1>1, <2>1, <2>2, <2>3, <2>5
<1>9. ASSUME NEW c \in AttemptNumbers, NEW status \in {"succeeded", "failed"},
             attempt' = [attempt EXCEPT ![j] = WithFinished(attempt[j], c, status)]
      PROVE  /\ attempt'[j][c].status # "running"
             /\ \A e \in AttemptNumbers : attempt'[j][e].status = "running" =>
                  attempt[j][e].status = "running" /\ attempt'[j][e].stage = attempt[j][e].stage
  <2>1. attempt'[j] = WithFinished(attempt[j], c, status)
    BY <1>3, <1>9
  <2> QED
    BY <1>3, <2>1, AttemptFinished
<1>10. ASSUME NEW p \in Dispatcher, Settles(p, j)
       PROVE  FALSE
  <2>1. /\ worker[p].pc = "persist" /\ Msg(p).job = j /\ Msg(p).attempt \in AttemptNumbers
        /\ CanTransition(KindOf[j], job[j], worker[p].ver, OutcomeOf(p).status, OutcomeOf(p).stage)
        /\ job' = [job EXCEPT ![j] = Transitioned(job[j], OutcomeOf(p).status, OutcomeOf(p).stage,
                                                  OutcomeOf(p).status = "running")]
        /\ attempt' = [attempt EXCEPT ![j] =
                         WithFinished(attempt[j], Msg(p).attempt, OutcomeOf(p).attempt)]
    BY <1>10, SettlesRows DEF Settles
  <2>2. attempt[j][Msg(p).attempt].status = "running"
    BY <2>1 DEF CanTransition, LocalInv, WorkInv, WorkFits, Holds, HolderFits
  <2>3. Active(job[j])
    <3>1. job'[j].status = OutcomeOf(p).status /\ OutcomeOf(p).status \in StatusTransitions[job[j].status]
      BY <1>3, <2>1 DEF Transitioned, CanTransition
    <3>2. Exists(job[j]) /\ job'[j].status \in {"queued", "running"}
      BY <1>1, <2>1 DEF Active, ActiveStatuses, CanTransition
    <3>3. job[j].status \notin {"succeeded", "failed", "canceled"}
      BY <3>1, <3>2 DEF StatusTransitions
    <3> QED
      BY <3>2, <3>3 DEF Exists, ValidStatuses, TerminalStatuses, Active
  <2>4. OutcomeOf(p).attempt \in {"succeeded", "failed"}
    BY OutcomeType DEF OutcomeOf
  <2>5. attempt'[j][Msg(p).attempt].status # "running" /\ attempt[j][a].status = "running"
    BY <1>1, <1>9, <2>1, <2>4
  <2> QED
    BY <1>1, <1>2, <2>1, <2>2, <2>3, <2>5
<1>11. ASSUME NEW version, NEW stage, NEW task,
              CanTransition(KindOf[j], job[j], version, "running", stage)
       PROVE  Active(job[j])
  BY <1>11 DEF CanTransition, StatusTransitions, Exists, ValidStatuses, TerminalStatuses, Active
<1>12. ASSUME NEW p \in Dispatcher, Saves(p, j)
       PROVE  /\ attempt'[j][a].stage = job'[j].stage
              /\ attempt'[j][b].status = "running" => a = b
  <2>1. /\ worker[p].pc = "recover" /\ Msg(p).job = j
        /\ CanTransition(KindOf[j], job[j], worker[p].ver, "running", "video_submit")
        /\ job' = [job EXCEPT ![j] = Transitioned(job[j], "running", "video_submit", TRUE)]
        /\ UNCHANGED attempt
    BY <1>12, SavesRows DEF Saves
  <2>2. Active(job[j])
    BY <1>11, <2>1
  <2>3. job'[j].stage = "video_submit"
    BY <1>3, <2>1 DEF Transitioned
  <2>4. job[j].stage = "video_submit"
    <3>1. job[j].stage \in Stages /\ job[j].stage # "admitted"
      BY <1>3, <2>2 DEF JobRows, Active, ActiveStatuses, LocalInv, JobsInv, JobFits
    <3> QED
      BY <2>1, <3>1 DEF CanTransition, Stages, StageTransitions
  <2> QED
    BY <1>4, <2>1, <2>2, <2>3, <2>4
<1>13. ASSUME NEW p \in Dispatcher, Retries(p, j)
       PROVE  /\ attempt'[j][a].stage = job'[j].stage
              /\ attempt'[j][b].status = "running" => a = b
  <2>1. /\ worker[p].pc = "decide" /\ Msg(p).job = j /\ Msg(p).attempt \in AttemptNumbers
        /\ CanTransition(KindOf[j], job[j], worker[p].snap.version, "running", Msg(p).stage)
        /\ job' = [job EXCEPT ![j] = Transitioned(job[j], "running", Msg(p).stage, FALSE)]
        /\ attempt' = [attempt EXCEPT ![j] = WithFinished(attempt[j], Msg(p).attempt, "failed")]
    BY <1>13, RetriesRows DEF Retries
  <2>2. Active(job[j])
    BY <1>11, <2>1
  <2>3. job'[j].stage = Msg(p).stage
    BY <1>3, <2>1 DEF Transitioned
  <2>4. job[j].stage = Msg(p).stage
    <3>1. job[j].stage \in Stages /\ job[j].stage # "admitted"
      BY <1>3, <2>2 DEF JobRows, Active, ActiveStatuses, LocalInv, JobsInv, JobFits
    <3>2. /\ Msg(p).stage \in {"image_generate", "video_submit", "video_poll", "asset_import"}
          /\ Msg(p).stage = "video_poll" => job[j].stage \in {"video_poll", "asset_import", "finalize"}
          /\ Msg(p).stage = "asset_import" => job[j].stage \in {"asset_import", "finalize"}
      BY <2>1, MessageRow DEF RowFits
    <3>3. Msg(p).stage \in StageTransitions[job[j].stage]
      BY <2>1 DEF CanTransition
    <3> QED
      BY <3>1, <3>2, <3>3 DEF Stages, StageTransitions
  <2> QED
    BY <1>4, <1>9, <2>1, <2>2, <2>3, <2>4
<1>14. ASSUME (\E p \in Dispatcher : GivesUp(p, j)) \/ Marks(j)
       PROVE  FALSE
  <2>1. \E status \in {"succeeded", "failed"} :
          job' = [job EXCEPT ![j] = Transitioned(job[j], status, "finalize", FALSE)]
    BY <1>14, GivesUpRows, MarksRows
  <2>2. job'[j].status \in {"succeeded", "failed"}
    BY <1>3, <2>1 DEF Transitioned
  <2> QED
    BY <1>1, <2>2 DEF Active, ActiveStatuses
<1> QED
  BY <1>5, <1>6, <1>7, <1>8, <1>10, <1>12, <1>13, <1>14, JobStep

-----------------------------------------------------------------------------
(***************************************************************************)
(* Types                                                                   *)
(***************************************************************************)
\* The states a worker can be given.
LEMMA WorkerTypes ==
    ASSUME TypeOK, NEW p \in Dispatcher
    PROVE  /\ IdleWorker \in WorkerStates
           /\ \A d \in Dispatch : StartedOn(d) \in WorkerStates \/ dispatch[d].job \notin Job
           /\ \A verdict \in Verdicts : worker[p].msg \in Dispatch => Ended(p, verdict) \in WorkerStates
           /\ \A version \in Nat : AfterClaim(p, version) \in WorkerStates
<1>1. worker[p] \in WorkerStates /\ job \in [Job -> JobRows]
  BY Tables
<1>2. AbsentJob \in JobRows
  BY DEF AbsentJob, JobRows, RowStatuses, Stages
<1>3. IdleWorker \in WorkerStates
  BY <1>2 DEF IdleWorker, WorkerStates, Results
<1>4. ASSUME NEW d \in Dispatch, dispatch[d].job \in Job
      PROVE  StartedOn(d) \in WorkerStates
  BY <1>1, <1>2, <1>4, LocalAssumption DEF StartedOn, IdleWorker, WorkerStates, Results, Verdicts
<1>5. ASSUME NEW verdict \in Verdicts, worker[p].msg \in Dispatch
      PROVE  Ended(p, verdict) \in WorkerStates
  BY <1>2, <1>5, EndedIsDone DEF WorkerStates
<1>6. ASSUME NEW version \in Nat
      PROVE  AfterClaim(p, version) \in WorkerStates
  BY <1>1 DEF AfterClaim, WorkerStates, Results
<1> QED
  BY <1>3, <1>4, <1>5, <1>6

\* What a handler returns is a verdict.
LEMMA VerdictTypes ==
    /\ \A m, snap, row : HandleVerdict(m, snap, row) \in Verdicts
    /\ \A m, snap, rows, row : ClaimVerdict(m, snap, rows, row) \in Verdicts \cup {"claimed", "resumed"}
  BY DEF HandleVerdict, ClaimVerdict, Repeated, Verdicts

\* The worker stays in its declared states.
LEMMA WorkerType ==
    ASSUME LocalInv, Next
    PROVE  worker' \in [Dispatcher -> WorkerStates]
<1>1. worker \in [Dispatcher -> WorkerStates] /\ TypeOK
  BY Tables DEF LocalInv
<1>2. CASE UNCHANGED worker
  BY <1>1, <1>2
<1>3. ASSUME NEW p \in Dispatcher, NEW w \in WorkerStates, worker' = [worker EXCEPT ![p] = w]
      PROVE  worker' \in [Dispatcher -> WorkerStates]
  BY <1>1, <1>3
<1>4. ASSUME NEW p \in Dispatcher, worker[p].pc # "idle"
      PROVE  /\ Msg(p).job \in Job /\ worker[p].msg \in Dispatch /\ worker[p] \in WorkerStates
             /\ job[Msg(p).job] \in JobRows /\ job[Msg(p).job].version \in Nat
             /\ worker[p].snap.version \in Nat
             /\ \A verdict \in Verdicts : Ended(p, verdict) \in WorkerStates
  BY <1>1, <1>4, MessageRow, Tables, WorkerTypes DEF JobRows, WorkerStates
<1>5. ASSUME NEW p \in Dispatcher, LocalPublish(p)
      PROVE  worker' \in [Dispatcher -> WorkerStates]
  <2>1. PICK d \in Created : worker' = [worker EXCEPT ![p] = StartedOn(d)]
    BY <1>5 DEF LocalPublish, LocalInv, RowsInv, BatchFits
  <2>2. dispatch[d].job \in Job /\ d \in Dispatch
    BY DEF LocalInv, RowsInv, RowFits, Created
  <2> QED
    BY <1>1, <1>3, <2>1, <2>2, WorkerTypes
<1>6. ASSUME NEW p \in Dispatcher, Check(p)
      PROVE  worker' \in [Dispatcher -> WorkerStates]
  <2>1. worker[p].pc = "check" /\ [worker[p] EXCEPT !.pc = "claim"] \in WorkerStates
    BY <1>1, <1>6 DEF Check, WorkerStates
  <2>2. \/ worker' = [worker EXCEPT ![p] = [worker[p] EXCEPT !.pc = "claim"]]
        \/ \E verdict \in Verdicts : worker' = [worker EXCEPT ![p] = Ended(p, verdict)]
    BY <1>6, VerdictTypes DEF Check
  <2> QED
    BY <1>3, <1>4, <2>1, <2>2
<1>7. ASSUME NEW p \in Dispatcher, Claim(p)
      PROVE  worker' \in [Dispatcher -> WorkerStates]
  <2>1. worker[p].pc = "claim"
    BY <1>7 DEF Claim
  <2>2. \/ worker' = [worker EXCEPT ![p] = AfterClaim(p, job[Msg(p).job].version + 1)]
        \/ worker' = [worker EXCEPT ![p] = AfterClaim(p, worker[p].snap.version)]
        \/ \E verdict \in Verdicts : worker' = [worker EXCEPT ![p] = Ended(p, verdict)]
    BY <1>7, VerdictTypes DEF Claim
  <2>3. \A version \in Nat : AfterClaim(p, version) \in WorkerStates
    BY <1>1, WorkerTypes
  <2>4. job[Msg(p).job].version + 1 \in Nat /\ worker[p].snap.version \in Nat
    BY <1>4, <2>1
  <2> QED
    BY <1>3, <1>4, <2>1, <2>2, <2>3, <2>4
<1>8. ASSUME NEW p \in Dispatcher, ProviderCall(p)
      PROVE  worker' \in [Dispatcher -> WorkerStates]
  <2>1. PICK res \in CallResults(Msg(p).stage, Msg(p).attempt) :
          worker' = [worker EXCEPT ![p].pc = "persist", ![p].res = res]
    BY <1>8 DEF ProviderCall
  <2>2. res \in Results
    BY DEF CallResults, ImageResults, SubmitResults, PollResults, ImportResults, Results
  <2> QED
    BY <1>1, <2>1, <2>2 DEF WorkerStates
<1>9. ASSUME NEW p \in Dispatcher, Persist(p) \/ RecordSubmittedRecovery(p)
      PROVE  worker' \in [Dispatcher -> WorkerStates]
  <2>1. worker[p].pc # "idle"
    BY <1>9 DEF Persist, RecordSubmittedRecovery
  <2>2. \E verdict \in Verdicts : worker' = [worker EXCEPT ![p] = Ended(p, verdict)]
    BY <1>9 DEF Persist, RecordSubmittedRecovery, Verdicts
  <2> QED
    BY <1>3, <1>4, <2>1, <2>2
<1>10. ASSUME NEW p \in Dispatcher, DatabaseError(p)
       PROVE  worker' \in [Dispatcher -> WorkerStates]
  <2>1. worker[p].pc # "idle"
    BY <1>10 DEF DatabaseError
  <2>2. /\ [worker[p] EXCEPT !.res = "error"] \in WorkerStates
        /\ [worker[p] EXCEPT !.pc = "recover"] \in WorkerStates
    BY <1>1 DEF WorkerStates, Results
  <2>3. Ended(p, "raised") \in WorkerStates
    BY <1>4, <2>1 DEF Verdicts
  <2> QED
    BY <1>3, <1>10, <2>2, <2>3 DEF DatabaseError
<1>11. ASSUME NEW p \in Dispatcher, RecoveryRead(p)
       PROVE  worker' \in [Dispatcher -> WorkerStates]
  <2>1. /\ worker[p].pc = "done"
        /\ worker' = [worker EXCEPT ![p].pc = "decide", ![p].snap = job[Msg(p).job]]
    BY <1>11 DEF RecoveryRead
  <2>2. job[Msg(p).job] \in JobRows
    BY <1>4, <2>1
  <2> QED
    BY <1>1, <2>1, <2>2 DEF WorkerStates
<1>12. ASSUME NEW p \in Dispatcher, worker' = [worker EXCEPT ![p] = IdleWorker]
       PROVE  worker' \in [Dispatcher -> WorkerStates]
  BY <1>1, <1>3, <1>12, WorkerTypes
<1>13. ASSUME NEW p \in Dispatcher, ProcessStep(p)
       PROVE  worker' \in [Dispatcher -> WorkerStates]
  <2>1. CASE WorkerStep(p)
    BY <1>6, <1>7, <1>8, <1>9, <2>1 DEF WorkerStep
  <2>2. CASE LocalReturn(p) \/ ScheduleRetry(p) \/ FailTerminal(p) \/ RecoveryRefused(p)
    BY <1>12, <2>2 DEF LocalReturn, ScheduleRetry, FailTerminal, RecoveryRefused, PublishReturns
  <2> QED
    BY <1>2, <1>5, <1>11, <1>13, <2>1, <2>2 DEF ProcessStep, workVars
<1>14. CASE Fault
  BY <1>2, <1>10, <1>12, <1>14 DEF Fault, RecoveryError, ProcessCrash, ClaimedEventError, workVars
<1>15. ASSUME NEW j \in Job, Admit(j, {}) \/ CleanupJob(j) \/ ApiStep(j)
       PROVE  UNCHANGED worker
  BY <1>15 DEF Admit, CleanupJob, ApiStep, ApiPoll, ApiMark, ApiMarkStale, ApiSaveAsset, workVars
<1> QED
  BY <1>2, <1>13, <1>14, <1>15, NoRequeue DEF Next, workVars

\* The tables are still functions of the jobs after a step.
LEMMA TableFunctions ==
    ASSUME LocalInv, Next
    PROVE  /\ job' = [j \in Job |-> job'[j]]
           /\ attempt' = [j \in Job |-> attempt'[j]]
           /\ calls' \in [Job -> Nat]
           /\ generation' \in [Job -> BOOLEAN] /\ asset' \in [Job -> BOOLEAN]
           /\ api' \in [Job -> ApiStates]
<1>1. /\ job \in [Job -> JobRows] /\ attempt \in [Job -> [AttemptNumbers -> AttemptRows]]
      /\ calls \in [Job -> Nat] /\ generation \in [Job -> BOOLEAN] /\ asset \in [Job -> BOOLEAN]
      /\ api \in [Job -> ApiStates]
  BY Tables DEF LocalInv
<1>2. calls' \in [Job -> Nat]
  BY <1>1, CallStep DEF Charges
<1> DEFINE Rows == job' = [j \in Job |-> job'[j]] /\ attempt' = [j \in Job |-> attempt'[j]]
           Records == generation' \in [Job -> BOOLEAN] /\ asset' \in [Job -> BOOLEAN]
<1>3. ASSUME UNCHANGED <<job, attempt>>
      PROVE  Rows
  BY <1>1, <1>3
<1>4. ASSUME UNCHANGED <<generation, asset>>
      PROVE  Records
  BY <1>1, <1>4
<1>5. ASSUME NEW j \in Job, Admit(j, {}) \/ CleanupJob(j)
      PROVE  Rows /\ Records /\ UNCHANGED calls
  BY <1>1, <1>5 DEF Admit, CleanupJob
<1>6. ASSUME NEW p \in Dispatcher, WorkerStep(p)
      PROVE  Rows /\ Records
  <2>1. CASE Persist(p)
    <3>1. Rows
      BY <1>1, <1>3, <2>1 DEF Persist
    <3>2. ASSUME NEW saved \in BOOLEAN, NEW i, NEW old \in [Job -> BOOLEAN], NEW new,
                 new = [old EXCEPT ![i] = @ \/ saved]
          PROVE  new \in [Job -> BOOLEAN]
      BY <3>2
    <3>3. \/ UNCHANGED <<generation, asset>>
          \/ /\ generation' = [generation EXCEPT ![Msg(p).job] = @ \/ OutcomeOf(p).status = "succeeded"]
             /\ \E saved \in SavedAssets(OutcomeOf(p).status) :
                  asset' = [asset EXCEPT ![Msg(p).job] = @ \/ saved]
      BY <2>1 DEF Persist, OutcomeOf
    <3>4. SavedAssets(OutcomeOf(p).status) \subseteq BOOLEAN
      BY DEF SavedAssets
    <3>5. (OutcomeOf(p).status = "succeeded") \in BOOLEAN
      OBVIOUS
    <3>6. generation' \in [Job -> BOOLEAN]
      BY <1>1, <3>2, <3>3, <3>5
    <3>7. asset' \in [Job -> BOOLEAN]
      BY <1>1, <3>2, <3>3, <3>4
    <3>8. Records
      BY <3>6, <3>7
    <3> QED
      BY <3>1, <3>8
  <2>2. CASE Claim(p) \/ RecordSubmittedRecovery(p) \/ Check(p) \/ ProviderCall(p)
    BY <1>1, <1>3, <1>4, <2>2 DEF Claim, RecordSubmittedRecovery, Check, ProviderCall
  <2> QED
    BY <1>6, <2>1, <2>2 DEF WorkerStep
<1>7. ASSUME NEW p \in Dispatcher, ProcessStep(p)
      PROVE  Rows /\ Records
  <2>1. CASE ScheduleRetry(p) \/ FailTerminal(p)
    BY <1>1, <1>4, <2>1 DEF ScheduleRetry, FailTerminal
  <2> QED
    BY <1>3, <1>4, <1>6, <1>7, <2>1
       DEF ProcessStep, LocalPublish, LocalReturn, RecoveryRead, RecoveryRefused, workVars
<1>8. ASSUME NEW j \in Job, ApiStep(j)
      PROVE  Rows /\ Records /\ api' \in [Job -> ApiStates]
  <2>0. \A pc \in {"idle", "saving"} : [api[j] EXCEPT !.pc = pc] \in ApiStates
    BY <1>1 DEF ApiStates
  <2>1. CASE ApiPoll(j)
    <3>1. api[j].left - 1 \in 0..MaxApiPolls
      BY <1>1, <2>1, MaxApiPollsAssumption DEF ApiPoll, ApiStates
    <3> QED
      BY <1>1, <1>3, <1>4, <2>1, <3>1 DEF ApiPoll, ApiStates, workVars
  <2>2. CASE ApiMark(j)
    <3>1. PICK pc \in {"idle", "saving"} : api' = [api EXCEPT ![j] = [@ EXCEPT !.pc = pc]]
      BY <2>2 DEF ApiMark
    <3>2. api' \in [Job -> ApiStates]
      BY <1>1, <2>0, <3>1
    <3>3. Rows /\ Records
      BY <1>1, <1>4, <2>2 DEF ApiMark
    <3> QED
      BY <3>2, <3>3
  <2>3. CASE ApiMarkStale(j)
    <3>1. api' \in [Job -> ApiStates]
      BY <1>1, <2>0, <2>3 DEF ApiMarkStale
    <3> QED
      BY <1>3, <1>4, <2>3, <3>1 DEF ApiMarkStale, workVars
  <2>4. CASE ApiSaveAsset(j)
    <3>1. asset' \in [Job -> BOOLEAN] /\ UNCHANGED <<job, attempt, calls, generation>>
      BY <1>1, <2>4 DEF ApiSaveAsset
    <3>2. api' \in [Job -> ApiStates]
      BY <1>1, <2>0, <2>4 DEF ApiSaveAsset
    <3> QED
      BY <1>1, <1>3, <3>1, <3>2
  <2> QED
    BY <1>8, <2>1, <2>2, <2>3, <2>4 DEF ApiStep
<1>9. CASE Fault
  <2>1. UNCHANGED <<job, attempt, generation, asset, api>>
    BY <1>9 DEF Fault, DatabaseError, RecoveryError, ProcessCrash, ClaimedEventError, workVars
  <2> QED
    BY <1>2, <1>1, <1>3, <1>4, <2>1
<1>10. CASE UNCHANGED api /\ ~Fault
  BY <1>1, <1>3, <1>4, <1>5, <1>7, <1>8, <1>2, <1>10, NoRequeue DEF Next, workVars
<1> QED
  BY <1>1, <1>8, <1>9, <1>2, <1>10 DEF Next

\* Every step keeps every table and every process state in its declared shape.
LEMMA TypesFit ==
    ASSUME LocalInv, Next
    PROVE  TypeOK'
<1>1. /\ queue \in SUBSET Dispatch /\ sent \in SUBSET Dispatch /\ faults \in 0..MaxFaults
  BY DEF LocalInv, TypeOK, OutboxTypeOK
<1>2. Dispatcher # {} /\ Worker = Dispatcher
  BY LocalAssumption
<1>3. dispatch' \in [Dispatch -> DispatchRows] /\ dispatcher' \in [Dispatcher -> DispatcherStates]
  BY <1>2, RowsStep, BatchStep
<1>4. queue' \in SUBSET Dispatch /\ sent' \in SUBSET Dispatch
  <2>1. ASSUME NEW p \in Dispatcher, PublishReturns(p), worker[p].pc # "idle"
        PROVE  sent' \in SUBSET Dispatch
    <3>1. dispatcher[p].row \in Dispatch
      BY <2>1, Tables DEF LocalInv, WorkInv, WorkFits
    <3> QED
      BY <1>1, <2>1, <3>1 DEF PublishReturns
  <2>2. ASSUME NEW p \in Dispatcher, ProcessStep(p)
        PROVE  UNCHANGED queue /\ sent' \in SUBSET Dispatch
    <3>1. CASE LocalReturn(p) \/ ScheduleRetry(p) \/ FailTerminal(p) \/ RecoveryRefused(p)
      <4>1. worker[p].pc # "idle" /\ UNCHANGED queue /\ (PublishReturns(p) \/ UNCHANGED sent)
        BY <3>1 DEF LocalReturn, ScheduleRetry, FailTerminal, RecoveryRefused
      <4> QED
        BY <1>1, <2>1, <4>1
    <3>2. CASE WorkerStep(p)
      BY <1>1, <3>2
         DEF WorkerStep, Check, Claim, ProviderCall, Persist, RecordSubmittedRecovery, outboxVars
    <3> QED
      BY <1>1, <2>2, <3>1, <3>2
         DEF ProcessStep, ClaimPendingDispatches, LocalPublish, PublishDeleted, RecoveryRead,
             MarkDispatchPublished, ReleaseDispatch, outboxVars
  <2>3. CASE Fault
    BY <1>1, <2>3
       DEF Fault, DatabaseError, RecoveryError, ProcessCrash, ClaimedEventError, MarkFails, outboxVars
  <2>4. ASSUME NEW j \in Job, Admit(j, {}) \/ CleanupJob(j) \/ ApiStep(j)
        PROVE  UNCHANGED <<queue, sent>>
    BY <2>4 DEF Admit, CleanupJob, ApiStep, ApiPoll, ApiMark, ApiMarkStale, ApiSaveAsset, outboxVars
  <2> QED
    BY <1>1, <2>2, <2>3, <2>4, NoRequeue DEF Next, LeaseExpires
<1>5. faults' \in 0..MaxFaults
  BY <1>1, MaxFaultsAssumption DEF Next, Fault
<1>6. job' \in [Job -> JobRows] /\ \A j \in Job : job'[j].stage \in StagesByKind[KindOf[j]]
  <2>1. \A j \in Job : job'[j] \in JobRows /\ job'[j].stage \in StagesByKind[KindOf[j]]
    BY RowForward DEF Forward
  <2> QED
    BY <2>1, TableFunctions
<1>7. attempt' \in [Job -> [AttemptNumbers -> AttemptRows]]
  <2>1. \A j \in Job : attempt'[j] \in [AttemptNumbers -> AttemptRows]
    BY AttemptForward
  <2> QED
    BY <2>1, TableFunctions
<1> QED
  BY <1>2, <1>3, <1>4, <1>5, <1>6, <1>7, TableFunctions, WorkerType
     DEF TypeOK, OutboxTypeOK, WorkTypeOK, ApiTypeOK

-----------------------------------------------------------------------------
(***************************************************************************)
(* The invariant                                                           *)
(***************************************************************************)
\* The invariant holds before the first request.
LEMMA LocalInvInit ==
    ASSUME Init
    PROVE  LocalInv
<1>1. /\ \A d \in Dispatch : dispatch[d] = UnusedRow
      /\ \A p \in Dispatcher : dispatcher[p] = IdleDispatcher /\ worker[p] = IdleWorker
      /\ \A j \in Job : /\ job[j] = AbsentJob /\ attempt[j] = NoAttempts /\ calls[j] = 0
                        /\ ~generation[j] /\ ~asset[j] /\ api[j].pc = "idle"
  BY OneProcess DEF Init, OutboxInit, WorkInit, ApiInit
<1>2. TypeOK
  <2>1. UnusedRow \in DispatchRows /\ IdleDispatcher \in DispatcherStates
    BY Numbers, DispatchAttemptsAssumption
       DEF UnusedRow, DispatchRows, DispatchStatuses, Stages, IdleDispatcher, DispatcherStates
  <2>2. AbsentJob \in JobRows /\ \A j \in Job : AbsentJob.stage \in StagesByKind[KindOf[j]]
    BY KindAssumption DEF AbsentJob, JobRows, RowStatuses, Stages, StagesByKind
  <2>3. NoAttempts \in [AttemptNumbers -> AttemptRows]
    BY DEF NoAttempts, NoAttempt, AttemptRows, Stages
  <2>4. IdleWorker \in WorkerStates
    BY <2>2 DEF IdleWorker, WorkerStates, Results
  <2>5. OutboxTypeOK
    BY <2>1 DEF Init, OutboxInit, OutboxTypeOK
  <2>6. WorkTypeOK
    BY <2>2, <2>3, <2>4 DEF Init, WorkInit, WorkTypeOK
  <2>7. ApiTypeOK
    BY MaxApiPollsAssumption DEF Init, ApiInit, ApiTypeOK, ApiStates
  <2> QED
    BY <2>5, <2>6, <2>7, MaxFaultsAssumption DEF Init, TypeOK
<1>3. RowsInv
  <2>1. UnusedRow.status = "none"
    BY DEF UnusedRow
  <2>2. Created = {}
    BY <1>1, <2>1 DEF Created
  <2>3. \A p \in Dispatcher : BatchFits(p)
    BY <1>1 DEF BatchFits, IdleDispatcher
  <2> QED
    BY <1>1, <2>1, <2>2, <2>3 DEF RowsInv
<1>4. JobsInv
  <2>1. \A a \in AttemptNumbers : NoAttempts[a].status = "none"
    BY DEF NoAttempts, NoAttempt
  <2> QED
    BY <1>1, <2>1, Numbers DEF JobsInv, JobFits, Started, AbsentJob
<1>5. WorkInv
  <2>1. \A p \in Dispatcher : worker[p].pc = "idle"
    BY <1>1 DEF IdleWorker
  <2> QED
    BY <2>1 DEF WorkInv, WorkFits, Snapped, Holds, Calling
<1>6. RecordsMatchOutcome /\ SavingFits /\ RunningAttemptOwnsStage
  BY <1>1 DEF RecordsMatchOutcome, SavingFits, RunningAttemptOwnsStage, AbsentJob, Active,
              ActiveStatuses
<1> QED
  BY <1>2, <1>3, <1>4, <1>5, <1>6 DEF LocalInv

\* Every step keeps the invariant.
LEMMA LocalInvStep ==
    ASSUME LocalInv, [Next]_vars
    PROVE  LocalInv'
<1>1. CASE Next
  <2>1. RowsInv'
    <3>1. \A p \in Dispatcher : BatchFits(p)'
      BY <1>1, BatchStep
    <3> QED
      BY <1>1, <3>1, RowsFit DEF RowsInv
  <2>2. JobsInv'
    BY <1>1, JobsFit DEF JobsInv
  <2> QED
    BY <1>1, <2>1, <2>2, TypesFit, WorkFit, RecordsFit, SavingKept, RunningFits
       DEF LocalInv
<1>2. CASE UNCHANGED vars
  <2>1. UNCHANGED <<job, attempt, worker, calls, generation, asset, dispatch, dispatcher, queue,
                    sent, api, faults>>
    BY <1>2 DEF vars
  <2>2. TypeOK'
    BY <2>1 DEF LocalInv, TypeOK, OutboxTypeOK, WorkTypeOK, ApiTypeOK
  <2>3. RowsInv'
    BY <2>1 DEF LocalInv, RowsInv, RowFits, WithinLimit, Started, Created, BatchFits
  <2>4. JobsInv'
    BY <2>1 DEF LocalInv, JobsInv, JobFits, Started, Spent
  <2>5. WorkInv'
    <3>1. ASSUME NEW p \in Dispatcher
          PROVE  /\ Msg(p)' = Msg(p) /\ Snapped(p)' = Snapped(p) /\ Holds(p)' = Holds(p)
                 /\ Calling(p)' = Calling(p) /\ SnapshotFits(p)' = SnapshotFits(p)
                 /\ ResultFits(p)' = ResultFits(p)
      <4>1. Msg(p)' = Msg(p)
        BY <2>1 DEF Msg
      <4> QED
        BY <2>1, <4>1 DEF Snapped, Holds, Calling, SnapshotFits, ResultFits
    <3>2. ASSUME NEW p \in Dispatcher
          PROVE  /\ HolderFits(p)' = HolderFits(p) /\ CallFits(p)' = CallFits(p)
                 /\ Started(Msg(p).job)' = Started(Msg(p).job)
      BY <2>1, <3>1 DEF HolderFits, CallFits, Started, Spent
    <3>3. Created' = Created
      BY <2>1 DEF Created
    <3> QED
      BY <2>1, <3>1, <3>2, <3>3 DEF LocalInv, WorkInv, WorkFits
  <2>6. RecordsMatchOutcome' /\ SavingFits' /\ RunningAttemptOwnsStage'
    BY <2>1 DEF LocalInv, RecordsMatchOutcome, SavingFits, RunningAttemptOwnsStage
  <2> QED
    BY <2>2, <2>3, <2>4, <2>5, <2>6 DEF LocalInv
<1> QED
  BY <1>1, <1>2

\* The local deployment keeps LocalInv: rows fit their jobs, a job's attempts,
\* task id and charge fit its row, and the one process only holds what it may.
THEOREM LocalInvariant == Spec => []LocalInv
<1>1. Init => LocalInv
  BY LocalInvInit
<1>2. LocalInv /\ [Next]_vars => LocalInv'
  BY LocalInvStep
<1> QED
  BY <1>1, <1>2, PTL DEF Spec

\* Type correctness of the local deployment: no recovery, however often a
\* message is repeated, asks for an attempt number beyond the table.
THEOREM LocalTypeCorrect == Spec => []TypeOK
<1>1. LocalInv => TypeOK
  BY DEF LocalInv
<1> QED
  BY <1>1, LocalInvariant, PTL

\* A job of the local deployment starts at most one billable execution,
\* whatever the process repeats after a crash or an error.
THEOREM LocalChargesOnce == Spec => []AtMostOneBillableCall
<1>1. LocalInv => AtMostOneBillableCall
  BY DEF LocalInv, JobsInv, JobFits, AtMostOneBillableCall
<1> QED
  BY <1>1, LocalInvariant, PTL

\* A row marked published was executed: LocalQueueBackend.publish returns only
\* after the handler or the recovery took the job out of "queued".
THEOREM LocalPublishedWasHandled == Spec => []PublishedWasHandled
<1>1. LocalInv => PublishedWasHandled
  BY DEF LocalInv, RowsInv, RowFits, Created, Started, PublishedWasHandled
<1> QED
  BY <1>1, LocalInvariant, PTL

\* The attempt limit is passed only by the first poll after a submit that the
\* recovery repeated as the last attempt.
THEOREM LocalAttemptLimit == Spec => []OverrunOnlyAfterSubmitRetry
<1>1. ASSUME LocalInv, NEW d \in Dispatch, dispatch[d].attempt > MaxAttempts
      PROVE  /\ dispatch[d].stage = "video_poll"
             /\ \E e \in Dispatch : /\ dispatch[e].job = dispatch[d].job
                                    /\ dispatch[e].stage = "video_submit"
                                    /\ dispatch[e].attempt = MaxAttempts
  <2>1. dispatch[d].attempt \in AttemptNumbers /\ Created \subseteq Dispatch
    BY <1>1, Tables DEF LocalInv, DispatchRows
  <2>2. ~(dispatch[d].attempt <= MaxAttempts)
    BY <1>1, <2>1, Numbers
  <2>3. d \in Created
    BY <1>1, <2>2, Numbers DEF LocalInv, RowsInv, UnusedRow
  <2> QED
    BY <1>1, <2>1, <2>2, <2>3 DEF LocalInv, RowsInv, RowFits, WithinLimit
<1>2. LocalInv => OverrunOnlyAfterSubmitRetry
  BY <1>1 DEF OverrunOnlyAfterSubmitRetry
<1> QED
  BY <1>2, LocalInvariant, PTL

\* On the local backend too, recovery included, a generation is linked to
\* succeeded jobs only, a succeeded image job has one, and an asset is linked
\* to no active or failed job.
THEOREM LocalRecordsMatchOutcome == Spec => []RecordsMatchOutcome
<1>1. LocalInv => RecordsMatchOutcome
  BY DEF LocalInv
<1> QED
  BY <1>1, LocalInvariant, PTL

\* An active job has at most one running attempt, one of its current stage,
\* also when the recovery repeats stages.
THEOREM LocalRunningAttempt == Spec => []RunningAttemptOwnsStage
<1>1. LocalInv => RunningAttemptOwnsStage
  BY DEF LocalInv
<1> QED
  BY <1>1, LocalInvariant, PTL

-----------------------------------------------------------------------------
(***************************************************************************)
(* No active job is forgotten.  Beside LocalInv this needs to know why a   *)
(* row may be marked published: the job has ended, or another row serves   *)
(* it.  A plain result shows that only if the worker's view of the job is  *)
(* current, which holds here because one process does all the work.        *)
(***************************************************************************)
\* The row keeps the job's current stage in the outbox.
Serves(d, j) ==
    dispatch[d].job = j /\ dispatch[d].stage = job[j].stage /\ Undelivered(d)

\* The job of the row does not need the row: another one serves it.
ServedBeside(d) ==
    LET j == dispatch[d].job
    IN  Active(job[j]) => \E e \in Dispatch \ {d} : Serves(e, j)

\* The row that is about to be marked published is not needed any more, and
\* neither is the message of a worker that ended with a plain result.
MarkServed(p) == dispatcher[p].pc = "mark" => ServedBeside(dispatcher[p].row)

DoneServed(p) ==
    worker[p].pc = "done" /\ worker[p].res \notin RepeatedDelivery \cup {"raised"} =>
       ServedBeside(worker[p].msg)

\* With one process the snapshot and the version are current while the job is
\* active: only a client's poll moves the job behind its back, and ends it.
Current(p) ==
    LET row == job[Msg(p).job]
    IN  /\ worker[p].pc \in {"check", "claim", "decide"} /\ Active(row) => worker[p].snap = row
        /\ Holds(p) /\ Active(row) => worker[p].ver = row.version

\* An image job that runs was claimed for its only attempt.
ImageClaimed ==
    \A j \in Job :
       KindOf[j] = "image" /\ job[j].status = "running" => attempt[j][1].status # "none"

DeliveryInv ==
    /\ ActiveIsDelivered
    /\ ImageClaimed
    /\ \A p \in Dispatcher : MarkServed(p) /\ DoneServed(p) /\ Current(p)

\* A row that is still to be delivered stays so, unless it is marked published
\* or its job ended.
LEMMA UndeliveredStep ==
    ASSUME LocalInv, Next, NEW d \in Dispatch, Undelivered(d)
    PROVE  \/ Undelivered(d)'
           \/ \E p \in Dispatcher : MarkDispatchPublished(p) /\ dispatcher[p].row = d
           \/ ~Active(job'[dispatch[d].job])
<1> DEFINE Goal == \/ Undelivered(d)'
                   \/ \E p \in Dispatcher : MarkDispatchPublished(p) /\ dispatcher[p].row = d
                   \/ ~Active(job'[dispatch[d].job])
<1>1. /\ dispatch \in [Dispatch -> DispatchRows] /\ dispatch[d] \in DispatchRows
      /\ dispatch[d].tries \in 0..MaxDispatchAttempts /\ MaxDispatchAttempts \in Nat
      /\ dispatch[d].status # "none" /\ job \in [Job -> JobRows]
  BY Tables, DispatchAttemptsAssumption DEF LocalInv, DispatchRows, Undelivered
<1>2. CASE dispatch'[d] = dispatch[d]
  BY <1>2 DEF Undelivered
<1>3. ASSUME HasFreeRow, NEW j, NEW stage, NEW a, dispatch' = WithDispatch(dispatch, j, stage, a)
      PROVE  Goal
  BY <1>1, <1>2, <1>3 DEF WithDispatch, HasFreeRow, FreshDispatch
<1>4. ASSUME NEW p \in Dispatcher, ClaimPendingDispatches(p)
      PROVE  Goal
  <2>1. dispatch'[d] = dispatch[d] \/ dispatch'[d] = LeasedTo(dispatch[d], p)
    BY <1>4 DEF ClaimPendingDispatches
  <2>2. LeasedTo(dispatch[d], p).status = "publishing"
    BY <1>1 DEF LeasedTo, DispatchRows
  <2> QED
    BY <1>2, <2>1, <2>2 DEF Undelivered
<1>5. ASSUME NEW p \in Dispatcher, MarkDispatchPublished(p)
      PROVE  Goal
  BY <1>1, <1>2, <1>5 DEF MarkDispatchPublished
<1>6. ASSUME NEW p \in Dispatcher, ReleaseDispatch(p)
      PROVE  Goal
  <2> DEFINE status == IF dispatch[d].tries >= MaxDispatchAttempts THEN "failed" ELSE "pending"
  <2>1. dispatch'[d] = dispatch[d] \/ dispatch'[d] = Unleased(dispatch[d], status)
    BY <1>1, <1>6 DEF ReleaseDispatch
  <2>2. /\ Unleased(dispatch[d], status).status = status
        /\ Unleased(dispatch[d], status).tries = dispatch[d].tries
    BY <1>1 DEF Unleased, DispatchRows
  <2>3. status = "pending" \/ (status = "failed" /\ dispatch[d].tries = MaxDispatchAttempts)
    BY <1>1
  <2> HIDE DEF status
  <2> QED
    BY <1>2, <2>1, <2>2, <2>3 DEF Undelivered
<1>7. ASSUME NEW e \in Dispatch, LeaseExpires(e)
      PROVE  Goal
  <2>1. dispatch'[d].status = dispatch[d].status /\ dispatch'[d].tries = dispatch[d].tries
    BY <1>1, <1>7 DEF LeaseExpires, DispatchRows
  <2> QED
    BY <2>1 DEF Undelivered
<1>8. ASSUME NEW j \in Job, CleanupJob(j)
      PROVE  Goal
  <2>1. CASE dispatch[d].job # j
    BY <1>1, <1>2, <1>8, <2>1 DEF CleanupJob
  <2>2. CASE dispatch[d].job = j
    <3>1. job'[j].status = "deleted"
      BY <1>1, <1>8 DEF CleanupJob, JobRows
    <3> QED
      BY <2>2, <3>1 DEF Active, ActiveStatuses
  <2> QED
    BY <2>1, <2>2
<1>9. ASSUME NEW p \in Dispatcher, ProcessStep(p)
      PROVE  Goal
  <2>1. CASE WorkerStep(p)
    <3>1. CASE Persist(p)
      BY <1>2, <1>3, <3>1 DEF Persist
    <3> QED
      BY <1>2, <2>1, <3>1
         DEF WorkerStep, Check, Claim, ProviderCall, RecordSubmittedRecovery, outboxVars
  <2>2. CASE ScheduleRetry(p)
    BY <1>3, <2>2 DEF ScheduleRetry
  <2> QED
    BY <1>2, <1>4, <1>5, <1>6, <1>9, <2>1, <2>2
       DEF ProcessStep, LocalPublish, PublishDeleted, LocalReturn, RecoveryRead, FailTerminal,
           RecoveryRefused, outboxVars
<1>10. CASE Fault
  BY <1>2, <1>10
     DEF Fault, DatabaseError, RecoveryError, ProcessCrash, ClaimedEventError, MarkFails, outboxVars
<1>11. ASSUME NEW j \in Job, Admit(j, {}) \/ ApiStep(j)
       PROVE  Goal
  <2>1. CASE Admit(j, {})
    BY <1>3, <2>1 DEF Admit
  <2>2. CASE ApiStep(j)
    BY <1>2, <2>2 DEF ApiStep, ApiPoll, ApiMark, ApiMarkStale, ApiSaveAsset, outboxVars
  <2> QED
    BY <1>11, <2>1, <2>2
<1> QED
  BY <1>7, <1>8, <1>9, <1>10, <1>11, NoRequeue DEF Next

\* A new dispatch serves its job, and is none of the rows there were.
LEMMA FreshServes ==
    ASSUME LocalInv, HasFreeRow, NEW j \in Job, NEW stage \in Stages, NEW a \in AttemptNumbers,
           dispatch' = WithDispatch(dispatch, j, stage, a), job'[j].stage = stage
    PROVE  \E d \in Dispatch \ Created : Serves(d, j)'
<1>1. FreshDispatch \in Dispatch /\ dispatch[FreshDispatch].status = "none"
  BY DEF HasFreeRow, FreshDispatch
<1>2. PICK d \in Dispatch : d = FreshDispatch /\ d \notin Created
  BY <1>1 DEF Created
<1>3. dispatch'[d] = PendingRow(j, stage, a)
  BY <1>2, Tables DEF LocalInv, WithDispatch
<1>4. Serves(d, j)'
  BY <1>3, PendingRowType DEF Serves, Undelivered
<1> QED
  BY <1>2, <1>4

\* The recovery's retry writes the dispatch of the next attempt with the row.
LEMMA RetryServes ==
    ASSUME LocalInv, NEW p \in Dispatcher, NEW j \in Job, Retries(p, j)
    PROVE  \E d \in Dispatch \ Created : Serves(d, j)'
<1>1. job \in [Job -> JobRows] /\ worker[p].pc = "decide"
  BY RetriesRows, Tables DEF LocalInv
<1>2. Msg(p).stage \in Stages /\ Msg(p).attempt + 1 \in AttemptNumbers
  <2>1. Msg(p).attempt \in AttemptNumbers /\ Msg(p).attempt < MaxAttempts
    BY RetriesRows
  <2>2. Msg(p).attempt + 1 \in AttemptNumbers
    BY <2>1, Numbers DEF AttemptNumbers
  <2> QED
    BY <1>1, <2>2, MessageRow
<1>3. job'[j].stage = Msg(p).stage
  BY <1>1, RetriesRows DEF Transitioned
<1> QED
  BY <1>2, <1>3, RetriesRows, FreshServes

\* So does a persisting transaction that leaves the job active.
LEMMA SettledServes ==
    ASSUME LocalInv, NEW p \in Dispatcher, NEW j \in Job, Settles(p, j), Active(job'[j])
    PROVE  \E d \in Dispatch \ Created : Serves(d, j)'
<1> DEFINE out == OutcomeOf(p)
<1>1. job \in [Job -> JobRows]
  BY Tables DEF LocalInv
<1>2. out.status \in {"running", "succeeded", "failed"} /\ out.stage \in Stages
  BY OutcomeType DEF OutcomeOf, Stages
<1>3. job' = [job EXCEPT ![j] =
                Transitioned(job[j], out.status, out.stage, out.status = "running")]
  BY SettlesRows
<1>4. job'[j].status = out.status /\ job'[j].stage = out.stage
  BY <1>1, <1>3 DEF Transitioned
<1>5. out.status = "running"
  BY <1>2, <1>4 DEF Active, ActiveStatuses
<1>6. /\ HasFreeRow
      /\ dispatch' = WithDispatch(dispatch, j, out.stage, Msg(p).attempt + 1)
      /\ Msg(p).attempt + 1 \in AttemptNumbers
  BY <1>5, SettlesRows, Numbers DEF AttemptNumbers
<1> HIDE DEF out
<1> QED
  BY <1>2, <1>4, <1>6, FreshServes

\* An active job has a new dispatch, or is active at the same stage as before.
LEMMA ActiveStep ==
    ASSUME LocalInv, Next, NEW j \in Job, Active(job'[j])
    PROVE  \/ \E d \in Dispatch \ Created : Serves(d, j)'
           \/ Active(job[j]) /\ job'[j].stage = job[j].stage
<1>1. job \in [Job -> JobRows] /\ job[j] \in JobRows
  BY Tables DEF LocalInv
<1>2. CASE job'[j] = job[j]
  BY <1>2
<1>3. CASE Admit(j, {})
  <2>1. job'[j] = InsertedJob(KindOf[j])
    BY <1>1, <1>3 DEF Admit
  <2>2. AdmissionStage(KindOf[j]) \in Stages /\ 1 \in AttemptNumbers
    BY InsertedType, Numbers DEF Stages
  <2>3. job'[j].stage = AdmissionStage(KindOf[j])
    BY <2>1, InsertedType
  <2> QED
    BY <1>3, <2>2, <2>3, FreshServes DEF Admit
<1>4. ~CleanupJob(j)
  <2>1. CleanupJob(j) => job'[j].status = "deleted"
    BY <1>1 DEF CleanupJob, JobRows
  <2> QED
    BY <2>1 DEF Active, ActiveStatuses
<1>5. ASSUME NEW p \in Dispatcher, Takes(p, j)
      PROVE  Active(job[j]) /\ job'[j].stage = job[j].stage
  BY <1>1, <1>5, TakesRows DEF Transitioned
<1>6. ASSUME NEW p \in Dispatcher, Saves(p, j)
      PROVE  Active(job[j]) /\ job'[j].stage = job[j].stage
  <2>1. /\ CanTransition(KindOf[j], job[j], worker[p].ver, "running", "video_submit")
        /\ job'[j].stage = "video_submit"
    BY <1>1, <1>6, SavesRows DEF Transitioned
  <2>2. job[j].status \in ValidStatuses /\ "running" \in StatusTransitions[job[j].status]
    BY <2>1 DEF CanTransition, Exists
  <2>3. Active(job[j])
    BY <2>2 DEF ValidStatuses, ActiveStatuses, TerminalStatuses, StatusTransitions, Active
  <2>4. job[j].stage # "admitted"
    BY <2>3 DEF LocalInv, JobsInv, JobFits, Active, ActiveStatuses
  <2>5. job[j].stage \in Stages /\ "video_submit" \in StageTransitions[job[j].stage]
    BY <1>1, <2>1 DEF JobRows, CanTransition
  <2>6. job[j].stage = "video_submit"
    BY <2>4, <2>5 DEF Stages, StageTransitions
  <2> QED
    BY <2>1, <2>3, <2>6
<1>7. ASSUME NEW p \in Dispatcher
      PROVE  ~GivesUp(p, j)
  <2>1. GivesUp(p, j) => job'[j].status = "failed"
    BY <1>1, GivesUpRows DEF Transitioned
  <2> QED
    BY <2>1 DEF Active, ActiveStatuses
<1>8. ~Marks(j)
  <2>1. Marks(j) => job'[j].status \in {"succeeded", "failed"}
    BY <1>1, MarksRows DEF Transitioned
  <2> QED
    BY <2>1 DEF Active, ActiveStatuses
<1> QED
  BY <1>2, <1>3, <1>4, <1>5, <1>6, <1>7, <1>8, JobStep, RetryServes, SettledServes

\* A row goes on serving its job unless it is marked published.
LEMMA ServesOn ==
    ASSUME LocalInv, Next, NEW j \in Job, Active(job'[j]), job'[j].stage = job[j].stage,
           NEW e \in Dispatch, Serves(e, j),
           \A p \in Dispatcher : MarkDispatchPublished(p) => dispatcher[p].row # e
    PROVE  Serves(e, j)'
<1>1. e \in Created
  BY DEF Serves, Undelivered, Created
<1>2. dispatch'[e].job = j /\ dispatch'[e].stage = job'[j].stage
  BY <1>1, RowsStay DEF RowsKept, Serves
<1>3. Undelivered(e)'
  BY UndeliveredStep DEF Serves
<1> QED
  BY <1>2, <1>3 DEF Serves

\* A row that is not needed stays so while nothing is marked.
LEMMA BesideOn ==
    ASSUME LocalInv, Next, NEW d \in Created, ServedBeside(d),
           \A p \in Dispatcher : ~MarkDispatchPublished(p)
    PROVE  ServedBeside(d)'
<1>1. PICK j \in Job : j = dispatch[d].job /\ dispatch'[d].job = j
  BY RowsStay DEF LocalInv, RowsInv, RowFits, RowsKept
<1>2. SUFFICES ASSUME Active(job'[j])
               PROVE  \E e \in Dispatch \ {d} : Serves(e, j)'
  BY <1>1 DEF ServedBeside
<1>3. CASE \E e \in Dispatch \ Created : Serves(e, j)'
  BY <1>3
<1>4. CASE Active(job[j]) /\ job'[j].stage = job[j].stage
  <2>1. PICK e \in Dispatch \ {d} : Serves(e, j)
    BY <1>1, <1>4 DEF ServedBeside
  <2>2. Serves(e, j)'
    BY <1>2, <1>4, <2>1, ServesOn
  <2> QED
    BY <2>2
<1> QED
  BY <1>2, <1>3, <1>4, ActiveStep

\* No step forgets an active job.
LEMMA DeliveredStep ==
    ASSUME LocalInv, DeliveryInv, Next
    PROVE  ActiveIsDelivered'
<1>1. SUFFICES ASSUME NEW j \in Job, Active(job'[j])
               PROVE  \E d \in Dispatch : Serves(d, j)'
  BY DEF ActiveIsDelivered, Serves
<1>2. CASE \E d \in Dispatch \ Created : Serves(d, j)'
  BY <1>2
<1>3. CASE Active(job[j]) /\ job'[j].stage = job[j].stage
  <2>1. PICK d \in Dispatch : Serves(d, j)
    BY <1>3 DEF DeliveryInv, ActiveIsDelivered, Serves
  <2>2. CASE \A p \in Dispatcher : MarkDispatchPublished(p) => dispatcher[p].row # d
    BY <1>1, <1>3, <2>1, <2>2, ServesOn
  <2>3. ASSUME NEW p \in Dispatcher, MarkDispatchPublished(p), dispatcher[p].row = d
        PROVE  \E e \in Dispatch : Serves(e, j)'
    <3>1. ServedBeside(d) /\ dispatch[d].job = j
      BY <2>1, <2>3 DEF DeliveryInv, MarkServed, MarkDispatchPublished, Serves
    <3>2. PICK e \in Dispatch \ {d} : Serves(e, j)
      BY <1>3, <3>1 DEF ServedBeside
    <3>3. \A q \in Dispatcher : dispatcher[q].row # e
      BY <2>3, <3>2, OneProcess
    <3>4. Serves(e, j)'
      BY <1>1, <1>3, <3>2, <3>3, ServesOn
    <3> QED
      BY <3>4
  <2> QED
    BY <2>2, <2>3
<1> QED
  BY <1>1, <1>2, <1>3, ActiveStep

\* The row that is marked next was left by a finished publish, or was so before.
LEMMA MarkCause ==
    ASSUME LocalInv, Next, NEW p \in Dispatcher, dispatcher'[p].pc = "mark"
    PROVE  \/ /\ dispatcher'[p] = dispatcher[p]
              /\ \A q \in Dispatcher : ~MarkDispatchPublished(q)
           \/ /\ PublishReturns(p)
              /\ \/ LocalReturn(p) \/ ScheduleRetry(p) \/ FailTerminal(p)
                 \/ RecoveryRefused(p) /\ StaleVersion(job[Msg(p).job], worker[p].snap.version)
<1>1. dispatcher \in [Dispatcher -> DispatcherStates] /\ \A q \in Dispatcher : q = p
  BY Tables, OneProcess DEF LocalInv
<1>2. ASSUME NEW s \in DispatcherStates, s.pc # "mark"
      PROVE  dispatcher' # [dispatcher EXCEPT ![p] = s]
  BY <1>1, <1>2
<1>3. ~MarkDispatchPublished(p) /\ ~MarkFails(p) /\ ~ReleaseDispatch(p)
  <2>1. NextRow(p) \in DispatcherStates /\ NextRow(p).pc # "mark"
    BY NextRowType
  <2> QED
    BY <1>2, <2>1 DEF MarkDispatchPublished, MarkFails, ReleaseDispatch
<1>4. dispatcher'[p] # [dispatcher[p] EXCEPT !.pc = "release"]
  BY <1>1 DEF DispatcherStates
<1>5. ~RecoveryError(p) /\ ~ProcessCrash(p)
  BY <1>1, <1>4 DEF RecoveryError, ProcessCrash, IdleDispatcher
<1>6. ~ClaimPendingDispatches(p) /\ ~LocalPublish(p) /\ ~PublishDeleted(p) /\ ~ClaimedEventError(p)
  BY <1>1
     DEF ClaimPendingDispatches, LocalPublish, PublishDeleted, ClaimedEventError, DispatcherStates
<1>7. ASSUME NEW j \in Job, Admit(j, {}) \/ CleanupJob(j) \/ ApiStep(j)
      PROVE  UNCHANGED dispatcher
  BY <1>7 DEF Admit, CleanupJob, ApiStep, ApiPoll, ApiMark, ApiMarkStale, ApiSaveAsset, outboxVars
<1>8. ASSUME NEW d \in Dispatch, LeaseExpires(d)
      PROVE  UNCHANGED dispatcher
  BY <1>8 DEF LeaseExpires
<1>9. CASE UNCHANGED dispatcher
  BY <1>1, <1>3, <1>9
<1>10. CASE \E q \in Dispatcher : ProcessStep(q)
  <2>1. ProcessStep(p)
    BY <1>1, <1>10
  <2>2. CASE WorkerStep(p) \/ RecoveryRead(p)
    BY <1>9, <2>2 DEF WorkerStep, Check, Claim, ProviderCall, Persist, RecordSubmittedRecovery,
                      RecoveryRead, outboxVars
  <2>3. CASE LocalReturn(p) \/ ScheduleRetry(p) \/ FailTerminal(p)
    BY <2>3 DEF LocalReturn, ScheduleRetry, FailTerminal
  <2>4. CASE RecoveryRefused(p)
    BY <1>1, <1>4, <2>4 DEF RecoveryRefused
  <2> QED
    BY <1>3, <1>6, <2>1, <2>2, <2>3, <2>4 DEF ProcessStep
<1>11. CASE Fault
  <2>1. DatabaseError(p)
    BY <1>1, <1>3, <1>5, <1>6, <1>11 DEF Fault
  <2> QED
    BY <1>9, <2>1 DEF DatabaseError, outboxVars
<1> QED
  BY <1>7, <1>8, <1>9, <1>10, <1>11, NoRequeue DEF Next

\* A finished publish leaves a row behind that its job does not need.
LEMMA MarkStep ==
    ASSUME LocalInv, DeliveryInv, Next, NEW p \in Dispatcher
    PROVE  MarkServed(p)'
<1>1. SUFFICES ASSUME dispatcher'[p].pc = "mark"
               PROVE  ServedBeside(dispatcher[p].row)'
  BY DEF MarkServed
<1>2. CASE /\ dispatcher'[p] = dispatcher[p]
           /\ \A q \in Dispatcher : ~MarkDispatchPublished(q)
  <2>1. PICK d \in Created : d = dispatcher[p].row /\ ServedBeside(d)
    BY <1>1, <1>2 DEF DeliveryInv, MarkServed, LocalInv, RowsInv, BatchFits
  <2>2. ServedBeside(d)'
    BY <1>2, <2>1, BesideOn
  <2>3. dispatcher'[p].row = d
    BY <1>2, <2>1
  <2> QED
    BY <2>2, <2>3 DEF ServedBeside
<1>3. CASE /\ PublishReturns(p)
           /\ \/ LocalReturn(p) \/ ScheduleRetry(p) \/ FailTerminal(p)
              \/ RecoveryRefused(p) /\ StaleVersion(job[Msg(p).job], worker[p].snap.version)
  <2>1. worker[p].pc \in {"done", "decide"}
    BY <1>3 DEF LocalReturn, ScheduleRetry, FailTerminal, RecoveryRefused
  <2>2. PICK d \in Created : d = worker[p].msg /\ d = dispatcher[p].row
    BY <2>1 DEF LocalInv, WorkInv, WorkFits
  <2>3. PICK j \in Job : j = Msg(p).job /\ j = dispatch[d].job /\ dispatch'[d].job = j
    BY <2>1, <2>2, MessageRow, RowsStay DEF RowsKept, Msg
  <2>4. job \in [Job -> JobRows] /\ dispatcher \in [Dispatcher -> DispatcherStates]
    BY Tables DEF LocalInv
  <2>5. dispatcher'[p].row = d
    BY <1>3, <2>2, <2>4 DEF PublishReturns, DispatcherStates
  <2>6. CASE ~Active(job'[j])
    BY <2>3, <2>5, <2>6 DEF ServedBeside
  <2>7. CASE LocalReturn(p)
    <3>1. UNCHANGED <<job, dispatch>>
      BY <2>7 DEF LocalReturn
    <3>2. CASE NothingToRecover(j)
      BY <2>6, <3>1, <3>2 DEF NothingToRecover
    <3>3. CASE worker[p].pc = "done" /\ worker[p].res \notin RepeatedDelivery \cup {"raised"}
      <4>1. ServedBeside(d)
        BY <2>2, <3>3 DEF DeliveryInv, DoneServed
      <4> QED
        BY <2>5, <3>1, <4>1 DEF ServedBeside, Serves, Undelivered
    <3> QED
      BY <2>3, <2>7, <3>2, <3>3 DEF LocalReturn
  <2>8. CASE ScheduleRetry(p)
    <3>1. PICK e \in Dispatch \ Created : Serves(e, j)'
      BY <2>3, <2>8, RetryServes DEF Retries
    <3>2. e # d
      BY <3>1
    <3> QED
      BY <2>3, <2>5, <3>1, <3>2 DEF ServedBeside
  <2>9. CASE FailTerminal(p)
    <3>1. job'[j].status = "failed"
      BY <2>3, <2>4, <2>9 DEF FailTerminal, Transitioned
    <3> QED
      BY <2>6, <3>1 DEF Active, ActiveStatuses
  <2>10. CASE RecoveryRefused(p) /\ StaleVersion(job[j], worker[p].snap.version)
    <3>1. UNCHANGED job /\ worker[p].pc = "decide"
      BY <2>10 DEF RecoveryRefused
    <3>2. Active(job[j]) => worker[p].snap = job[j]
      BY <2>3, <3>1 DEF DeliveryInv, Current
    <3> QED
      BY <2>6, <2>10, <3>1, <3>2 DEF StaleVersion
  <2> QED
    BY <1>3, <2>3, <2>7, <2>8, <2>9, <2>10
<1> QED
  BY <1>1, <1>2, <1>3, MarkCause

\* What the worker of the process must keep true.
Attends(p) == DoneServed(p) /\ Current(p)

\* A worker that stops has nothing to keep.
LEMMA AttendsIdle ==
    ASSUME NEW p \in Dispatcher, worker'[p] = IdleWorker
    PROVE  Attends(p)'
<1>1. worker'[p].pc = "idle"
  BY DEF IdleWorker
<1> QED
  BY <1>1 DEF Attends, DoneServed, Current, Holds

\* A handler ends; a plain result means that its message is not needed.
LEMMA AttendsDone ==
    ASSUME LocalInv, NEW p \in Dispatcher, NEW verdict,
           worker' = [worker EXCEPT ![p] = Ended(p, verdict)],
           NEW d, d = worker[p].msg,
           verdict \notin RepeatedDelivery \cup {"raised"} => ServedBeside(d)'
    PROVE  Attends(p)'
<1>1. worker'[p] = Ended(p, verdict)
  BY Tables DEF LocalInv
<1>2. worker'[p].pc = "done" /\ worker'[p].res = verdict /\ worker'[p].msg = d
  BY <1>1, EndedIsDone
<1>3. DoneServed(p)'
  BY <1>2 DEF DoneServed, ServedBeside
<1> QED
  BY <1>2, <1>3 DEF Attends, Current, Holds

\* While the worker does nothing its job stays as it is, or is ended.
LEMMA QuietJob ==
    ASSUME LocalInv, Next, NEW p \in Dispatcher, UNCHANGED worker, worker[p].pc # "idle",
           NEW j \in Job, j = Msg(p).job
    PROVE  job'[j] = job[j] \/ ~Active(job'[j])
<1>1. /\ job \in [Job -> JobRows] /\ job[j].status # "absent"
      /\ worker \in [Dispatcher -> WorkerStates] /\ \A q \in Dispatcher : q = p
  BY Tables, MessageRow, OneProcess DEF LocalInv
<1>2. ~Admit(j, {})
  BY <1>1 DEF Admit
<1>3. CleanupJob(j) => job'[j].status = "deleted"
  BY <1>1 DEF CleanupJob, JobRows
<1>4. Marks(j) => job'[j].status \in {"succeeded", "failed"}
  BY <1>1, MarksRows DEF Transitioned
<1>5. ~Takes(p, j)
  <2>1. SUFFICES ASSUME Takes(p, j) PROVE FALSE
    OBVIOUS
  <2>2. worker[p].pc = "claim" /\ worker' = [worker EXCEPT ![p] = AfterClaim(p, job[j].version + 1)]
    BY <2>1, TakesRows
  <2>3. worker'[p].pc \in {"call", "persist"}
    BY <2>2, AfterClaimed DEF LocalInv
  <2> QED
    BY <2>2, <2>3
<1>6. ~Settles(p, j) /\ ~Saves(p, j)
  <2>1. ASSUME NEW verdict, worker' = [worker EXCEPT ![p] = Ended(p, verdict)]
        PROVE  worker[p].pc = "done"
    BY <1>1, <2>1, EndedIsDone
  <2> QED
    BY <2>1, SettlesRows, SavesRows
<1>7. ~Retries(p, j) /\ ~GivesUp(p, j)
  <2>1. PublishReturns(p) => worker[p].pc = "idle"
    BY <1>1 DEF PublishReturns, IdleWorker
  <2> QED
    BY <2>1, RetriesRows, GivesUpRows
<1> QED
  BY <1>1, <1>2, <1>3, <1>4, <1>5, <1>6, <1>7, JobStep DEF Active, ActiveStatuses

\* A worker that does nothing: the job stays as it saw it, or has ended.
LEMMA AttendsStays ==
    ASSUME LocalInv, DeliveryInv, Next, NEW p \in Dispatcher, UNCHANGED worker
    PROVE  Attends(p)'
<1>1. CASE worker[p].pc = "idle"
  BY <1>1 DEF Attends, DoneServed, Current, Holds
<1>2. CASE worker[p].pc # "idle"
  <2>1. Msg(p)'.job = Msg(p).job
    BY <1>2, MessageKept
  <2>2. PICK j \in Job : j = Msg(p).job
    BY <1>2, MessageRow
  <2>3. job'[j] = job[j] \/ ~Active(job'[j])
    BY <1>2, <2>2, QuietJob
  <2>4. Current(p)'
    <3>1. Current(p)
      BY DEF DeliveryInv
    <3> QED
      BY <2>1, <2>2, <2>3, <3>1 DEF Current, Holds
  <2>5. DoneServed(p)'
    <3>1. PICK d \in Created : d = worker[p].msg /\ dispatcher[p].pc = "run"
      BY <1>2 DEF LocalInv, WorkInv, WorkFits
    <3>2. \A q \in Dispatcher : ~MarkDispatchPublished(q)
      BY <3>1, OneProcess DEF MarkDispatchPublished
    <3>3. ServedBeside(d) => ServedBeside(d)'
      BY <3>2, BesideOn
    <3>4. worker[p].pc = "done" /\ worker[p].res \notin RepeatedDelivery \cup {"raised"} =>
            ServedBeside(d)
      BY <3>1 DEF DeliveryInv, DoneServed
    <3> QED
      BY <3>1, <3>3, <3>4 DEF DoneServed, ServedBeside
  <2> QED
    BY <2>4, <2>5 DEF Attends
<1> QED
  BY <1>1, <1>2

\* publish enters the handler with a fresh snapshot.
LEMMA AttendsStarts ==
    ASSUME LocalInv, NEW p \in Dispatcher, LocalPublish(p)
    PROVE  Attends(p)'
<1>1. worker \in [Dispatcher -> WorkerStates]
  BY Tables DEF LocalInv
<1>2. PICK d \in Created : worker' = [worker EXCEPT ![p] = StartedOn(d)]
  BY DEF LocalPublish, LocalInv, RowsInv, BatchFits
<1>3. UNCHANGED <<job, dispatch>>
  BY DEF LocalPublish
<1>4. CASE ~Exists(job[dispatch[d].job])
  <2>1. worker'[p].pc = "done" /\ worker'[p].res = "raised"
    BY <1>1, <1>2, <1>4, LocalAssumption DEF StartedOn, IdleWorker
  <2> QED
    BY <2>1 DEF Attends, DoneServed, Current, Holds
<1>5. CASE Exists(job[dispatch[d].job])
  <2>1. worker'[p].pc = "check" /\ worker'[p].msg = d /\ worker'[p].snap = job[dispatch[d].job]
    BY <1>1, <1>2, <1>5 DEF StartedOn, IdleWorker
  <2>2. Msg(p)' = dispatch[d]
    BY <1>3, <2>1 DEF Msg
  <2> QED
    BY <1>3, <2>1, <2>2 DEF Attends, DoneServed, Current, Holds
<1> QED
  BY <1>4, <1>5

\* A message for another stage than the job's is not needed.
LEMMA OtherStage ==
    ASSUME LocalInv, DeliveryInv, UNCHANGED <<job, dispatch>>, NEW d \in Created,
           LET j == dispatch[d].job
           IN  Active(job[j]) => dispatch[d].stage # job[j].stage
    PROVE  ServedBeside(d)'
<1>1. PICK j \in Job : j = dispatch[d].job
  BY DEF LocalInv, RowsInv, RowFits
<1>2. SUFFICES ASSUME Active(job[j])
               PROVE  \E e \in Dispatch \ {d} : Serves(e, j)
  BY <1>1 DEF ServedBeside, Serves, Undelivered
<1>3. PICK e \in Dispatch : Serves(e, j)
  BY <1>2 DEF DeliveryInv, ActiveIsDelivered, Serves
<1>4. e # d
  BY <1>1, <1>2, <1>3 DEF Serves
<1> QED
  BY <1>3, <1>4

\* The check of WorkerRuntime.handle lets go of a message only when the job has
\* ended or is at another stage.
LEMMA AttendsChecks ==
    ASSUME LocalInv, DeliveryInv, NEW p \in Dispatcher, Check(p)
    PROVE  Attends(p)'
<1> DEFINE verdict == HandleVerdict(Msg(p), worker[p].snap, attempt[Msg(p).job][Msg(p).attempt])
<1>1. /\ worker[p].pc = "check" /\ UNCHANGED <<job, dispatch>>
      /\ worker' = [worker EXCEPT ![p] = IF verdict = "handled"
                                         THEN [worker[p] EXCEPT !.pc = "claim"]
                                         ELSE Ended(p, verdict)]
  BY DEF Check, outboxVars
<1>2. PICK d \in Created : d = worker[p].msg /\ Msg(p) = dispatch[d]
  BY <1>1, MessageRow
<1>3. LET row == job[dispatch[d].job] IN Active(row) => worker[p].snap = row
  BY <1>1, <1>2 DEF DeliveryInv, Current
<1>4. CASE verdict = "handled"
  <2>1. worker[p] \in WorkerStates /\ worker'[p] = [worker[p] EXCEPT !.pc = "claim"]
    BY <1>1, <1>4, Tables DEF LocalInv
  <2>2. worker'[p].pc = "claim" /\ worker'[p].msg = d /\ worker'[p].snap = worker[p].snap
    BY <1>2, <2>1 DEF WorkerStates
  <2>3. Msg(p)' = dispatch[d]
    BY <1>1, <2>2 DEF Msg
  <2> QED
    BY <1>1, <1>3, <2>2, <2>3 DEF Attends, DoneServed, Current, Holds
<1>5. CASE verdict # "handled"
  <2>1. verdict \in {"duplicate", "raised", "terminal", "stale"}
    BY <1>5 DEF HandleVerdict
  <2>2. verdict = "terminal" => Terminal(worker[p].snap)
    BY DEF HandleVerdict
  <2>3. verdict = "stale" => worker[p].snap.stage # dispatch[d].stage
    BY <1>2 DEF HandleVerdict
  <2>4. worker' = [worker EXCEPT ![p] = Ended(p, verdict)]
    BY <1>1, <1>5
  <2> HIDE DEF verdict
  <2>5. verdict \notin RepeatedDelivery \cup {"raised"} => ServedBeside(d)'
    <3>1. SUFFICES ASSUME verdict \in {"terminal", "stale"}
                   PROVE  ServedBeside(d)'
      BY <2>1 DEF RepeatedDelivery
    <3>2. LET row == job[dispatch[d].job] IN Active(row) => dispatch[d].stage # row.stage
      BY <1>3, <2>2, <2>3, <3>1 DEF Terminal, TerminalStatuses, Active, ActiveStatuses
    <3> QED
      BY <1>1, <3>2, OtherStage
  <2> QED
    BY <1>2, <2>4, <2>5, AttendsDone
<1> QED
  BY <1>4, <1>5

\* A claim leaves the current version with the worker; it is refused as stale
\* only for a job at another stage.
LEMMA AttendsClaims ==
    ASSUME LocalInv, DeliveryInv, NEW p \in Dispatcher, Claim(p)
    PROVE  Attends(p)'
<1> DEFINE verdict == ClaimVerdict(Msg(p), worker[p].snap, attempt[Msg(p).job], job[Msg(p).job])
<1>1. worker[p].pc = "claim" /\ UNCHANGED dispatch
  BY DEF Claim, outboxVars
<1>2. PICK d \in Created : d = worker[p].msg /\ Msg(p) = dispatch[d]
  BY <1>1, MessageRow
<1>3. PICK j \in Job : j = Msg(p).job /\ j = dispatch[d].job /\ RowFits(dispatch[d])
  BY <1>1, <1>2, MessageRow
<1>4. Active(job[j]) => worker[p].snap = job[j]
  BY <1>1, <1>3 DEF DeliveryInv, Current
<1>5. /\ job \in [Job -> JobRows] /\ job[j].version \in Nat
      /\ attempt \in [Job -> [AttemptNumbers -> AttemptRows]]
  BY Tables DEF LocalInv, JobRows
<1>6. ASSUME NEW version, worker' = [worker EXCEPT ![p] = AfterClaim(p, version)],
             Active(job'[j]) => version = job'[j].version
      PROVE  Attends(p)'
  <2> DEFINE known == Msg(p).stage = "video_submit" /\ worker[p].snap.task
  <2>1. /\ worker'[p].msg = d /\ worker'[p].ver = version
        /\ worker'[p].pc \in {"call", "persist"}
    <3>1. TypeOK
      BY DEF LocalInv
    <3>2. /\ worker'[p].msg = worker[p].msg /\ worker'[p].ver = version
          /\ known => worker'[p].pc = "persist"
          /\ ~known => worker'[p].pc = "call"
      BY <1>6, <3>1, AfterClaimed
    <3> QED
      BY <1>2, <3>2
  <2>2. Msg(p)'.job = j
    BY <1>1, <1>3, <2>1 DEF Msg
  <2> QED
    BY <1>6, <2>1, <2>2 DEF Attends, DoneServed, Current
<1>7. CASE Takes(p, j)
  <2>1. /\ job' = [job EXCEPT ![j] = Transitioned(job[j], "running", job[j].stage, FALSE)]
        /\ worker' = [worker EXCEPT ![p] = AfterClaim(p, job[j].version + 1)]
    BY <1>7, TakesRows
  <2>2. job'[j].version = job[j].version + 1
    BY <1>5, <2>1 DEF Transitioned
  <2> QED
    BY <1>6, <2>1, <2>2
<1>8. CASE verdict = "resumed"
  <2>1. /\ worker' = [worker EXCEPT ![p] = AfterClaim(p, worker[p].snap.version)]
        /\ UNCHANGED job
    BY <1>8 DEF Claim
  <2> QED
    BY <1>4, <1>6, <2>1
<1>9. CASE verdict \notin {"claimed", "resumed"}
  <2>1. worker' = [worker EXCEPT ![p] = Ended(p, verdict)] /\ UNCHANGED job
    BY <1>9 DEF Claim
  <2>2. verdict \in RepeatedDelivery \/ verdict = "stale"
    BY <1>9 DEF ClaimVerdict, Repeated, RepeatedDelivery
  <2>3. ASSUME verdict = "stale", Active(job[j])
        PROVE  dispatch[d].stage # job[j].stage
    <3>1. /\ attempt[j][dispatch[d].attempt].status = "none"
          /\ ~CanClaim(job[j], worker[p].snap.version, dispatch[d].stage, KindOf[j] = "video")
      BY <1>2, <1>3, <2>3 DEF ClaimVerdict, Repeated
    <3>2. CASE KindOf[j] = "video"
      BY <1>4, <2>3, <3>1, <3>2 DEF CanClaim, Active
    <3>3. CASE KindOf[j] = "image"
      <4>1. attempt[j][1].status = "none"
        BY <1>3, <3>1, <3>3 DEF RowFits
      <4>2. job[j].status # "running"
        BY <3>3, <4>1 DEF DeliveryInv, ImageClaimed
      <4> QED
        BY <1>4, <2>3, <3>1, <3>3, <4>2 DEF CanClaim, Active, ActiveStatuses
    <3> QED
      BY <3>2, <3>3, KindAssumption
  <2> HIDE DEF verdict
  <2>4. verdict \notin RepeatedDelivery \cup {"raised"} => ServedBeside(d)'
    BY <1>1, <1>3, <2>1, <2>2, <2>3, OtherStage
  <2> QED
    BY <1>2, <2>1, <2>4, AttendsDone
<1>10. verdict = "claimed" => Takes(p, j)
  BY <1>3 DEF Takes
<1> QED
  BY <1>7, <1>8, <1>9, <1>10

\* A holder that keeps its version while nothing else happens.
LEMMA AttendsHolds ==
    ASSUME LocalInv, DeliveryInv, NEW p \in Dispatcher, Holds(p), UNCHANGED <<job, dispatch>>,
           worker'[p].msg = worker[p].msg, worker'[p].ver = worker[p].ver,
           worker'[p].pc \in {"persist", "recover"}
    PROVE  Attends(p)'
<1>1. Msg(p)' = Msg(p)
  BY DEF Msg
<1>2. Active(job[Msg(p).job]) => worker[p].ver = job[Msg(p).job].version
  BY DEF DeliveryInv, Current
<1> QED
  BY <1>1, <1>2 DEF Attends, DoneServed, Current

\* The provider's answer changes nothing the worker knows.
LEMMA AttendsCalls ==
    ASSUME LocalInv, DeliveryInv, NEW p \in Dispatcher, ProviderCall(p)
    PROVE  Attends(p)'
<1>1. worker \in [Dispatcher -> WorkerStates] /\ worker[p] \in WorkerStates
  BY Tables DEF LocalInv
<1>2. PICK res : worker' = [worker EXCEPT ![p].pc = "persist", ![p].res = res]
  BY DEF ProviderCall
<1>3. /\ worker'[p].msg = worker[p].msg /\ worker'[p].ver = worker[p].ver
      /\ worker'[p].pc = "persist"
  BY <1>1, <1>2 DEF WorkerStates
<1>4. Holds(p) /\ UNCHANGED <<job, dispatch>>
  BY DEF ProviderCall, Holds, outboxVars
<1> QED
  BY <1>3, <1>4, AttendsHolds

\* The persisting transaction ends the job or writes its next dispatch, and is
\* refused as stale only after a client's poll ended the job.
LEMMA AttendsPersists ==
    ASSUME LocalInv, DeliveryInv, NEW p \in Dispatcher, Persist(p), Next
    PROVE  Attends(p)'
<1>1. worker[p].pc = "persist" /\ Holds(p)
  BY DEF Persist, Holds
<1>2. PICK d \in Created : d = worker[p].msg /\ Msg(p) = dispatch[d]
  BY <1>1, MessageRow
<1>3. PICK j \in Job : j = Msg(p).job /\ dispatch'[d].job = j
  BY <1>1, <1>2, MessageRow, RowsStay DEF RowsKept
<1>4. Active(job[j]) => worker[p].ver = job[j].version
  BY <1>1, <1>3 DEF DeliveryInv, Current
<1>5. CASE ~Active(job'[j])
  <2>1. ServedBeside(d)'
    BY <1>3, <1>5 DEF ServedBeside
  <2>2. \E verdict : worker' = [worker EXCEPT ![p] = Ended(p, verdict)]
    BY DEF Persist
  <2> QED
    BY <1>2, <2>1, <2>2, AttendsDone
<1>6. CASE Settles(p, j) /\ Active(job'[j])
  <2>1. PICK e \in Dispatch \ Created : Serves(e, j)'
    BY <1>6, SettledServes
  <2>2. e # d
    BY <2>1
  <2>3. ServedBeside(d)'
    BY <1>3, <2>1, <2>2 DEF ServedBeside
  <2>4. worker' = [worker EXCEPT ![p] = Ended(p, "handled")]
    BY <1>6, SettlesRows
  <2> QED
    BY <1>2, <2>3, <2>4, AttendsDone
<1>7. CASE ~Settles(p, j) /\ Active(job'[j])
  <2>1. /\ UNCHANGED job
        /\ worker' = [worker EXCEPT ![p] =
             Ended(p, IF /\ StaleVersion(job[j], worker[p].ver)
                         /\ CatchesStale(Msg(p).stage, worker[p].res)
                      THEN "stale" ELSE "raised")]
    BY <1>3, <1>7 DEF Persist, Settles, OutcomeOf
  <2>2. ~StaleVersion(job[j], worker[p].ver)
    BY <1>4, <1>7, <2>1 DEF StaleVersion
  <2>3. worker' = [worker EXCEPT ![p] = Ended(p, "raised")]
    BY <2>1, <2>2
  <2> QED
    BY <1>2, <2>3, AttendsDone
<1> QED
  BY <1>5, <1>6, <1>7

\* A database error in the handler raises, or leaves the version alone.
LEMMA AttendsErrs ==
    ASSUME LocalInv, DeliveryInv, NEW p \in Dispatcher, DatabaseError(p)
    PROVE  Attends(p)'
<1>1. /\ UNCHANGED <<job, dispatch>>
      /\ worker[p] \in WorkerStates /\ worker \in [Dispatcher -> WorkerStates]
  BY Tables DEF DatabaseError, outboxVars, LocalInv
<1>2. \/ /\ worker[p].pc = "persist"
         /\ worker' = [worker EXCEPT ![p] = [worker[p] EXCEPT !.res = "error"]]
      \/ /\ worker[p].pc = "persist"
         /\ worker' = [worker EXCEPT ![p] = [worker[p] EXCEPT !.pc = "recover"]]
      \/ worker' = [worker EXCEPT ![p] = Ended(p, "raised")]
  BY DEF DatabaseError
<1>3. CASE /\ worker[p].pc = "persist"
           /\ worker' = [worker EXCEPT ![p] = [worker[p] EXCEPT !.res = "error"]]
  <2>1. /\ worker'[p].msg = worker[p].msg /\ worker'[p].ver = worker[p].ver
        /\ worker'[p].pc = "persist"
    BY <1>1, <1>3 DEF WorkerStates
  <2> QED
    BY <1>1, <1>3, <2>1, AttendsHolds DEF Holds
<1>4. CASE /\ worker[p].pc = "persist"
           /\ worker' = [worker EXCEPT ![p] = [worker[p] EXCEPT !.pc = "recover"]]
  <2>1. /\ worker'[p].msg = worker[p].msg /\ worker'[p].ver = worker[p].ver
        /\ worker'[p].pc = "recover"
    BY <1>1, <1>4 DEF WorkerStates
  <2> QED
    BY <1>1, <1>4, <2>1, AttendsHolds DEF Holds
<1>5. CASE worker' = [worker EXCEPT ![p] = Ended(p, "raised")]
  BY <1>5, AttendsDone
<1> QED
  BY <1>2, <1>3, <1>4, <1>5

\* The recovery reads the job again.
LEMMA AttendsRecovers ==
    ASSUME LocalInv, NEW p \in Dispatcher, RecoveryRead(p)
    PROVE  Attends(p)'
<1>1. /\ worker' = [worker EXCEPT ![p].pc = "decide", ![p].snap = job[Msg(p).job]]
      /\ UNCHANGED <<job, dispatch>>
      /\ worker[p] \in WorkerStates /\ worker \in [Dispatcher -> WorkerStates]
  BY Tables DEF RecoveryRead, outboxVars, LocalInv
<1>2. /\ worker'[p].msg = worker[p].msg /\ worker'[p].snap = job[Msg(p).job]
      /\ worker'[p].pc = "decide"
  BY <1>1 DEF WorkerStates
<1>3. Msg(p)' = Msg(p)
  BY <1>1, <1>2 DEF Msg
<1> QED
  BY <1>1, <1>2, <1>3 DEF Attends, DoneServed, Current, Holds

\* Every step keeps the worker's view current.
LEMMA AttendsStep ==
    ASSUME LocalInv, DeliveryInv, Next, NEW p \in Dispatcher
    PROVE  Attends(p)'
<1>1. worker \in [Dispatcher -> WorkerStates] /\ \A q \in Dispatcher : q = p
  BY Tables, OneProcess DEF LocalInv
<1>2. ASSUME worker' = [worker EXCEPT ![p] = IdleWorker]
      PROVE  Attends(p)'
  BY <1>1, <1>2, AttendsIdle
<1>3. CASE UNCHANGED worker
  BY <1>3, AttendsStays
<1>4. ASSUME NEW j \in Job, Admit(j, {}) \/ CleanupJob(j) \/ ApiStep(j)
      PROVE  UNCHANGED worker
  BY <1>4 DEF Admit, CleanupJob, ApiStep, ApiPoll, ApiMark, ApiMarkStale, ApiSaveAsset, workVars
<1>5. CASE \E q \in Dispatcher : ProcessStep(q)
  <2>1. ProcessStep(p)
    BY <1>1, <1>5
  <2>2. CASE RecordSubmittedRecovery(p)
    BY <2>2, AttendsDone DEF RecordSubmittedRecovery
  <2>3. CASE WorkerStep(p)
    BY <2>2, <2>3, AttendsChecks, AttendsClaims, AttendsCalls, AttendsPersists DEF WorkerStep
  <2>4. CASE LocalReturn(p) \/ ScheduleRetry(p) \/ FailTerminal(p) \/ RecoveryRefused(p)
    BY <1>2, <2>4 DEF LocalReturn, ScheduleRetry, FailTerminal, RecoveryRefused, PublishReturns
  <2> QED
    BY <1>3, <2>1, <2>3, <2>4, AttendsStarts, AttendsRecovers DEF ProcessStep, workVars
<1>6. CASE Fault
  <2>1. \/ DatabaseError(p) \/ RecoveryError(p) \/ ProcessCrash(p) \/ ClaimedEventError(p)
        \/ MarkFails(p) /\ UNCHANGED workVars
    BY <1>1, <1>6 DEF Fault
  <2> QED
    BY <1>2, <1>3, <2>1, AttendsErrs DEF RecoveryError, ProcessCrash, ClaimedEventError, workVars
<1> QED
  BY <1>3, <1>4, <1>5, <1>6, NoRequeue DEF Next, workVars

\* An image job starts to run with the claim of attempt 1, which stays.
LEMMA ImageClaimStep ==
    ASSUME LocalInv, DeliveryInv, Next
    PROVE  ImageClaimed'
<1>1. SUFFICES ASSUME NEW j \in Job, KindOf[j] = "image", job'[j].status = "running"
               PROVE  attempt'[j][1].status # "none"
  BY DEF ImageClaimed
<1>2. job \in [Job -> JobRows] /\ attempt \in [Job -> [AttemptNumbers -> AttemptRows]]
  BY Tables DEF LocalInv
<1>3. CASE Spent(j)
  BY <1>1, <1>3, AttemptForward DEF Spent
<1>4. CASE ~Spent(j)
  <2>1. job[j].status # "running" /\ attempt[j][1].status = "none" /\ job[j].status # "deleted"
    BY <1>1, <1>4 DEF DeliveryInv, ImageClaimed, Spent
  <2>2. ~Admit(j, {}) /\ ~CleanupJob(j) /\ ~Marks(j)
    <3>1. Admit(j, {}) => job'[j].status = "queued"
      BY <1>2, InsertedType DEF Admit
    <3>2. CleanupJob(j) => job'[j].status = "deleted"
      BY <1>2 DEF CleanupJob, JobRows
    <3>3. Marks(j) => job'[j].status \in {"succeeded", "failed"}
      BY <1>2, MarksRows DEF Transitioned
    <3> QED
      BY <1>1, <3>1, <3>2, <3>3
  <2>3. ASSUME NEW p \in Dispatcher
        PROVE  ~Saves(p, j) /\ ~Retries(p, j) /\ ~GivesUp(p, j)
    <3>1. Saves(p, j) => "video_submit" \in StagesByKind[KindOf[j]]
      BY SavesRows DEF CanTransition
    <3>2. GivesUp(p, j) => job'[j].status = "failed"
      BY <1>2, GivesUpRows DEF Transitioned
    <3>3. "video_submit" \notin StagesByKind[KindOf[j]]
      BY <1>1 DEF StagesByKind
    <3>4. Retries(p, j) => KindOf[j] = "video"
      BY RetriesRows
    <3> QED
      BY <1>1, <3>1, <3>2, <3>3, <3>4
  <2>4. ASSUME NEW p \in Dispatcher, Settles(p, j)
        PROVE  FALSE
    <3>1. worker[p].pc = "persist" /\ Msg(p).job = j
      BY <2>4 DEF Settles, Persist
    <3>2. RowFits(Msg(p))
      BY <3>1, MessageRow
    <3>3. Msg(p).stage = "image_generate"
      BY <1>1, <3>1, <3>2 DEF RowFits
    <3>4. OutcomeOf(p).status # "running"
      BY <3>3, OutcomeType DEF OutcomeOf
    <3>5. job' = [job EXCEPT ![j] = Transitioned(job[j], OutcomeOf(p).status, OutcomeOf(p).stage,
                                                 OutcomeOf(p).status = "running")]
      BY <2>4, SettlesRows
    <3>6. job'[j].status = OutcomeOf(p).status
      BY <1>2, <3>5 DEF Transitioned
    <3> QED
      BY <1>1, <3>4, <3>6
  <2>5. ASSUME NEW p \in Dispatcher, Takes(p, j)
        PROVE  attempt'[j][1].status # "none"
    <3>1. worker[p].pc = "claim" /\ Msg(p).job = j /\ Msg(p).stage \in Stages
      BY <2>5, TakesRows DEF Takes
    <3>2. RowFits(Msg(p))
      BY <3>1, MessageRow
    <3>3. Msg(p).attempt = 1
      BY <1>1, <3>1, <3>2 DEF RowFits
    <3>4. attempt' = [attempt EXCEPT ![j] =
                        WithAttempt(attempt[j], Msg(p).attempt, Msg(p).stage)]
      BY <2>5, TakesRows
    <3>5. attempt'[j] = WithAttempt(attempt[j], 1, Msg(p).stage)
      BY <1>2, <3>3, <3>4
    <3> QED
      BY <1>2, <3>1, <3>5, AttemptTaken, Numbers
  <2> QED
    BY <1>1, <2>1, <2>2, <2>3, <2>4, <2>5, JobStep
<1> QED
  BY <1>3, <1>4

\* No active job is forgotten: whatever crashes, raises or is recovered, the
\* outbox keeps an undelivered row for the job's current stage, or one that was
\* given up after dispatch_max_attempts.  A row is marked published only when
\* its job has ended or another row serves it (dispatch_once marks after
\* publish returned).
THEOREM LocalActiveIsDelivered == Spec => []ActiveIsDelivered
<1>1. Init => DeliveryInv
  <2>1. SUFFICES ASSUME Init PROVE DeliveryInv
    OBVIOUS
  <2>2. \A j \in Job : ~Active(job[j]) /\ job[j].status # "running"
    BY <2>1 DEF Init, WorkInit, AbsentJob, Active, ActiveStatuses
  <2>3. \A p \in Dispatcher : dispatcher[p].pc = "idle" /\ worker[p].pc = "idle"
    BY <2>1, OneProcess DEF Init, WorkInit, OutboxInit, IdleDispatcher, IdleWorker
  <2> QED
    BY <2>2, <2>3
       DEF DeliveryInv, ActiveIsDelivered, ImageClaimed, MarkServed, DoneServed, Current, Holds
<1>2. LocalInv /\ DeliveryInv /\ [Next]_vars => DeliveryInv'
  <2>1. CASE LocalInv /\ DeliveryInv /\ Next
    BY <2>1, DeliveredStep, ImageClaimStep, MarkStep, AttendsStep DEF DeliveryInv, Attends
  <2>2. CASE DeliveryInv /\ UNCHANGED vars
    <3>1. UNCHANGED <<job, attempt, worker, dispatch, dispatcher>>
      BY <2>2 DEF vars
    <3>2. \A d \in Dispatch : Undelivered(d)' = Undelivered(d)
      BY <3>1 DEF Undelivered
    <3>3. \A p \in Dispatcher : MarkServed(p)' /\ DoneServed(p)' /\ Current(p)'
      <4>1. SUFFICES ASSUME NEW p \in Dispatcher
                     PROVE  MarkServed(p)' /\ DoneServed(p)' /\ Current(p)'
        OBVIOUS
      <4>2. MarkServed(p) /\ DoneServed(p) /\ Current(p)
        BY <2>2 DEF DeliveryInv
      <4>3. MarkServed(p)'
        BY <3>1, <4>2 DEF MarkServed, ServedBeside, Serves, Undelivered
      <4>4. DoneServed(p)'
        BY <3>1, <4>2 DEF DoneServed, ServedBeside, Serves, Undelivered
      <4>5. Current(p)'
        BY <3>1, <4>2 DEF Current, Holds, Msg
      <4> QED
        BY <4>3, <4>4, <4>5
    <3>4. ActiveIsDelivered' /\ ImageClaimed'
      BY <2>2, <3>1, <3>2 DEF DeliveryInv, ActiveIsDelivered, ImageClaimed
    <3> QED
      BY <3>3, <3>4 DEF DeliveryInv
  <2> QED
    BY <2>1, <2>2
<1>3. DeliveryInv => ActiveIsDelivered
  BY DEF DeliveryInv
<1> QED
  BY <1>1, <1>2, <1>3, LocalInvariant, PTL DEF Spec

-----------------------------------------------------------------------------
(***************************************************************************)
(* What a step may never do, and the contract                              *)
(***************************************************************************)
\* The outcome of a job is decided once: neither a late worker, the recovery
\* nor a client's poll replaces it.
THEOREM LocalTerminalIsFinal == Spec => TerminalIsFinal
<1>1. ASSUME LocalInv, Next, NEW j \in Job, Terminal(job[j])
      PROVE  job'[j].status \in {job[j].status, "deleted"}
  <2>1. job \in [Job -> JobRows] /\ job[j] \in JobRows
    BY <1>1, Tables DEF LocalInv
  <2>2. CASE Moved(j)
    <3>1. job'[j].status \in StatusTransitions[job[j].status]
      BY <1>1, <2>2, MovedTransits, TransitsRow DEF LocalInv
    <3> QED
      BY <1>1, <3>1 DEF Terminal, TerminalStatuses, StatusTransitions
  <2>3. ~Admit(j, {})
    BY <1>1 DEF Admit, Terminal, TerminalStatuses
  <2>4. CASE CleanupJob(j)
    BY <2>1, <2>4 DEF CleanupJob, JobRows
  <2> QED
    BY <1>1, <2>2, <2>3, <2>4, JobStep DEF Moved, MovedBy
<1>2. LocalInv /\ [Next]_vars =>
        [\A j \in Job : Terminal(job[j]) => job'[j].status \in {job[j].status, "deleted"}]_vars
  BY <1>1
<1> QED
  BY <1>2, LocalInvariant, PTL DEF Spec, TerminalIsFinal

\* A row marked published stays so until its job is cleaned up.
THEOREM LocalPublishedIsFinal == Spec => PublishedIsFinal
<1>1. ASSUME LocalInv, Next, NEW d \in Dispatch, dispatch[d].status = "published"
      PROVE  dispatch'[d].status \in {"published", "deleted"}
  <2>1. RowStep(d)
    BY <1>1, RowsStep
  <2> QED
    BY <1>1, <2>1 DEF RowStep, Keeps
<1>2. LocalInv /\ [Next]_vars =>
        [\A d \in Dispatch : dispatch[d].status = "published" =>
            \/ dispatch'[d].status \in {"published", "deleted"}
            \/ dispatch'[d].status = "failed" /\ job[dispatch[d].job].status = "queued"]_vars
  BY <1>1
<1> QED
  BY <1>2, LocalInvariant, PTL DEF Spec, PublishedIsFinal

\* A job succeeds only after its charge: an image by the call's own result, a
\* video because its task id is on record.
LEMMA SuccessCharged ==
    ASSUME LocalInv, NEW j \in Job, Moved(j), job'[j].status = "succeeded"
    PROVE  calls[j] = 1
<1>1. job \in [Job -> JobRows] /\ job[j] \in JobRows
  BY Tables DEF LocalInv
<1>2. job[j].task => calls[j] = 1
  BY DEF LocalInv, JobsInv, JobFits
<1>3. ASSUME NEW p \in Dispatcher, Settles(p, j)
      PROVE  calls[j] = 1
  <2>1. /\ worker[p].pc = "persist" /\ Msg(p).job = j
        /\ job' = [job EXCEPT ![j] = Transitioned(job[j], OutcomeOf(p).status, OutcomeOf(p).stage,
                                                  OutcomeOf(p).status = "running")]
    BY <1>3, SettlesRows DEF Settles
  <2>2. OutcomeOf(p).status = "succeeded"
    BY <1>1, <2>1 DEF Transitioned
  <2>3. \/ Msg(p).stage = "image_generate" /\ worker[p].res = "ok"
        \/ Msg(p).stage = "asset_import"
    BY <2>2, OutcomeType DEF OutcomeOf
  <2>4. Msg(p).stage = "asset_import" => job[j].task
    BY <2>1, MessageRow DEF RowFits
  <2> QED
    BY <1>2, <2>1, <2>3, <2>4 DEF LocalInv, WorkInv, WorkFits, ResultFits
<1>4. ASSUME NEW status \in {"running", "failed"}, NEW stage, NEW task,
             job' = [job EXCEPT ![j] = Transitioned(job[j], status, stage, task)]
      PROVE  FALSE
  BY <1>1, <1>4 DEF Transitioned
<1>5. ASSUME NEW p \in Dispatcher, Takes(p, j)
      PROVE  FALSE
  <2>1. job' = [job EXCEPT ![j] = Transitioned(job[j], "running", job[j].stage, FALSE)]
    BY <1>5, TakesRows
  <2> QED
    BY <1>4, <2>1
<1>6. ASSUME NEW p \in Dispatcher, Saves(p, j)
      PROVE  FALSE
  BY <1>4, <1>6, SavesRows
<1>7. ASSUME NEW p \in Dispatcher, Retries(p, j)
      PROVE  FALSE
  <2>1. job' = [job EXCEPT ![j] = Transitioned(job[j], "running", Msg(p).stage, FALSE)]
    BY <1>7, RetriesRows
  <2> QED
    BY <1>4, <2>1
<1>8. ASSUME NEW p \in Dispatcher, GivesUp(p, j)
      PROVE  FALSE
  BY <1>4, <1>8, GivesUpRows
<1>9. CASE Marks(j)
  <2>1. api[j].pc # "idle"
    BY <1>9, MarksRows
  <2> QED
    BY <1>2, <2>1 DEF LocalInv, JobsInv, JobFits
<1> QED
  BY <1>3, <1>5, <1>6, <1>7, <1>8, <1>9 DEF Moved, MovedBy

\* The contract's view of a step that writes one job's row.
LEMMA StatusMove ==
    ASSUME LocalInv, NEW j \in Job, job' \in [Job -> JobRows],
           \A i \in Job \ {j} : job'[i] = job[i]
    PROVE  [i \in Job |-> job'[i].status] =
             [[i \in Job |-> job[i].status] EXCEPT ![j] = job'[j].status]
  OBVIOUS

\* A step that writes the row of a job is a contract step of that job, or
\* leaves its status alone.
LEMMA RowRefines ==
    ASSUME LocalInv, Next, NEW j \in Job, job'[j] # job[j]
    PROVE  Contract!ContractNext \/ UNCHANGED Contract!contractVars
<1>1. job \in [Job -> JobRows] /\ job[j] \in JobRows /\ job[j].status # "canceled"
  BY Tables DEF LocalInv, JobsInv, JobFits
<1>2. UNCHANGED calls
  BY CallStep DEF Charges
<1> DEFINE to == job'[j].status
<1>3. ASSUME NEW from, job[j].status \in from, NEW next, next = job'[j].status,
             job' \in [Job -> JobRows], \A i \in Job \ {j} : job'[i] = job[i]
      PROVE  Contract!Move(j, from, next)
  BY <1>2, <1>3, StatusMove DEF Contract!Move
<1>4. CASE Admit(j, {})
  <2>1. /\ job[j].status = "absent" /\ job' = [job EXCEPT ![j] = InsertedJob(KindOf[j])]
    BY <1>4 DEF Admit
  <2>2. /\ job' \in [Job -> JobRows] /\ to = "queued" /\ \A i \in Job \ {j} : job'[i] = job[i]
    BY <1>1, <2>1, InsertedType
  <2>3. Contract!Move(j, {"absent"}, "queued")
    BY <1>3, <2>1, <2>2
  <2> QED
    BY <2>2, <2>3 DEF Contract!ContractNext, Contract!Accept
<1>5. CASE CleanupJob(j)
  <2>1. job[j].status \in {"succeeded", "failed"} /\ job' = [job EXCEPT ![j].status = "deleted"]
    BY <1>1, <1>5 DEF CleanupJob, Terminal, TerminalStatuses
  <2>2. job' \in [Job -> JobRows] /\ to = "deleted" /\ \A i \in Job \ {j} : job'[i] = job[i]
    BY <1>1, <2>1 DEF JobRows, RowStatuses
  <2>3. Contract!Move(j, {"succeeded", "failed"}, "deleted")
    BY <1>3, <2>1, <2>2
  <2> QED
    BY <2>2, <2>3 DEF Contract!ContractNext, Contract!Forget
<1>6. CASE Moved(j)
  <2>1. /\ job' \in [Job -> JobRows] /\ \A i \in Job \ {j} : job'[i] = job[i]
        /\ Exists(job[j]) /\ to \in {"running", "succeeded", "failed"}
        /\ to \in StatusTransitions[job[j].status]
    BY <1>6, MovedTransits, TransitsRow DEF LocalInv
  <2>2. to = "succeeded" => calls[j] = 1
    BY <1>6, SuccessCharged
  <2>3. \/ job[j].status = to
        \/ job[j].status = "queued" /\ to \in {"running", "failed"}
        \/ job[j].status = "running" /\ to \in {"succeeded", "failed"}
    BY <1>1, <2>1 DEF Exists, ValidStatuses, ActiveStatuses, TerminalStatuses, StatusTransitions
  <2>4. CASE job[j].status = to
    <3>1. \A i \in Job : job'[i].status = job[i].status
      BY <2>1, <2>4
    <3> QED
      BY <1>2, <3>1 DEF Contract!contractVars
  <2>5. ASSUME job[j].status \in {"queued", "running"}, to = "failed"
        PROVE  Contract!ContractNext
    <3>1. Contract!Move(j, {"queued", "running"}, "failed")
      BY <1>3, <2>1, <2>5
    <3> QED
      BY <2>5, <3>1 DEF Contract!ContractNext, Contract!Fail
  <2>6. ASSUME job[j].status = "queued", to = "running"
        PROVE  Contract!ContractNext
    <3>1. Contract!Move(j, {"queued"}, "running")
      BY <1>3, <2>1, <2>6
    <3> QED
      BY <2>6, <3>1 DEF Contract!ContractNext, Contract!Start
  <2>7. ASSUME job[j].status = "running", to = "succeeded"
        PROVE  Contract!ContractNext
    <3>1. Contract!Move(j, {"running"}, "succeeded")
      BY <1>3, <2>1, <2>7
    <3> QED
      BY <2>2, <2>7, <3>1 DEF Contract!ContractNext, Contract!Succeed
  <2> QED
    BY <2>3, <2>4, <2>5, <2>6, <2>7
<1> QED
  BY <1>4, <1>5, <1>6, JobStep DEF Moved, MovedBy

\* Every step of the deployment is a contract step or invisible to it.
LEMMA StepRefines ==
    ASSUME LocalInv, Next
    PROVE  Contract!ContractNext \/ UNCHANGED Contract!contractVars
<1>1. CASE \E j \in Job : job'[j] # job[j]
  BY <1>1, RowRefines
<1>2. CASE ~\E j \in Job : job'[j] # job[j]
  <2>1. [i \in Job |-> job'[i].status] = [i \in Job |-> job[i].status]
    BY <1>2
  <2>2. CASE UNCHANGED calls
    BY <2>1, <2>2 DEF Contract!contractVars
  <2>3. CASE ~UNCHANGED calls
    <3>1. PICK p \in Dispatcher, j \in Job : Charges(p, j)
      BY <2>3, CallStep
    <3>2. Contract!Charge(j)
      BY <2>1, <3>1 DEF Contract!Charge, Charges
    <3> QED
      BY <3>2 DEF Contract!ContractNext
  <2> QED
    BY <2>2, <2>3
<1> QED
  BY <1>1, <1>2

\* The local deployment implements JobContract: whatever crashes, is repeated
\* or is polled by clients, a job is admitted once, charged at most once and
\* only while it runs, succeeds only after its charge, is decided once and is
\* deleted only afterwards.
THEOREM LocalImplementsContract == Spec => ImplementsContract
<1>1. Init => Contract!ContractInit
  BY DEF Init, WorkInit, AbsentJob, Contract!ContractInit
<1>2. LocalInv /\ [Next]_vars => [Contract!ContractNext]_(Contract!contractVars)
  <2>1. UNCHANGED vars => UNCHANGED Contract!contractVars
    BY DEF vars, Contract!contractVars
  <2> QED
    BY <2>1, StepRefines
<1> QED
  BY <1>1, <1>2, LocalInvariant, PTL DEF Spec, ImplementsContract, Contract!ContractSpec
=============================================================================
