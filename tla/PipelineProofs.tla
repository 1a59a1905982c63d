--------------------------- MODULE PipelineProofs ---------------------------
(***************************************************************************)
(* The stage pipeline of one job on the Celery deployment: its attempts    *)
(* are taken one after the other, every active job has work, its history   *)
(* agrees with its outcome, it is charged at most once, and the deployment *)
(* implements JobContract, for any number of jobs, workers and             *)
(* dispatchers.                                                            *)
(***************************************************************************)
EXTENDS CeleryGatewayProofs

\* The worker claimed (or resumed) its attempt and has not written its result.
Holds(w) == worker[w].pc \in {"call", "persist", "recover"}

\* No attempt of the job was ever claimed.
Unstarted(j) == \A a \in AttemptNumbers : attempt[j][a].status = "none"

\* Attempt n is the current one of an active job: earlier ones are finished,
\* later ones do not exist, the dispatches ask for nothing later, and while
\* attempt n does not run there is a dispatch that asks for it.
Progress(j, n) ==
    /\ \A a \in AttemptNumbers :
         /\ a < n => attempt[j][a].status \in {"succeeded", "failed"}
         /\ a > n => attempt[j][a].status = "none"
    /\ attempt[j][n].status \in {"none", "running"}
    /\ attempt[j][n].status = "running" =>
         attempt[j][n].stage = job[j].stage /\ job[j].status = "running"
    /\ \A d \in Dispatch : dispatch[d].job = j =>
         /\ dispatch[d].attempt <= n
         /\ dispatch[d].attempt = n => dispatch[d].stage = job[j].stage
    /\ attempt[j][n].status = "none" =>
         \E d \in Dispatch : dispatch[d].job = j /\ dispatch[d].attempt = n /\ Alive(d)

\* The rows of one job fit its status.
JobInv(j) ==
    /\ job[j].status = "absent" => \A d \in Dispatch : dispatch[d].job # j
    /\ job[j].status \in {"absent", "queued"} => ~job[j].task /\ Unstarted(j)
    /\ Active(job[j]) => \E n \in 1..MaxAttempts : Progress(j, n)
    /\ api[j].pc # "idle" => KindOf[j] = "video" /\ job[j].task

\* Image jobs have image dispatches and video jobs have video dispatches.
KindStages ==
    \A d \in Created :
       dispatch[d].stage = "image_generate" <=> KindOf[dispatch[d].job] = "image"

\* What a busy worker read is the job's row as long as the version is the same.
SnapshotInv(w) ==
    LET snap == worker[w].snap
        row == job[Msg(w).job]
    IN  /\ Exists(snap)
        /\ snap.version <= row.version
        /\ Exists(row) /\ snap.version = row.version => snap = row
        /\ snap.task => row.task
        /\ worker[w].pc # "check" => Active(snap) /\ snap.stage = Msg(w).stage

\* A worker whose version is still current works on the running attempt.
HolderInv(w) ==
    LET m == Msg(w)
        row == job[m.job]
    IN  /\ worker[w].ver <= row.version
        /\ Exists(row) /\ worker[w].ver = row.version =>
             row.status = "running" /\ attempt[m.job][m.attempt].status = "running"

PipelineInv ==
    /\ \A j \in Job : JobInv(j)
    /\ KindStages
    /\ \A w \in Worker : worker[w].pc # "idle" => SnapshotInv(w)
    /\ \A w \in Worker : Holds(w) => HolderInv(w)

-----------------------------------------------------------------------------
(***************************************************************************)
(* Who writes the rows of a job                                            *)
(***************************************************************************)
OutcomeOf(w) == Outcome(Msg(w).stage, Msg(w).attempt, worker[w].res)

\* The claim of a new attempt of the job.
Takes(w, j) ==
    /\ Claim(w)
    /\ Msg(w).job = j
    /\ ClaimVerdict(Msg(w), worker[w].snap, attempt[j], job[j]) = "claimed"

\* A persisting transaction that is not refused.
Settles(w, j) ==
    /\ Persist(w)
    /\ Msg(w).job = j
    /\ CanTransition(KindOf[j], job[j], worker[w].ver, OutcomeOf(w).status, OutcomeOf(w).stage)

\* A recovery transaction that is not refused.
Recovers(w, j) ==
    /\ RecordSubmittedRecovery(w)
    /\ Msg(w).job = j
    /\ CanTransition(KindOf[j], job[j], worker[w].ver, "running", "video_submit")

\* A client's poll that marks the job.
Marks(j) ==
    /\ ApiMark(j)
    /\ CanTransition(KindOf[j], job[j], job[j].version, ApiStatus(api[j].pc), "finalize")

\* The facts about the tables that every step needs.
LEMMA Tables ==
    ASSUME GatewayInv
    PROVE  /\ OutboxInv /\ WorkInv
           /\ dispatch \in [Dispatch -> DispatchRows]
           /\ job \in [Job -> JobRows]
           /\ attempt \in [Job -> [AttemptNumbers -> AttemptRows]]
           /\ worker \in [Worker -> WorkerStates]
           /\ calls \in [Job -> Nat]
           /\ generation \in [Job -> BOOLEAN] /\ asset \in [Job -> BOOLEAN]
           /\ api \in [Job -> ApiStates]
  BY DEF GatewayInv, OutboxInv, OutboxTypeOK, WorkInv, WorkTypeOK, ApiTypeOK

\* The rows of a job change by its admission, its cleanup, a claim, a
\* persisting or recovery transaction or a client's mark, and by nothing else.
LEMMA JobStep ==
    ASSUME GatewayInv, Next, NEW j \in Job
    PROVE  \/ job'[j] = job[j] /\ attempt'[j] = attempt[j]
           \/ Admit(j, SameRequest(j))
           \/ CleanupJob(j)
           \/ \E w \in Worker : Takes(w, j) \/ Settles(w, j) \/ Recovers(w, j)
           \/ Marks(j)
<1> DEFINE Same == job'[j] = job[j] /\ attempt'[j] = attempt[j]
<1>1. /\ job \in [Job -> JobRows] /\ attempt \in [Job -> [AttemptNumbers -> AttemptRows]]
  BY Tables
<1>2. CASE UNCHANGED <<job, attempt>>
  BY <1>2
<1>3. ASSUME NEW i \in Job, Admit(i, SameRequest(i))
      PROVE  Same \/ i = j
  BY <1>1, <1>3 DEF Admit
<1>4. ASSUME NEW i \in Job, CleanupJob(i)
      PROVE  Same \/ i = j
  BY <1>1, <1>4 DEF CleanupJob
<1>5. ASSUME NEW w \in Worker, Claim(w)
      PROVE  Same \/ Takes(w, j)
  BY <1>1, <1>5 DEF Claim, Takes
<1>6. ASSUME NEW w \in Worker, Persist(w)
      PROVE  Same \/ Settles(w, j)
  BY <1>1, <1>6 DEF Persist, Settles, OutcomeOf
<1>7. ASSUME NEW w \in Worker, RecordSubmittedRecovery(w)
      PROVE  Same \/ Recovers(w, j)
  BY <1>1, <1>7 DEF RecordSubmittedRecovery, Recovers
<1>8. ASSUME NEW i \in Job, ApiStep(i)
      PROVE  Same \/ Marks(j)
  BY <1>1, <1>2, <1>8 DEF ApiStep, ApiPoll, ApiMark, ApiMarkStale, ApiSaveAsset, workVars, Marks
<1>9. ASSUME NEW w \in Worker, WorkerStep(w)
      PROVE  Same \/ Takes(w, j) \/ Settles(w, j) \/ Recovers(w, j)
  BY <1>2, <1>5, <1>6, <1>7, <1>9 DEF WorkerStep, Check, ProviderCall
<1>10. CASE Fault
  BY <1>2, <1>10 DEF Fault, DatabaseError, WorkerCrash, VisibilityTimeout, BrokerLoss, workVars
<1> QED
  BY <1>2, <1>3, <1>4, <1>8, <1>9, <1>10 DEF Next, RequeueOrphaned, Deliver, workVars

\* What a claim found and what it wrote.
LEMMA TakesRows ==
    ASSUME GatewayInv, NEW w \in Worker, NEW j \in Job, Takes(w, j)
    PROVE  /\ worker[w].pc = "claim" /\ Active(job[j])
           /\ Msg(w).attempt \in AttemptNumbers /\ Msg(w).attempt \in 1..MaxAttempts
           /\ attempt[j][Msg(w).attempt].status = "none"
           /\ job[j].version = worker[w].snap.version
           /\ job[j].stage = Msg(w).stage
           /\ job' = [job EXCEPT ![j] = Claimed(job[j])]
           /\ attempt' = [attempt EXCEPT ![j] =
                            WithAttempt(attempt[j], Msg(w).attempt, Msg(w).stage)]
           /\ worker' = [worker EXCEPT ![w] = AfterClaim(w, job[j].version + 1)]
           /\ UNCHANGED <<dispatch, calls, generation, asset>>
<1>1. worker[w].pc = "claim"
  BY DEF Takes, Claim
<1>2. Msg(w).attempt \in AttemptNumbers /\ Msg(w).attempt \in 1..MaxAttempts
  BY <1>1, Tables, MessageRow
<1>3. /\ attempt[j][Msg(w).attempt].status = "none"
      /\ \E allow \in BOOLEAN : CanClaim(job[j], worker[w].snap.version, Msg(w).stage, allow)
  BY DEF Takes, ClaimVerdict, Repeated
<1>4. Active(job[j]) /\ job[j].version = worker[w].snap.version /\ job[j].stage = Msg(w).stage
  BY <1>3 DEF CanClaim, Active, ActiveStatuses
<1> QED
  BY <1>1, <1>2, <1>3, <1>4 DEF Takes, Claim, outboxVars

\* What a persisting transaction found and what it wrote.
LEMMA SettlesRows ==
    ASSUME GatewayInv, NEW w \in Worker, NEW j \in Job, Settles(w, j)
    PROVE  LET out == OutcomeOf(w)
           IN  /\ worker[w].pc = "persist" /\ Exists(job[j])
               /\ Msg(w).attempt \in AttemptNumbers /\ Msg(w).attempt \in 1..MaxAttempts
               /\ job[j].version = worker[w].ver
               /\ out.status \in {"running", "succeeded", "failed"}
               /\ out.status \in StatusTransitions[job[j].status]
               /\ out.attempt \in {"succeeded", "failed"}
               /\ out.status = "running" => HasFreeRow
               /\ job' = [job EXCEPT ![j] =
                            Transitioned(job[j], out.status, out.stage, out.status = "running")]
               /\ attempt' = [attempt EXCEPT ![j] =
                                WithFinished(attempt[j], Msg(w).attempt, out.attempt)]
               /\ dispatch' = IF out.status = "running"
                              THEN WithDispatch(dispatch, j, out.stage, Msg(w).attempt + 1)
                              ELSE dispatch
               /\ generation' = [generation EXCEPT ![j] = @ \/ out.status = "succeeded"]
               /\ \E saved \in SavedAssets(out.status) :
                    asset' = [asset EXCEPT ![j] = @ \/ saved]
               /\ worker' = [worker EXCEPT ![w] = IdleWorker]
               /\ UNCHANGED calls
<1>1. worker[w].pc = "persist"
  BY DEF Settles, Persist
<1>2. Msg(w).attempt \in AttemptNumbers /\ Msg(w).attempt \in 1..MaxAttempts
  BY <1>1, Tables, MessageRow
<1>3. /\ OutcomeOf(w).status \in {"running", "succeeded", "failed"}
      /\ OutcomeOf(w).attempt \in {"succeeded", "failed"}
  BY OutcomeType DEF OutcomeOf
<1>4. /\ Exists(job[j]) /\ job[j].version = worker[w].ver
      /\ OutcomeOf(w).status \in StatusTransitions[job[j].status]
  BY DEF Settles, CanTransition
<1> QED
  BY <1>1, <1>2, <1>3, <1>4, EndedIsIdle DEF Settles, Persist, OutcomeOf

\* What a recovery transaction found and what it wrote.
LEMMA RecoversRows ==
    ASSUME GatewayInv, NEW w \in Worker, NEW j \in Job, Recovers(w, j)
    PROVE  /\ worker[w].pc = "recover" /\ Exists(job[j])
           /\ job[j].version = worker[w].ver
           /\ job[j].stage \in {"admitted", "video_submit"}
           /\ job' = [job EXCEPT ![j] = Transitioned(job[j], "running", "video_submit", TRUE)]
           /\ worker' = [worker EXCEPT ![w] = IdleWorker]
           /\ UNCHANGED <<attempt, dispatch, calls, generation, asset>>
<1>1. /\ Exists(job[j]) /\ job[j].version = worker[w].ver
      /\ "video_submit" \in StageTransitions[job[j].stage]
  BY DEF Recovers, CanTransition
<1>2. job[j].stage \in Stages
  BY Tables DEF JobRows
<1>3. job[j].stage \in {"admitted", "video_submit"}
  BY <1>1, <1>2 DEF StageTransitions, Stages
<1> QED
  BY <1>1, <1>3, EndedIsIdle DEF Recovers, RecordSubmittedRecovery, outboxVars

\* What a client's mark found and what it wrote.
LEMMA MarksRows ==
    ASSUME NEW j \in Job, Marks(j)
    PROVE  LET status == ApiStatus(api[j].pc)
           IN  /\ api[j].pc # "idle" /\ Exists(job[j])
               /\ status \in {"succeeded", "failed"}
               /\ status \in StatusTransitions[job[j].status]
               /\ job' = [job EXCEPT ![j] = Transitioned(job[j], status, "finalize", FALSE)]
               /\ UNCHANGED <<attempt, worker, dispatch, calls, generation, asset>>
  BY DEF Marks, ApiMark, CanTransition, ApiStatus, outboxVars

\* Every change of a row that stays raises its version and keeps its task.
LEMMA VersionRises ==
    ASSUME GatewayInv, NEW j \in Job,
           (\E w \in Worker : Takes(w, j) \/ Settles(w, j) \/ Recovers(w, j)) \/ Marks(j)
    PROVE  /\ Exists(job[j]) /\ Exists(job'[j])
           /\ job'[j].version = job[j].version + 1
           /\ job[j].task => job'[j].task
<1>1. job \in [Job -> JobRows] /\ job[j] \in JobRows
  BY Tables
<1>2. ASSUME NEW w \in Worker, Takes(w, j)
      PROVE  Exists(job[j]) /\ job'[j] = Claimed(job[j])
  BY <1>1, <1>2, TakesRows DEF Active, Exists, ValidStatuses
<1>3. ASSUME NEW w \in Worker, Settles(w, j)
      PROVE  /\ Exists(job[j])
             /\ \E status \in ValidStatuses, stage \in Stages, task \in BOOLEAN :
                  job'[j] = Transitioned(job[j], status, stage, task)
  <2>1. OutcomeOf(w).status \in ValidStatuses /\ OutcomeOf(w).stage \in Stages
    BY OutcomeType DEF OutcomeOf, ValidStatuses, ActiveStatuses, TerminalStatuses, Stages
  <2>2. job'[j] = Transitioned(job[j], OutcomeOf(w).status, OutcomeOf(w).stage,
                               OutcomeOf(w).status = "running")
    BY <1>1, <1>3, SettlesRows
  <2> QED
    BY <1>3, <2>1, <2>2, SettlesRows
<1>4. ASSUME NEW w \in Worker, Recovers(w, j)
      PROVE  /\ Exists(job[j])
             /\ \E status \in ValidStatuses, stage \in Stages, task \in BOOLEAN :
                  job'[j] = Transitioned(job[j], status, stage, task)
  <2>1. job'[j] = Transitioned(job[j], "running", "video_submit", TRUE)
    BY <1>1, <1>4, RecoversRows
  <2> QED
    BY <1>4, <2>1, RecoversRows DEF ValidStatuses, ActiveStatuses, Stages
<1>5. ASSUME Marks(j)
      PROVE  /\ Exists(job[j])
             /\ \E status \in ValidStatuses, stage \in Stages, task \in BOOLEAN :
                  job'[j] = Transitioned(job[j], status, stage, task)
  <2>1. /\ ApiStatus(api[j].pc) \in ValidStatuses
        /\ job'[j] = Transitioned(job[j], ApiStatus(api[j].pc), "finalize", FALSE)
    BY <1>1, <1>5, MarksRows DEF ValidStatuses, TerminalStatuses
  <2> QED
    BY <1>5, <2>1, MarksRows DEF Stages
<1>6. /\ Claimed(job[j]).status \in ValidStatuses
      /\ Claimed(job[j]).version = job[j].version + 1
      /\ Claimed(job[j]).task = job[j].task
  BY DEF Claimed, ValidStatuses, ActiveStatuses
<1>7. ASSUME NEW status \in ValidStatuses, NEW stage, NEW task \in BOOLEAN
      PROVE  /\ Transitioned(job[j], status, stage, task).status \in ValidStatuses
             /\ Transitioned(job[j], status, stage, task).version = job[j].version + 1
             /\ job[j].task => Transitioned(job[j], status, stage, task).task
  BY <1>1 DEF Transitioned, JobRows
<1> QED
  BY <1>2, <1>3, <1>4, <1>5, <1>6, <1>7 DEF Exists

\* A row is created by an admission, a persisting transaction or a requeue.
LEMMA NewRow ==
    ASSUME GatewayInv, Next, NEW d \in Dispatch \ Created, dispatch'[d].job # NoJob
    PROVE  \/ \E j \in Job :
                /\ Admit(j, SameRequest(j))
                /\ dispatch'[d] = PendingRow(j, AdmissionStage(KindOf[j]), 1)
           \/ \E j \in Job, w \in Worker :
                /\ Settles(w, j) /\ OutcomeOf(w).status = "running"
                /\ dispatch'[d] = PendingRow(j, OutcomeOf(w).stage, Msg(w).attempt + 1)
           \/ \E j \in Job, e \in Created :
                /\ RequeueOrphaned(j) /\ dispatch[e].job = j
                /\ dispatch'[d] = PendingRow(j, dispatch[e].stage, dispatch[e].attempt)
<1>1. /\ OutboxInv /\ WorkInv /\ dispatch \in [Dispatch -> DispatchRows]
      /\ d \in Dispatch /\ dispatch[d].job = NoJob /\ dispatch'[d] # dispatch[d]
  BY Tables DEF OutboxInv, UnusedRowsFree
<1>2. ASSUME HasFreeRow, NEW rows \in [Dispatch -> DispatchRows], NEW j, NEW stage, NEW a,
             dispatch' = WithDispatch(rows, j, stage, a), rows[d] = dispatch[d]
      PROVE  dispatch'[d] = PendingRow(j, stage, a)
  BY <1>1, <1>2, CreatedRow
<1>3. ASSUME NEW j \in Job, Admit(j, SameRequest(j))
      PROVE  dispatch'[d] = PendingRow(j, AdmissionStage(KindOf[j]), 1)
  BY <1>1, <1>2, <1>3 DEF Admit
<1>4. ASSUME NEW w \in Worker, Persist(w)
      PROVE  /\ Settles(w, Msg(w).job) /\ OutcomeOf(w).status = "running"
             /\ dispatch'[d] = PendingRow(Msg(w).job, OutcomeOf(w).stage, Msg(w).attempt + 1)
             /\ Msg(w).job \in Job
  <2>1. Settles(w, Msg(w).job) /\ Msg(w).job \in Job
    BY <1>1, <1>4, MessageRow DEF Persist, Settles, OutcomeOf
  <2> QED
    BY <1>1, <1>2, <2>1, SettlesRows
<1>5. ASSUME NEW j \in Job, RequeueOrphaned(j)
      PROVE  \E e \in Created :
                /\ dispatch[e].job = j
                /\ dispatch'[d] = PendingRow(j, dispatch[e].stage, dispatch[e].attempt)
  <2>1. PICK e \in Dispatch :
          /\ dispatch[e].job = j /\ dispatch[e].status = "published"
          /\ dispatch' = WithDispatch([dispatch EXCEPT ![e].status = "failed"],
                                      j, dispatch[e].stage, dispatch[e].attempt)
    BY <1>5 DEF RequeueOrphaned
  <2> DEFINE mid == [dispatch EXCEPT ![e].status = "failed"]
  <2>2. mid \in [Dispatch -> DispatchRows] /\ e \in Created
    BY <1>1, <2>1 DEF DispatchRows, DispatchStatuses, Created
  <2>3. mid[d] = dispatch[d]
    BY <1>1, <2>2
  <2>4. /\ dispatch' = WithDispatch(mid, j, dispatch[e].stage, dispatch[e].attempt)
        /\ HasFreeRow
    BY <1>5, <2>1 DEF RequeueOrphaned
  <2> HIDE DEF mid
  <2>5. dispatch'[d] = PendingRow(j, dispatch[e].stage, dispatch[e].attempt)
    BY <1>2, <2>2, <2>3, <2>4
  <2> QED
    BY <2>1, <2>2, <2>5
<1>6. ASSUME NEW j \in Job, CleanupJob(j)
      PROVE  FALSE
  BY <1>1, <1>6, NoJobAssumption DEF CleanupJob
<1>7. ASSUME \/ \E p \in Dispatcher : DispatcherStep(p) \/ DispatcherFault(p)
             \/ \E e \in Dispatch : LeaseExpires(e)
      PROVE  FALSE
  BY <1>1, <1>7, DispatcherRows
<1>8. CASE UNCHANGED dispatch
  BY <1>1, <1>8
<1>9. ASSUME NEW w \in Worker, WorkerStep(w)
      PROVE  UNCHANGED dispatch \/ Persist(w)
  BY <1>9 DEF WorkerStep, Check, Claim, ProviderCall, RecordSubmittedRecovery, outboxVars
<1>10. ASSUME NEW j \in Job, ApiStep(j)
      PROVE  UNCHANGED dispatch
  BY <1>10 DEF ApiStep, ApiPoll, ApiMark, ApiMarkStale, ApiSaveAsset, outboxVars
<1>11. CASE Fault
  BY <1>7, <1>8, <1>11
     DEF Fault, DatabaseError, WorkerCrash, VisibilityTimeout, BrokerLoss, outboxVars
<1> QED
  BY <1>3, <1>4, <1>5, <1>6, <1>7, <1>8, <1>9, <1>10, <1>11 DEF Next, Deliver

\* The dispatches of a job that is not admitted, requeued, cleaned up or given
\* a follow-up by this step: none is new, none is lost.
LEMMA RowsOf ==
    ASSUME GatewayInv, Next, NEW j \in Job, NEW d \in Dispatch,
           ~Admit(j, SameRequest(j)), ~RequeueOrphaned(j), ~CleanupJob(j),
           \A w \in Worker : Settles(w, j) => OutcomeOf(w).status # "running"
    PROVE  /\ dispatch'[d].job = j =>
                /\ dispatch[d].job = j
                /\ dispatch'[d].stage = dispatch[d].stage
                /\ dispatch'[d].attempt = dispatch[d].attempt
           /\ dispatch[d].job = j /\ Alive(d) =>
                /\ dispatch'[d].job = j
                /\ dispatch'[d].attempt = dispatch[d].attempt
                /\ Alive(d)'
<1>1. OutboxInv /\ j # NoJob /\ RowsKept
  BY Tables, GatewayStep, NoJobAssumption
<1>2. CASE d \in Created
  <2>1. /\ dispatch'[d].job = dispatch[d].job
        /\ dispatch'[d].stage = dispatch[d].stage
        /\ dispatch'[d].attempt = dispatch[d].attempt
    BY <1>1, <1>2 DEF RowsKept
  <2>2. dispatch[d].job = j /\ Alive(d) => Alive(d)'
    <3>1. CASE dispatch'[d] = dispatch[d]
      BY <3>1 DEF Alive
    <3>2. CASE \/ \E p \in Dispatcher : DispatcherStep(p) \/ DispatcherFault(p)
               \/ \E e \in Dispatch : LeaseExpires(e)
      BY <1>1, <3>2, DispatcherRows
    <3> QED
      BY <1>2, <3>1, <3>2, RowStep
  <2> QED
    BY <2>1, <2>2
<1>3. CASE d \notin Created
  <2>1. dispatch[d].job = NoJob
    BY <1>1, <1>3 DEF OutboxInv, UnusedRowsFree
  <2>2. \A i, stage, a : PendingRow(i, stage, a).job = i
    BY DEF PendingRow
  <2>3. dispatch'[d].job # j
    BY <1>1, <1>3, <2>2, NewRow
  <2> QED
    BY <1>1, <2>1, <2>3
<1> QED
  BY <1>2, <1>3

\* Dispatches stay of their job's kind.
LEMMA KindStagesKept ==
    ASSUME GatewayInv, KindStages, Next
    PROVE  KindStages'
<1> SUFFICES ASSUME NEW d \in Created'
             PROVE  (dispatch'[d].stage = "image_generate") <=> (KindOf[dispatch'[d].job] = "image")
  BY DEF KindStages
<1>1. GatewayInv' /\ RowsKept /\ d \in Dispatch /\ OutboxInv' /\ OutboxInv /\ WorkInv
  BY GatewayStep, Tables DEF Created, GatewayInv
<1>2. CASE d \in Created
  BY <1>1, <1>2 DEF RowsKept, KindStages
<1>3. CASE d \notin Created
  <2>1. dispatch'[d].job # NoJob
    BY <1>1, NoJobAssumption DEF OutboxInv, RowsWellFormed
  <2>2. \A i, stage, a : PendingRow(i, stage, a).job = i /\ PendingRow(i, stage, a).stage = stage
    BY DEF PendingRow
  <2>3. ASSUME NEW j \in Job, dispatch'[d] = PendingRow(j, AdmissionStage(KindOf[j]), 1)
        PROVE  (dispatch'[d].stage = "image_generate") <=> (KindOf[dispatch'[d].job] = "image")
    BY <2>2, <2>3, KindAssumption DEF AdmissionStage
  <2>4. ASSUME NEW j \in Job, NEW w \in Worker, Settles(w, j),
               OutcomeOf(w).status = "running",
               dispatch'[d] = PendingRow(j, OutcomeOf(w).stage, Msg(w).attempt + 1)
        PROVE  (dispatch'[d].stage = "image_generate") <=> (KindOf[dispatch'[d].job] = "image")
    <3>1. worker[w].pc = "persist" /\ Msg(w).job = j
      BY <2>4 DEF Settles, Persist
    <3>2. worker[w].msg \in Created
      BY <1>1, <3>1, MessageRow
    <3>3. OutcomeOf(w).stage # "image_generate" /\ Msg(w).stage # "image_generate"
      BY <2>4, OutcomeType DEF OutcomeOf, Outcome, Succeeded, Failed
    <3> QED
      BY <2>2, <2>4, <3>1, <3>2, <3>3 DEF KindStages, Msg
  <2>5. ASSUME NEW j \in Job, NEW e \in Created, dispatch[e].job = j,
               dispatch'[d] = PendingRow(j, dispatch[e].stage, dispatch[e].attempt)
        PROVE  (dispatch'[d].stage = "image_generate") <=> (KindOf[dispatch'[d].job] = "image")
    BY <2>2, <2>5 DEF KindStages
  <2> QED
    BY <1>1, <1>3, <2>1, <2>3, <2>4, <2>5, NewRow
<1> QED
  BY <1>2, <1>3

-----------------------------------------------------------------------------
(***************************************************************************)
(* Workers                                                                 *)
(***************************************************************************)
\* An admitted job's row stays, moves to the next version, or disappears.
LEMMA RowMoves ==
    ASSUME GatewayInv, Next, NEW j \in Job, job[j].status # "absent"
    PROVE  \/ job'[j] = job[j] /\ attempt'[j] = attempt[j]
           \/ /\ Exists(job[j]) /\ Exists(job'[j])
              /\ job'[j].version = job[j].version + 1
              /\ job[j].task => job'[j].task
           \/ /\ ~Exists(job'[j])
              /\ job'[j].version = job[j].version
              /\ job'[j].task = job[j].task
<1>1. ~Admit(j, SameRequest(j))
  BY DEF Admit
<1>2. CASE CleanupJob(j)
  <2>1. job'[j] = [job[j] EXCEPT !.status = "deleted"] /\ job[j] \in JobRows
    BY <1>2, Tables DEF CleanupJob
  <2> QED
    BY <2>1 DEF JobRows, Exists, ValidStatuses, ActiveStatuses, TerminalStatuses
<1> QED
  BY <1>1, <1>2, JobStep, VersionRises

\* The worker goes on with the attempt it holds.
Continues(w) ==
    /\ Holds(w) /\ worker'[w].pc \in {"persist", "recover"}
    /\ worker'[w].msg = worker[w].msg
    /\ worker'[w].snap = worker[w].snap
    /\ worker'[w].ver = worker[w].ver

\* What a step does with one worker process.
LEMMA WorkerMove ==
    ASSUME GatewayInv, Next, NEW w \in Worker
    PROVE  \/ worker'[w] = worker[w]
           \/ worker'[w].pc = "idle"
           \/ \E d \in Created :
                /\ Exists(job[dispatch[d].job])
                /\ worker'[w] = [IdleWorker EXCEPT !.pc = "check", !.msg = d,
                                                   !.snap = job[dispatch[d].job]]
                /\ UNCHANGED <<job, attempt, dispatch>>
           \/ /\ worker[w].pc = "check" /\ UNCHANGED <<job, attempt, dispatch>>
              /\ worker'[w] = [worker[w] EXCEPT !.pc = "claim"]
              /\ HandleVerdict(Msg(w), worker[w].snap, attempt[Msg(w).job][Msg(w).attempt])
                   = "handled"
           \/ Takes(w, Msg(w).job) /\ worker'[w] = AfterClaim(w, job[Msg(w).job].version + 1)
           \/ /\ worker[w].pc = "claim" /\ UNCHANGED <<job, attempt, dispatch>>
              /\ worker'[w] = AfterClaim(w, worker[w].snap.version)
              /\ ClaimVerdict(Msg(w), worker[w].snap, attempt[Msg(w).job], job[Msg(w).job])
                   = "resumed"
           \/ Continues(w) /\ (ProviderCall(w) \/ DatabaseError(w))
<1>1. /\ worker \in [Worker -> WorkerStates] /\ IdleWorker.pc = "idle"
      /\ OutboxInv /\ WorkInv
  BY Tables DEF IdleWorker
<1>2. CASE UNCHANGED worker
  BY <1>2
<1>3. ASSUME NEW v \in Worker, NEW s, worker' = [worker EXCEPT ![v] = s]
      PROVE  worker'[w] = worker[w] \/ (w = v /\ worker'[w] = s)
  BY <1>1, <1>3
<1>4. ASSUME NEW v \in Worker, Deliver(v)
      PROVE  \/ worker'[w] = worker[w]
             \/ worker'[w].pc = "idle"
             \/ \E d \in Created :
                /\ Exists(job[dispatch[d].job])
                /\ worker'[w] = [IdleWorker EXCEPT !.pc = "check", !.msg = d,
                                                   !.snap = job[dispatch[d].job]]
                /\ UNCHANGED <<job, attempt, dispatch>>
  <2>1. PICK d \in queue : worker' = [worker EXCEPT ![v] = StartedOn(d)]
    BY <1>4 DEF Deliver
  <2>2. d \in Created
    BY <1>1 DEF OutboxInv, ReferencesCreated
  <2>3. CASE Exists(job[dispatch[d].job])
    <3>1. StartedOn(d) = [IdleWorker EXCEPT !.pc = "check", !.msg = d,
                                            !.snap = job[dispatch[d].job]]
      BY <2>3 DEF StartedOn
    <3> QED
      BY <1>3, <1>4, <2>1, <2>2, <2>3, <3>1 DEF Deliver
  <2>4. CASE ~Exists(job[dispatch[d].job])
    BY <1>1, <1>3, <2>1, <2>4, CeleryAssumption DEF StartedOn
  <2> QED
    BY <2>3, <2>4
<1>5. ASSUME NEW v \in Worker, Check(v)
      PROVE  \/ worker'[w] = worker[w]
             \/ worker'[w].pc = "idle"
             \/ /\ worker[w].pc = "check" /\ UNCHANGED <<job, attempt, dispatch>>
                /\ worker'[w] = [worker[w] EXCEPT !.pc = "claim"]
                /\ HandleVerdict(Msg(w), worker[w].snap, attempt[Msg(w).job][Msg(w).attempt])
                     = "handled"
  <2>1. CASE HandleVerdict(Msg(v), worker[v].snap, attempt[Msg(v).job][Msg(v).attempt])
               = "handled"
    BY <1>3, <1>5, <2>1 DEF Check, outboxVars
  <2>2. CASE HandleVerdict(Msg(v), worker[v].snap, attempt[Msg(v).job][Msg(v).attempt])
               # "handled"
    BY <1>1, <1>3, <1>5, <2>2, EndedIsIdle DEF Check
  <2> QED
    BY <2>1, <2>2
<1>6. ASSUME NEW v \in Worker, Claim(v)
      PROVE  \/ worker'[w] = worker[w]
             \/ worker'[w].pc = "idle"
             \/ Takes(w, Msg(w).job) /\ worker'[w] = AfterClaim(w, job[Msg(w).job].version + 1)
             \/ /\ worker[w].pc = "claim" /\ UNCHANGED <<job, attempt, dispatch>>
                /\ worker'[w] = AfterClaim(w, worker[w].snap.version)
                /\ ClaimVerdict(Msg(w), worker[w].snap, attempt[Msg(w).job], job[Msg(w).job])
                     = "resumed"
  <2> DEFINE verdict == ClaimVerdict(Msg(v), worker[v].snap, attempt[Msg(v).job],
                                     job[Msg(v).job])
  <2>1. CASE verdict = "claimed"
    BY <1>3, <1>6, <2>1 DEF Claim, Takes
  <2>2. CASE verdict = "resumed"
    BY <1>3, <1>6, <2>2 DEF Claim, outboxVars
  <2>3. CASE verdict \notin {"claimed", "resumed"}
    BY <1>1, <1>3, <1>6, <2>3, EndedIsIdle DEF Claim
  <2> QED
    BY <2>1, <2>2, <2>3
<1>7. ASSUME NEW v \in Worker, ProviderCall(v)
      PROVE  worker'[w] = worker[w] \/ (Continues(w) /\ ProviderCall(w))
  <2>1. CASE w = v
    BY <1>1, <1>7, <2>1 DEF ProviderCall, Continues, Holds, WorkerStates
  <2>2. CASE w # v
    BY <1>1, <1>7, <2>2 DEF ProviderCall
  <2> QED
    BY <2>1, <2>2
<1>8. ASSUME NEW v \in Worker, Persist(v) \/ RecordSubmittedRecovery(v) \/ WorkerCrash(v)
      PROVE  worker'[w] = worker[w] \/ worker'[w].pc = "idle"
  <2>1. worker' = [worker EXCEPT ![v] = IdleWorker]
    <3>1. CASE Persist(v)
      BY <3>1, EndedIsIdle DEF Persist
    <3>2. CASE RecordSubmittedRecovery(v) \/ WorkerCrash(v)
      BY <3>2, EndedIsIdle DEF RecordSubmittedRecovery, WorkerCrash
    <3> QED
      BY <1>8, <3>1, <3>2
  <2> QED
    BY <1>1, <1>3, <2>1
<1>9. ASSUME NEW v \in Worker, DatabaseError(v)
      PROVE  \/ worker'[w] = worker[w]
             \/ worker'[w].pc = "idle"
             \/ Continues(w) /\ DatabaseError(w)
  <2>1. worker[v].pc = "persist" =>
          \A s \in {[worker[v] EXCEPT !.res = "error"], [worker[v] EXCEPT !.pc = "recover"]} :
             /\ s.pc \in {"persist", "recover"}
             /\ s.msg = worker[v].msg /\ s.snap = worker[v].snap /\ s.ver = worker[v].ver
    BY <1>1 DEF WorkerStates
  <2>2. PICK s : /\ worker' = [worker EXCEPT ![v] = s]
                 /\ \/ s = IdleWorker
                    \/ /\ worker[v].pc = "persist"
                       /\ s \in {[worker[v] EXCEPT !.res = "error"],
                                 [worker[v] EXCEPT !.pc = "recover"]}
    BY <1>9, EndedIsIdle DEF DatabaseError
  <2> QED
    BY <1>1, <1>3, <1>9, <2>1, <2>2 DEF Continues, Holds
<1>10. ASSUME NEW v \in Worker, WorkerStep(v)
       PROVE  Check(v) \/ Claim(v) \/ ProviderCall(v) \/ Persist(v) \/ RecordSubmittedRecovery(v)
  BY <1>10 DEF WorkerStep
<1>11. ASSUME Fault
       PROVE  \/ UNCHANGED worker
              \/ \E v \in Worker : DatabaseError(v) \/ WorkerCrash(v)
  BY <1>11 DEF Fault, VisibilityTimeout, BrokerLoss, workVars
<1>12. ASSUME NEW j \in Job, ApiStep(j)
       PROVE  UNCHANGED worker
  BY <1>12 DEF ApiStep, ApiPoll, ApiMark, ApiMarkStale, ApiSaveAsset, workVars
<1>13. \/ UNCHANGED worker
       \/ \E v \in Worker : Deliver(v) \/ WorkerStep(v)
       \/ Fault
  BY <1>12 DEF Next, Admit, RequeueOrphaned, CleanupJob, workVars
<1> QED
  BY <1>2, <1>4, <1>5, <1>6, <1>7, <1>8, <1>9, <1>10, <1>11, <1>13

\* The message of a worker that keeps it keeps what it asks for, and its job
\* was admitted.
LEMMA MessageKept ==
    ASSUME GatewayInv, PipelineInv, Next, NEW w \in Worker, worker[w].pc # "idle"
    PROVE  /\ worker[w].msg \in Created /\ Msg(w).job \in Job
           /\ job[Msg(w).job].status # "absent"
           /\ worker'[w].msg = worker[w].msg =>
                /\ Msg(w)'.job = Msg(w).job
                /\ Msg(w)'.stage = Msg(w).stage
                /\ Msg(w)'.attempt = Msg(w).attempt
<1>1. worker[w].msg \in Created /\ Msg(w).job \in Job /\ RowsKept
  BY Tables, MessageRow, GatewayStep
<1>2. job[Msg(w).job].status # "absent"
  BY <1>1 DEF PipelineInv, JobInv, Msg, Created
<1> QED
  BY <1>1, <1>2 DEF RowsKept, Msg

\* A snapshot never becomes wrong, only old.
LEMMA SnapshotKept ==
    ASSUME GatewayInv, PipelineInv, Next, NEW w \in Worker, worker[w].pc # "idle",
           worker'[w].msg = worker[w].msg, worker'[w].snap = worker[w].snap,
           worker'[w].pc # "check" =>
              \/ worker[w].pc # "check"
              \/ Active(worker[w].snap) /\ worker[w].snap.stage = Msg(w).stage
    PROVE  SnapshotInv(w)'
<1> DEFINE j == Msg(w).job
           snap == worker[w].snap
<1>1. /\ j \in Job /\ job[j].status # "absent"
      /\ Msg(w)'.job = j /\ Msg(w)'.stage = Msg(w).stage
  BY MessageKept
<1>2. /\ job[j] \in JobRows /\ snap \in JobRows
  BY <1>1, Tables DEF WorkerStates
<1>3. SnapshotInv(w)
  BY DEF PipelineInv
<1>4. /\ Exists(snap)
      /\ snap.version <= job'[j].version
      /\ Exists(job'[j]) /\ snap.version = job'[j].version => snap = job'[j]
      /\ snap.task => job'[j].task
  BY <1>1, <1>2, <1>3, RowMoves DEF SnapshotInv, JobRows
<1>5. worker'[w].pc # "check" => Active(snap) /\ snap.stage = Msg(w).stage
  BY <1>3 DEF SnapshotInv
<1> QED
  BY <1>1, <1>4, <1>5 DEF SnapshotInv

\* A holder's version stays the one of its running attempt, or becomes old.
LEMMA HolderKept ==
    ASSUME GatewayInv, PipelineInv, Next, NEW w \in Worker, Holds(w),
           worker'[w].msg = worker[w].msg, worker'[w].ver = worker[w].ver
    PROVE  HolderInv(w)'
<1> DEFINE j == Msg(w).job
<1>1. /\ j \in Job /\ job[j].status # "absent"
      /\ Msg(w)'.job = j /\ Msg(w)'.attempt = Msg(w).attempt
  BY MessageKept DEF Holds
<1>2. /\ job[j] \in JobRows /\ worker[w].ver \in Nat
  BY <1>1, Tables DEF WorkerStates
<1>3. HolderInv(w)
  BY DEF PipelineInv
<1>4. /\ worker[w].ver <= job'[j].version
      /\ Exists(job'[j]) /\ worker[w].ver = job'[j].version =>
           job'[j] = job[j] /\ attempt'[j] = attempt[j] /\ Exists(job[j])
  BY <1>1, <1>2, <1>3, RowMoves DEF HolderInv, JobRows
<1> QED
  BY <1>1, <1>3, <1>4 DEF HolderInv

\* A queued job has no attempt, so a running attempt belongs to a running job.
LEMMA ResumedRuns ==
    ASSUME GatewayInv, PipelineInv, NEW j \in Job, NEW a \in AttemptNumbers,
           Active(job[j]), attempt[j][a].status = "running"
    PROVE  job[j].status = "running"
  BY DEF PipelineInv, JobInv, Unstarted, Active, ActiveStatuses

\* Every step keeps what workers know about their jobs.
LEMMA WorkersKept ==
    ASSUME GatewayInv, PipelineInv, Next, NEW w \in Worker
    PROVE  /\ worker'[w].pc # "idle" => SnapshotInv(w)'
           /\ Holds(w)' => HolderInv(w)'
<1> DEFINE j == Msg(w).job
           snap == worker[w].snap
<1>1. /\ worker \in [Worker -> WorkerStates] /\ job \in [Job -> JobRows]
      /\ OutboxInv /\ WorkInv /\ worker[w] \in WorkerStates
  BY Tables
<1>2. CASE worker'[w] = worker[w]
  BY <1>2, SnapshotKept, HolderKept DEF Holds
<1>3. CASE worker'[w].pc = "idle"
  BY <1>3 DEF Holds
<1>4. CASE Continues(w)
  BY <1>4, SnapshotKept, HolderKept DEF Continues, Holds
<1>5. ASSUME NEW d \in Created,
             Exists(job[dispatch[d].job]),
             worker'[w] = [IdleWorker EXCEPT !.pc = "check", !.msg = d,
                                             !.snap = job[dispatch[d].job]],
             UNCHANGED <<job, attempt, dispatch>>
      PROVE  SnapshotInv(w)' /\ ~Holds(w)'
  <2>1. /\ worker'[w].pc = "check" /\ worker'[w].msg = d
        /\ worker'[w].snap = job[dispatch[d].job]
    BY <1>5 DEF IdleWorker
  <2>2. job[dispatch[d].job].version \in Nat
    BY <1>1 DEF OutboxInv, RowsWellFormed, JobRows
  <2> QED
    BY <1>5, <2>1, <2>2 DEF SnapshotInv, Holds, Msg
<1>6. ASSUME worker[w].pc = "check", UNCHANGED <<job, attempt, dispatch>>,
             worker'[w] = [worker[w] EXCEPT !.pc = "claim"],
             HandleVerdict(Msg(w), snap, attempt[j][Msg(w).attempt]) = "handled"
      PROVE  SnapshotInv(w)' /\ ~Holds(w)'
  <2>1. /\ worker'[w].pc = "claim" /\ worker'[w].msg = worker[w].msg
        /\ worker'[w].snap = snap
    BY <1>1, <1>6 DEF WorkerStates
  <2>2. Exists(snap)
    BY <1>6 DEF PipelineInv, SnapshotInv
  <2>3. Active(snap) /\ snap.stage = Msg(w).stage
    BY <1>6, <2>2 DEF HandleVerdict, Exists, Active, Terminal, ValidStatuses
  <2> QED
    BY <1>6, <2>1, <2>3, SnapshotKept DEF Holds
<1>7. ASSUME worker[w].pc = "claim", NEW version
      PROVE  /\ AfterClaim(w, version).msg = worker[w].msg
             /\ AfterClaim(w, version).snap = snap
             /\ AfterClaim(w, version).ver = version
             /\ AfterClaim(w, version).pc \in {"persist", "call"}
  BY <1>1, <1>7 DEF AfterClaim, WorkerStates
<1>8. CASE Takes(w, j) /\ worker'[w] = AfterClaim(w, job[j].version + 1)
  <2>1. worker[w].pc = "claim"
    BY <1>8 DEF Takes, Claim
  <2>2. /\ j \in Job /\ Msg(w)'.job = j /\ Msg(w)'.attempt = Msg(w).attempt
        /\ worker'[w].ver = job[j].version + 1
    BY <1>7, <1>8, <2>1, MessageKept
  <2>3. SnapshotInv(w)'
    BY <1>7, <1>8, <2>1, SnapshotKept
  <2>4. /\ job'[j] = Claimed(job[j])
        /\ attempt'[j] = WithAttempt(attempt[j], Msg(w).attempt, Msg(w).stage)
        /\ attempt[j] \in [AttemptNumbers -> AttemptRows]
        /\ Msg(w).attempt \in AttemptNumbers
        /\ job[j] \in JobRows
    BY <1>1, <1>8, <2>2, TakesRows, Tables
  <2>5. /\ job'[j].version = job[j].version + 1 /\ job'[j].status = "running"
        /\ attempt'[j][Msg(w).attempt].status = "running"
        /\ job[j].version \in Nat
    BY <2>4 DEF Claimed, WithAttempt, JobRows
  <2>6. HolderInv(w)'
    BY <2>2, <2>5 DEF HolderInv
  <2> QED
    BY <2>3, <2>6
<1>9. CASE /\ worker[w].pc = "claim" /\ UNCHANGED <<job, attempt, dispatch>>
           /\ worker'[w] = AfterClaim(w, snap.version)
           /\ ClaimVerdict(Msg(w), snap, attempt[j], job[j]) = "resumed"
  <2>1. /\ j \in Job /\ Msg(w)'.job = j /\ Msg(w)'.attempt = Msg(w).attempt
        /\ worker'[w].ver = snap.version /\ Msg(w).attempt \in AttemptNumbers
    BY <1>1, <1>7, <1>9, MessageKept, MessageRow
  <2>2. SnapshotInv(w)'
    BY <1>7, <1>9, SnapshotKept
  <2>3. attempt[j][Msg(w).attempt].status = "running"
    BY <1>9 DEF ClaimVerdict, Repeated
  <2>4. SnapshotInv(w)
    BY <1>9 DEF PipelineInv
  <2>5. Exists(job[j]) /\ snap.version = job[j].version => job[j].status = "running"
    BY <1>9, <2>1, <2>3, <2>4, ResumedRuns DEF SnapshotInv
  <2>6. HolderInv(w)'
    BY <1>9, <2>1, <2>3, <2>4, <2>5 DEF HolderInv, SnapshotInv
  <2> QED
    BY <2>2, <2>6
<1> QED
  BY <1>2, <1>3, <1>4, <1>5, <1>6, <1>8, <1>9, WorkerMove

-----------------------------------------------------------------------------
(***************************************************************************)
(* Jobs                                                                    *)
(***************************************************************************)
\* Attempt numbers up to the limit.
LEMMA WithinNumbers == 1..MaxAttempts \subseteq AttemptNumbers /\ 1 \in 1..MaxAttempts
  BY MaxAttemptsAssumption DEF AttemptNumbers

\* An existing row that is not terminal is active, and a terminal one is not.
LEMMA ActiveRow ==
    ASSUME NEW row
    PROVE  /\ Active(row) => Exists(row) /\ ~Terminal(row)
           /\ row.status = "running" => Active(row)
           /\ row.status \in {"succeeded", "failed", "deleted", "absent"} => ~Active(row)
  BY DEF Active, Exists, Terminal, ValidStatuses, ActiveStatuses, TerminalStatuses

\* A worker with the current version works on the current attempt.
LEMMA CurrentAttempt ==
    ASSUME GatewayInv, PipelineInv, NEW w \in Worker, Holds(w),
           Exists(job[Msg(w).job]), worker[w].ver = job[Msg(w).job].version
    PROVE  /\ job[Msg(w).job].status = "running"
           /\ \E n \in 1..MaxAttempts : Progress(Msg(w).job, n)
           /\ \A n \in 1..MaxAttempts : Progress(Msg(w).job, n) =>
                /\ Msg(w).attempt = n
                /\ attempt[Msg(w).job][n].status = "running"
                /\ Msg(w).stage = job[Msg(w).job].stage
<1>1. /\ worker[w].msg \in Dispatch /\ Msg(w).job \in Job
      /\ Msg(w).attempt \in 1..MaxAttempts /\ Msg(w).attempt \in AttemptNumbers
  BY Tables, MessageRow DEF Holds, Created
<1>2. /\ job[Msg(w).job].status = "running"
      /\ attempt[Msg(w).job][Msg(w).attempt].status = "running"
  BY DEF PipelineInv, HolderInv
<1>3. \E n \in 1..MaxAttempts : Progress(Msg(w).job, n)
  BY <1>1, <1>2 DEF PipelineInv, JobInv, Active, ActiveStatuses
<1>4. ASSUME NEW n \in 1..MaxAttempts, Progress(Msg(w).job, n)
      PROVE  /\ Msg(w).attempt = n
             /\ attempt[Msg(w).job][n].status = "running"
             /\ Msg(w).stage = job[Msg(w).job].stage
  <2>1. Msg(w).attempt = n
    BY <1>1, <1>2, <1>4 DEF Progress
  <2>2. Msg(w).stage = job[Msg(w).job].stage
    BY <1>1, <1>4, <2>1 DEF Progress, Msg
  <2> QED
    BY <1>2, <2>1, <2>2
<1> QED
  BY <1>2, <1>3, <1>4

\* A queued or absent row is an untouched one.
LEMMA UnstartedKept ==
    ASSUME GatewayInv, PipelineInv, Next, NEW j \in Job,
           job'[j].status \in {"absent", "queued"}
    PROVE  /\ ~job'[j].task /\ Unstarted(j)'
           /\ job'[j].status = "absent" => \A d \in Dispatch : dispatch'[d].job # j
<1>1. /\ job \in [Job -> JobRows] /\ attempt \in [Job -> [AttemptNumbers -> AttemptRows]]
      /\ JobInv(j)
  BY Tables DEF PipelineInv
<1>2. CASE job'[j] = job[j] /\ attempt'[j] = attempt[j]
  <2>1. ~job'[j].task /\ Unstarted(j)'
    BY <1>1, <1>2 DEF JobInv, Unstarted
  <2>2. ASSUME job'[j].status = "absent", NEW d \in Dispatch
        PROVE  dispatch'[d].job # j
    <3>1. /\ ~RequeueOrphaned(j) /\ ~CleanupJob(j)
          /\ ~Admit(j, SameRequest(j))
          /\ \A w \in Worker : ~Settles(w, j)
      BY <1>1, <1>2, <2>2, InsertedType, SettlesRows
         DEF RequeueOrphaned, CleanupJob, Terminal, TerminalStatuses, Admit, Exists,
             ValidStatuses, ActiveStatuses
    <3>2. dispatch[d].job # j
      BY <1>1, <1>2, <2>2 DEF JobInv
    <3> QED
      BY <3>1, <3>2, RowsOf
  <2> QED
    BY <2>1, <2>2
<1>3. CASE Admit(j, SameRequest(j))
  <2>1. job'[j] = InsertedJob(KindOf[j]) /\ attempt' = attempt /\ job[j].status = "absent"
    BY <1>1, <1>3 DEF Admit
  <2> QED
    BY <1>1, <2>1 DEF InsertedJob, JobInv, Unstarted
<1>4. CASE CleanupJob(j)
  BY <1>1, <1>4 DEF CleanupJob, JobRows
<1>5. ASSUME NEW w \in Worker, Takes(w, j)
      PROVE  FALSE
  BY <1>1, <1>5, TakesRows DEF Claimed
<1>6. ASSUME NEW w \in Worker, Settles(w, j)
      PROVE  FALSE
  <2>1. /\ job'[j] = Transitioned(job[j], OutcomeOf(w).status, OutcomeOf(w).stage,
                                  OutcomeOf(w).status = "running")
        /\ OutcomeOf(w).status \in {"running", "succeeded", "failed"}
    BY <1>1, <1>6, SettlesRows
  <2> QED
    BY <2>1 DEF Transitioned
<1>7. ASSUME NEW w \in Worker, Recovers(w, j)
      PROVE  FALSE
  BY <1>1, <1>7, RecoversRows DEF Transitioned
<1>8. ASSUME Marks(j)
      PROVE  FALSE
  <2>1. /\ job'[j] = Transitioned(job[j], ApiStatus(api[j].pc), "finalize", FALSE)
        /\ ApiStatus(api[j].pc) \in {"succeeded", "failed"}
    BY <1>1, <1>8, MarksRows
  <2> QED
    BY <2>1 DEF Transitioned
<1> QED
  BY <1>2, <1>3, <1>4, <1>5, <1>6, <1>7, <1>8, JobStep

\* A poll in progress is one of a video job with a task on record.
LEMMA PollKept ==
    ASSUME GatewayInv, PipelineInv, Next, NEW j \in Job, api'[j].pc # "idle"
    PROVE  KindOf[j] = "video" /\ job'[j].task
<1>1. api \in [Job -> ApiStates] /\ JobInv(j) /\ job[j] \in JobRows
  BY Tables DEF PipelineInv
<1>2. \/ api'[j].pc = api[j].pc
      \/ api[j].pc # "idle"
      \/ KindOf[j] = "video" /\ job[j].task /\ UNCHANGED job
  <2>1. ASSUME NEW i \in Job, ApiStep(i)
        PROVE  \/ api'[j].pc = api[j].pc
               \/ api[j].pc # "idle"
               \/ KindOf[j] = "video" /\ job[j].task /\ UNCHANGED job
    BY <1>1, <2>1 DEF ApiStep, ApiPoll, ApiMark, ApiMarkStale, ApiSaveAsset, workVars
  <2> QED
    BY <2>1 DEF Next, Fault
<1>3. KindOf[j] = "video" /\ job[j].task
  BY <1>1, <1>2 DEF JobInv
<1>4. job[j].status # "absent"
  BY <1>1, <1>3 DEF JobInv
<1> QED
  BY <1>3, <1>4, RowMoves

\* The attempts of a job whose rows a step leaves alone go on as before.
LEMMA ProgressUntouched ==
    ASSUME GatewayInv, PipelineInv, Next, NEW j \in Job, Active(job[j]),
           job'[j] = job[j], attempt'[j] = attempt[j], ~RequeueOrphaned(j),
           NEW n \in 1..MaxAttempts, Progress(j, n)
    PROVE  Progress(j, n)'
<1>1. /\ ~Admit(j, SameRequest(j)) /\ ~CleanupJob(j)
      /\ \A w \in Worker : ~Settles(w, j)
  <2>1. job[j].version \in Nat
    BY Tables DEF JobRows
  <2>2. \A w \in Worker : ~Settles(w, j)
    BY <2>1, VersionRises
  <2> QED
    BY <2>2, ActiveRow DEF Admit, CleanupJob
<1>2. \A d \in Dispatch :
        /\ dispatch'[d].job = j =>
             /\ dispatch[d].job = j
             /\ dispatch'[d].stage = dispatch[d].stage
             /\ dispatch'[d].attempt = dispatch[d].attempt
        /\ dispatch[d].job = j /\ Alive(d) =>
             /\ dispatch'[d].job = j
             /\ dispatch'[d].attempt = dispatch[d].attempt
             /\ Alive(d)'
  BY <1>1, RowsOf
<1> QED
  BY <1>2 DEF Progress

\* A requeue replaces a published message of a job that was never started.
LEMMA ProgressRequeued ==
    ASSUME GatewayInv, PipelineInv, Next, NEW j \in Job, RequeueOrphaned(j)
    PROVE  \E n \in 1..MaxAttempts : Progress(j, n)'
<1>1. /\ job[j].status = "queued" /\ Unstarted(j) /\ HasFreeRow
      /\ UNCHANGED <<job, attempt>> /\ JobInv(j) /\ RowsKept
      /\ dispatch \in [Dispatch -> DispatchRows] /\ GatewayInv'
  BY Tables, GatewayStep DEF RequeueOrphaned, Unstarted, PipelineInv, workVars
<1>2. PICK n \in 1..MaxAttempts : Progress(j, n)
  BY <1>1 DEF JobInv, Active, ActiveStatuses
<1>3. n = 1
  BY <1>1, <1>2, WithinNumbers DEF Progress, Unstarted
<1>4. \A d \in Dispatch : dispatch[d].job = j => dispatch[d].attempt = 1 /\ d \in Created
  <2> SUFFICES ASSUME NEW d \in Dispatch, dispatch[d].job = j
               PROVE  dispatch[d].attempt = 1 /\ d \in Created
    OBVIOUS
  <2>1. d \in Created
    BY Tables, NoJobAssumption DEF OutboxInv, UnusedRowsFree
  <2>2. dispatch[d].attempt \in 1..MaxAttempts
    BY <2>1, Tables DEF OutboxInv, RowsWellFormed
  <2> QED
    BY <1>2, <1>3, <2>1, <2>2, MaxAttemptsAssumption DEF Progress
<1>5. \A i, stage, a :
        /\ PendingRow(i, stage, a).status = "pending"
        /\ PendingRow(i, stage, a).job = i
        /\ PendingRow(i, stage, a).stage = stage
        /\ PendingRow(i, stage, a).attempt = a
  BY DEF PendingRow
<1>6. ASSUME NEW d \in Dispatch, dispatch'[d].job = j
      PROVE  dispatch'[d].attempt = 1 /\ dispatch'[d].stage = job[j].stage
  <2>1. CASE d \in Created
    BY <1>1, <1>2, <1>3, <1>4, <1>6, <2>1 DEF RowsKept, Progress
  <2>2. CASE d \notin Created
    <3>1. dispatch'[d].job # NoJob
      BY <1>6, NoJobAssumption
    <3>2. ~Admit(j, SameRequest(j)) /\ \A w \in Worker : ~Settles(w, j)
      <4>1. job[j].version \in Nat
        BY Tables DEF JobRows
      <4> QED
        BY <1>1, <4>1, VersionRises DEF Admit
    <3>3. \E e \in Created :
            /\ dispatch[e].job = j
            /\ dispatch'[d] = PendingRow(j, dispatch[e].stage, dispatch[e].attempt)
      BY <1>5, <1>6, <2>2, <3>1, <3>2, NewRow
    <3> QED
      BY <1>2, <1>3, <1>4, <1>5, <3>3 DEF Progress, Created
  <2> QED
    BY <2>1, <2>2
<1>7. \E d \in Dispatch : dispatch'[d].job = j /\ dispatch'[d].attempt = 1 /\ Alive(d)'
  <2>1. PICK e \in Dispatch :
          /\ dispatch[e].job = j
          /\ dispatch' = WithDispatch([dispatch EXCEPT ![e].status = "failed"],
                                      j, dispatch[e].stage, dispatch[e].attempt)
    BY DEF RequeueOrphaned
  <2> DEFINE mid == [dispatch EXCEPT ![e].status = "failed"]
  <2>2. mid \in [Dispatch -> DispatchRows]
    BY <1>1 DEF DispatchRows, DispatchStatuses
  <2>3. dispatch' = WithDispatch(mid, j, dispatch[e].stage, dispatch[e].attempt)
    BY <2>1
  <2> HIDE DEF mid
  <2>4. /\ FreshDispatch \in Dispatch
        /\ dispatch'[FreshDispatch] = PendingRow(j, dispatch[e].stage, dispatch[e].attempt)
    BY <1>1, <2>2, <2>3, CreatedRow, FreshIsUnused
  <2>5. PICK f \in Dispatch :
          dispatch'[f] = PendingRow(j, dispatch[e].stage, dispatch[e].attempt)
    BY <2>4
  <2> QED
    BY <1>4, <1>5, <2>1, <2>5 DEF Alive
<1>8. Progress(j, 1)'
  BY <1>1, <1>2, <1>3, <1>6, <1>7, MaxAttemptsAssumption DEF Progress
<1> QED
  BY <1>8, WithinNumbers

\* An admission starts at attempt 1.
LEMMA ProgressAdmitted ==
    ASSUME GatewayInv, PipelineInv, Next, NEW j \in Job, Admit(j, SameRequest(j))
    PROVE  Progress(j, 1)'
<1> DEFINE stage == AdmissionStage(KindOf[j])
           r == PendingRow(j, stage, 1)
<1>1. /\ job'[j].stage = stage /\ attempt' = attempt /\ HasFreeRow
      /\ dispatch' = WithDispatch(dispatch, j, stage, 1)
      /\ dispatch \in [Dispatch -> DispatchRows]
  BY Tables DEF Admit, InsertedJob
<1>2. Unstarted(j) /\ \A d \in Dispatch : dispatch[d].job # j
  BY DEF Admit, PipelineInv, JobInv
<1>3. r.status = "pending" /\ r.job = j /\ r.stage = stage /\ r.attempt = 1
  BY DEF PendingRow
<1>4. PICK f \in Dispatch : /\ dispatch'[f] = r
                            /\ \A d \in Dispatch \ {f} : dispatch'[d] = dispatch[d]
  BY <1>1, CreatedRow, FreshIsUnused
<1> HIDE DEF r, stage
<1>5. \A d \in Dispatch : dispatch'[d].job = j =>
        dispatch'[d].attempt = 1 /\ dispatch'[d].stage = stage
  BY <1>2, <1>3, <1>4
<1>6. dispatch'[f].job = j /\ dispatch'[f].attempt = 1 /\ Alive(f)'
  BY <1>3, <1>4 DEF Alive
<1> QED
  BY <1>1, <1>2, <1>5, <1>6, WithinNumbers, MaxAttemptsAssumption
     DEF Progress, Unstarted, AttemptNumbers

\* A claim starts the current attempt.
LEMMA ProgressTaken ==
    ASSUME GatewayInv, PipelineInv, NEW j \in Job, NEW w \in Worker, Takes(w, j),
           NEW n \in 1..MaxAttempts, Progress(j, n)
    PROVE  Progress(j, n)'
<1> DEFINE a == Msg(w).attempt
<1>1. /\ a \in AttemptNumbers /\ attempt[j][a].status = "none" /\ a \in 1..MaxAttempts
      /\ job[j].stage = Msg(w).stage /\ UNCHANGED dispatch
      /\ job'[j] = Claimed(job[j])
      /\ attempt'[j] = WithAttempt(attempt[j], a, Msg(w).stage)
      /\ attempt[j] \in [AttemptNumbers -> AttemptRows]
      /\ worker[w].msg \in Dispatch
  <2>1. worker[w].pc # "idle"
    BY TakesRows
  <2>2. worker[w].msg \in Dispatch
    BY <2>1, Tables, MessageRow DEF Created
  <2> QED
    BY <2>2, TakesRows, Tables
<1>2. a = n
  BY <1>1 DEF Progress, Msg, Takes
<1>3. job'[j].status = "running" /\ job'[j].stage = job[j].stage
  BY <1>1 DEF Claimed
<1>4. /\ attempt'[j][n].status = "running" /\ attempt'[j][n].stage = job[j].stage
      /\ \A b \in AttemptNumbers \ {n} : attempt'[j][b] = attempt[j][b]
  BY <1>1, <1>2 DEF WithAttempt
<1> HIDE DEF a
<1> QED
  BY <1>1, <1>3, <1>4 DEF Progress

\* A persisting transaction that schedules a stage moves to the next attempt.
LEMMA ProgressScheduled ==
    ASSUME GatewayInv, PipelineInv, Next, NEW j \in Job, NEW w \in Worker, Settles(w, j),
           OutcomeOf(w).status = "running",
           NEW n \in 1..MaxAttempts, Progress(j, n)
    PROVE  n + 1 \in 1..MaxAttempts /\ Progress(j, n + 1)'
<1> DEFINE out == OutcomeOf(w)
           r == PendingRow(j, out.stage, n + 1)
<1>1. /\ worker[w].pc = "persist" /\ Exists(job[j]) /\ job[j].version = worker[w].ver
      /\ Msg(w).job = j /\ HasFreeRow /\ out.attempt \in {"succeeded", "failed"}
      /\ job'[j] = Transitioned(job[j], "running", out.stage, out.status = "running")
      /\ attempt'[j] = WithFinished(attempt[j], Msg(w).attempt, out.attempt)
      /\ dispatch' = WithDispatch(dispatch, j, out.stage, Msg(w).attempt + 1)
      /\ attempt[j] \in [AttemptNumbers -> AttemptRows]
      /\ dispatch \in [Dispatch -> DispatchRows]
  BY SettlesRows, Tables DEF Settles
<1>2. Msg(w).attempt = n /\ attempt[j][n].status = "running"
  BY <1>1, CurrentAttempt DEF Holds
<1>3. r.status = "pending" /\ r.job = j /\ r.stage = out.stage /\ r.attempt = n + 1
  BY DEF PendingRow
<1>4. PICK f \in Dispatch : /\ dispatch'[f] = r
                            /\ \A d \in Dispatch \ {f} : dispatch'[d] = dispatch[d]
  BY <1>1, <1>2, CreatedRow, FreshIsUnused
<1>5. n + 1 \in 1..MaxAttempts
  <2>1. OutboxInv'
    BY GatewayStep, Tables DEF GatewayInv
  <2>2. f \in Created'
    BY <1>3, <1>4 DEF Created
  <2> QED
    BY <1>3, <1>4, <2>1, <2>2 DEF OutboxInv, RowsWellFormed
<1>6. job'[j].status = "running" /\ job'[j].stage = out.stage
  BY <1>1 DEF Transitioned
<1>7. /\ attempt'[j][n].status \in {"succeeded", "failed"}
      /\ \A b \in AttemptNumbers \ {n} : attempt'[j][b] = attempt[j][b]
  BY <1>1, <1>2, WithinNumbers DEF WithFinished
<1> HIDE DEF r, out
<1>8. \A d \in Dispatch : dispatch'[d].job = j =>
        /\ dispatch'[d].attempt <= n + 1
        /\ dispatch'[d].attempt = n + 1 => dispatch'[d].stage = job'[j].stage
  <2> SUFFICES ASSUME NEW d \in Dispatch, dispatch'[d].job = j
               PROVE  /\ dispatch'[d].attempt <= n + 1
                      /\ dispatch'[d].attempt = n + 1 => dispatch'[d].stage = job'[j].stage
    OBVIOUS
  <2>1. CASE d = f
    BY <1>3, <1>4, <1>5, <1>6, <2>1
  <2>2. CASE d # f
    <3>1. dispatch[d].attempt <= n /\ dispatch[d].attempt \in Nat
      BY <1>1, <1>4, <2>2 DEF Progress, DispatchRows, AttemptNumbers
    <3> QED
      BY <1>4, <2>2, <3>1
  <2> QED
    BY <2>1, <2>2
<1>9. dispatch'[f].job = j /\ dispatch'[f].attempt = n + 1 /\ Alive(f)'
  BY <1>3, <1>4 DEF Alive
<1>10. \A b \in AttemptNumbers :
         /\ b < n + 1 => attempt'[j][b].status \in {"succeeded", "failed"}
         /\ b > n + 1 => attempt'[j][b].status = "none"
         /\ b = n + 1 => attempt'[j][b].status = "none"
  <2> SUFFICES ASSUME NEW b \in AttemptNumbers
               PROVE  /\ b < n + 1 => attempt'[j][b].status \in {"succeeded", "failed"}
                      /\ b > n + 1 => attempt'[j][b].status = "none"
                      /\ b = n + 1 => attempt'[j][b].status = "none"
    OBVIOUS
  <2>1. b \in Nat
    BY DEF AttemptNumbers
  <2> QED
    BY <1>7, <2>1 DEF Progress
<1> QED
  BY <1>5, <1>8, <1>9, <1>10, WithinNumbers DEF Progress

\* Saving a task id leaves the job at its running submit.
LEMMA ProgressRecovered ==
    ASSUME GatewayInv, PipelineInv, NEW j \in Job, NEW w \in Worker, Recovers(w, j),
           NEW n \in 1..MaxAttempts, Progress(j, n)
    PROVE  Progress(j, n)'
<1>1. /\ worker[w].pc = "recover" /\ Exists(job[j]) /\ job[j].version = worker[w].ver
      /\ Msg(w).job = j /\ UNCHANGED <<attempt, dispatch>>
      /\ job[j].stage \in {"admitted", "video_submit"}
      /\ job'[j] = Transitioned(job[j], "running", "video_submit", TRUE)
  BY RecoversRows, Tables DEF Recovers
<1>2. Msg(w).attempt = n /\ Msg(w).stage = job[j].stage
  BY <1>1, CurrentAttempt DEF Holds
<1>3. Msg(w).stage # "admitted"
  BY <1>1, Tables, MessageRow
<1>4. job'[j].status = "running" /\ job'[j].stage = job[j].stage
  BY <1>1, <1>2, <1>3 DEF Transitioned
<1> QED
  BY <1>1, <1>4 DEF Progress, Alive

\* Every step keeps the rows of every job consistent.
LEMMA JobKept ==
    ASSUME GatewayInv, PipelineInv, Next, NEW j \in Job
    PROVE  JobInv(j)'
<1>1. /\ job \in [Job -> JobRows] /\ JobInv(j)
  BY Tables DEF PipelineInv
<1>2. ASSUME Active(job[j])
      PROVE  \E n \in 1..MaxAttempts : Progress(j, n)
  BY <1>1, <1>2 DEF JobInv
<1>3. ASSUME Active(job'[j])
      PROVE  \E n \in 1..MaxAttempts : Progress(j, n)'
  <2>1. CASE job'[j] = job[j] /\ attempt'[j] = attempt[j]
    BY <1>2, <1>3, <2>1, ProgressUntouched, ProgressRequeued
  <2>2. CASE Admit(j, SameRequest(j))
    BY <2>2, ProgressAdmitted, WithinNumbers
  <2>3. CASE CleanupJob(j)
    <3>1. job'[j].status = "deleted"
      BY <1>1, <2>3 DEF CleanupJob, JobRows
    <3> QED
      BY <1>3, <3>1, ActiveRow
  <2>4. ASSUME NEW w \in Worker, Takes(w, j)
        PROVE  \E n \in 1..MaxAttempts : Progress(j, n)'
    BY <1>2, <2>4, TakesRows, ProgressTaken
  <2>5. ASSUME NEW w \in Worker, Settles(w, j)
        PROVE  \E n \in 1..MaxAttempts : Progress(j, n)'
    <3>1. /\ job'[j].status = OutcomeOf(w).status
          /\ OutcomeOf(w).status \in {"running", "succeeded", "failed"}
      BY <1>1, <2>5, SettlesRows DEF Transitioned
    <3>2. OutcomeOf(w).status = "running"
      BY <1>3, <3>1, ActiveRow
    <3>3. \E n \in 1..MaxAttempts : Progress(j, n)
      <4>1. /\ worker[w].pc = "persist" /\ Exists(job[j]) /\ job[j].version = worker[w].ver
            /\ Msg(w).job = j
        BY <2>5, SettlesRows DEF Settles
      <4> QED
        BY <4>1, CurrentAttempt DEF Holds
    <3> QED
      BY <2>5, <3>2, <3>3, ProgressScheduled
  <2>6. ASSUME NEW w \in Worker, Recovers(w, j)
        PROVE  \E n \in 1..MaxAttempts : Progress(j, n)'
    <3>1. \E n \in 1..MaxAttempts : Progress(j, n)
      <4>1. /\ worker[w].pc = "recover" /\ Exists(job[j]) /\ job[j].version = worker[w].ver
            /\ Msg(w).job = j
        BY <2>6, RecoversRows DEF Recovers
      <4> QED
        BY <4>1, CurrentAttempt DEF Holds
    <3> QED
      BY <2>6, <3>1, ProgressRecovered
  <2>7. CASE Marks(j)
    <3>1. job'[j].status \in {"succeeded", "failed"}
      BY <1>1, <2>7, MarksRows DEF Transitioned
    <3> QED
      BY <1>3, <3>1, ActiveRow
  <2> QED
    BY <2>1, <2>2, <2>3, <2>4, <2>5, <2>6, <2>7, JobStep
<1> QED
  BY <1>3, UnstartedKept, PollKept DEF JobInv

\* The pipeline invariant is inductive.
LEMMA PipelineStep ==
    ASSUME GatewayInv, PipelineInv, Next
    PROVE  PipelineInv'
<1>1. KindStages'
  BY KindStagesKept DEF PipelineInv
<1>2. \A w \in Worker : /\ (worker[w].pc # "idle" => SnapshotInv(w))'
                        /\ (Holds(w) => HolderInv(w))'
  BY WorkersKept
<1>3. \A j \in Job : JobInv(j)'
  BY JobKept
<1> QED
  BY <1>1, <1>2, <1>3 DEF PipelineInv

\* The initial state satisfies it.
LEMMA PipelineInit == Init => PipelineInv
<1> SUFFICES ASSUME Init
             PROVE  PipelineInv
  OBVIOUS
<1>1. \A j \in Job : /\ job[j] = AbsentJob /\ attempt[j] = NoAttempts
                     /\ api[j].pc = "idle"
  BY DEF Init, WorkInit, ApiInit
<1>2. \A d \in Dispatch : dispatch[d].job = NoJob /\ dispatch[d].status = "none"
  BY DEF Init, OutboxInit, UnusedRow
<1>3. \A w \in Worker : worker[w].pc = "idle"
  BY DEF Init, WorkInit, IdleWorker
<1>4. \A j \in Job : JobInv(j)
  BY <1>1, <1>2, NoJobAssumption
     DEF JobInv, AbsentJob, NoAttempts, NoAttempt, Unstarted, Active, ActiveStatuses
<1> QED
  BY <1>2, <1>3, <1>4 DEF PipelineInv, KindStages, Created, Holds

\* Stuttering keeps it.
LEMMA PipelineStutter ==
    ASSUME PipelineInv, UNCHANGED vars
    PROVE  PipelineInv'
<1>1. \A w \in Worker : /\ SnapshotInv(w) => SnapshotInv(w)'
                        /\ HolderInv(w) => HolderInv(w)'
                        /\ Holds(w)' = Holds(w)
  BY DEF vars, SnapshotInv, HolderInv, Holds, Msg
<1>2. \A j \in Job : JobInv(j) => JobInv(j)'
  BY DEF vars, JobInv, Progress, Unstarted, Alive
<1>3. KindStages'
  BY DEF vars, PipelineInv, KindStages, Created
<1> QED
  BY <1>1, <1>2, <1>3 DEF PipelineInv, vars

\* The pipeline invariant holds in every state.
THEOREM PipelineInvariant == Spec => []PipelineInv
<1>1. GatewayInv /\ PipelineInv /\ [Next]_vars => PipelineInv'
  BY PipelineStep, PipelineStutter
<1> QED
  BY <1>1, PipelineInit, GatewayInvariant, PTL DEF Spec

\* An active job has at most one running attempt, of its current stage, for
\* every interleaving of claims, redeliveries, retries and recoveries.
THEOREM OneRunningAttempt == Spec => []RunningAttemptOwnsStage
<1>1. PipelineInv => RunningAttemptOwnsStage
  <2> SUFFICES ASSUME PipelineInv, NEW j \in Job, Active(job[j]),
                      NEW a \in AttemptNumbers, NEW b \in AttemptNumbers,
                      attempt[j][a].status = "running"
               PROVE  /\ attempt[j][a].stage = job[j].stage
                      /\ attempt[j][b].status = "running" => a = b
    BY DEF RunningAttemptOwnsStage
  <2>1. PICK n \in 1..MaxAttempts : Progress(j, n)
    BY DEF PipelineInv, JobInv
  <2>2. \A c \in AttemptNumbers : attempt[j][c].status = "running" => c = n
    <3>1. \A c \in AttemptNumbers : c < n \/ c > n \/ c = n
      BY MaxAttemptsAssumption DEF AttemptNumbers
    <3> QED
      BY <2>1, <3>1 DEF Progress
  <2> QED
    BY <2>1, <2>2 DEF Progress
<1> QED
  BY <1>1, PipelineInvariant, PTL

\* An active job always has a running attempt, a dispatch that leads to one,
\* or a dispatch that was given up after dispatch_max_attempts: no step of
\* admission, worker, dispatcher, requeue or client poll loses the work.
THEOREM WorkNeverLost == Spec => []ActiveHasWork
<1>1. PipelineInv => ActiveHasWork
  <2> SUFFICES ASSUME PipelineInv, NEW j \in Job, Active(job[j]),
                      \A a \in AttemptNumbers : attempt[j][a].status # "running"
               PROVE  \/ \E d \in Dispatch : Unattempted(j, d)
                      \/ \E d \in Dispatch : /\ dispatch[d].job = j
                                             /\ dispatch[d].status = "failed"
                                             /\ dispatch[d].tries = MaxDispatchAttempts
    BY DEF ActiveHasWork
  <2>1. PICK n \in 1..MaxAttempts : Progress(j, n)
    BY DEF PipelineInv, JobInv
  <2>2. attempt[j][n].status = "none"
    BY <2>1, WithinNumbers DEF Progress
  <2>3. PICK d \in Dispatch : dispatch[d].job = j /\ dispatch[d].attempt = n /\ Alive(d)
    BY <2>1, <2>2 DEF Progress
  <2>4. dispatch[d].stage = job[j].stage
    BY <2>1, <2>3 DEF Progress
  <2> QED
    BY <2>2, <2>3, <2>4 DEF Alive, Unattempted
<1> QED
  BY <1>1, PipelineInvariant, PTL

-----------------------------------------------------------------------------
(***************************************************************************)
(* Outcomes are final                                                      *)
(***************************************************************************)
\* The status table lets a terminal row keep its status only, and a claim
\* needs an active row.
LEMMA TerminalRow ==
    ASSUME NEW kind, NEW row \in JobRows, NEW version, NEW status, NEW stage, Terminal(row)
    PROVE  /\ CanTransition(kind, row, version, status, stage) => status = row.status
           /\ \A allow : ~CanClaim(row, version, stage, allow)
<1>1. CanTransition(kind, row, version, status, stage) => status = row.status
  BY DEF CanTransition, StatusTransitions, Terminal, TerminalStatuses
<1>2. \A allow : ~CanClaim(row, version, stage, allow)
  BY DEF CanClaim, Terminal, TerminalStatuses, ActiveStatuses
<1> QED
  BY <1>1, <1>2

\* No step changes the status of a terminal job, except deleting the job.
LEMMA TerminalStep ==
    ASSUME GatewayInv, Next, NEW i \in Job, Terminal(job[i])
    PROVE  job'[i].status \in {job[i].status, "deleted"}
<1>1. OutboxInv /\ WorkInv /\ job \in [Job -> JobRows]
  BY DEF GatewayInv, WorkInv, WorkTypeOK
<1>2. CASE UNCHANGED job
  BY <1>2
<1>3. ASSUME NEW j \in Job, Admit(j, SameRequest(j))
      PROVE  job'[i].status = job[i].status
  BY <1>1, <1>3 DEF Admit, Terminal, TerminalStatuses
<1>4. ASSUME NEW j \in Job, CleanupJob(j)
      PROVE  job'[i].status \in {job[i].status, "deleted"}
  BY <1>1, <1>4 DEF CleanupJob, JobRows
<1>5. ASSUME NEW w \in Worker, Claim(w)
      PROVE  job'[i].status = job[i].status
  <2>1. CASE UNCHANGED job
    BY <2>1
  <2>2. CASE ClaimVerdict(Msg(w), worker[w].snap, attempt[Msg(w).job], job[Msg(w).job])
               = "claimed"
    <3>1. \E allow : CanClaim(job[Msg(w).job], worker[w].snap.version, Msg(w).stage, allow)
      BY <2>2 DEF ClaimVerdict, Repeated
    <3>2. Msg(w).job \in Job
      BY <1>1, <1>5, MessageRow DEF Claim
    <3>3. i # Msg(w).job
      BY <1>1, <3>1, <3>2, TerminalRow
    <3>4. job' = [job EXCEPT ![Msg(w).job] = Claimed(job[Msg(w).job])]
      BY <1>5, <2>2 DEF Claim
    <3> QED
      BY <1>1, <3>3, <3>4
  <2> QED
    BY <1>5, <2>1, <2>2 DEF Claim
<1>6. ASSUME NEW w \in Worker, Persist(w)
      PROVE  job'[i].status = job[i].status
  <2> DEFINE j == Msg(w).job
             out == Outcome(Msg(w).stage, Msg(w).attempt, worker[w].res)
             new == Transitioned(job[j], out.status, out.stage, out.status = "running")
  <2>1. \/ UNCHANGED job
        \/ /\ CanTransition(KindOf[j], job[j], worker[w].ver, out.status, out.stage)
           /\ job' = [job EXCEPT ![j] = new]
    BY <1>6 DEF Persist
  <2>2. ASSUME i = j, CanTransition(KindOf[j], job[j], worker[w].ver, out.status, out.stage)
        PROVE  new.status = job[i].status
    BY <1>1, <2>2, TerminalRow DEF Transitioned
  <2> HIDE DEF new, out
  <2> QED
    BY <1>1, <2>1, <2>2
<1>7. ASSUME NEW w \in Worker, RecordSubmittedRecovery(w)
      PROVE  job'[i].status = job[i].status
  <2> DEFINE j == Msg(w).job
             new == Transitioned(job[j], "running", "video_submit", TRUE)
             legal == CanTransition(KindOf[j], job[j], worker[w].ver, "running", "video_submit")
  <2>1. UNCHANGED job \/ (legal /\ job' = [job EXCEPT ![j] = new])
    BY <1>7 DEF RecordSubmittedRecovery
  <2>2. ASSUME i = j, legal
        PROVE  new.status = job[i].status
    BY <1>1, <2>2, TerminalRow DEF Transitioned
  <2> HIDE DEF new, legal
  <2> QED
    BY <1>1, <2>1, <2>2
<1>8. ASSUME NEW j \in Job, ApiStep(j)
      PROVE  job'[i].status = job[i].status
  <2> DEFINE status == ApiStatus(api[j].pc)
             new == Transitioned(job[j], status, "finalize", FALSE)
             legal == CanTransition(KindOf[j], job[j], job[j].version, status, "finalize")
  <2>1. UNCHANGED job \/ (legal /\ job' = [job EXCEPT ![j] = new])
    BY <1>8 DEF ApiStep, ApiPoll, ApiMark, ApiMarkStale, ApiSaveAsset, workVars
  <2>2. ASSUME i = j, legal
        PROVE  new.status = job[i].status
    BY <1>1, <2>2, TerminalRow DEF Transitioned
  <2> HIDE DEF new, legal
  <2> QED
    BY <1>1, <2>1, <2>2
<1>9. CASE Fault
  BY <1>2, <1>9 DEF Fault, DatabaseError, WorkerCrash, VisibilityTimeout, BrokerLoss, workVars
<1> QED
  BY <1>2, <1>3, <1>4, <1>5, <1>6, <1>7, <1>8, <1>9
     DEF Next, RequeueOrphaned, Deliver, WorkerStep, Check, ProviderCall, workVars

\* The outcome of a job is decided once, for every interleaving of workers,
\* client polls, redeliveries and cleanup.
THEOREM TerminalStaysFinal == Spec => TerminalIsFinal
<1>1. GatewayInv /\ [Next]_vars =>
        [\A j \in Job : Terminal(job[j]) => job'[j].status \in {job[j].status, "deleted"}]_vars
  BY TerminalStep
<1> QED
  BY <1>1, GatewayInvariant, PTL DEF Spec, TerminalIsFinal

-----------------------------------------------------------------------------
(***************************************************************************)
(* History                                                                 *)
(***************************************************************************)
\* The history rows of a job change with its persisting transaction and its
\* cleanup; a client's poll may only add an asset, after its mark.
LEMMA HistoryStep ==
    ASSUME GatewayInv, Next, NEW j \in Job
    PROVE  \/ CleanupJob(j)
           \/ \E w \in Worker : Settles(w, j)
           \/ /\ generation'[j] = generation[j]
              /\ asset'[j] => asset[j] \/ api[j].pc = "saving"
<1> DEFINE Kept == /\ generation'[j] = generation[j]
                   /\ asset'[j] => asset[j] \/ api[j].pc = "saving"
<1>1. generation \in [Job -> BOOLEAN] /\ asset \in [Job -> BOOLEAN]
  BY Tables
<1>2. CASE UNCHANGED <<generation, asset>>
  BY <1>2
<1>3. ASSUME NEW i \in Job, CleanupJob(i)
      PROVE  Kept \/ i = j
  BY <1>1, <1>3 DEF CleanupJob
<1>4. ASSUME NEW w \in Worker, Persist(w)
      PROVE  Kept \/ Settles(w, j)
  BY <1>1, <1>4 DEF Persist, Settles, OutcomeOf
<1>5. ASSUME NEW i \in Job, ApiStep(i)
      PROVE  Kept
  <2>1. CASE ApiSaveAsset(i)
    BY <1>1, <2>1 DEF ApiSaveAsset
  <2> QED
    BY <1>2, <1>5, <2>1 DEF ApiStep, ApiPoll, ApiMark, ApiMarkStale, workVars
<1>6. ASSUME NEW w \in Worker, WorkerStep(w)
      PROVE  Kept \/ Settles(w, j)
  BY <1>2, <1>4, <1>6 DEF WorkerStep, Check, Claim, ProviderCall, RecordSubmittedRecovery
<1>7. CASE Fault
  BY <1>2, <1>7 DEF Fault, DatabaseError, WorkerCrash, VisibilityTimeout, BrokerLoss, workVars
<1> QED
  BY <1>2, <1>3, <1>5, <1>6, <1>7 DEF Next, Admit, RequeueOrphaned, Deliver, workVars

\* A poll goes on to save its asset only by a mark that succeeded.
LEMMA SavingStep ==
    ASSUME GatewayInv, Next, NEW j \in Job, api'[j].pc = "saving"
    PROVE  api[j].pc = "saving" \/ (Marks(j) /\ api[j].pc = "localized")
<1>1. api \in [Job -> ApiStates]
  BY Tables
<1>2. CASE UNCHANGED api
  BY <1>2
<1>3. ASSUME NEW i \in Job, ApiPoll(i)
      PROVE  api[j].pc = "saving"
  BY <1>1, <1>3 DEF ApiPoll
<1>4. ASSUME NEW i \in Job, ApiMark(i)
      PROVE  api[j].pc = "saving" \/ (Marks(j) /\ api[j].pc = "localized")
  <2> DEFINE legal == CanTransition(KindOf[i], job[i], job[i].version,
                                    ApiStatus(api[i].pc), "finalize")
             pc == IF legal /\ api[i].pc = "localized" THEN "saving" ELSE "idle"
  <2>1. api' = [api EXCEPT ![i].pc = pc]
    BY <1>4 DEF ApiMark
  <2>2. i # j => api'[j] = api[j]
    BY <1>1, <2>1
  <2>3. i = j => api'[j].pc = pc
    BY <1>1, <2>1 DEF ApiStates
  <2> QED
    BY <1>4, <2>2, <2>3 DEF Marks
<1>5. ASSUME NEW i \in Job, ApiMarkStale(i) \/ ApiSaveAsset(i)
      PROVE  api[j].pc = "saving"
  BY <1>1, <1>5 DEF ApiMarkStale, ApiSaveAsset, ApiStates
<1>6. ASSUME NEW i \in Job, ApiStep(i)
      PROVE  api[j].pc = "saving" \/ (Marks(j) /\ api[j].pc = "localized")
  BY <1>3, <1>4, <1>5, <1>6 DEF ApiStep
<1> QED
  BY <1>2, <1>6 DEF Next, Fault

\* A succeeded job stays so until it is deleted, and a deleted one is gone.
LEMMA SucceededOrGone ==
    ASSUME GatewayInv, Next, NEW j \in Job, job[j].status \in {"succeeded", "deleted"}
    PROVE  /\ job'[j].status \in {"succeeded", "deleted"}
           /\ job[j].status = "succeeded" /\ ~CleanupJob(j) => job'[j].status = "succeeded"
<1>1. CASE job[j].status = "succeeded"
  <2>1. job'[j].status \in {"succeeded", "deleted"}
    BY <1>1, TerminalStep DEF Terminal, TerminalStatuses
  <2>2. Exists(job[j]) /\ job[j].status # "absent"
    BY <1>1 DEF Exists, ValidStatuses, TerminalStatuses
  <2>3. ~CleanupJob(j) => job'[j].status # "deleted"
    BY <2>2, JobStep, VersionRises
       DEF Admit, Exists, ValidStatuses, ActiveStatuses, TerminalStatuses
  <2> QED
    BY <2>1, <2>3
<1>2. CASE job[j].status = "deleted"
  <2>1. ~Exists(job[j]) /\ ~Terminal(job[j])
    BY <1>2 DEF Exists, Terminal, ValidStatuses, ActiveStatuses, TerminalStatuses
  <2>2. job'[j] = job[j]
    BY <1>2, <2>1, JobStep, VersionRises DEF Admit, CleanupJob
  <2> QED
    BY <1>2, <2>2
<1> QED
  BY <1>1, <1>2

\* The records of one job stay in step with its outcome.
LEMMA HistoryKept ==
    ASSUME GatewayInv, PipelineInv, RecordsMatchOutcome, SavingFits, Next, NEW j \in Job
    PROVE  /\ generation'[j] => job'[j].status = "succeeded"
           /\ KindOf[j] = "image" /\ job'[j].status = "succeeded" => generation'[j]
           /\ asset'[j] => job'[j].status \in {"succeeded", "deleted"}
<1>1. /\ job \in [Job -> JobRows] /\ generation \in [Job -> BOOLEAN]
      /\ asset \in [Job -> BOOLEAN] /\ OutboxInv /\ WorkInv
      /\ generation[j] => job[j].status = "succeeded"
      /\ KindOf[j] = "image" /\ job[j].status = "succeeded" => generation[j]
      /\ asset[j] => job[j].status \in {"succeeded", "deleted"}
      /\ api[j].pc = "saving" => job[j].status \in {"succeeded", "deleted"}
  BY Tables DEF RecordsMatchOutcome, SavingFits
<1>2. CASE CleanupJob(j)
  BY <1>1, <1>2 DEF CleanupJob, JobRows
<1>3. ASSUME NEW w \in Worker, Settles(w, j)
      PROVE  /\ generation'[j] => job'[j].status = "succeeded"
             /\ KindOf[j] = "image" /\ job'[j].status = "succeeded" => generation'[j]
             /\ asset'[j] => job'[j].status \in {"succeeded", "deleted"}
  <2>1. /\ job'[j].status = OutcomeOf(w).status
        /\ generation'[j] = (generation[j] \/ OutcomeOf(w).status = "succeeded")
        /\ OutcomeOf(w).status \in StatusTransitions[job[j].status]
        /\ \E saved \in SavedAssets(OutcomeOf(w).status) :
             asset'[j] = (asset[j] \/ saved)
    BY <1>1, <1>3, SettlesRows DEF Settles, Transitioned
  <2>2. generation[j] => OutcomeOf(w).status = "succeeded"
    BY <1>1, <2>1 DEF StatusTransitions
  <2>3. asset'[j] => asset[j] \/ OutcomeOf(w).status = "succeeded"
    BY <2>1 DEF SavedAssets
  <2>4. asset[j] => job'[j].status \in {"succeeded", "deleted"}
    BY <1>1, SucceededOrGone
  <2> QED
    BY <2>1, <2>2, <2>3, <2>4
<1>4. CASE /\ ~CleanupJob(j) /\ \A w \in Worker : ~Settles(w, j)
  <2>1. /\ generation'[j] = generation[j]
        /\ asset'[j] => asset[j] \/ api[j].pc = "saving"
    BY <1>4, HistoryStep
  <2>2. /\ generation[j] => job'[j].status = "succeeded"
        /\ asset'[j] => job'[j].status \in {"succeeded", "deleted"}
    BY <1>1, <1>4, <2>1, SucceededOrGone
  <2>3. ASSUME KindOf[j] = "image", job'[j].status = "succeeded"
        PROVE  job[j].status = "succeeded"
    <3>1. CASE job'[j] = job[j]
      BY <2>3, <3>1
    <3>2. ~Admit(j, SameRequest(j))
      BY <1>1, <2>3, InsertedType DEF Admit
    <3>3. \A w \in Worker : ~Takes(w, j)
      BY <1>1, <2>3, TakesRows DEF Claimed
    <3>4. \A w \in Worker : ~Recovers(w, j)
      BY <1>1, <2>3, RecoversRows DEF Transitioned
    <3>5. ~Marks(j)
      BY <2>3, MarksRows DEF PipelineInv, JobInv
    <3> QED
      BY <1>4, <3>1, <3>2, <3>3, <3>4, <3>5, JobStep
  <2> QED
    BY <1>1, <2>1, <2>2, <2>3
<1> QED
  BY <1>2, <1>3, <1>4

\* A job whose asset is about to be saved has succeeded, or is gone by then.
LEMMA SavingKept ==
    ASSUME GatewayInv, SavingFits, Next, NEW j \in Job, api'[j].pc = "saving"
    PROVE  job'[j].status \in {"succeeded", "deleted"}
<1>1. CASE api[j].pc = "saving"
  BY <1>1, SucceededOrGone DEF SavingFits
<1>2. CASE Marks(j) /\ api[j].pc = "localized"
  BY <1>2, MarksRows, Tables DEF ApiStatus, Transitioned
<1> QED
  BY <1>1, <1>2, SavingStep

\* A generation is linked to succeeded jobs only, a succeeded image job has
\* one, and an asset is linked to no active or failed job, whatever polls,
\* marks, deletes or persists meanwhile.
THEOREM HistoryMatchesOutcome == Spec => []RecordsMatchOutcome
<1>1. Init => RecordsMatchOutcome /\ SavingFits
  BY DEF Init, WorkInit, ApiInit, RecordsMatchOutcome, SavingFits, AbsentJob
<1>2. GatewayInv /\ PipelineInv /\ RecordsMatchOutcome /\ SavingFits /\ [Next]_vars
        => RecordsMatchOutcome' /\ SavingFits'
  <2>1. ASSUME RecordsMatchOutcome, SavingFits, UNCHANGED vars
        PROVE  RecordsMatchOutcome' /\ SavingFits'
    BY <2>1 DEF RecordsMatchOutcome, SavingFits, vars
  <2>2. ASSUME GatewayInv, PipelineInv, RecordsMatchOutcome, SavingFits, Next
        PROVE  RecordsMatchOutcome' /\ SavingFits'
    <3>1. RecordsMatchOutcome'
      BY <2>2, HistoryKept DEF RecordsMatchOutcome
    <3>2. SavingFits'
      BY <2>2, SavingKept DEF SavingFits
    <3> QED
      BY <3>1, <3>2
  <2> QED
    BY <2>1, <2>2
<1> QED
  BY <1>1, <1>2, GatewayInvariant, PipelineInvariant, PTL DEF Spec

-----------------------------------------------------------------------------
(***************************************************************************)
(* No job is charged twice.  AtMostOneBillableCall is not inductive: a     *)
(* second charge is excluded because the attempt row written with the      *)
(* claim outlives the call, and because billable stages are only ever      *)
(* dispatched as attempt 1.                                                *)
(***************************************************************************)

\* The worker is about to make a billable provider call for the job.
Calling(w, j) ==
    /\ worker[w].pc = "call"
    /\ Msg(w).job = j
    /\ Msg(w).stage \in {"image_generate", "video_submit"}

\* The job can never be claimed for its first attempt (again).
Spent(j) == attempt[j][1].status # "none" \/ job[j].status = "deleted"

\* At most one charge made or about to be made, and only for a spent job.
ChargedOnce(j) ==
    /\ calls[j] <= 1
    /\ \A w \in Worker : Calling(w, j) => calls[j] = 0 /\ Spent(j)
    /\ \A w, v \in Worker : Calling(w, j) /\ Calling(v, j) => w = v
    /\ calls[j] # 0 => Spent(j)

BillingInv == \A j \in Job : ChargedOnce(j)

-----------------------------------------------------------------------------
\* Attempt 1 is a legal attempt number.
LEMMA FirstAttempt == 1 \in AttemptNumbers
  BY MaxAttemptsAssumption DEF AttemptNumbers

\* What the two verdicts that start work have established.
LEMMA VerdictMeans ==
    ASSUME NEW m, NEW snap, NEW rows, NEW row
    PROVE  /\ ClaimVerdict(m, snap, rows, row) = "resumed" => Resumable(m.stage, snap)
           /\ ClaimVerdict(m, snap, rows, row) = "claimed" =>
                /\ rows[m.attempt].status = "none"
                /\ row.status # "deleted"
<1>1. \A allow : CanClaim(row, snap.version, m.stage, allow) => row.status # "deleted"
  BY DEF CanClaim, ActiveStatuses
<1> QED
  BY <1>1 DEF ClaimVerdict, Repeated

\* The claim's attempt row is there at once.
LEMMA AttemptWritten ==
    ASSUME NEW rows \in [AttemptNumbers -> AttemptRows], NEW a \in AttemptNumbers,
           NEW stage \in Stages
    PROVE  WithAttempt(rows, a, stage)[a].status = "running"
  BY DEF WithAttempt

\* A transition never revives a deleted row.
LEMMA DeletedStays ==
    ASSUME NEW kind, NEW row, NEW version, NEW status, NEW stage,
           row.status = "deleted"
    PROVE  /\ ~CanTransition(kind, row, version, status, stage)
           /\ \A allow \in BOOLEAN : ~CanClaim(row, version, stage, allow)
  BY DEF CanTransition, CanClaim, Exists, ValidStatuses, ActiveStatuses, TerminalStatuses

\* A spent job stays spent.
LEMMA SpentStays ==
    ASSUME GatewayInv, Next, NEW i \in Job, Spent(i)
    PROVE  Spent(i)'
<1>1. /\ attempt[i] \in [AttemptNumbers -> AttemptRows]
      /\ job \in [Job -> JobRows] /\ attempt \in [Job -> [AttemptNumbers -> AttemptRows]]
      /\ OutboxInv /\ WorkInv
  BY DEF GatewayInv, WorkInv, WorkTypeOK
<1>2. CASE UNCHANGED <<job, attempt>>
  BY <1>2 DEF Spent
<1>3. ASSUME NEW j \in Job, Admit(j, SameRequest(j))
      PROVE  Spent(i)'
  BY <1>1, <1>3 DEF Admit, Spent
<1>4. ASSUME NEW j \in Job, CleanupJob(j)
      PROVE  Spent(i)'
  BY <1>1, <1>4 DEF CleanupJob, Spent, JobRows
<1>5. ASSUME NEW w \in Worker, Claim(w)
      PROVE  Spent(i)'
  <2> DEFINE m == Msg(w)
  <2>1. m.job \in Job /\ m.stage \in Stages /\ m.attempt \in AttemptNumbers
    BY <1>1, <1>5, MessageRow DEF Claim
  <2>2. CASE ClaimVerdict(m, worker[w].snap, attempt[m.job], job[m.job]) = "claimed"
    <3>1. /\ job' = [job EXCEPT ![m.job] = Claimed(job[m.job])]
          /\ attempt' = [attempt EXCEPT ![m.job] =
                           WithAttempt(attempt[m.job], m.attempt, m.stage)]
      BY <1>5, <2>2 DEF Claim
    <3>2. job[m.job].status # "deleted"
      BY <2>2, DeletedStays DEF ClaimVerdict, Repeated
    <3>3. attempt[i][1].status # "none" =>
            WithAttempt(attempt[i], m.attempt, m.stage)[1].status # "none"
      BY <1>1, <2>1, FirstAttempt, AttemptUpdates
    <3> QED
      BY <1>1, <2>1, <3>1, <3>2, <3>3 DEF Spent
  <2>3. CASE ClaimVerdict(m, worker[w].snap, attempt[m.job], job[m.job]) # "claimed"
    BY <1>2, <1>5, <2>3 DEF Claim
  <2> QED
    BY <2>2, <2>3
<1>6. ASSUME NEW w \in Worker, Persist(w)
      PROVE  Spent(i)'
  <2> DEFINE m == Msg(w)
             j == m.job
             out == Outcome(m.stage, m.attempt, worker[w].res)
             legal == CanTransition(KindOf[j], job[j], worker[w].ver, out.status, out.stage)
  <2>1. m.job \in Job /\ m.stage \in Stages /\ m.attempt \in AttemptNumbers
    BY <1>1, <1>6, MessageRow DEF Persist
  <2>2. CASE legal
    <3>1. /\ job' = [job EXCEPT ![j] =
                       Transitioned(job[j], out.status, out.stage, out.status = "running")]
          /\ attempt' = [attempt EXCEPT ![j] = WithFinished(attempt[j], m.attempt, out.attempt)]
      BY <1>6, <2>2 DEF Persist
    <3>2. job[j].status # "deleted"
      BY <2>2, DeletedStays
    <3>3. attempt[i][1].status # "none" =>
            WithFinished(attempt[i], m.attempt, out.attempt)[1].status # "none"
      BY <1>1, <2>1, OutcomeType, FirstAttempt, AttemptUpdates
    <3> HIDE DEF out
    <3> QED
      BY <1>1, <2>1, <3>1, <3>2, <3>3 DEF Spent
  <2>3. CASE ~legal
    BY <1>2, <1>6, <2>3 DEF Persist
  <2> QED
    BY <2>2, <2>3
<1>7. ASSUME NEW w \in Worker, RecordSubmittedRecovery(w)
      PROVE  Spent(i)'
  BY <1>1, <1>7, DeletedStays DEF RecordSubmittedRecovery, Spent
<1>8. ASSUME NEW j \in Job, ApiStep(j)
      PROVE  Spent(i)'
  BY <1>1, <1>2, <1>8, DeletedStays
     DEF ApiStep, ApiPoll, ApiMark, ApiMarkStale, ApiSaveAsset, workVars, Spent
<1>9. ASSUME NEW j \in Job, RequeueOrphaned(j)
      PROVE  Spent(i)'
  BY <1>2, <1>9 DEF RequeueOrphaned, workVars
<1>10. ASSUME NEW w \in Worker, WorkerStep(w)
       PROVE  Spent(i)'
  BY <1>2, <1>5, <1>6, <1>7, <1>10 DEF WorkerStep, Check, ProviderCall
<1>11. ASSUME Fault
       PROVE  Spent(i)'
  BY <1>2, <1>11 DEF Fault, DatabaseError, WorkerCrash, VisibilityTimeout, BrokerLoss, workVars
<1> QED
  BY <1>2, <1>3, <1>4, <1>8, <1>9, <1>10, <1>11 DEF Next, Deliver, workVars

\* A step that makes no billable call and starts none keeps the invariant.
LEMMA NoNewCall ==
    ASSUME GatewayInv, BillingInv, Next, UNCHANGED calls,
           \A w \in Worker : worker'[w].pc = "call" =>
              \/ worker'[w] = worker[w]
              \/ Msg(w)'.stage \notin {"image_generate", "video_submit"}
    PROVE  BillingInv'
<1>1. RowsKept
  BY GatewayStep
<1>2. ASSUME NEW j \in Job, NEW w \in Worker, Calling(w, j)'
      PROVE  Calling(w, j)
  <2>1. worker'[w] = worker[w] /\ worker[w].pc = "call"
    BY <1>2 DEF Calling
  <2>2. worker[w].msg \in Created
    BY <2>1 DEF GatewayInv, WorkInv, MessagesCreated
  <2> QED
    BY <1>1, <1>2, <2>1, <2>2 DEF Calling, Msg, RowsKept
<1>3. ASSUME NEW j \in Job
      PROVE  ChargedOnce(j)'
  <2>1. ChargedOnce(j)
    BY DEF BillingInv
  <2>2. Spent(j) => Spent(j)'
    BY SpentStays
  <2> QED
    BY <1>2, <2>1, <2>2 DEF ChargedOnce
<1> QED
  BY <1>3 DEF BillingInv

\* A claim starts a billable call only for a job that is not spent yet.
LEMMA ClaimIsFirst ==
    ASSUME GatewayInv, BillingInv, Next, NEW w \in Worker, Claim(w)
    PROVE  BillingInv'
<1> DEFINE m == Msg(w)
           snap == worker[w].snap
           verdict == ClaimVerdict(m, snap, attempt[m.job], job[m.job])
<1>1. /\ OutboxInv /\ WorkInv /\ worker \in [Worker -> WorkerStates]
      /\ worker[w].pc = "claim" /\ worker[w].msg \in Created
      /\ UNCHANGED <<calls, dispatch>>
  BY DEF GatewayInv, WorkInv, WorkTypeOK, MessagesCreated, Claim, outboxVars
<1>2. /\ m.job \in Job /\ m.stage \in Stages /\ m.attempt \in AttemptNumbers
      /\ m.stage \in {"image_generate", "video_submit"} => m.attempt = 1
  BY <1>1, MessageRow
<1>3. PICK k \in Job : k = m.job
  BY <1>2
<1>4. ASSUME NEW version
      PROVE  /\ AfterClaim(w, version).msg = worker[w].msg
             /\ m.stage = "video_submit" /\ snap.task => AfterClaim(w, version).pc = "persist"
  BY <1>1 DEF AfterClaim, WorkerStates
<1>5. CASE verdict = "claimed" /\ m.stage \in {"image_generate", "video_submit"}
  <2>1. /\ worker' = [worker EXCEPT ![w] = AfterClaim(w, job[m.job].version + 1)]
        /\ attempt' = [attempt EXCEPT ![k] = WithAttempt(attempt[k], 1, m.stage)]
        /\ m.attempt = 1
    BY <1>2, <1>3, <1>5 DEF Claim
  <2>2. ~Spent(k)
    <3>1. attempt[k][1].status = "none" /\ job[k].status # "deleted"
      <4>1. attempt[m.job][m.attempt].status = "none" /\ job[m.job].status # "deleted"
        BY <1>5, VerdictMeans
      <4> QED
        BY <1>3, <2>1, <4>1
    <3> QED
      BY <3>1 DEF Spent
  <2>3. Spent(k)'
    <3>1. attempt[k] \in [AttemptNumbers -> AttemptRows]
      BY <1>1 DEF WorkInv, WorkTypeOK
    <3>2. WithAttempt(attempt[k], 1, m.stage)[1].status = "running"
      BY <1>2, <3>1, AttemptWritten, FirstAttempt
    <3>3. attempt'[k] = WithAttempt(attempt[k], 1, m.stage)
      BY <1>1, <2>1 DEF WorkInv, WorkTypeOK
    <3> QED
      BY <3>2, <3>3 DEF Spent
  <2>4. calls[k] = 0 /\ \A v \in Worker : ~Calling(v, k)
    <3>1. ChargedOnce(k) /\ calls[k] \in Nat
      BY <1>1 DEF BillingInv, WorkInv, WorkTypeOK
    <3> QED
      BY <2>2, <3>1 DEF ChargedOnce
  <2>5. ASSUME NEW v \in Worker, NEW j \in Job, Calling(v, j)'
        PROVE  Calling(v, j) \/ (v = w /\ j = k)
    <3>1. CASE v = w
      <4>1. worker'[w].msg = worker[w].msg
        BY <1>1, <1>4, <2>1
      <4> QED
        BY <1>1, <1>3, <2>5, <3>1, <4>1 DEF Calling, Msg
    <3>2. CASE v # w
      BY <1>1, <2>1, <2>5, <3>2 DEF Calling, Msg
    <3> QED
      BY <3>1, <3>2
  <2>6. ASSUME NEW j \in Job
        PROVE  ChargedOnce(j)'
    <3>1. ChargedOnce(j) /\ (Spent(j) => Spent(j)')
      BY SpentStays DEF BillingInv
    <3>2. CASE j = k
      BY <1>1, <2>3, <2>4, <2>5, <3>2 DEF ChargedOnce
    <3>3. CASE j # k
      BY <1>1, <2>5, <3>1, <3>3 DEF ChargedOnce
    <3> QED
      BY <3>2, <3>3
  <2> QED
    BY <2>6 DEF BillingInv
<1>6. CASE ~(verdict = "claimed" /\ m.stage \in {"image_generate", "video_submit"})
  <2> SUFFICES ASSUME NEW v \in Worker, worker'[v].pc = "call", worker'[v] # worker[v]
               PROVE  Msg(v)'.stage \notin {"image_generate", "video_submit"}
    BY <1>1, NoNewCall
  <2>1. CASE verdict = "claimed"
    <3>1. worker' = [worker EXCEPT ![w] = AfterClaim(w, job[m.job].version + 1)]
      BY <2>1 DEF Claim
    <3> QED
      BY <1>1, <1>4, <1>6, <2>1, <3>1 DEF Msg
  <2>2. CASE verdict = "resumed"
    <3>1. worker' = [worker EXCEPT ![w] = AfterClaim(w, snap.version)]
      BY <2>2 DEF Claim
    <3>2. m.stage \in {"video_poll", "asset_import"} \/ (m.stage = "video_submit" /\ snap.task)
      <4>1. Resumable(m.stage, snap)
        BY <2>2, VerdictMeans
      <4> QED
        BY <4>1 DEF Resumable
    <3> QED
      BY <1>1, <1>4, <3>1, <3>2 DEF Msg
  <2>3. CASE verdict \notin {"claimed", "resumed"}
    <3>1. worker' = [worker EXCEPT ![w] = IdleWorker]
      BY <2>3, EndedIsIdle DEF Claim
    <3> QED
      BY <1>1, <3>1 DEF IdleWorker
  <2> QED
    BY <2>1, <2>2, <2>3
<1> QED
  BY <1>5, <1>6

\* The billable call itself is the job's only one.
LEMMA CallIsOnly ==
    ASSUME GatewayInv, BillingInv, Next, NEW w \in Worker, ProviderCall(w)
    PROVE  BillingInv'
<1> DEFINE m == Msg(w)
<1>1. /\ OutboxInv /\ WorkInv /\ worker \in [Worker -> WorkerStates]
      /\ worker[w].pc = "call" /\ worker[w].msg \in Created
      /\ UNCHANGED <<job, attempt, dispatch>> /\ calls \in [Job -> Nat]
  BY DEF GatewayInv, WorkInv, WorkTypeOK, MessagesCreated, ProviderCall, outboxVars
<1>2. m.job \in Job
  BY <1>1, MessageRow
<1>3. PICK res \in CallResults(m.stage, m.attempt) :
        /\ worker' = [worker EXCEPT ![w].pc = "persist", ![w].res = res]
        /\ calls' = IF Billable(m.stage, res) THEN [calls EXCEPT ![m.job] = @ + 1] ELSE calls
  BY DEF ProviderCall
<1>4. worker'[w].pc = "persist" /\ \A v \in Worker \ {w} : worker'[v] = worker[v]
  BY <1>1, <1>3 DEF WorkerStates
<1>5. CASE ~Billable(m.stage, res)
  <2>1. UNCHANGED calls
    BY <1>3, <1>5
  <2> QED
    BY <1>4, <2>1, NoNewCall
<1>6. CASE Billable(m.stage, res)
  <2>1. Calling(w, m.job)
    BY <1>1, <1>6 DEF Calling, Billable
  <2>2. /\ calls[m.job] = 0 /\ Spent(m.job)
        /\ \A v \in Worker : Calling(v, m.job) => v = w
    BY <1>2, <2>1 DEF BillingInv, ChargedOnce
  <2>3. ASSUME NEW v \in Worker, NEW j \in Job, Calling(v, j)'
        PROVE  Calling(v, j) /\ v # w
    BY <1>1, <1>4, <2>3 DEF Calling, Msg
  <2>4. calls'[m.job] = 1 /\ \A j \in Job \ {m.job} : calls'[j] = calls[j]
    BY <1>1, <1>2, <1>3, <1>6, <2>2
  <2>5. \A j \in Job : Spent(j)' = Spent(j)
    BY <1>1 DEF Spent
  <2>6. ASSUME NEW j \in Job
        PROVE  ChargedOnce(j)'
    <3>1. ChargedOnce(j)
      BY DEF BillingInv
    <3>2. CASE j = m.job
      BY <2>2, <2>3, <2>4, <2>5, <3>2 DEF ChargedOnce
    <3>3. CASE j # m.job
      BY <2>3, <2>4, <2>5, <3>1, <3>3 DEF ChargedOnce
    <3> QED
      BY <3>2, <3>3
  <2> QED
    BY <2>6 DEF BillingInv
<1> QED
  BY <1>5, <1>6

\* Every step keeps the billing invariant.
LEMMA BillingStep ==
    ASSUME GatewayInv, BillingInv, Next
    PROVE  BillingInv'
<1>1. OutboxInv /\ WorkInv /\ worker \in [Worker -> WorkerStates]
  BY DEF GatewayInv, WorkInv, WorkTypeOK
<1>2. CASE UNCHANGED <<worker, calls>>
  BY <1>2, NoNewCall
<1>3. ASSUME NEW w \in Worker, NEW s, s.pc # "call", UNCHANGED calls,
             worker' = [worker EXCEPT ![w] = s]
      PROVE  BillingInv'
  BY <1>1, <1>3, NoNewCall
<1>4. ASSUME NEW w \in Worker, WorkerStep(w)
      PROVE  BillingInv'
  <2>1. CASE Check(w)
    <3>1. PICK s : s.pc # "call" /\ worker' = [worker EXCEPT ![w] = s]
      <4>1. [worker[w] EXCEPT !.pc = "claim"].pc # "call" /\ IdleWorker.pc # "call"
        BY <1>1 DEF WorkerStates, IdleWorker
      <4> QED
        BY <2>1, <4>1, EndedIsIdle DEF Check
    <3> QED
      BY <1>3, <2>1, <3>1 DEF Check
  <2>2. CASE Claim(w)
    BY <2>2, ClaimIsFirst
  <2>3. CASE ProviderCall(w)
    BY <2>3, CallIsOnly
  <2>4. CASE Persist(w)
    <3>1. worker' = [worker EXCEPT ![w] = IdleWorker] /\ UNCHANGED calls
      BY <2>4, EndedIsIdle DEF Persist
    <3> QED
      BY <1>3, <3>1 DEF IdleWorker
  <2>5. CASE RecordSubmittedRecovery(w)
    <3>1. worker' = [worker EXCEPT ![w] = IdleWorker] /\ UNCHANGED calls
      BY <2>5, EndedIsIdle DEF RecordSubmittedRecovery
    <3> QED
      BY <1>3, <3>1 DEF IdleWorker
  <2> QED
    BY <1>4, <2>1, <2>2, <2>3, <2>4, <2>5 DEF WorkerStep
<1>5. ASSUME NEW w \in Worker, Deliver(w)
      PROVE  BillingInv'
  <2>1. PICK d \in queue : worker' = [worker EXCEPT ![w] = StartedOn(d)]
    BY <1>5 DEF Deliver
  <2>2. StartedOn(d).pc # "call"
    BY <1>1, StartedFits DEF OutboxInv, ReferencesCreated
  <2> QED
    BY <1>3, <1>5, <2>1, <2>2 DEF Deliver
<1>6. ASSUME NEW w \in Worker, DatabaseError(w)
      PROVE  BillingInv'
  <2>1. /\ worker[w].pc # "call" => [worker[w] EXCEPT !.res = "error"].pc # "call"
        /\ [worker[w] EXCEPT !.pc = "recover"].pc # "call"
        /\ IdleWorker.pc # "call"
    BY <1>1 DEF WorkerStates, IdleWorker
  <2>2. PICK s : s.pc # "call" /\ worker' = [worker EXCEPT ![w] = s]
    BY <1>6, <2>1, EndedIsIdle DEF DatabaseError
  <2> QED
    BY <1>3, <1>6, <2>2 DEF DatabaseError
<1>7. ASSUME NEW w \in Worker, WorkerCrash(w)
      PROVE  BillingInv'
  BY <1>3, <1>7 DEF WorkerCrash, IdleWorker
<1>8. CASE Fault
  BY <1>2, <1>6, <1>7, <1>8 DEF Fault, VisibilityTimeout, BrokerLoss, workVars
<1> QED
  BY <1>2, <1>4, <1>5, <1>8
     DEF Next, Admit, RequeueOrphaned, CleanupJob, workVars, ApiStep, ApiPoll, ApiMark,
         ApiMarkStale, ApiSaveAsset

\* No job is ever charged twice, whatever is redelivered, requeued, crashed,
\* polled or deleted, for any number of workers and dispatchers.
THEOREM NoDoubleCharge == Spec => []AtMostOneBillableCall
<1>1. Init => BillingInv
  BY DEF Init, WorkInit, BillingInv, ChargedOnce, Calling, IdleWorker
<1>2. GatewayInv /\ BillingInv /\ [Next]_vars => BillingInv'
  <2>1. ASSUME GatewayInv, BillingInv, UNCHANGED vars
        PROVE  BillingInv'
    BY <2>1 DEF vars, BillingInv, ChargedOnce, Calling, Spent, Msg
  <2> QED
    BY <2>1, BillingStep
<1>3. BillingInv => AtMostOneBillableCall
  BY DEF BillingInv, ChargedOnce, AtMostOneBillableCall
<1> QED
  BY <1>1, <1>2, <1>3, GatewayInvariant, PTL DEF Spec

-----------------------------------------------------------------------------
(***************************************************************************)
(* The gateway implements JobContract                                      *)
(*                                                                         *)
(* BillingInv says how often a job is charged.  The contract also says     *)
(* when: only a running job is charged, and it succeeds only afterwards.   *)
(***************************************************************************)
\* The worker holds the billable attempt of the job.
Submits(w, j) ==
    /\ Holds(w)
    /\ Msg(w).job = j
    /\ Msg(w).stage \in {"image_generate", "video_submit"}

\* While the job has no task on record, one worker at most holds its billable
\* attempt, and a worker about to make the call holds the current version.
SubmitInv(j) ==
    /\ \A w \in Worker : Submits(w, j) => Spent(j)
    /\ ~job[j].task => \A w, v \in Worker : Submits(w, j) /\ Submits(v, j) => w = v
    /\ \A w \in Worker : Calling(w, j) =>
         job[j].status = "running" /\ worker[w].ver = job[j].version

\* A worker with an accepted result works for a job that was charged.
PaidResult(w) ==
    \/ worker[w].pc = "recover"
    \/ /\ worker[w].pc = "persist"
       /\ Msg(w).stage \in {"image_generate", "video_submit"}
       /\ worker[w].res \in {"ok", "known"}

PaidInv == \A w \in Worker : PaidResult(w) => calls[Msg(w).job] = 1

\* A job with a task on record, or past its submit, was charged.
TaskInv(j) ==
    /\ job[j].status # "canceled"
    /\ job[j].stage \in {"video_poll", "asset_import"} => job[j].task
    /\ job[j].task => calls[j] = 1

ContractInv ==
    /\ \A j \in Job : SubmitInv(j)
    /\ PaidInv
    /\ \A j \in Job : TaskInv(j)

\* The three inductive invariants the contract rests on.
ChargeInv == GatewayInv /\ PipelineInv /\ BillingInv /\ ContractInv

-----------------------------------------------------------------------------
\* Only provider calls charge.
LEMMA ChargeStep ==
    ASSUME Next
    PROVE  UNCHANGED calls \/ \E w \in Worker : ProviderCall(w)
<1>1. ASSUME NEW w \in Worker, WorkerStep(w)
      PROVE  UNCHANGED calls \/ ProviderCall(w)
  BY <1>1 DEF WorkerStep, Check, Claim, Persist, RecordSubmittedRecovery
<1>2. ASSUME Fault
      PROVE  UNCHANGED calls
  BY <1>2 DEF Fault, DatabaseError, WorkerCrash, VisibilityTimeout, BrokerLoss, workVars
<1>3. ASSUME NEW j \in Job, ApiStep(j)
      PROVE  UNCHANGED calls
  BY <1>3 DEF ApiStep, ApiPoll, ApiMark, ApiMarkStale, ApiSaveAsset, workVars
<1> QED
  BY <1>1, <1>2, <1>3 DEF Next, Admit, RequeueOrphaned, CleanupJob, Deliver, workVars

\* A charge is never taken back.
LEMMA ChargesStay ==
    ASSUME ChargeInv, Next, NEW j \in Job, calls[j] = 1
    PROVE  calls'[j] = 1
<1>1. calls \in [Job -> Nat] /\ calls'[j] <= 1 /\ calls'[j] \in Nat
  <2>1. GatewayInv' /\ BillingInv'
    BY GatewayStep, BillingStep DEF ChargeInv
  <2> QED
    BY <2>1, Tables DEF ChargeInv, BillingInv, ChargedOnce, GatewayInv, WorkInv, WorkTypeOK
<1>2. calls'[j] >= calls[j]
  <2>1. ASSUME NEW w \in Worker, ProviderCall(w)
        PROVE  calls'[j] >= calls[j]
    BY <1>1, <2>1 DEF ProviderCall
  <2> QED
    BY <1>1, <2>1, ChargeStep
<1> QED
  BY <1>1, <1>2

\* Every accepted result was paid for.
LEMMA PaidKept ==
    ASSUME ChargeInv, Next, NEW w \in Worker, PaidResult(w)'
    PROVE  calls'[Msg(w)'.job] = 1
<1>1. /\ GatewayInv /\ PipelineInv /\ BillingInv /\ ContractInv
      /\ worker \in [Worker -> WorkerStates] /\ worker[w] \in WorkerStates
      /\ calls \in [Job -> Nat] /\ OutboxInv /\ WorkInv
  BY Tables DEF ChargeInv
<1>2. ASSUME worker[w].pc # "idle", worker'[w].msg = worker[w].msg
      PROVE  /\ Msg(w).job \in Job /\ Msg(w)'.job = Msg(w).job
             /\ Msg(w)'.stage = Msg(w).stage
  BY <1>1, <1>2, MessageKept
<1>3. ASSUME worker'[w].msg = worker[w].msg, PaidResult(w)
      PROVE  calls'[Msg(w)'.job] = 1
  <2>1. worker[w].pc # "idle"
    BY <1>3 DEF PaidResult
  <2> QED
    BY <1>1, <1>2, <1>3, <2>1, ChargesStay DEF ContractInv, PaidInv
<1>4. CASE worker'[w] = worker[w]
  <2>1. worker[w].pc # "idle"
    BY <1>4 DEF PaidResult
  <2>2. PaidResult(w)
    BY <1>2, <1>4, <2>1 DEF PaidResult
  <2> QED
    BY <1>3, <1>4, <2>2
<1>5. CASE worker'[w].pc \in {"idle", "check", "claim", "call"}
  BY <1>5 DEF PaidResult
<1>6. ASSUME worker[w].pc = "claim", NEW version, worker'[w] = AfterClaim(w, version)
      PROVE  calls'[Msg(w)'.job] = 1
  <2>1. \/ worker'[w].pc = "call"
        \/ worker[w].snap.task /\ worker'[w].msg = worker[w].msg
    BY <1>1, <1>6 DEF AfterClaim, WorkerStates
  <2>2. worker'[w].pc # "call"
    BY DEF PaidResult
  <2>3. Msg(w).job \in Job /\ Msg(w)'.job = Msg(w).job
    BY <1>2, <1>6, <2>1, <2>2
  <2>4. job[Msg(w).job].task
    BY <1>1, <1>6, <2>1, <2>2 DEF PipelineInv, SnapshotInv
  <2> QED
    BY <1>1, <2>3, <2>4, ChargesStay DEF ContractInv, TaskInv
<1>7. CASE Continues(w) /\ ProviderCall(w)
  <2>1. Msg(w).job \in Job /\ Msg(w)'.job = Msg(w).job /\ Msg(w)'.stage = Msg(w).stage
    BY <1>2, <1>7 DEF Continues, Holds
  <2>2. PICK res \in CallResults(Msg(w).stage, Msg(w).attempt) :
          /\ worker' = [worker EXCEPT ![w].pc = "persist", ![w].res = res]
          /\ calls' = IF Billable(Msg(w).stage, res)
                      THEN [calls EXCEPT ![Msg(w).job] = @ + 1] ELSE calls
    BY <1>7 DEF ProviderCall
  <2>3. worker'[w].pc = "persist" /\ worker'[w].res = res
    BY <1>1, <2>2 DEF WorkerStates
  <2>4. Billable(Msg(w).stage, res)
    BY <2>1, <2>3 DEF PaidResult, Billable
  <2>5. calls'[Msg(w).job] = calls[Msg(w).job] + 1
    BY <1>1, <2>1, <2>2, <2>4
  <2>6. calls'[Msg(w).job] <= 1 /\ calls[Msg(w).job] \in Nat
    BY <1>1, <2>1, BillingStep DEF BillingInv, ChargedOnce
  <2> QED
    BY <2>1, <2>5, <2>6
<1>8. CASE Continues(w) /\ DatabaseError(w)
  <2>1. /\ worker[w].pc \in {"check", "claim", "persist", "recover"} /\ Holds(w)
        /\ worker'[w].msg = worker[w].msg /\ worker'[w].pc # "idle"
    BY <1>8 DEF Continues, DatabaseError
  <2>2. worker'[w] = (CASE worker[w].pc = "persist" /\ Msg(w).stage = "image_generate"
                               /\ worker[w].res = "ok"
                          -> [worker[w] EXCEPT !.res = "error"]
                        [] worker[w].pc = "persist" /\ Msg(w).stage = "asset_import"
                               /\ worker[w].res = "failed"
                          -> [worker[w] EXCEPT !.res = "error"]
                        [] worker[w].pc = "persist" /\ Msg(w).stage = "video_submit"
                               /\ worker[w].res = "ok"
                          -> [worker[w] EXCEPT !.pc = "recover"]
                        [] OTHER -> IdleWorker)
    BY <1>1, <1>8, EndedIsIdle DEF DatabaseError
  <2>3. IdleWorker.pc = "idle"
    BY DEF IdleWorker
  <2>4. CASE worker[w].pc = "persist" /\ Msg(w).stage = "video_submit" /\ worker[w].res = "ok"
    BY <1>3, <2>1, <2>4 DEF PaidResult
  <2>5. CASE ~(worker[w].pc = "persist" /\ Msg(w).stage = "video_submit" /\ worker[w].res = "ok")
    <3>1. worker'[w] = [worker[w] EXCEPT !.res = "error"] /\ worker[w].pc = "persist"
      BY <2>1, <2>2, <2>3, <2>5
    <3>2. worker'[w].res = "error" /\ worker'[w].pc = "persist"
      BY <1>1, <3>1 DEF WorkerStates
    <3> QED
      BY <3>2 DEF PaidResult
  <2> QED
    BY <2>4, <2>5
<1>9. ASSUME NEW d, worker'[w] = [IdleWorker EXCEPT !.pc = "check", !.msg = d,
                                                    !.snap = job[dispatch[d].job]]
      PROVE  worker'[w].pc = "check"
  BY <1>9 DEF IdleWorker
<1>10. ASSUME worker'[w] = [worker[w] EXCEPT !.pc = "claim"]
       PROVE  worker'[w].pc = "claim"
  BY <1>1, <1>10 DEF WorkerStates
<1>11. ASSUME Takes(w, Msg(w).job)
       PROVE  worker[w].pc = "claim"
  BY <1>11 DEF Takes, Claim
<1> QED
  BY <1>1, <1>4, <1>5, <1>6, <1>7, <1>8, <1>9, <1>10, <1>11, WorkerMove

\* A persisting transaction that schedules a stage, or that succeeds, acts for
\* a job that was charged.
LEMMA SettledWasCharged ==
    ASSUME ChargeInv, NEW w \in Worker, NEW j \in Job, Settles(w, j),
           OutcomeOf(w).status \in {"running", "succeeded"}
    PROVE  calls[j] = 1
<1>1. /\ GatewayInv /\ PipelineInv /\ ContractInv /\ worker[w].pc = "persist"
      /\ Exists(job[j]) /\ job[j].version = worker[w].ver /\ Msg(w).job = j
  BY SettlesRows DEF ChargeInv, Settles
<1>2. Msg(w).stage = job[j].stage
  BY <1>1, CurrentAttempt DEF Holds
<1>3. CASE Msg(w).stage \in {"video_poll", "asset_import"}
  BY <1>1, <1>2, <1>3 DEF ContractInv, TaskInv
<1>4. CASE Msg(w).stage \in {"image_generate", "video_submit"}
  <2>1. worker[w].res \in {"ok", "known"}
    BY <1>4 DEF OutcomeOf, Outcome, Failed
  <2> QED
    BY <1>1, <1>4, <2>1 DEF ContractInv, PaidInv, PaidResult
<1> QED
  BY <1>1, <1>3, <1>4, Tables, MessageRow

\* Every step keeps the task records paid for.
LEMMA TaskKept ==
    ASSUME ChargeInv, Next, NEW j \in Job
    PROVE  TaskInv(j)'
<1>1. /\ GatewayInv /\ PipelineInv /\ ContractInv /\ TaskInv(j)
      /\ job \in [Job -> JobRows] /\ job[j] \in JobRows
      /\ calls[j] = 1 => calls'[j] = 1
  BY Tables, ChargesStay DEF ChargeInv, ContractInv
<1>2. CASE job'[j] = job[j]
  BY <1>1, <1>2 DEF TaskInv
<1>3. CASE Admit(j, SameRequest(j))
  <2>1. job'[j] = InsertedJob(KindOf[j])
    BY <1>1, <1>3 DEF Admit
  <2> QED
    BY <2>1 DEF InsertedJob, AdmissionStage, TaskInv
<1>4. CASE CleanupJob(j)
  <2>1. job'[j] = [job[j] EXCEPT !.status = "deleted"]
    BY <1>1, <1>4 DEF CleanupJob
  <2> QED
    BY <1>1, <2>1 DEF TaskInv, JobRows
<1>5. ASSUME NEW w \in Worker, Takes(w, j)
      PROVE  TaskInv(j)'
  <2>1. job'[j] = Claimed(job[j])
    BY <1>1, <1>5, TakesRows
  <2> QED
    BY <1>1, <2>1 DEF Claimed, TaskInv
<1>6. ASSUME NEW w \in Worker, Settles(w, j)
      PROVE  TaskInv(j)'
  <2> DEFINE out == OutcomeOf(w)
  <2>1. /\ job'[j] = Transitioned(job[j], out.status, out.stage, out.status = "running")
        /\ out.status \in {"running", "succeeded", "failed"}
    BY <1>1, <1>6, SettlesRows
  <2>2. out.stage \in {"video_poll", "asset_import"} => out.status = "running"
    BY DEF OutcomeOf, Outcome, Succeeded, Failed, Scheduled, Retried
  <2>3. out.status = "running" => calls[j] = 1
    BY <1>6, SettledWasCharged
  <2> HIDE DEF out
  <2>4. /\ job'[j].status = out.status /\ job'[j].stage = out.stage
        /\ job'[j].task = (job[j].task \/ out.status = "running")
    BY <2>1 DEF Transitioned
  <2> QED
    BY <1>1, <2>1, <2>2, <2>3, <2>4 DEF TaskInv
<1>7. ASSUME NEW w \in Worker, Recovers(w, j)
      PROVE  TaskInv(j)'
  <2>1. /\ job'[j] = Transitioned(job[j], "running", "video_submit", TRUE)
        /\ worker[w].pc = "recover" /\ Msg(w).job = j
    BY <1>1, <1>7, RecoversRows DEF Recovers
  <2>2. calls[j] = 1
    BY <1>1, <2>1 DEF ContractInv, PaidInv, PaidResult
  <2> QED
    BY <1>1, <2>1, <2>2 DEF Transitioned, TaskInv
<1>8. CASE Marks(j)
  <2>1. /\ job'[j] = Transitioned(job[j], ApiStatus(api[j].pc), "finalize", FALSE)
        /\ ApiStatus(api[j].pc) \in {"succeeded", "failed"}
    BY <1>1, <1>8, MarksRows
  <2>2. /\ job'[j].status \in {"succeeded", "failed"} /\ job'[j].stage = "finalize"
        /\ job'[j].task <=> job[j].task
    BY <1>1, <2>1 DEF Transitioned, JobRows
  <2> QED
    BY <1>1, <2>2 DEF TaskInv
<1> QED
  BY <1>1, <1>2, <1>3, <1>4, <1>5, <1>6, <1>7, <1>8, JobStep

\* A worker that newly holds a billable attempt took it, or resumed one whose
\* task is on record.
LEMMA NewSubmit ==
    ASSUME ChargeInv, Next, NEW w \in Worker, NEW j \in Job, Submits(w, j)'
    PROVE  \/ /\ Submits(w, j)
              /\ worker'[w].pc = "call" => worker'[w] = worker[w]
           \/ Takes(w, j) /\ worker'[w].ver = job[j].version + 1
           \/ /\ job[j].task /\ attempt[j][1].status # "none"
              /\ worker'[w].pc # "call" /\ UNCHANGED attempt
<1>1. /\ GatewayInv /\ PipelineInv /\ OutboxInv /\ WorkInv
      /\ worker \in [Worker -> WorkerStates] /\ worker[w] \in WorkerStates
  BY Tables DEF ChargeInv
<1>2. ASSUME worker[w].pc # "idle", worker'[w].msg = worker[w].msg
      PROVE  Msg(w).job = j /\ Msg(w).stage \in {"image_generate", "video_submit"}
  BY <1>1, <1>2, MessageKept DEF Submits
<1>3. CASE worker'[w] = worker[w]
  <2>1. Holds(w) /\ worker[w].pc # "idle"
    BY <1>3 DEF Submits, Holds
  <2> QED
    BY <1>2, <1>3, <2>1 DEF Submits
<1>4. CASE Continues(w)
  BY <1>2, <1>4 DEF Continues, Submits, Holds
<1>5. CASE worker'[w].pc \in {"idle", "check", "claim"}
  BY <1>5 DEF Submits, Holds
<1>6. ASSUME worker[w].pc = "claim", NEW version
      PROVE  /\ AfterClaim(w, version).msg = worker[w].msg
             /\ AfterClaim(w, version).ver = version
             /\ Msg(w).stage = "video_submit" /\ worker[w].snap.task =>
                  AfterClaim(w, version).pc # "call"
  BY <1>1, <1>6 DEF AfterClaim, WorkerStates
<1>7. CASE Takes(w, Msg(w).job) /\ worker'[w] = AfterClaim(w, job[Msg(w).job].version + 1)
  <2>1. worker[w].pc = "claim"
    BY <1>7 DEF Takes, Claim
  <2> QED
    BY <1>2, <1>6, <1>7, <2>1
<1>8. CASE /\ worker[w].pc = "claim" /\ UNCHANGED <<job, attempt, dispatch>>
           /\ worker'[w] = AfterClaim(w, worker[w].snap.version)
           /\ ClaimVerdict(Msg(w), worker[w].snap, attempt[Msg(w).job], job[Msg(w).job])
                = "resumed"
  <2>1. Msg(w).job = j /\ Msg(w).stage \in {"image_generate", "video_submit"}
    BY <1>2, <1>6, <1>8
  <2>2. Msg(w).attempt = 1
    BY <1>1, <1>8, <2>1, MessageRow
  <2>3. Resumable(Msg(w).stage, worker[w].snap) /\ attempt[j][1].status = "running"
    BY <1>8, <2>1, <2>2 DEF ClaimVerdict, Repeated
  <2>4. Msg(w).stage = "video_submit" /\ worker[w].snap.task
    BY <2>1, <2>3 DEF Resumable
  <2>5. job[j].task
    BY <1>1, <1>8, <2>1, <2>4 DEF PipelineInv, SnapshotInv
  <2> QED
    BY <1>6, <1>8, <2>3, <2>4, <2>5
<1>9. ASSUME NEW d, worker'[w] = [IdleWorker EXCEPT !.pc = "check", !.msg = d,
                                                    !.snap = job[dispatch[d].job]]
      PROVE  worker'[w].pc = "check"
  BY <1>9 DEF IdleWorker
<1>10. ASSUME worker'[w] = [worker[w] EXCEPT !.pc = "claim"]
       PROVE  worker'[w].pc = "claim"
  BY <1>1, <1>10 DEF WorkerStates
<1> QED
  BY <1>1, <1>3, <1>4, <1>5, <1>7, <1>8, <1>9, <1>10, WorkerMove

\* Taking a billable attempt spends the job, which nobody held before.
LEMMA TakesSpends ==
    ASSUME ChargeInv, Next, NEW w \in Worker, NEW j \in Job, Takes(w, j), Submits(w, j)'
    PROVE  /\ ~Spent(j) /\ Spent(j)'
           /\ \A v \in Worker \ {w} : worker'[v] = worker[v] /\ ~Submits(v, j)
           /\ job'[j].status = "running" /\ job'[j].version = job[j].version + 1
<1>1. /\ GatewayInv /\ PipelineInv /\ OutboxInv /\ WorkInv /\ ContractInv
      /\ worker \in [Worker -> WorkerStates] /\ job \in [Job -> JobRows]
      /\ attempt \in [Job -> [AttemptNumbers -> AttemptRows]]
  BY Tables DEF ChargeInv
<1>2. /\ worker[w].pc = "claim" /\ Msg(w).job = j /\ Active(job[j])
      /\ attempt[j][Msg(w).attempt].status = "none"
      /\ job' = [job EXCEPT ![j] = Claimed(job[j])]
      /\ attempt' = [attempt EXCEPT ![j] = WithAttempt(attempt[j], Msg(w).attempt, Msg(w).stage)]
      /\ worker' = [worker EXCEPT ![w] = AfterClaim(w, job[j].version + 1)]
  BY <1>1, TakesRows DEF Takes
<1>3. AfterClaim(w, job[j].version + 1).msg = worker[w].msg
  BY <1>1, <1>2 DEF AfterClaim, WorkerStates
<1>4. Msg(w).stage \in {"image_generate", "video_submit"} /\ Msg(w).stage \in Stages
  <2>1. worker'[w].msg = worker[w].msg
    BY <1>1, <1>2, <1>3
  <2> QED
    BY <1>1, <1>2, <2>1, MessageKept, MessageRow DEF Submits
<1>5. Msg(w).attempt = 1
  BY <1>1, <1>2, <1>4, MessageRow
<1>6. ~Spent(j)
  BY <1>2, <1>5, ActiveRow DEF Spent
<1>7. Spent(j)'
  BY <1>1, <1>2, <1>4, <1>5, AttemptWritten, FirstAttempt DEF Spent
<1>8. job'[j].status = "running" /\ job'[j].version = job[j].version + 1
  BY <1>1, <1>2 DEF Claimed
<1> QED
  BY <1>1, <1>2, <1>6, <1>7, <1>8 DEF ContractInv, SubmitInv

\* While a worker is about to make the billable call, nothing moves the row
\* of its job.
LEMMA CallingUndisturbed ==
    ASSUME ChargeInv, Next, NEW w \in Worker, NEW j \in Job, Calling(w, j),
           worker'[w] = worker[w]
    PROVE  job'[j] = job[j]
<1>1. /\ GatewayInv /\ PipelineInv /\ BillingInv /\ ContractInv /\ OutboxInv /\ WorkInv
      /\ calls[j] \in Nat /\ job[j] \in JobRows /\ SubmitInv(j) /\ TaskInv(j) /\ JobInv(j)
      /\ worker \in [Worker -> WorkerStates]
  BY Tables DEF ChargeInv, ContractInv, PipelineInv
<1>2. /\ worker[w].pc = "call" /\ Msg(w).job = j /\ Submits(w, j) /\ Holds(w)
      /\ Msg(w).stage \in {"image_generate", "video_submit"}
  BY DEF Calling, Submits, Holds
<1>3. /\ job[j].status = "running" /\ worker[w].ver = job[j].version
      /\ ~job[j].task
  <2>1. calls[j] = 0
    BY <1>1 DEF BillingInv, ChargedOnce
  <2> QED
    BY <1>1, <2>1 DEF SubmitInv, TaskInv
<1>4. PICK n \in 1..MaxAttempts : Progress(j, n)
  BY <1>1, <1>3 DEF JobInv, Active, ActiveStatuses
<1>5. /\ n = 1 /\ attempt[j][1].status = "running" /\ Msg(w).stage = job[j].stage
  <2>1. Exists(job[j])
    BY <1>3, ActiveRow
  <2>2. Msg(w).attempt = n /\ attempt[j][n].status = "running" /\ Msg(w).stage = job[j].stage
    BY <1>1, <1>2, <1>3, <1>4, <2>1, CurrentAttempt
  <2> QED
    BY <1>1, <1>2, <2>2, MessageRow
<1>6. ~Admit(j, SameRequest(j)) /\ ~CleanupJob(j)
  BY <1>3, ActiveRow DEF Admit, CleanupJob
<1>7. ~Marks(j)
  BY <1>1, <1>3, MarksRows DEF JobInv
<1>8. ASSUME NEW v \in Worker, Takes(v, j)
      PROVE  FALSE
  <2>1. /\ attempt[j][Msg(v).attempt].status = "none" /\ worker[v].pc = "claim"
        /\ Msg(v).job = j /\ Msg(v).attempt \in 1..MaxAttempts
    BY <1>1, <1>8, TakesRows DEF Takes
  <2>2. worker[v].msg \in Dispatch
    BY <1>1, <2>1, MessageRow DEF Created
  <2>3. Msg(v).attempt <= 1
    BY <1>4, <1>5, <2>1, <2>2 DEF Progress, Msg
  <2>4. Msg(v).attempt = 1
    BY <2>1, <2>3, MaxAttemptsAssumption
  <2> QED
    BY <1>5, <2>1, <2>4
<1>9. ASSUME NEW v \in Worker, Settles(v, j) \/ Recovers(v, j)
      PROVE  FALSE
  <2>1. /\ worker[v].pc \in {"persist", "recover"} /\ Holds(v) /\ Exists(job[j])
        /\ worker[v].ver = job[j].version /\ Msg(v).job = j
    BY <1>1, <1>9, SettlesRows, RecoversRows DEF Settles, Recovers, Holds
  <2>2. Msg(v).stage = job[j].stage
    BY <1>1, <1>4, <2>1, CurrentAttempt
  <2>3. Submits(v, j)
    BY <1>2, <1>5, <2>1, <2>2 DEF Submits
  <2>4. v = w
    BY <1>1, <1>2, <1>3, <2>3 DEF SubmitInv
  <2> QED
    BY <1>2, <2>1, <2>4
<1> QED
  BY <1>1, <1>6, <1>7, <1>8, <1>9, JobStep

\* Every step keeps the billable attempt in one pair of hands.
LEMMA SubmitKept ==
    ASSUME ChargeInv, Next, NEW j \in Job
    PROVE  SubmitInv(j)'
<1>1. GatewayInv /\ PipelineInv /\ ContractInv /\ SubmitInv(j)
  BY DEF ChargeInv, ContractInv
<1>2. ASSUME NEW w \in Worker, Submits(w, j)'
      PROVE  Spent(j)'
  <2>1. CASE Submits(w, j) \/ attempt[j][1].status # "none"
    BY <1>1, <2>1, SpentStays DEF SubmitInv, Spent
  <2> QED
    BY <1>2, <2>1, NewSubmit, TakesSpends
<1>3. ASSUME NEW w \in Worker, NEW v \in Worker, Submits(w, j)', Submits(v, j)',
             ~job'[j].task, w # v
      PROVE  FALSE
  <2>1. ~job[j].task
    <3>1. job[j].status = "absent" => ~job[j].task
      BY <1>1 DEF PipelineInv, JobInv
    <3> QED
      BY <1>1, <1>3, <3>1, RowMoves
  <2>2. ~Takes(w, j)
    <3> SUFFICES ASSUME Takes(w, j)
                 PROVE  FALSE
      OBVIOUS
    <3>1. worker'[v] = worker[v] /\ ~Submits(v, j) /\ ~Spent(j)
      BY <1>3, TakesSpends
    <3>2. ~Takes(v, j)
      <4>1. worker[v].pc # "claim"
        BY <1>3, <3>1 DEF Submits, Holds
      <4> QED
        BY <1>1, <4>1, TakesRows
    <3> QED
      BY <1>3, <2>1, <3>1, <3>2, NewSubmit
  <2>3. ~Takes(v, j)
    <3> SUFFICES ASSUME Takes(v, j)
                 PROVE  FALSE
      OBVIOUS
    <3>1. worker'[w] = worker[w] /\ ~Submits(w, j) /\ ~Spent(j)
      BY <1>3, TakesSpends
    <3> QED
      BY <1>3, <2>1, <2>2, <3>1, NewSubmit
  <2>4. Submits(w, j) /\ Submits(v, j)
    BY <1>3, <2>1, <2>2, <2>3, NewSubmit
  <2> QED
    BY <1>1, <1>3, <2>1, <2>4 DEF SubmitInv
<1>4. ASSUME NEW w \in Worker, Calling(w, j)'
      PROVE  job'[j].status = "running" /\ worker'[w].ver = job'[j].version
  <2>1. Submits(w, j)' /\ worker'[w].pc = "call"
    BY <1>4 DEF Calling, Submits, Holds
  <2>2. CASE Submits(w, j) /\ worker'[w] = worker[w]
    <3>1. Calling(w, j)
      BY <2>1, <2>2 DEF Submits, Calling
    <3>2. job'[j] = job[j]
      BY <2>2, <3>1, CallingUndisturbed
    <3> QED
      BY <1>1, <2>2, <3>1, <3>2 DEF SubmitInv
  <2>3. CASE Takes(w, j) /\ worker'[w].ver = job[j].version + 1
    BY <2>1, <2>3, TakesSpends
  <2> QED
    BY <2>1, <2>2, <2>3, NewSubmit
<1> QED
  BY <1>2, <1>3, <1>4 DEF SubmitInv

\* The contract's invariants are kept by every step.
LEMMA ContractStep ==
    ASSUME ChargeInv, Next
    PROVE  ChargeInv'
<1>1. GatewayInv' /\ PipelineInv' /\ BillingInv'
  BY GatewayStep, PipelineStep, BillingStep DEF ChargeInv
<1>2. PaidInv'
  BY PaidKept DEF PaidInv
<1>3. \A j \in Job : SubmitInv(j)' /\ TaskInv(j)'
  BY SubmitKept, TaskKept
<1> QED
  BY <1>1, <1>2, <1>3 DEF ChargeInv, ContractInv

\* The contract's invariants hold in every state.
LEMMA ChargeInvariant == Spec => []ChargeInv
<1>1. Init => ChargeInv
  <2> SUFFICES ASSUME Init
               PROVE  ChargeInv
    OBVIOUS
  <2>1. \A w \in Worker : worker[w].pc = "idle"
    BY DEF Init, WorkInit, IdleWorker
  <2>2. \A j \in Job : job[j] = AbsentJob /\ calls[j] = 0
    BY DEF Init, WorkInit
  <2>3. BillingInv
    BY <2>1, <2>2 DEF BillingInv, ChargedOnce, Calling
  <2>4. ContractInv
    BY <2>1, <2>2
       DEF ContractInv, SubmitInv, PaidInv, PaidResult, TaskInv, Submits, Holds, Calling, AbsentJob
  <2> QED
    BY <2>3, <2>4, GatewayInit, PipelineInit DEF ChargeInv
<1>2. ChargeInv /\ [Next]_vars => ChargeInv'
  <2>1. ASSUME ChargeInv, UNCHANGED vars
        PROVE  ChargeInv'
    <3>1. GatewayInv' /\ PipelineInv'
      BY <2>1, GatewayStutter, PipelineStutter DEF ChargeInv
    <3>2. BillingInv'
      BY <2>1 DEF ChargeInv, vars, BillingInv, ChargedOnce, Calling, Spent, Msg
    <3>3. \A j \in Job : SubmitInv(j)' /\ TaskInv(j)'
      BY <2>1 DEF ChargeInv, ContractInv, vars, SubmitInv, TaskInv, Submits, Holds, Calling,
                  Spent, Msg
    <3>4. PaidInv'
      BY <2>1 DEF ChargeInv, ContractInv, vars, PaidInv, PaidResult, Msg
    <3> QED
      BY <3>1, <3>2, <3>3, <3>4 DEF ChargeInv, ContractInv
  <2> QED
    BY <2>1, ContractStep
<1> QED
  BY <1>1, <1>2, PTL DEF Spec

-----------------------------------------------------------------------------
\* A change of one row is a change of one status in the contract.
LEMMA StatusMove ==
    ASSUME NEW j \in Job, NEW row, job \in [Job -> JobRows],
           job' = [job EXCEPT ![j] = row]
    PROVE  [i \in Job |-> job'[i].status] =
             [[i \in Job |-> job[i].status] EXCEPT ![j] = row.status]
  OBVIOUS

\* A step that writes the row of a job is a contract step of that job, or
\* leaves its status alone.
LEMMA RowRefines ==
    ASSUME ChargeInv, Next, NEW j \in Job, job'[j] # job[j]
    PROVE  Contract!ContractNext \/ UNCHANGED Contract!contractVars
<1> DEFINE Moves(from, to) == /\ job[j].status \in from
                              /\ \E row : /\ row.status = to
                                          /\ job' = [job EXCEPT ![j] = row]
                              /\ UNCHANGED calls
<1>1. /\ GatewayInv /\ PipelineInv /\ ContractInv /\ JobInv(j) /\ TaskInv(j)
      /\ job \in [Job -> JobRows]
  BY Tables DEF ChargeInv, PipelineInv, ContractInv
<1>2. ASSUME NEW from, NEW to, Moves(from, to)
      PROVE  Contract!Move(j, from, to)
  BY <1>1, <1>2, StatusMove DEF Contract!Move
<1>3. ASSUME NEW status, job[j].status = status, Moves({status}, status)
      PROVE  UNCHANGED Contract!contractVars
  BY <1>1, <1>3, StatusMove DEF Contract!contractVars
<1>4. CASE Admit(j, SameRequest(j))
  <2>1. Moves({"absent"}, "queued")
    BY <1>4 DEF Admit, InsertedJob
  <2> QED
    BY <1>2, <2>1 DEF Contract!ContractNext, Contract!Accept
<1>5. CASE CleanupJob(j)
  <2>1. Moves({"succeeded", "failed"}, "deleted")
    <3>1. [job[j] EXCEPT !.status = "deleted"].status = "deleted"
      BY <1>1 DEF JobRows
    <3>2. job' = [job EXCEPT ![j] = [job[j] EXCEPT !.status = "deleted"]] /\ UNCHANGED calls
      BY <1>1, <1>5 DEF CleanupJob
    <3>3. job[j].status \in {"succeeded", "failed"}
      BY <1>1, <1>5 DEF CleanupJob, Terminal, TerminalStatuses, TaskInv
    <3> QED
      BY <3>1, <3>2, <3>3
  <2> QED
    BY <1>2, <2>1 DEF Contract!ContractNext, Contract!Forget
<1>6. ASSUME NEW w \in Worker, Takes(w, j)
      PROVE  Contract!ContractNext \/ UNCHANGED Contract!contractVars
  <2>1. Moves({job[j].status}, "running") /\ job[j].status \in {"queued", "running"}
    BY <1>1, <1>6, TakesRows DEF Claimed, Active, ActiveStatuses
  <2>2. CASE job[j].status = "queued"
    BY <1>2, <2>1, <2>2 DEF Contract!ContractNext, Contract!Start
  <2> QED
    BY <1>3, <2>1, <2>2
<1>7. ASSUME NEW w \in Worker, Settles(w, j)
      PROVE  Contract!ContractNext \/ UNCHANGED Contract!contractVars
  <2> DEFINE to == OutcomeOf(w).status
  <2>1. /\ to \in {"running", "succeeded", "failed"} /\ UNCHANGED calls
        /\ job' = [job EXCEPT ![j] = Transitioned(job[j], to, OutcomeOf(w).stage, to = "running")]
        /\ Holds(w) /\ Exists(job[j]) /\ worker[w].ver = job[j].version /\ Msg(w).job = j
    BY <1>1, <1>7, SettlesRows DEF Settles, Holds
  <2>2. job[j].status = "running"
    BY <1>1, <2>1 DEF PipelineInv, HolderInv
  <2>3. to = "succeeded" => calls[j] = 1
    BY <1>7, SettledWasCharged
  <2> HIDE DEF to
  <2>4. Moves({"running"}, to) /\ Moves({"queued", "running"}, to)
    BY <2>1, <2>2 DEF Transitioned
  <2>5. CASE to = "running"
    BY <1>3, <2>2, <2>4, <2>5
  <2>6. CASE to = "succeeded"
    BY <1>2, <2>3, <2>4, <2>6 DEF Contract!ContractNext, Contract!Succeed
  <2>7. CASE to = "failed"
    BY <1>2, <2>4, <2>7 DEF Contract!ContractNext, Contract!Fail
  <2> QED
    BY <2>1, <2>5, <2>6, <2>7
<1>8. ASSUME NEW w \in Worker, Recovers(w, j)
      PROVE  UNCHANGED Contract!contractVars
  <2>1. /\ job' = [job EXCEPT ![j] = Transitioned(job[j], "running", "video_submit", TRUE)]
        /\ Holds(w) /\ Exists(job[j]) /\ worker[w].ver = job[j].version /\ Msg(w).job = j
        /\ UNCHANGED calls
    BY <1>1, <1>8, RecoversRows DEF Recovers, Holds
  <2>2. job[j].status = "running"
    BY <1>1, <2>1 DEF PipelineInv, HolderInv
  <2> QED
    BY <1>3, <2>1, <2>2 DEF Transitioned
<1>9. CASE Marks(j)
  <2> DEFINE to == ApiStatus(api[j].pc)
  <2>1. /\ to \in {"succeeded", "failed"} /\ to \in StatusTransitions[job[j].status]
        /\ job' = [job EXCEPT ![j] = Transitioned(job[j], to, "finalize", FALSE)]
        /\ UNCHANGED calls /\ api[j].pc # "idle" /\ Exists(job[j])
    BY <1>9, MarksRows
  <2>2. calls[j] = 1 /\ job[j].status \in {"running", "succeeded", "failed"}
    BY <1>1, <2>1 DEF JobInv, TaskInv, Exists, ValidStatuses, ActiveStatuses, TerminalStatuses
  <2> HIDE DEF to
  <2>3. Moves({job[j].status}, to)
    BY <2>1 DEF Transitioned
  <2>4. CASE job[j].status = "running" /\ to = "succeeded"
    BY <1>2, <2>2, <2>3, <2>4 DEF Contract!ContractNext, Contract!Succeed
  <2>5. CASE job[j].status = "running" /\ to = "failed"
    <3>1. Moves({"queued", "running"}, to)
      BY <2>3, <2>5
    <3> QED
      BY <1>2, <2>5, <3>1 DEF Contract!ContractNext, Contract!Fail
  <2>6. CASE job[j].status # "running"
    <3>1. to = job[j].status
      BY <2>1, <2>2, <2>6 DEF StatusTransitions
    <3> QED
      BY <1>3, <2>3, <3>1
  <2> QED
    BY <2>1, <2>4, <2>5, <2>6
<1> QED
  BY <1>1, <1>4, <1>5, <1>6, <1>7, <1>8, <1>9, JobStep

\* A provider call is the contract's charge, or bills nothing.
LEMMA CallRefines ==
    ASSUME ChargeInv, NEW w \in Worker, ProviderCall(w)
    PROVE  Contract!ContractNext \/ UNCHANGED Contract!contractVars
<1> DEFINE j == Msg(w).job
<1>1. /\ OutboxInv /\ WorkInv /\ BillingInv /\ ContractInv /\ calls \in [Job -> Nat]
  BY Tables DEF ChargeInv
<1>2. worker[w].pc = "call" /\ j \in Job /\ UNCHANGED job
  BY <1>1, MessageRow DEF ProviderCall
<1>3. CASE UNCHANGED calls
  BY <1>2, <1>3 DEF Contract!contractVars
<1>4. CASE ~UNCHANGED calls
  <2>1. Calling(w, j) /\ calls' = [calls EXCEPT ![j] = calls[j] + 1]
    BY <1>1, <1>2, <1>4 DEF ProviderCall, Billable, Calling
  <2>2. calls[j] = 0 /\ job[j].status = "running"
    BY <1>1, <1>2, <2>1 DEF BillingInv, ChargedOnce, ContractInv, SubmitInv
  <2>3. Contract!Charge(j)
    BY <1>2, <2>1, <2>2 DEF Contract!Charge
  <2> QED
    BY <1>2, <2>3 DEF Contract!ContractNext
<1> QED
  BY <1>3, <1>4

\* Every step of the deployment is a contract step or invisible to it.
LEMMA StepRefines ==
    ASSUME ChargeInv, Next
    PROVE  Contract!ContractNext \/ UNCHANGED Contract!contractVars
<1>1. job \in [Job -> JobRows] /\ job' \in [Job -> JobRows]
  <2>1. GatewayInv /\ GatewayInv'
    BY ContractStep DEF ChargeInv
  <2> QED
    BY <2>1 DEF GatewayInv, WorkInv, WorkTypeOK
<1>2. CASE \E j \in Job : job'[j] # job[j]
  BY <1>2, RowRefines
<1>3. CASE UNCHANGED job
  <2>1. CASE UNCHANGED calls
    BY <1>3, <2>1 DEF Contract!contractVars
  <2> QED
    BY <2>1, CallRefines, ChargeStep
<1> QED
  BY <1>1, <1>2, <1>3

\* The Celery deployment implements JobContract: whatever is interleaved,
\* redelivered or lost, a job is admitted once, charged at most once and only
\* while it runs, succeeds only after its charge, is decided once and is
\* deleted only afterwards.
THEOREM CeleryImplementsContract == Spec => ImplementsContract
<1>1. Init => Contract!ContractInit
  BY DEF Init, WorkInit, AbsentJob, Contract!ContractInit
<1>2. ChargeInv /\ [Next]_vars => [Contract!ContractNext]_(Contract!contractVars)
  <2>1. UNCHANGED vars => UNCHANGED Contract!contractVars
    BY DEF vars, Contract!contractVars
  <2> QED
    BY <2>1, StepRefines
<1> QED
  BY <1>1, <1>2, ChargeInvariant, PTL DEF Spec, ImplementsContract, Contract!ContractSpec
=============================================================================
