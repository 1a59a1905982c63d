--------------------------- MODULE CeleryGateway ---------------------------
(***************************************************************************)
(* The gateway on the Redis/Celery backend: API admission, the outbox and  *)
(* its dispatchers, a broker that delivers at least once, worker           *)
(* processes, the admin's requeue and cleanup, and client polling.         *)
(*                                                                         *)
(* Faults (crashes, database errors, broker loss and redelivery) are       *)
(* possible at every step; MaxFaults bounds how many a behaviour has.      *)
(***************************************************************************)
EXTENDS Gateway

CONSTANTS
    HashOf,      \* Job -> request hash
    FaultKinds   \* the faults a behaviour may have

ASSUME CeleryAssumption == Backend = "celery"
ASSUME FaultKindsAssumption ==
    FaultKinds \subseteq {"database", "crash", "visibility", "loss", "dispatcher"}

(***************************************************************************)
(* The broker and the Celery worker process (external): a message is taken *)
(* off the queue by an idle worker, which calls execute_job_stage.         *)
(***************************************************************************)
SameRequest(j) == {i \in Job : KindOf[i] = KindOf[j] /\ HashOf[i] = HashOf[j]}

Deliver(w) ==
    /\ worker[w].pc = "idle"
    /\ \E d \in queue :
         /\ queue' = queue \ {d}
         /\ worker' = [worker EXCEPT ![w] = StartedOn(d)]
    /\ UNCHANGED <<job, attempt, calls, generation, asset, dispatch, dispatcher, sent>>

\* acks_late and reject_on_worker_lost: a lost worker's message comes back.
WorkerCrash(w) ==
    /\ worker[w].pc # "idle"
    /\ queue' = queue \cup {worker[w].msg}
    /\ worker' = [worker EXCEPT ![w] = IdleWorker]
    /\ UNCHANGED <<job, attempt, calls, generation, asset, dispatch, dispatcher, sent>>

\* The visibility timeout passes while a worker still executes the message.
VisibilityTimeout(w) ==
    /\ worker[w].pc # "idle"
    /\ queue' = queue \cup {worker[w].msg}
    /\ UNCHANGED workVars
    /\ UNCHANGED <<dispatch, dispatcher, sent>>

\* Redis loses a message.
BrokerLoss ==
    /\ \E d \in queue : queue' = queue \ {d}
    /\ UNCHANGED workVars
    /\ UNCHANGED <<dispatch, dispatcher, sent>>

Fault ==
    /\ faults > 0
    /\ faults' = faults - 1
    /\ UNCHANGED api
    /\ \/ "database" \in FaultKinds /\ \E w \in Worker : DatabaseError(w)
       \/ "crash" \in FaultKinds /\ \E w \in Worker : WorkerCrash(w)
       \/ "visibility" \in FaultKinds /\ \E w \in Worker : VisibilityTimeout(w)
       \/ "loss" \in FaultKinds /\ BrokerLoss
       \/ /\ "dispatcher" \in FaultKinds
          /\ \E p \in Dispatcher : DispatcherFault(p)
          /\ UNCHANGED workVars

Next ==
    \/ /\ \/ \E j \in Job : Admit(j, SameRequest(j))
          \/ \E j \in Job : RequeueOrphaned(j)
          \/ \E j \in Job : CleanupJob(j)
          \/ \E p \in Dispatcher : DispatcherStep(p) /\ UNCHANGED workVars
          \/ \E d \in Dispatch : LeaseExpires(d) /\ UNCHANGED workVars
          \/ \E w \in Worker : Deliver(w)
          \/ \E w \in Worker : WorkerStep(w)
       /\ UNCHANGED <<api, faults>>
    \/ \E j \in Job : ApiStep(j) /\ UNCHANGED faults
    \/ Fault

Spec == Init /\ [][Next]_vars

\* The dispatcher loop and the Celery pool keep running, a lease ends in time.
Fairness ==
    /\ \A p \in Dispatcher : WF_vars(DispatcherStep(p) /\ UNCHANGED <<workVars, api, faults>>)
    /\ \A w \in Worker : WF_vars((Deliver(w) \/ WorkerStep(w)) /\ UNCHANGED <<api, faults>>)
    /\ \A d \in Dispatch : WF_vars(LeaseExpires(d) /\ UNCHANGED <<workVars, api, faults>>)

FairSpec == Spec /\ Fairness

-----------------------------------------------------------------------------
\* Polling survives the loss of worker processes: a job that reached
\* video_poll or asset_import is settled although workers crash, messages are
\* delivered twice and dispatchers fail (acks_late, the resumable stages).
PolledJobSettles ==
    \A j \in Job :
       Active(job[j]) /\ job[j].stage \in {"video_poll", "asset_import"} ~> ~Active(job[j])

\* "Provider task was accepted; worker delivery will resume without
\* resubmitting" (_record_submitted_recovery): a job left at video_submit with
\* its task id on record goes on.
SubmittedJobResumes ==
    \A j \in Job :
       LET waiting == job[j].status = "running" /\ job[j].stage = "video_submit" /\ job[j].task
       IN  waiting ~> ~waiting
=============================================================================
