---------------------------- MODULE QueueSwitch ----------------------------
(***************************************************************************)
(* Switching the managed package between the local queue and Redis/Celery  *)
(* at run time (services/queue_runtime.py): the environment file, the      *)
(* environment of the API, the dispatcher and worker processes, and the    *)
(* jobs that are admitted and published meanwhile.                         *)
(*                                                                         *)
(* switch_backend runs in a thread pool, so the event loop keeps admitting *)
(* jobs between any two of its steps.  Every step may fail; a failure      *)
(* starts the rollback, which repeats the steps with the original values.  *)
(***************************************************************************)
CONSTANTS
    Job,     \* the jobs admitted
    Broker   \* the Redis brokers a switch may name

ASSUME SwitchAssumption == Broker \cap {"local", "down", "new", "pending", "done"} = {}

VARIABLES
    file,      \* what angemedia.env says
    env,       \* what os.environ of the API says
    api,       \* whether the API process is up
    proc,      \* the configuration a process was started with, or "down"
    sw,        \* the switch in progress
    outcome,   \* how the last switch, or start of the package, ended
    job,       \* where a job is: "pending" in the outbox, on a queue, "done"
    late       \* jobs admitted while a switch was under way or left unfinished

vars == <<file, env, api, proc, sw, outcome, job, late>>

\* A queue configuration: the local queue, or Celery on a broker.
Config == {"local"} \cup Broker
Processes == {"dispatcher", "worker"}
Steps == {"count", "ping", "file", "env", "app", "stop_dispatcher", "stop_worker",
          "start_worker", "start_dispatcher", "health"}
NoSwitch == [pc |-> "idle"]

\* The states of the two configurations, the processes and the switch thread.
SwitchTypeOK ==
    /\ file \in Config /\ env \in Config /\ api \in BOOLEAN
    /\ proc \in [Processes -> Config \cup {"down"}]
    /\ proc["worker"] # "local"
    /\ sw # NoSwitch => /\ api
                        /\ sw \in [pc: Steps, roll: BOOLEAN, file: Config, env: Config,
                                   from: [file: Config, env: Config]]
    /\ outcome \in [result: {"ok", "restored", "broken", "crashed"}, file: Config, env: Config]
    /\ job \in [Job -> {"new", "pending", "done"} \cup Config]
    /\ late \subseteq Job

\* The package has been started.
SwitchInit ==
    /\ file \in Config /\ env = file /\ api = TRUE
    /\ proc = [p \in Processes |-> IF p = "worker" /\ file = "local" THEN "down" ELSE file]
    /\ sw = NoSwitch
    /\ outcome = [result |-> "ok", file |-> file, env |-> file]
    /\ job = [j \in Job |-> "new"]
    /\ late = {}

\* _active_counts: jobs queued or running, dispatches pending or publishing.
Active == {j \in Job : job[j] \notin {"new", "done"}}

-----------------------------------------------------------------------------
(* switch_backend *)

\* _switch_lock: one switch at a time, a second one is refused.
RequestSwitch(target) ==
    /\ api /\ sw = NoSwitch
    /\ sw' = [pc |-> "count", roll |-> FALSE, file |-> target, env |-> target,
              from |-> [file |-> file, env |-> env]]
    /\ UNCHANGED <<file, env, api, proc, outcome, job, late>>

Go(pc) == sw' = [sw EXCEPT !.pc = pc]
Refuse == sw' = NoSwitch

\* Mutant: the jobs are counted and the count ignored.
CountActiveIgnored ==
    /\ sw.pc = "count"
    /\ Go(IF sw.env = "local" THEN "file" ELSE "ping")
    /\ UNCHANGED <<file, env, api, proc, outcome, job, late>>

CountActive ==
    /\ sw.pc = "count"
    /\ IF Active # {} THEN Refuse ELSE Go(IF sw.env = "local" THEN "file" ELSE "ping")
    /\ UNCHANGED <<file, env, api, proc, outcome, job, late>>

\* _redis_ping before anything is changed.
Ping ==
    /\ sw.pc = "ping"
    /\ Refuse \/ Go("file")
    /\ UNCHANGED <<file, env, api, proc, outcome, job, late>>

\* _write_env_values, and in the rollback the original bytes: os.replace, so the
\* file is the old or the new one.
WriteFile ==
    /\ sw.pc = "file"
    /\ file' = sw.file
    /\ Go("env")
    /\ UNCHANGED <<env, api, proc, outcome, job, late>>

ApplyEnv ==
    /\ sw.pc = "env"
    /\ env' = sw.env
    /\ Go("app")
    /\ UNCHANGED <<file, api, proc, outcome, job, late>>

\* _refresh_cached_celery_app; the API itself publishes nothing.
RefreshApp ==
    /\ sw.pc = "app"
    /\ Go("stop_dispatcher")
    /\ UNCHANGED <<file, env, api, proc, outcome, job, late>>

\* _stop_one: SIGTERM, SIGKILL after five seconds.  A local job in progress
\* stays where it is until a local dispatcher recovers it.
StopOne(pc, name, next) ==
    /\ sw.pc = pc
    /\ proc' = [proc EXCEPT ![name] = "down"]
    /\ Go(next)
    /\ UNCHANGED <<file, env, api, outcome, job, late>>

\* _start_one: the child inherits os.environ.
StartOne(pc, name, next) ==
    /\ sw.pc = pc
    /\ proc' = [proc EXCEPT ![name] = IF @ = "down" THEN env ELSE @]
    /\ Go(next)
    /\ UNCHANGED <<file, env, api, outcome, job, late>>

\* Mutant: the worker is started for every backend.
RestartAlwaysWorker ==
    \/ StopOne("stop_dispatcher", "dispatcher", "stop_worker")
    \/ StopOne("stop_worker", "worker", "start_worker")
    \/ StartOne("start_worker", "worker", "start_dispatcher")
    \/ StartOne("start_dispatcher", "dispatcher", "health")

\* _restart_topology.
Restart ==
    \/ StopOne("stop_dispatcher", "dispatcher", "stop_worker")
    \/ StopOne("stop_worker", "worker",
               IF sw.env = "local" THEN "start_dispatcher" ELSE "start_worker")
    \/ StartOne("start_worker", "worker", "start_dispatcher")
    \/ StartOne("start_dispatcher", "dispatcher", "health")

\* The report: "ok" names the target, "restored" what there was before.
Finish(result) ==
    /\ sw' = NoSwitch
    /\ outcome' = [result |-> result,
                   file |-> IF sw.roll THEN sw.from.file ELSE sw.file,
                   env |-> IF sw.roll THEN sw.from.env ELSE sw.env]

\* The last ping, or the end of the rollback.
EndSwitch ==
    /\ sw.pc = "health"
    /\ Finish(IF sw.roll THEN "restored" ELSE "ok")
    /\ UNCHANGED <<file, env, api, proc, job, late>>

\* Mutant: the rollback restores the file and the processes only.
StepFailsKeepsEnv ==
    /\ sw.pc \in Steps \ {"count", "ping"}
    /\ IF sw.roll
       THEN Finish("broken")
       ELSE /\ sw' = [sw EXCEPT !.pc = "file", !.roll = TRUE, !.file = sw.from.file]
            /\ UNCHANGED outcome
    /\ UNCHANGED <<file, env, api, proc, job, late>>

\* A step raises: full disk, a child that exits at once, a dead Redis at the
\* last ping.  The rollback uses the values read before the first step.
StepFails ==
    /\ sw.pc \in Steps \ {"count", "ping"}
    /\ sw.pc = "health" => ~sw.roll /\ sw.env # "local"
    /\ IF sw.roll
       THEN Finish("broken")
       ELSE /\ sw' = [sw EXCEPT !.pc = "file", !.roll = TRUE,
                                !.file = sw.from.file, !.env = sw.from.env]
            /\ UNCHANGED outcome
    /\ UNCHANGED <<file, env, api, proc, job, late>>

SwitchStep ==
    CountActive \/ Ping \/ WriteFile \/ ApplyEnv \/ RefreshApp \/ Restart \/ EndSwitch

-----------------------------------------------------------------------------
(* Jobs *)

\* The last switch, or start, completed and left the file and the environment
\* equal: a rollback after a broken one restores that one's difference.
Coherent == outcome.result \in {"ok", "restored"} /\ outcome.file = outcome.env

\* A switch has counted the active jobs and not ended, or was cut short.
Unsettled == ~Coherent \/ (sw # NoSwitch /\ sw.pc # "count")

\* admit_job writes the job and its dispatch row.
Admit(j) ==
    /\ api /\ job[j] = "new"
    /\ job' = [job EXCEPT ![j] = "pending"]
    /\ late' = IF Unsettled THEN late \cup {j} ELSE late
    /\ UNCHANGED <<file, env, api, proc, sw, outcome>>

\* The dispatcher publishes to the backend it was started with.
Publish(j) ==
    /\ proc["dispatcher"] # "down" /\ job[j] = "pending"
    /\ job' = [job EXCEPT ![j] = proc["dispatcher"]]
    /\ UNCHANGED <<file, env, api, proc, sw, outcome, late>>

\* A stage ends: the next one is in the outbox, or the job is terminal.  A
\* local dispatcher also recovers what an earlier one left.
EndStage(j) ==
    /\ job[j] \in Config
    /\ proc[IF job[j] = "local" THEN "dispatcher" ELSE "worker"] = job[j]
    /\ \E s \in {"pending", "done"} : job' = [job EXCEPT ![j] = s]
    /\ UNCHANGED <<file, env, api, proc, sw, outcome, late>>

-----------------------------------------------------------------------------
(* Crashes, and the start script of the package *)

ProcessDies(p) ==
    /\ proc[p] # "down"
    /\ proc' = [proc EXCEPT ![p] = "down"]
    /\ UNCHANGED <<file, env, api, sw, outcome, job, late>>

\* The API dies; a switch in progress stops where it is.
ApiDies ==
    /\ api
    /\ api' = FALSE
    /\ sw' = NoSwitch
    /\ outcome' = IF sw = NoSwitch THEN outcome ELSE [outcome EXCEPT !.result = "crashed"]
    /\ UNCHANGED <<file, env, proc, job, late>>

\* cmd/main start: the environment comes from the file, a running dispatcher is
\* left alone, a worker is stopped when the file says local.
StartApp ==
    /\ sw = NoSwitch
    /\ api' = TRUE
    /\ env' = IF api THEN env ELSE file
    /\ proc' = [p \in Processes |->
                   IF p = "worker" /\ file = "local" THEN "down"
                   ELSE IF proc[p] = "down" THEN file ELSE proc[p]]
    /\ UNCHANGED <<file, sw, outcome, job, late>>

\* cmd/main restart: everything is stopped and started from the file.
RestartApp ==
    /\ sw = NoSwitch
    /\ api' = TRUE /\ env' = file
    /\ proc' = [p \in Processes |-> IF p = "worker" /\ file = "local" THEN "down" ELSE file]
    /\ outcome' = [result |-> "ok", file |-> file, env |-> file]
    /\ UNCHANGED <<file, sw, job, late>>

SwitchNext ==
    \/ \E target \in Config : RequestSwitch(target)
    \/ SwitchStep \/ StepFails
    \/ \E j \in Job : Admit(j) \/ Publish(j) \/ EndStage(j)
    \/ \E p \in Processes : ProcessDies(p)
    \/ ApiDies \/ StartApp \/ RestartApp

SwitchSpec == SwitchInit /\ [][SwitchNext]_vars

-----------------------------------------------------------------------------
(* Properties *)

Settled == sw = NoSwitch /\ api /\ Coherent

\* A switch that reports success, or that the previous backend was restored,
\* leaves file, environment and processes on one configuration: the target, or
\* what there was before.
SwitchIsAllOrNothing ==
    Settled => /\ file = outcome.file /\ env = outcome.env
               /\ \A p \in Processes : proc[p] \in {env, "down"}

\* After a switch, no job waits on a queue that nobody serves any more, unless
\* it was admitted while a switch was under way or before a switch that a crash
\* or a failed rollback cut short was made good by a restart of the package.
StrandedOnlyByRace ==
    Settled => \A j \in Job : job[j] \in Config => job[j] = env \/ j \in late
=============================================================================
