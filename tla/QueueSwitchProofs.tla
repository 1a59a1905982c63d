------------------------- MODULE QueueSwitchProofs -------------------------
(***************************************************************************)
(* The switch of queue backends is all or nothing, and strands no job but  *)
(* those admitted while it runs, for any number of jobs and brokers.       *)
(*                                                                         *)
(* The report of a switch says what the rest of the state should be, so    *)
(* the invariant says how far the switch has brought the state: nothing is *)
(* touched before the jobs are counted and the broker answered, and from   *)
(* then on each step has put one more part on the configuration it is to   *)
(* end on.  A job that is not late exists only while nothing is touched.   *)
(***************************************************************************)
EXTENDS QueueSwitch, TLAPS

Switches == [pc: Steps, roll: BOOLEAN, file: Config, env: Config,
             from: [file: Config, env: Config]]

-----------------------------------------------------------------------------
(* The inductive invariant *)

\* File, environment and processes are what the last report says.
Untouched ==
    /\ file = outcome.file
    /\ api => env = outcome.env
    /\ \A p \in Processes : proc[p] \in {outcome.env, "down"}

\* Nothing is touched before the jobs are counted and the broker has answered.
UntouchedBefore ==
    Coherent /\ (sw = NoSwitch \/ sw.pc \in {"count", "ping"}) => Untouched

\* What a switch has done when it is at a step.
Done(pcs) == sw # NoSwitch /\ sw.pc \in pcs
Restarting == {"stop_worker", "start_worker", "start_dispatcher"}
Progress ==
    /\ Done({"env", "app", "stop_dispatcher", "health"} \cup Restarting) => file = sw.file
    /\ Done({"app", "stop_dispatcher", "health"} \cup Restarting) => env = sw.env
    /\ Done(Restarting) => proc["dispatcher"] = "down"
    /\ Done({"start_worker", "start_dispatcher", "health"}) => proc["worker"] \in {sw.env, "down"}
    /\ Done({"health"}) => proc["dispatcher"] \in {sw.env, "down"}
    /\ Done({"start_worker"}) => sw.env # "local"

\* A rollback is on its way to what there was before.
Goal == sw # NoSwitch /\ sw.roll => sw.file = sw.from.file /\ sw.env = sw.from.env

\* A job that was not admitted late is on the queue of an untouched backend, and
\* a switch has yet to count it.
OnTime ==
    Active \ late # {} =>
        /\ Untouched /\ outcome.file = outcome.env
        /\ sw = NoSwitch \/ sw.pc = "count"
        /\ \A j \in Active \ late : job[j] \in Config => job[j] = outcome.env

SwitchInv == SwitchTypeOK /\ UntouchedBefore /\ Progress /\ Goal /\ OnTime

-----------------------------------------------------------------------------
(* Every action keeps it *)

\* A switch is asked for: nothing is touched yet.
LEMMA RequestSwitchKeeps ==
    ASSUME SwitchInv, NEW target \in Config, RequestSwitch(target)
    PROVE  SwitchInv'
<1>1. SwitchTypeOK'
  BY DEF SwitchInv, SwitchTypeOK, Steps, RequestSwitch
<1>2. UntouchedBefore'
  BY DEF SwitchInv, UntouchedBefore, Untouched, Coherent, RequestSwitch
<1>3. Progress' /\ Goal'
  BY DEF Progress, Goal, Done, Restarting, RequestSwitch
<1>4. OnTime'
  BY DEF SwitchInv, OnTime, Active, Untouched, RequestSwitch
<1>5. QED
  BY <1>1, <1>2, <1>3, <1>4 DEF SwitchInv

\* The jobs are counted: past this step every active job is late.
LEMMA CountActiveKeeps ==
    ASSUME SwitchInv, CountActive
    PROVE  SwitchInv'
<1>1. SwitchTypeOK'
  BY DEF SwitchInv, SwitchTypeOK, Steps, NoSwitch, CountActive, Go, Refuse
<1>2. UntouchedBefore'
  BY DEF SwitchInv, UntouchedBefore, Untouched, Coherent, CountActive
<1>3. Progress' /\ Goal'
  BY DEF SwitchInv, Progress, Goal, Done, Restarting, SwitchTypeOK, NoSwitch,
         CountActive, Go, Refuse
<1>4. OnTime'
  BY DEF SwitchInv, OnTime, Active, Untouched, CountActive, Refuse
<1>5. QED
  BY <1>1, <1>2, <1>3, <1>4 DEF SwitchInv

\* The broker answers, or the switch is refused with nothing touched.
LEMMA PingKeeps ==
    ASSUME SwitchInv, Ping
    PROVE  SwitchInv'
<1>1. SwitchTypeOK'
  BY DEF SwitchInv, SwitchTypeOK, Steps, NoSwitch, Ping, Go, Refuse
<1>2. UntouchedBefore'
  BY DEF SwitchInv, UntouchedBefore, Untouched, Coherent, Ping
<1>3. Progress' /\ Goal'
  BY DEF SwitchInv, Progress, Goal, Done, Restarting, SwitchTypeOK, NoSwitch, Ping, Go,
         Refuse
<1>4. OnTime'
  BY DEF SwitchInv, OnTime, Active, NoSwitch, Ping
<1>5. QED
  BY <1>1, <1>2, <1>3, <1>4 DEF SwitchInv

\* The file is on the configuration of the switch.
LEMMA WriteFileKeeps ==
    ASSUME SwitchInv, WriteFile
    PROVE  SwitchInv'
<1>1. SwitchTypeOK'
  BY DEF SwitchInv, SwitchTypeOK, Steps, NoSwitch, WriteFile, Go
<1>2. UntouchedBefore'
  BY DEF UntouchedBefore, NoSwitch, WriteFile, Go
<1>3. Progress' /\ Goal'
  BY DEF SwitchInv, Progress, Goal, Done, Restarting, NoSwitch, WriteFile, Go
<1>4. OnTime'
  BY DEF SwitchInv, OnTime, Active, NoSwitch, WriteFile
<1>5. QED
  BY <1>1, <1>2, <1>3, <1>4 DEF SwitchInv

\* So is the environment.
LEMMA ApplyEnvKeeps ==
    ASSUME SwitchInv, ApplyEnv
    PROVE  SwitchInv'
<1>1. SwitchTypeOK'
  BY DEF SwitchInv, SwitchTypeOK, Steps, NoSwitch, ApplyEnv, Go
<1>2. UntouchedBefore'
  BY DEF UntouchedBefore, NoSwitch, ApplyEnv, Go
<1>3. Progress' /\ Goal'
  BY DEF SwitchInv, Progress, Goal, Done, Restarting, NoSwitch, ApplyEnv, Go
<1>4. OnTime'
  BY DEF SwitchInv, OnTime, Active, NoSwitch, ApplyEnv
<1>5. QED
  BY <1>1, <1>2, <1>3, <1>4 DEF SwitchInv

\* The cached Celery application is dropped.
LEMMA RefreshAppKeeps ==
    ASSUME SwitchInv, RefreshApp
    PROVE  SwitchInv'
<1>1. SwitchTypeOK'
  BY DEF SwitchInv, SwitchTypeOK, Steps, NoSwitch, RefreshApp, Go
<1>2. UntouchedBefore'
  BY DEF UntouchedBefore, NoSwitch, RefreshApp, Go
<1>3. Progress' /\ Goal'
  BY DEF SwitchInv, Progress, Goal, Done, Restarting, NoSwitch, RefreshApp, Go
<1>4. OnTime'
  BY DEF SwitchInv, OnTime, Active, NoSwitch, RefreshApp
<1>5. QED
  BY <1>1, <1>2, <1>3, <1>4 DEF SwitchInv

\* The processes stop and start one by one.
LEMMA RestartKeeps ==
    ASSUME SwitchInv, Restart
    PROVE  SwitchInv'
<1>1. SwitchTypeOK'
  BY DEF SwitchInv, Progress, Done, Restarting, SwitchTypeOK, Processes, Steps,
         NoSwitch, Restart, StopOne, StartOne, Go
<1>2. UntouchedBefore'
  BY DEF SwitchInv, UntouchedBefore, SwitchTypeOK, NoSwitch, Restart, StopOne, StartOne,
         Go
<1>3. Progress' /\ Goal'
  BY DEF SwitchInv, Progress, Goal, Done, Restarting, SwitchTypeOK, Processes, NoSwitch,
         Restart, StopOne, StartOne, Go
<1>4. OnTime'
  BY DEF SwitchInv, OnTime, Active, NoSwitch, Restart, StopOne, StartOne
<1>5. QED
  BY <1>1, <1>2, <1>3, <1>4 DEF SwitchInv

\* A switch that ends has put every part on what it reports.
LEMMA EndSwitchKeeps ==
    ASSUME SwitchInv, EndSwitch
    PROVE  SwitchInv'
<1>1. SwitchTypeOK'
  BY DEF SwitchInv, SwitchTypeOK, NoSwitch, EndSwitch, Finish
<1>2. UntouchedBefore'
  BY DEF SwitchInv, UntouchedBefore, Untouched, Progress, Goal, Done, Processes,
         NoSwitch, EndSwitch, Finish
<1>3. Progress' /\ Goal'
  BY DEF Progress, Goal, Done, EndSwitch, Finish
<1>4. OnTime'
  BY DEF SwitchInv, OnTime, Active, NoSwitch, EndSwitch
<1>5. QED
  BY <1>1, <1>2, <1>3, <1>4 DEF SwitchInv

\* A failed step starts the rollback, a failed rollback is reported broken.
LEMMA StepFailsKeeps ==
    ASSUME SwitchInv, StepFails
    PROVE  SwitchInv'
<1>0. sw # NoSwitch /\ sw \in Switches /\ api
  BY DEF SwitchInv, SwitchTypeOK, StepFails, NoSwitch, Steps, Switches
<1>a. sw.from.file \in Config /\ sw.from.env \in Config
  BY <1>0 DEF Switches
<1>b. UNCHANGED <<file, env, api, proc, job, late>>
  BY DEF StepFails
<1>1. CASE sw.roll
  <2>1. sw' = NoSwitch /\ outcome' = [result |-> "broken", file |-> sw.from.file, env |-> sw.from.env]
    BY <1>1 DEF StepFails, Finish
  <2>2. SwitchTypeOK'
    BY <1>a, <1>b, <2>1 DEF SwitchInv, SwitchTypeOK
  <2>3. UntouchedBefore' /\ Progress' /\ Goal'
    BY <2>1 DEF UntouchedBefore, Coherent, Progress, Goal, Done
  <2>4. OnTime'
    BY <1>0, <1>b DEF SwitchInv, OnTime, Active, StepFails, Steps
  <2>5. QED
    BY <2>2, <2>3, <2>4 DEF SwitchInv
<1>2. CASE ~sw.roll
  <2> DEFINE back == [sw EXCEPT !.pc = "file", !.roll = TRUE,
                                !.file = sw.from.file, !.env = sw.from.env]
  <2>1. sw' = back /\ outcome' = outcome
    BY <1>2 DEF StepFails
  <2>2. /\ back \in Switches /\ back.pc = "file" /\ back.roll
        /\ back.file = back.from.file /\ back.env = back.from.env
    BY <1>0, <1>a DEF Switches, Steps
  <2> HIDE DEF back
  <2>3. back # NoSwitch
    BY <2>2 DEF NoSwitch
  <2>4. SwitchTypeOK'
    BY <1>0, <1>b, <2>1, <2>2 DEF SwitchInv, SwitchTypeOK, Switches
  <2>5. UntouchedBefore' /\ Progress' /\ Goal'
    BY <2>1, <2>2, <2>3 DEF UntouchedBefore, Progress, Goal, Done, Restarting
  <2>6. OnTime'
    BY <1>0, <1>b DEF SwitchInv, OnTime, Active, StepFails, Steps
  <2>7. QED
    BY <2>4, <2>5, <2>6 DEF SwitchInv
<1>3. QED
  BY <1>1, <1>2

\* A job admitted after the count is late.
LEMMA AdmitKeeps ==
    ASSUME SwitchInv, NEW j \in Job, Admit(j)
    PROVE  SwitchInv'
<1>1. SwitchTypeOK'
  BY DEF SwitchInv, SwitchTypeOK, Admit
<1>2. UntouchedBefore'
  BY DEF SwitchInv, UntouchedBefore, Untouched, Coherent, Admit
<1>3. Progress' /\ Goal'
  BY DEF SwitchInv, Progress, Goal, Done, Admit
<1>4. OnTime'
  BY SwitchAssumption DEF SwitchInv, OnTime, Active, UntouchedBefore, Untouched,
                          Coherent, Config, Admit, Unsettled
<1>5. QED
  BY <1>1, <1>2, <1>3, <1>4 DEF SwitchInv

\* A job is published to the queue of the running dispatcher.
LEMMA PublishKeeps ==
    ASSUME SwitchInv, NEW j \in Job, Publish(j)
    PROVE  SwitchInv'
<1>1. SwitchTypeOK'
  BY DEF SwitchInv, SwitchTypeOK, Processes, Publish
<1>2. UntouchedBefore'
  BY DEF SwitchInv, UntouchedBefore, Untouched, Coherent, Publish
<1>3. Progress' /\ Goal'
  BY DEF SwitchInv, Progress, Goal, Done, Publish
<1>4. OnTime'
  BY DEF SwitchInv, OnTime, Active, Untouched, Processes, Publish
<1>5. QED
  BY <1>1, <1>2, <1>3, <1>4 DEF SwitchInv

\* A stage ends where it is served.
LEMMA EndStageKeeps ==
    ASSUME SwitchInv, NEW j \in Job, EndStage(j)
    PROVE  SwitchInv'
<1>1. SwitchTypeOK'
  BY DEF SwitchInv, SwitchTypeOK, EndStage
<1>2. UntouchedBefore'
  BY DEF SwitchInv, UntouchedBefore, Untouched, Coherent, EndStage
<1>3. Progress' /\ Goal'
  BY DEF SwitchInv, Progress, Goal, Done, EndStage
<1>4. OnTime'
  BY SwitchAssumption DEF SwitchInv, OnTime, Active, Untouched, Config, EndStage
<1>5. QED
  BY <1>1, <1>2, <1>3, <1>4 DEF SwitchInv

\* A process that dies is on no configuration.
LEMMA ProcessDiesKeeps ==
    ASSUME SwitchInv, NEW p \in Processes, ProcessDies(p)
    PROVE  SwitchInv'
<1>1. SwitchTypeOK'
  BY DEF SwitchInv, SwitchTypeOK, ProcessDies
<1>2. UntouchedBefore'
  BY DEF SwitchInv, UntouchedBefore, Untouched, Coherent, ProcessDies
<1>3. Progress' /\ Goal'
  BY DEF SwitchInv, Progress, Goal, Done, ProcessDies
<1>4. OnTime'
  BY DEF SwitchInv, OnTime, Active, Untouched, ProcessDies
<1>5. QED
  BY <1>1, <1>2, <1>3, <1>4 DEF SwitchInv

\* A switch the API takes down with it is reported crashed.
LEMMA ApiDiesKeeps ==
    ASSUME SwitchInv, ApiDies
    PROVE  SwitchInv'
<1>1. SwitchTypeOK'
  BY SwitchAssumption DEF SwitchInv, Progress, Done, Restarting, SwitchTypeOK, Config,
                          Processes, Steps, NoSwitch, ApiDies
<1>2. UntouchedBefore'
  BY DEF SwitchInv, UntouchedBefore, Untouched, Coherent, ApiDies
<1>3. Progress' /\ Goal'
  BY DEF Progress, Goal, Done, ApiDies
<1>4. OnTime'
  BY DEF SwitchInv, OnTime, Active, Untouched, ApiDies
<1>5. QED
  BY <1>1, <1>2, <1>3, <1>4 DEF SwitchInv

\* A start fills the gaps from the file.
LEMMA StartAppKeeps ==
    ASSUME SwitchInv, StartApp
    PROVE  SwitchInv'
<1>1. SwitchTypeOK'
  BY DEF SwitchInv, SwitchTypeOK, Processes, StartApp
<1>2. UntouchedBefore'
  BY DEF SwitchInv, UntouchedBefore, Untouched, Coherent, StartApp
<1>3. Progress' /\ Goal'
  BY DEF Progress, Goal, Done, StartApp
<1>4. OnTime'
  BY DEF SwitchInv, OnTime, Active, Untouched, StartApp
<1>5. QED
  BY <1>1, <1>2, <1>3, <1>4 DEF SwitchInv

\* A restart puts everything on the file.
LEMMA RestartAppKeeps ==
    ASSUME SwitchInv, RestartApp
    PROVE  SwitchInv'
<1>1. SwitchTypeOK'
  BY DEF SwitchInv, SwitchTypeOK, Processes, RestartApp
<1>2. UntouchedBefore'
  BY DEF UntouchedBefore, Untouched, RestartApp
<1>3. Progress' /\ Goal'
  BY DEF Progress, Goal, Done, RestartApp
<1>4. OnTime'
  BY DEF SwitchInv, OnTime, Active, Untouched, RestartApp
<1>5. QED
  BY <1>1, <1>2, <1>3, <1>4 DEF SwitchInv

-----------------------------------------------------------------------------
(* Theorems *)

\* The inductive invariant of the switch.
THEOREM SwitchInvariant == SwitchSpec => []SwitchInv
<1>1. SwitchInit => SwitchInv
  BY SwitchAssumption
  DEF SwitchInit, SwitchInv, SwitchTypeOK, UntouchedBefore, Untouched, Progress, Done,
      Goal, OnTime, Active, Config, Processes, NoSwitch
<1>2. SwitchInv /\ [SwitchNext]_vars => SwitchInv'
  <2> SUFFICES ASSUME SwitchInv, [SwitchNext]_vars
               PROVE  SwitchInv'
    OBVIOUS
  <2>1. CASE UNCHANGED vars
    BY <2>1 DEF vars, SwitchInv, SwitchTypeOK, UntouchedBefore, Untouched, Coherent, Progress,
                Done, Goal, OnTime, Active
  <2>2. CASE SwitchStep \/ StepFails
    BY <2>2, CountActiveKeeps, PingKeeps, WriteFileKeeps, ApplyEnvKeeps, RefreshAppKeeps,
       RestartKeeps, EndSwitchKeeps, StepFailsKeeps DEF SwitchStep
  <2>3. CASE \E j \in Job : Admit(j) \/ Publish(j) \/ EndStage(j)
    BY <2>3, AdmitKeeps, PublishKeeps, EndStageKeeps
  <2>4. CASE \/ \E target \in Config : RequestSwitch(target)
             \/ \E p \in Processes : ProcessDies(p)
             \/ ApiDies \/ StartApp \/ RestartApp
    BY <2>4, RequestSwitchKeeps, ProcessDiesKeeps, ApiDiesKeeps, StartAppKeeps, RestartAppKeeps
  <2>5. QED
    BY <2>1, <2>2, <2>3, <2>4 DEF SwitchNext
<1>3. QED
  BY <1>1, <1>2, PTL DEF SwitchSpec

\* The states of the switch, the processes and the jobs; in particular no worker
\* process ever runs on the local configuration (_restart_topology).
THEOREM SwitchTypeCorrect == SwitchSpec => []SwitchTypeOK
<1>1. SwitchInv => SwitchTypeOK
  BY DEF SwitchInv
<1>2. QED
  BY <1>1, SwitchInvariant, PTL

\* A switch that reports success or a restored backend has left file,
\* environment and processes on one configuration (switch_backend, _rollback).
THEOREM AllOrNothing == SwitchSpec => []SwitchIsAllOrNothing
<1>1. SwitchInv => SwitchIsAllOrNothing
  BY DEF SwitchInv, UntouchedBefore, Untouched, SwitchIsAllOrNothing, Settled
<1>2. QED
  BY <1>1, SwitchInvariant, PTL

\* Only a job admitted during a switch, or before an unfinished one was made
\* good, can wait on a queue nobody serves (_active_counts).
THEOREM OnlyLateJobsStranded == SwitchSpec => []StrandedOnlyByRace
<1>1. SwitchInv => StrandedOnlyByRace
  <2> SUFFICES ASSUME SwitchInv, Settled, NEW j \in Job, job[j] \in Config, j \notin late
               PROVE  job[j] = env
    BY DEF StrandedOnlyByRace
  <2>1. j \in Active \ late
    BY SwitchAssumption DEF Active, Config
  <2>2. env = outcome.env
    BY DEF SwitchInv, UntouchedBefore, Untouched, Settled
  <2>3. QED
    BY <2>1, <2>2 DEF SwitchInv, OnTime
<1>2. QED
  BY <1>1, SwitchInvariant, PTL
=============================================================================
