---------------------------- MODULE JobContract ----------------------------
(***************************************************************************)
(* What the gateway promises about one job, whatever the queue backend     *)
(* does underneath: a job is admitted once, started, charged to the        *)
(* provider account at most once and only while it is running, succeeds    *)
(* only after that one charge, is decided once, and disappears only after  *)
(* it was decided.  CeleryGateway and LocalGateway are both shown to       *)
(* implement this specification.                                           *)
(***************************************************************************)
EXTENDS Naturals

CONSTANT Job

VARIABLES
    status,    \* Job -> its status, "absent" before and "deleted" after
    charges    \* Job -> billable provider executions

contractVars == <<status, charges>>

ContractInit ==
    /\ status = [j \in Job |-> "absent"]
    /\ charges = [j \in Job |-> 0]

\* One status change of one job.
Move(j, from, to) ==
    /\ status[j] \in from
    /\ status' = [status EXCEPT ![j] = to]
    /\ UNCHANGED charges

Accept(j) == Move(j, {"absent"}, "queued")
Start(j) == Move(j, {"queued"}, "running")
Succeed(j) == charges[j] = 1 /\ Move(j, {"running"}, "succeeded")
Fail(j) == Move(j, {"queued", "running"}, "failed")
Forget(j) == Move(j, {"succeeded", "failed"}, "deleted")

Charge(j) ==
    /\ status[j] = "running"
    /\ charges[j] = 0
    /\ charges' = [charges EXCEPT ![j] = 1]
    /\ UNCHANGED status

ContractNext ==
    \E j \in Job : Accept(j) \/ Start(j) \/ Charge(j) \/ Succeed(j) \/ Fail(j) \/ Forget(j)

ContractSpec == ContractInit /\ [][ContractNext]_contractVars
=============================================================================
