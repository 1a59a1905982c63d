----------------------------- MODULE JobTables -----------------------------
(***************************************************************************)
(* The jobs repository (repositories/jobs.py): the status and stage        *)
(* tables, the versioned compare-and-swap every state change of a job goes *)
(* through, and the claim of one worker attempt.  Everything here is a     *)
(* constant operator on a job row; the modules that extend this one hold   *)
(* the rows in variables.                                                  *)
(*                                                                         *)
(* A row keeps what the control flow reads: status, stage, version and     *)
(* whether external_task_id is set.  "absent" is a job not yet admitted,   *)
(* "deleted" one removed by cleanup_jobs; both are None for get_job.       *)
(***************************************************************************)
EXTENDS Integers, FiniteSets

CONSTANTS
    Job,          \* job ids (uuid4 hex strings in the code)
    KindOf,       \* Job -> {"image", "video"}
    MaxAttempts   \* jobs.max_attempts and VideoPipelinePolicy.max_attempts

ASSUME KindAssumption == KindOf \in [Job -> {"image", "video"}]
ASSUME MaxAttemptsAssumption == MaxAttempts \in Nat /\ MaxAttempts >= 3

ActiveStatuses == {"queued", "running"}
TerminalStatuses == {"succeeded", "failed", "canceled"}
ValidStatuses == ActiveStatuses \cup TerminalStatuses
RowStatuses == ValidStatuses \cup {"absent", "deleted"}

Stages == {"admitted", "image_generate", "video_submit", "video_poll",
           "asset_import", "finalize"}

StagesByKind ==
    [image |-> {"admitted", "image_generate", "asset_import", "finalize"},
     video |-> {"admitted", "video_submit", "video_poll", "asset_import", "finalize"}]

StageTransitions ==
    [admitted       |-> {"admitted", "image_generate", "video_submit", "finalize"},
     image_generate |-> {"image_generate", "asset_import", "finalize"},
     video_submit   |-> {"video_submit", "video_poll", "finalize"},
     video_poll     |-> {"video_poll", "asset_import", "finalize"},
     asset_import   |-> {"asset_import", "finalize"},
     finalize       |-> {"finalize"}]

\* Mutant: a succeeded job may still be marked failed.
StatusTransitionsUndone ==
    [queued    |-> {"queued", "running", "failed", "canceled"},
     running   |-> {"running", "succeeded", "failed", "canceled"},
     succeeded |-> {"succeeded", "failed"},
     failed    |-> {"failed"},
     canceled  |-> {"canceled"}]

StatusTransitions ==
    [queued    |-> {"queued", "running", "failed", "canceled"},
     running   |-> {"running", "succeeded", "failed", "canceled"},
     succeeded |-> {"succeeded"},
     failed    |-> {"failed"},
     canceled  |-> {"canceled"}]

\* One number more than the limit, so that an attempt past it can be seen.
AttemptNumbers == 1..(MaxAttempts + 1)

JobRows == [status: RowStatuses, stage: Stages, version: Nat, task: BOOLEAN]

AbsentJob == [status |-> "absent", stage |-> "admitted", version |-> 0, task |-> FALSE]

\* get_job returns a row.
Exists(row) == row.status \in ValidStatuses

Active(row) == row.status \in ActiveStatuses
Terminal(row) == row.status \in TerminalStatuses

\* Mutant: admission confuses the two pipelines.
AdmissionStageSwapped(kind) == IF kind = "video" THEN "image_generate" ELSE "video_submit"

\* The row an admission inserts: queued at the first executable stage.
AdmissionStage(kind) == IF kind = "image" THEN "image_generate" ELSE "video_submit"

InsertedJob(kind) ==
    [status |-> "queued", stage |-> AdmissionStage(kind), version |-> 0, task |-> FALSE]

\* transition_job_in_connection raises StaleJobVersionError.
StaleVersion(row, expected) == Exists(row) /\ row.version # expected

\* Mutant: the status table is not consulted.
CanTransitionAnyStatus(kind, row, expected, status, stage) ==
    /\ Exists(row)
    /\ row.version = expected
    /\ stage \in StagesByKind[kind]
    /\ stage \in StageTransitions[row.stage]

\* transition_job_in_connection passes its version, status and stage checks.
CanTransition(kind, row, expected, status, stage) ==
    /\ Exists(row)
    /\ row.version = expected
    /\ status \in StatusTransitions[row.status]
    /\ stage \in StagesByKind[kind]
    /\ stage \in StageTransitions[row.stage]

\* The row it writes; a field passed as None (here: task FALSE) is not written.
Transitioned(row, status, stage, task) ==
    [status |-> status, stage |-> stage, version |-> row.version + 1,
     task |-> row.task \/ task]

\* The WHERE clause of claim_job_attempt and the row its UPDATE leaves.
CanClaim(row, expected, stage, allowRunning) ==
    /\ row.version = expected
    /\ row.stage = stage
    /\ row.status \in (IF allowRunning THEN ActiveStatuses ELSE {"queued"})

Claimed(row) ==
    [status |-> "running", stage |-> row.stage, version |-> row.version + 1,
     task |-> row.task]

(***************************************************************************)
(* The job_attempts table of one job: attempt number -> row; "none" is a   *)
(* number with no row.                                                     *)
(***************************************************************************)
AttemptRows == [status: {"none", "running", "succeeded", "failed"}, stage: Stages]

NoAttempt == [status |-> "none", stage |-> "admitted"]

NoAttempts == [a \in AttemptNumbers |-> NoAttempt]

\* create_job_attempt with status running.
WithAttempt(rows, a, stage) ==
    [rows EXCEPT ![a] = [status |-> "running", stage |-> stage]]

\* Mutant: the attempt is left running.
WithFinishedForgotten(rows, a, status) == rows

\* finish_job_attempt updates the row only while it is running.
WithFinished(rows, a, status) ==
    IF rows[a].status = "running"
    THEN [rows EXCEPT ![a] = [status |-> status, stage |-> rows[a].stage]]
    ELSE rows

\* get_running_stage_attempt returns a row.
RunningStageAttempt(rows, stage) ==
    \E a \in AttemptNumbers : rows[a].status = "running" /\ rows[a].stage = stage
=============================================================================
