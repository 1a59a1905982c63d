--------------------------- MODULE ClientPolling ---------------------------
(***************************************************************************)
(* get_video (services/video_generation.py), GET /v1/videos/{task_id}: an  *)
(* API client's poll of a provider task marks the job that carries the     *)
(* task id, a worker-managed one included, next to the worker pipeline.    *)
(***************************************************************************)
EXTENDS StageWorker

CONSTANT MaxApiPolls   \* bound on the polls per job

ASSUME MaxApiPollsAssumption == MaxApiPolls \in Nat

VARIABLE api   \* per job: the poll in progress and the polls left

ApiStates ==
    [pc: {"idle", "completed", "localized", "failed", "saving"}, left: 0..MaxApiPolls]

ApiTypeOK == api \in [Job -> ApiStates]

ApiInit == api = [j \in Job |-> [pc |-> "idle", left |-> MaxApiPolls]]

\* The lookup by external_task_id and the awaited provider poll.  A completed
\* task's file is downloaded ("localized") or not.
ApiPoll(j) ==
    /\ api[j].pc = "idle"
    /\ api[j].left > 0
    /\ KindOf[j] = "video"
    /\ Exists(job[j])
    /\ job[j].task
    /\ \E answer \in {"idle", "completed", "localized", "failed"} :
         api' = [api EXCEPT ![j] = [pc |-> answer, left |-> api[j].left - 1]]
    /\ UNCHANGED workVars
    /\ UNCHANGED outboxVars

ApiStatus(pc) == IF pc = "failed" THEN "failed" ELSE "succeeded"

\* mark_succeeded / mark_failed: _transition_current reads the version again
\* and transitions from it.  An illegal transition is raised to the client.
ApiMark(j) ==
    LET row == job[j]
        status == ApiStatus(api[j].pc)
        legal == CanTransition(KindOf[j], row, row.version, status, "finalize")
    IN  /\ api[j].pc \in {"completed", "localized", "failed"}
        /\ job' = IF legal THEN [job EXCEPT ![j] = Transitioned(row, status, "finalize", FALSE)]
                           ELSE job
        /\ api' = [api EXCEPT ![j].pc =
                     IF legal /\ api[j].pc = "localized" THEN "saving" ELSE "idle"]
        /\ UNCHANGED <<attempt, worker, calls, generation, asset>>
        /\ UNCHANGED outboxVars

\* Another writer moved the version between the two reads: StaleJobVersion.
ApiMarkStale(j) ==
    /\ api[j].pc \in {"completed", "localized", "failed"}
    /\ api' = [api EXCEPT ![j].pc = "idle"]
    /\ UNCHANGED workVars
    /\ UNCHANGED outboxVars

\* save_generated_asset with the job id, after the mark and in a transaction of
\* its own: assets.job_id is no foreign key, so the job may be gone by now.
\* The file may be gone too, or linked to an earlier job; errors are logged.
ApiSaveAsset(j) ==
    /\ api[j].pc = "saving"
    /\ \E saved \in BOOLEAN : asset' = [asset EXCEPT ![j] = @ \/ saved]
    /\ api' = [api EXCEPT ![j].pc = "idle"]
    /\ UNCHANGED <<job, attempt, worker, calls, generation>>
    /\ UNCHANGED outboxVars

ApiStep(j) == ApiPoll(j) \/ ApiMark(j) \/ ApiMarkStale(j) \/ ApiSaveAsset(j)
=============================================================================
