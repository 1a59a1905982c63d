------------------------------- MODULE Outbox -------------------------------
(***************************************************************************)
(* The transactional outbox (repositories/job_dispatches.py) and the       *)
(* dispatcher processes that drain it (services/job_dispatcher.py).  Each  *)
(* repository call is one BEGIN IMMEDIATE transaction, hence one step; a   *)
(* dispatcher holds no lock between two of them.                           *)
(*                                                                         *)
(* Time is abstract: an available_at in the future is a pending row that   *)
(* nobody has claimed yet, a lease is held until LeaseExpires.  A claim    *)
(* token (a fresh uuid per batch) is the dispatcher's name: a dispatcher   *)
(* has one batch at a time and only ever presents the token of that batch. *)
(***************************************************************************)
EXTENDS JobTables

CONSTANTS
    Dispatch,             \* dispatch ids: the bound on rows ever created
    NoDispatch,           \* "no row"
    NoJob,                \* job_id of an unused row
    Dispatcher,           \* dispatcher processes
    NoToken,              \* claim_token IS NULL
    BatchSize,            \* dispatcher_batch_size
    MaxDispatchAttempts   \* dispatch_max_attempts

ASSUME DispatchAssumption == NoDispatch \notin Dispatch
ASSUME NoJobAssumption == NoJob \notin Job
ASSUME TokenAssumption == NoToken \notin Dispatcher
ASSUME BatchAssumption == BatchSize \in Nat \ {0}
ASSUME DispatchAttemptsAssumption == MaxDispatchAttempts \in Nat \ {0}

VARIABLES
    dispatch,     \* the job_dispatches table
    dispatcher,   \* what each dispatcher process is doing
    queue,        \* messages the broker will hand to a worker
    sent          \* dispatches the broker accepted at least once

outboxVars == <<dispatch, dispatcher, queue, sent>>

DispatchStatuses ==
    {"none", "pending", "publishing", "published", "failed", "deleted"}

DispatchRows ==
    [status: DispatchStatuses, job: Job \cup {NoJob}, stage: Stages,
     attempt: AttemptNumbers, token: Dispatcher \cup {NoToken},
     expired: BOOLEAN, tries: 0..MaxDispatchAttempts]

DispatcherStates ==
    [pc: {"idle", "publish", "run", "mark", "release"},
     batch: SUBSET Dispatch, row: Dispatch \cup {NoDispatch}]

OutboxTypeOK ==
    /\ dispatch \in [Dispatch -> DispatchRows]
    /\ dispatcher \in [Dispatcher -> DispatcherStates]
    /\ queue \in SUBSET Dispatch
    /\ sent \in SUBSET Dispatch

UnusedRow ==
    [status |-> "none", job |-> NoJob, stage |-> "admitted", attempt |-> 1,
     token |-> NoToken, expired |-> FALSE, tries |-> 0]

IdleDispatcher == [pc |-> "idle", batch |-> {}, row |-> NoDispatch]

OutboxInit ==
    /\ dispatch = [d \in Dispatch |-> UnusedRow]
    /\ dispatcher = [p \in Dispatcher |-> IdleDispatcher]
    /\ queue = {}
    /\ sent = {}

(***************************************************************************)
(* create_job_dispatch: a pending row under a fresh id.                    *)
(***************************************************************************)
HasFreeRow == \E d \in Dispatch : dispatch[d].status = "none"

FreshDispatch == CHOOSE d \in Dispatch : dispatch[d].status = "none"

\* Mutant: a follow-up dispatch reuses the first attempt number.
PendingRowReusing(j, stage, a) ==
    [status |-> "pending", job |-> j, stage |-> stage, attempt |-> 1,
     token |-> NoToken, expired |-> FALSE, tries |-> 0]

PendingRow(j, stage, a) ==
    [status |-> "pending", job |-> j, stage |-> stage, attempt |-> a,
     token |-> NoToken, expired |-> FALSE, tries |-> 0]

WithDispatch(rows, j, stage, a) ==
    [rows EXCEPT ![FreshDispatch] = PendingRow(j, stage, a)]

(***************************************************************************)
(* claim_pending_dispatches: due pending rows, and publishing rows whose   *)
(* lease ran out, are leased to the caller.  attempt_count is only ever    *)
(* compared with max_attempts from above, so it saturates there.           *)
(***************************************************************************)
Claimable ==
    {d \in Dispatch : \/ dispatch[d].status = "pending"
                      \/ dispatch[d].status = "publishing" /\ dispatch[d].expired}

SmallerOf(m, n) == IF m < n THEN m ELSE n

LeasedTo(row, p) ==
    [row EXCEPT !.status = "publishing", !.token = p, !.expired = FALSE,
                !.tries = SmallerOf(row.tries + 1, MaxDispatchAttempts)]

ClaimPendingDispatches(p) ==
    /\ dispatcher[p].pc = "idle"
    /\ Claimable # {}
    /\ \E batch \in SUBSET Claimable :
         /\ Cardinality(batch) = SmallerOf(BatchSize, Cardinality(Claimable))
         /\ dispatch' = [d \in Dispatch |-> IF d \in batch THEN LeasedTo(dispatch[d], p)
                                                            ELSE dispatch[d]]
         /\ dispatcher' = [dispatcher EXCEPT ![p] =
                             [pc |-> "publish", batch |-> batch, row |-> NoDispatch]]
    /\ UNCHANGED <<queue, sent>>

\* The lease of a row runs out while its holder is slow, crashed or lost.
LeaseExpires(d) ==
    /\ dispatch[d].status = "publishing"
    /\ ~dispatch[d].expired
    /\ dispatch' = [dispatch EXCEPT ![d].expired = TRUE]
    /\ UNCHANGED <<dispatcher, queue, sent>>

\* The loop of dispatch_once moves on to the next row of its batch.
NextRow(p) ==
    LET rest == dispatcher[p].batch \ {dispatcher[p].row}
    IN  IF rest = {} THEN IdleDispatcher
                     ELSE [pc |-> "publish", batch |-> rest, row |-> NoDispatch]

(***************************************************************************)
(* CeleryQueueBackend.publish.  The dispatch_claimed event is written      *)
(* first: its foreign key fails when cleanup has deleted the job, and the  *)
(* loop goes to the release path instead.                                  *)
(***************************************************************************)
Publish(p) ==
    /\ dispatcher[p].pc = "publish"
    /\ \E d \in dispatcher[p].batch :
         /\ dispatch[d].status # "deleted"
         /\ queue' = queue \cup {d}
         /\ sent' = sent \cup {d}
         /\ dispatcher' = [dispatcher EXCEPT ![p].pc = "mark", ![p].row = d]
    /\ UNCHANGED dispatch

\* The row's job is gone: the event insert fails before anything is sent.
PublishDeleted(p) ==
    /\ dispatcher[p].pc = "publish"
    /\ \E d \in dispatcher[p].batch :
         /\ dispatch[d].status = "deleted"
         /\ dispatcher' = [dispatcher EXCEPT ![p].pc = "release", ![p].row = d]
    /\ UNCHANGED <<dispatch, queue, sent>>

\* publish raises: the broker refused the message, or took it and the
\* acknowledgement was lost.
PublishFails(p) ==
    /\ dispatcher[p].pc = "publish"
    /\ \E d \in dispatcher[p].batch :
         /\ dispatcher' = [dispatcher EXCEPT ![p].pc = "release", ![p].row = d]
         /\ \/ UNCHANGED <<queue, sent>>
            \/ queue' = queue \cup {d} /\ sent' = sent \cup {d}
    /\ UNCHANGED dispatch

\* Mutant: the row is updated by id alone.
HoldsClaimById(p, d) == dispatch[d].status # "deleted"

\* The WHERE clause of mark_dispatch_published and release_dispatch.
HoldsClaim(p, d) == dispatch[d].status = "publishing" /\ dispatch[d].token = p

Unleased(row, status) ==
    [row EXCEPT !.status = status, !.token = NoToken, !.expired = FALSE]

(***************************************************************************)
(* mark_dispatch_published; OutboxClaimLost leaves the row to its new      *)
(* holder, and the broker id already obtained keeps the loop from          *)
(* releasing it.                                                           *)
(***************************************************************************)
MarkDispatchPublished(p) ==
    LET d == dispatcher[p].row
    IN  /\ dispatcher[p].pc = "mark"
        /\ dispatch' = IF HoldsClaim(p, d)
                       THEN [dispatch EXCEPT ![d] = Unleased(dispatch[d], "published")]
                       ELSE dispatch
        /\ dispatcher' = [dispatcher EXCEPT ![p] = NextRow(p)]
        /\ UNCHANGED <<queue, sent>>

\* The acknowledgement transaction fails: the row stays leased until expiry.
MarkFails(p) ==
    /\ dispatcher[p].pc = "mark"
    /\ dispatcher' = [dispatcher EXCEPT ![p] = NextRow(p)]
    /\ UNCHANGED <<dispatch, queue, sent>>

(***************************************************************************)
(* release_dispatch: back to pending, or failed for good once the publish  *)
(* attempts are used up.                                                   *)
(***************************************************************************)
ReleaseDispatch(p) ==
    LET d == dispatcher[p].row
        status == IF dispatch[d].tries >= MaxDispatchAttempts THEN "failed" ELSE "pending"
    IN  /\ dispatcher[p].pc = "release"
        /\ dispatch' = IF HoldsClaim(p, d)
                       THEN [dispatch EXCEPT ![d] = Unleased(dispatch[d], status)]
                       ELSE dispatch
        /\ dispatcher' = [dispatcher EXCEPT ![p] = NextRow(p)]
        /\ UNCHANGED <<queue, sent>>

\* A database error in the release path leaves dispatch_once; a process crash
\* does the same at any point.  Rows of the batch stay leased.
AbandonBatch(p) ==
    /\ dispatcher[p].pc # "idle"
    /\ dispatcher' = [dispatcher EXCEPT ![p] = IdleDispatcher]
    /\ UNCHANGED <<dispatch, queue, sent>>

DispatcherStep(p) ==
    \/ ClaimPendingDispatches(p)
    \/ Publish(p)
    \/ PublishDeleted(p)
    \/ MarkDispatchPublished(p)
    \/ ReleaseDispatch(p)

DispatcherFault(p) == PublishFails(p) \/ MarkFails(p) \/ AbandonBatch(p)
=============================================================================
