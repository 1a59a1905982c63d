------------------------ MODULE CeleryGatewayProofs ------------------------
(***************************************************************************)
(* Theorems about CeleryGateway for any sets of jobs, dispatches,          *)
(* dispatchers and workers and any limits: the state stays well formed, no *)
(* dispatch asks for an attempt past the limit, and a published row is     *)
(* never taken back.                                                       *)
(***************************************************************************)
EXTENDS CeleryGateway, TLAPS

(***************************************************************************)
(* The outbox: each step keeps the table well formed, keeps what a row     *)
(* says about its job, and only ever names rows that were created.         *)
(***************************************************************************)
\* Rows that create_job_dispatch has written.
Created == {d \in Dispatch : dispatch[d].status # "none"}

\* Messages and batches refer to rows that exist.
ReferencesCreated ==
    /\ queue \subseteq Created
    /\ \A p \in Dispatcher : dispatcher[p].batch \subseteq Created

\* What a created row asks for: a stage of a job, within the attempt limit,
\* and a billable stage only as the first attempt.
RowsWellFormed ==
    \A d \in Created :
       /\ dispatch[d].job \in Job
       /\ dispatch[d].stage \in {"image_generate", "video_submit", "video_poll", "asset_import"}
       /\ dispatch[d].attempt \in 1..MaxAttempts
       /\ dispatch[d].stage \in {"image_generate", "video_submit"} => dispatch[d].attempt = 1

\* A row that was never created belongs to no job.
UnusedRowsFree == \A d \in Dispatch \ Created : dispatch[d].job = NoJob

OutboxInv == OutboxTypeOK /\ ReferencesCreated /\ RowsWellFormed /\ UnusedRowsFree

\* A row that is still to be delivered, was delivered, or was given up only
\* after dispatch_max_attempts.
Alive(d) ==
    \/ dispatch[d].status \in {"pending", "publishing", "published"}
    \/ dispatch[d].status = "failed" /\ dispatch[d].tries = MaxDispatchAttempts

\* No step deletes a row or changes what it asks for.
RowsKept ==
    \A d \in Created :
       /\ dispatch'[d].status # "none"
       /\ dispatch'[d].job = dispatch[d].job
       /\ dispatch'[d].stage = dispatch[d].stage
       /\ dispatch'[d].attempt = dispatch[d].attempt

-----------------------------------------------------------------------------
\* A row keeps its type through a lease, a release and a change of status.
LEMMA RowUpdates ==
    ASSUME NEW row \in DispatchRows, NEW p \in Dispatcher,
           NEW status \in DispatchStatuses
    PROVE  /\ LeasedTo(row, p) \in DispatchRows
           /\ Unleased(row, status) \in DispatchRows
           /\ [row EXCEPT !.expired = TRUE] \in DispatchRows
           /\ [row EXCEPT !.status = status] \in DispatchRows
<1>1. SmallerOf(row.tries + 1, MaxDispatchAttempts) \in 0..MaxDispatchAttempts
  BY DispatchAttemptsAssumption DEF SmallerOf, DispatchRows
<1>2. LeasedTo(row, p) \in DispatchRows
  BY <1>1 DEF LeasedTo, DispatchRows, DispatchStatuses
<1> QED
  BY <1>2 DEF Unleased, DispatchRows, DispatchStatuses

\* A lease, a release and a change of status leave job, stage and attempt.
LEMMA RowUpdatesKeep ==
    ASSUME NEW row \in DispatchRows, NEW p \in Dispatcher,
           NEW status \in DispatchStatuses
    PROVE  /\ LeasedTo(row, p).status = "publishing"
           /\ Unleased(row, status).status = status
           /\ \A r \in {LeasedTo(row, p), Unleased(row, status)} :
                r.job = row.job /\ r.stage = row.stage /\ r.attempt = row.attempt
  BY DEF LeasedTo, Unleased, DispatchRows

\* The fresh id is an unused row.
LEMMA FreshIsUnused ==
    ASSUME HasFreeRow
    PROVE  FreshDispatch \in Dispatch /\ dispatch[FreshDispatch].status = "none"
  BY DEF HasFreeRow, FreshDispatch

\* The row create_job_dispatch writes.
LEMMA PendingRowType ==
    ASSUME NEW j \in Job, NEW stage \in Stages, NEW a \in AttemptNumbers
    PROVE  /\ PendingRow(j, stage, a) \in DispatchRows
           /\ PendingRow(j, stage, a).status = "pending"
           /\ PendingRow(j, stage, a).job = j
           /\ PendingRow(j, stage, a).stage = stage
           /\ PendingRow(j, stage, a).attempt = a
  BY DispatchAttemptsAssumption DEF PendingRow, DispatchRows, DispatchStatuses

\* create_job_dispatch writes the fresh row and no other.
LEMMA CreatedRow ==
    ASSUME HasFreeRow, NEW rows \in [Dispatch -> DispatchRows], NEW j, NEW stage, NEW a
    PROVE  /\ WithDispatch(rows, j, stage, a)[FreshDispatch] = PendingRow(j, stage, a)
           /\ \A d \in Dispatch \ {FreshDispatch} :
                WithDispatch(rows, j, stage, a)[d] = rows[d]
  BY FreshIsUnused DEF WithDispatch

\* A step that changes rows one by one, each to a typed row that keeps what it
\* asks for, keeps the table's part of the invariant.
LEMMA TableKept ==
    ASSUME OutboxInv,
           dispatch' \in [Dispatch -> DispatchRows],
           \A d \in Dispatch :
              \/ dispatch'[d] = dispatch[d]
              \/ /\ dispatch'[d].status # "none"
                 /\ dispatch[d].status # "none"
                 /\ dispatch'[d].job = dispatch[d].job
                 /\ dispatch'[d].stage = dispatch[d].stage
                 /\ dispatch'[d].attempt = dispatch[d].attempt
    PROVE  /\ Created' = Created
           /\ RowsWellFormed' /\ UnusedRowsFree'
           /\ RowsKept
<1>1. Created' = Created
  BY DEF Created
<1>2. RowsWellFormed' /\ UnusedRowsFree'
  BY <1>1 DEF OutboxInv, RowsWellFormed, UnusedRowsFree, Created
<1>3. RowsKept
  BY DEF RowsKept, Created
<1> QED
  BY <1>1, <1>2, <1>3

\* A new pending row for a billable stage as attempt 1, or for a later stage
\* within the limit, keeps the invariant and every other row.
LEMMA CreateKeeps ==
    ASSUME OutboxInv, HasFreeRow,
           NEW j \in Job, NEW stage, NEW a \in 1..MaxAttempts,
           \/ stage \in {"video_poll", "asset_import"}
           \/ stage \in {"image_generate", "video_submit"} /\ a = 1,
           dispatch' = WithDispatch(dispatch, j, stage, a),
           UNCHANGED <<dispatcher, queue, sent>>
    PROVE  OutboxInv' /\ RowsKept
<1> DEFINE f == FreshDispatch
           r == PendingRow(j, stage, a)
<1>1. f \in Dispatch /\ dispatch[f].status = "none"
  BY FreshIsUnused
<1>2. /\ r \in DispatchRows
      /\ r.status = "pending" /\ r.job = j /\ r.stage = stage /\ r.attempt = a
  <2>1. stage \in Stages /\ a \in AttemptNumbers
    BY MaxAttemptsAssumption DEF Stages, AttemptNumbers
  <2> QED
    BY <2>1, PendingRowType
<1>3. dispatch \in [Dispatch -> DispatchRows]
  BY DEF OutboxInv, OutboxTypeOK
<1>4. dispatch' = [dispatch EXCEPT ![f] = r]
  BY DEF WithDispatch
<1> HIDE DEF f, r
<1>5. dispatch' \in [Dispatch -> DispatchRows]
  BY <1>1, <1>2, <1>3, <1>4
<1>6. Created \subseteq Created' /\ RowsKept
  BY <1>1, <1>2, <1>3, <1>4 DEF Created, RowsKept
<1>7. RowsWellFormed' /\ UnusedRowsFree'
  BY <1>1, <1>2, <1>3, <1>4 DEF OutboxInv, RowsWellFormed, UnusedRowsFree, Created
<1>8. OutboxTypeOK'
  BY <1>5 DEF OutboxInv, OutboxTypeOK
<1>9. ReferencesCreated'
  BY <1>6 DEF OutboxInv, ReferencesCreated
<1> QED
  BY <1>6, <1>7, <1>8, <1>9 DEF OutboxInv

\* NextRow only ever shrinks the batch.
LEMMA NextRowType ==
    ASSUME OutboxInv, NEW p \in Dispatcher
    PROVE  NextRow(p) \in DispatcherStates /\ NextRow(p).batch \subseteq Created
<1>1. dispatcher[p].batch \subseteq Created /\ dispatcher[p].batch \subseteq Dispatch
  BY DEF OutboxInv, OutboxTypeOK, ReferencesCreated, DispatcherStates
<1> QED
  BY <1>1 DEF NextRow, IdleDispatcher, DispatcherStates

\* A process that takes an idle or typed state with a created batch.
LEMMA DispatcherMoves ==
    ASSUME OutboxInv, NEW p \in Dispatcher, NEW s \in DispatcherStates,
           s.batch \subseteq Created', dispatcher' = [dispatcher EXCEPT ![p] = s],
           Created \subseteq Created'
    PROVE  /\ dispatcher' \in [Dispatcher -> DispatcherStates]
           /\ \A q \in Dispatcher : dispatcher'[q].batch \subseteq Created'
  BY DEF OutboxInv, OutboxTypeOK, ReferencesCreated

\* Setting pc and row of a process leaves its batch.
LEMMA DispatcherTakes ==
    ASSUME OutboxInv, NEW p \in Dispatcher, NEW d \in Dispatch,
           NEW pc \in {"mark", "release", "run"},
           dispatcher' = [dispatcher EXCEPT ![p].pc = pc, ![p].row = d],
           Created \subseteq Created'
    PROVE  /\ dispatcher' \in [Dispatcher -> DispatcherStates]
           /\ \A q \in Dispatcher : dispatcher'[q].batch \subseteq Created'
  BY DEF OutboxInv, OutboxTypeOK, ReferencesCreated, DispatcherStates

\* Giving up or acknowledging a claimed row.
LEMMA ClaimEnds ==
    ASSUME OutboxInv, NEW p \in Dispatcher, NEW status \in {"published", "failed", "pending"},
           LET d == dispatcher[p].row
           IN  dispatch' = IF HoldsClaim(p, d)
                           THEN [dispatch EXCEPT ![d] = Unleased(dispatch[d], status)]
                           ELSE dispatch,
           dispatcher' = [dispatcher EXCEPT ![p] = NextRow(p)],
           UNCHANGED <<queue, sent>>
    PROVE  OutboxInv' /\ RowsKept
<1> DEFINE d == dispatcher[p].row
<1>1. dispatch \in [Dispatch -> DispatchRows] /\ status \in DispatchStatuses
  BY DEF OutboxInv, OutboxTypeOK, DispatchStatuses
<1>2. dispatch' \in [Dispatch -> DispatchRows]
  BY <1>1, RowUpdates
<1>3. \A e \in Dispatch :
        \/ dispatch'[e] = dispatch[e]
        \/ /\ dispatch'[e].status # "none"
           /\ dispatch[e].status # "none"
           /\ dispatch'[e].job = dispatch[e].job
           /\ dispatch'[e].stage = dispatch[e].stage
           /\ dispatch'[e].attempt = dispatch[e].attempt
  <2> SUFFICES ASSUME NEW e \in Dispatch, HoldsClaim(p, d), e = d
               PROVE  /\ dispatch'[e].status # "none"
                      /\ dispatch[e].status # "none"
                      /\ dispatch'[e].job = dispatch[e].job
                      /\ dispatch'[e].stage = dispatch[e].stage
                      /\ dispatch'[e].attempt = dispatch[e].attempt
    BY <1>1
  <2>1. dispatch'[e] = Unleased(dispatch[e], status)
    BY <1>1
  <2>2. dispatch[e].status = "publishing"
    BY DEF HoldsClaim
  <2> QED
    BY <1>1, <2>1, <2>2, RowUpdatesKeep
<1>4. Created' = Created /\ RowsWellFormed' /\ UnusedRowsFree' /\ RowsKept
  BY <1>2, <1>3, TableKept
<1>5. /\ dispatcher' \in [Dispatcher -> DispatcherStates]
      /\ \A q \in Dispatcher : dispatcher'[q].batch \subseteq Created'
  BY <1>4, NextRowType, DispatcherMoves
<1> QED
  BY <1>2, <1>4, <1>5 DEF OutboxInv, OutboxTypeOK, ReferencesCreated

\* The invariant is kept when the table is not written.
LEMMA TableUntouched ==
    ASSUME OutboxInv, UNCHANGED dispatch,
           dispatcher' \in [Dispatcher -> DispatcherStates],
           \A q \in Dispatcher : dispatcher'[q].batch \subseteq Created',
           queue' \subseteq Created, sent' \subseteq Dispatch
    PROVE  OutboxInv' /\ RowsKept
<1>1. Created' = Created /\ RowsWellFormed' /\ UnusedRowsFree' /\ RowsKept
  BY TableKept DEF OutboxInv, OutboxTypeOK
<1> QED
  BY <1>1 DEF OutboxInv, OutboxTypeOK, ReferencesCreated, Created

\* claim_pending_dispatches keeps the invariant.
LEMMA ClaimPendingKeeps ==
    ASSUME OutboxInv, NEW p \in Dispatcher, ClaimPendingDispatches(p)
    PROVE  OutboxInv' /\ RowsKept
<1>1. PICK batch \in SUBSET Claimable :
        /\ dispatch' = [d \in Dispatch |-> IF d \in batch THEN LeasedTo(dispatch[d], p)
                                                          ELSE dispatch[d]]
        /\ dispatcher' = [dispatcher EXCEPT ![p] =
                            [pc |-> "publish", batch |-> batch, row |-> NoDispatch]]
  BY DEF ClaimPendingDispatches
<1>2. dispatch \in [Dispatch -> DispatchRows]
  BY DEF OutboxInv, OutboxTypeOK
<1>3. dispatch' \in [Dispatch -> DispatchRows]
  <2> SUFFICES ASSUME NEW d \in Dispatch
               PROVE  LeasedTo(dispatch[d], p) \in DispatchRows
    BY <1>1, <1>2
  <2> QED
    BY <1>2, RowUpdates DEF DispatchStatuses
<1>4. batch \subseteq Created
  BY DEF Claimable, Created
<1>5. \A d \in Dispatch :
        \/ dispatch'[d] = dispatch[d]
        \/ /\ dispatch'[d].status # "none"
           /\ dispatch[d].status # "none"
           /\ dispatch'[d].job = dispatch[d].job
           /\ dispatch'[d].stage = dispatch[d].stage
           /\ dispatch'[d].attempt = dispatch[d].attempt
  <2> SUFFICES ASSUME NEW d \in batch
               PROVE  /\ dispatch'[d].status # "none"
                      /\ dispatch[d].status # "none"
                      /\ dispatch'[d].job = dispatch[d].job
                      /\ dispatch'[d].stage = dispatch[d].stage
                      /\ dispatch'[d].attempt = dispatch[d].attempt
    BY <1>1
  <2>1. d \in Dispatch /\ dispatch[d].status # "none"
    BY <1>4 DEF Created
  <2>2. dispatch'[d] = LeasedTo(dispatch[d], p)
    BY <1>1, <2>1
  <2> QED
    BY <1>2, <2>1, <2>2, RowUpdatesKeep DEF DispatchStatuses
<1>6. Created' = Created /\ RowsWellFormed' /\ UnusedRowsFree' /\ RowsKept
  BY <1>3, <1>5, TableKept
<1>7. [pc |-> "publish", batch |-> batch, row |-> NoDispatch] \in DispatcherStates
  BY <1>4 DEF DispatcherStates, Created
<1>8. /\ dispatcher' \in [Dispatcher -> DispatcherStates]
      /\ \A q \in Dispatcher : dispatcher'[q].batch \subseteq Created'
  BY <1>1, <1>4, <1>6, <1>7, DispatcherMoves
<1> QED
  BY <1>3, <1>6, <1>8 DEF OutboxInv, OutboxTypeOK, ReferencesCreated, ClaimPendingDispatches

\* The end of a lease keeps the invariant.
LEMMA LeaseExpiresKeeps ==
    ASSUME OutboxInv, NEW d \in Dispatch, LeaseExpires(d)
    PROVE  OutboxInv' /\ RowsKept
<1>1. dispatch \in [Dispatch -> DispatchRows]
  BY DEF OutboxInv, OutboxTypeOK
<1>2. dispatch' \in [Dispatch -> DispatchRows]
  BY <1>1 DEF LeaseExpires, DispatchRows
<1>3. \A e \in Dispatch :
        \/ dispatch'[e] = dispatch[e]
        \/ /\ dispatch'[e].status # "none"
           /\ dispatch[e].status # "none"
           /\ dispatch'[e].job = dispatch[e].job
           /\ dispatch'[e].stage = dispatch[e].stage
           /\ dispatch'[e].attempt = dispatch[e].attempt
  BY <1>1 DEF LeaseExpires, DispatchRows
<1>4. Created' = Created /\ RowsWellFormed' /\ UnusedRowsFree' /\ RowsKept
  BY <1>2, <1>3, TableKept
<1> QED
  BY <1>2, <1>4 DEF OutboxInv, OutboxTypeOK, ReferencesCreated, LeaseExpires

\* Taking a row of the batch, with or without its message reaching the broker.
LEMMA TakeRowKeeps ==
    ASSUME OutboxInv, NEW p \in Dispatcher, NEW d \in dispatcher[p].batch,
           NEW pc \in {"mark", "release"},
           dispatcher' = [dispatcher EXCEPT ![p].pc = pc, ![p].row = d],
           UNCHANGED dispatch,
           \/ UNCHANGED <<queue, sent>>
           \/ queue' = queue \cup {d} /\ sent' = sent \cup {d}
    PROVE  OutboxInv' /\ RowsKept
<1>1. Created' = Created
  BY DEF Created
<1>2. d \in Created /\ d \in Dispatch
  BY DEF OutboxInv, OutboxTypeOK, ReferencesCreated, Created
<1>3. /\ dispatcher' \in [Dispatcher -> DispatcherStates]
      /\ \A q \in Dispatcher : dispatcher'[q].batch \subseteq Created'
  BY <1>1, <1>2, DispatcherTakes
<1>4. queue' \subseteq Created /\ sent' \subseteq Dispatch
  BY <1>2 DEF OutboxInv, OutboxTypeOK, ReferencesCreated
<1> QED
  BY <1>3, <1>4, TableUntouched

\* Every step and every fault of a dispatcher process keeps the invariant.
LEMMA DispatcherKeeps ==
    ASSUME OutboxInv, NEW p \in Dispatcher, DispatcherStep(p) \/ DispatcherFault(p)
    PROVE  OutboxInv' /\ RowsKept
<1>1. CASE ClaimPendingDispatches(p)
  BY <1>1, ClaimPendingKeeps
<1>2. CASE Publish(p)
  BY <1>2, TakeRowKeeps DEF Publish
<1>3. CASE PublishDeleted(p)
  BY <1>3, TakeRowKeeps DEF PublishDeleted
<1>4. CASE PublishFails(p)
  BY <1>4, TakeRowKeeps DEF PublishFails
<1>5. CASE MarkDispatchPublished(p)
  BY <1>5, ClaimEnds DEF MarkDispatchPublished
<1>6. CASE ReleaseDispatch(p)
  BY <1>6, ClaimEnds DEF ReleaseDispatch
<1>7. ASSUME NEW s \in DispatcherStates, s.batch \subseteq Created,
             dispatcher' = [dispatcher EXCEPT ![p] = s], UNCHANGED <<dispatch, queue, sent>>
      PROVE  OutboxInv' /\ RowsKept
  <2>1. Created' = Created
    BY <1>7 DEF Created
  <2>2. /\ dispatcher' \in [Dispatcher -> DispatcherStates]
        /\ \A q \in Dispatcher : dispatcher'[q].batch \subseteq Created'
    BY <1>7, <2>1, DispatcherMoves
  <2> QED
    BY <1>7, <2>2, TableUntouched DEF OutboxInv, OutboxTypeOK, ReferencesCreated
<1>8. CASE MarkFails(p)
  BY <1>7, <1>8, NextRowType DEF MarkFails
<1>9. CASE AbandonBatch(p)
  <2>1. IdleDispatcher \in DispatcherStates /\ IdleDispatcher.batch \subseteq Created
    BY DEF IdleDispatcher, DispatcherStates
  <2> QED
    BY <1>7, <1>9, <2>1 DEF AbandonBatch
<1> QED
  BY <1>1, <1>2, <1>3, <1>4, <1>5, <1>6, <1>8, <1>9 DEF DispatcherStep, DispatcherFault

\* A dispatcher and the end of a lease leave published rows alone, lose no row
\* that is still alive, and never change what a row asks for.
LEMMA DispatcherRows ==
    ASSUME OutboxInv, NEW d \in Dispatch,
           \/ \E p \in Dispatcher : DispatcherStep(p) \/ DispatcherFault(p)
           \/ \E e \in Dispatch : LeaseExpires(e)
    PROVE  /\ dispatch[d].status = "published" => dispatch'[d] = dispatch[d]
           /\ Alive(d) => Alive(d)'
           /\ dispatch'[d].job = dispatch[d].job
           /\ dispatch'[d].stage = dispatch[d].stage
           /\ dispatch'[d].attempt = dispatch[d].attempt
<1>1. dispatch \in [Dispatch -> DispatchRows] /\ dispatch[d] \in DispatchRows
  BY DEF OutboxInv, OutboxTypeOK
<1>2. CASE dispatch'[d] = dispatch[d]
  BY <1>2 DEF Alive
<1>3. ASSUME NEW e \in Dispatch, LeaseExpires(e), dispatch'[d] # dispatch[d]
      PROVE  /\ dispatch'[d] = [dispatch[d] EXCEPT !.expired = TRUE]
             /\ dispatch[d].status = "publishing"
  BY <1>1, <1>3 DEF LeaseExpires
<1>4. ASSUME NEW p \in Dispatcher, ClaimPendingDispatches(p), dispatch'[d] # dispatch[d]
      PROVE  dispatch'[d] = LeasedTo(dispatch[d], p) /\ dispatch[d].status # "published"
  BY <1>1, <1>4 DEF ClaimPendingDispatches, Claimable
<1>5. ASSUME NEW p \in Dispatcher, MarkDispatchPublished(p), dispatch'[d] # dispatch[d]
      PROVE  /\ dispatch'[d] = Unleased(dispatch[d], "published")
             /\ dispatch[d].status = "publishing"
  BY <1>1, <1>5 DEF MarkDispatchPublished, HoldsClaim
<1>6. ASSUME NEW p \in Dispatcher, ReleaseDispatch(p), dispatch'[d] # dispatch[d]
      PROVE  /\ \/ dispatch'[d] = Unleased(dispatch[d], "pending")
                \/ /\ dispatch'[d] = Unleased(dispatch[d], "failed")
                   /\ dispatch[d].tries = MaxDispatchAttempts
             /\ dispatch[d].status = "publishing"
  BY <1>1, <1>6, DispatchAttemptsAssumption DEF ReleaseDispatch, HoldsClaim, DispatchRows
<1>7. \A status \in DispatchStatuses :
        /\ Unleased(dispatch[d], status).status = status
        /\ Unleased(dispatch[d], status).tries = dispatch[d].tries
  BY <1>1 DEF Unleased, DispatchRows
<1>8. \A p \in Dispatcher : LeasedTo(dispatch[d], p).status = "publishing"
  BY <1>1 DEF LeasedTo, DispatchRows
<1>9. \/ dispatch'[d] = dispatch[d]
      \/ \E e \in Dispatch : LeaseExpires(e)
      \/ \E p \in Dispatcher :
           ClaimPendingDispatches(p) \/ MarkDispatchPublished(p) \/ ReleaseDispatch(p)
  BY DEF DispatcherStep, DispatcherFault, Publish, PublishDeleted, PublishFails, MarkFails,
         AbandonBatch
<1>10. ASSUME dispatch'[d] # dispatch[d]
       PROVE  /\ dispatch[d].status # "published"
              /\ Alive(d)'
              /\ \/ dispatch'[d] = [dispatch[d] EXCEPT !.expired = TRUE]
                 \/ \E p \in Dispatcher : dispatch'[d] = LeasedTo(dispatch[d], p)
                 \/ \E status \in DispatchStatuses : dispatch'[d] = Unleased(dispatch[d], status)
  <2>1. CASE \E e \in Dispatch : LeaseExpires(e)
    BY <1>1, <1>3, <1>10, <2>1 DEF Alive, DispatchRows
  <2>2. CASE \E p \in Dispatcher : ClaimPendingDispatches(p)
    BY <1>4, <1>8, <1>10, <2>2 DEF Alive
  <2>3. CASE \E p \in Dispatcher : MarkDispatchPublished(p)
    BY <1>5, <1>7, <1>10, <2>3 DEF Alive, DispatchStatuses
  <2>4. CASE \E p \in Dispatcher : ReleaseDispatch(p)
    BY <1>6, <1>7, <1>10, <2>4 DEF Alive, DispatchStatuses
  <2> QED
    BY <1>9, <1>10, <2>1, <2>2, <2>3, <2>4
<1>11. ASSUME dispatch'[d] # dispatch[d]
       PROVE  /\ dispatch'[d].job = dispatch[d].job
              /\ dispatch'[d].stage = dispatch[d].stage
              /\ dispatch'[d].attempt = dispatch[d].attempt
  BY <1>1, <1>10, <1>11 DEF LeasedTo, Unleased, DispatchRows
<1> QED
  BY <1>2, <1>10, <1>11

-----------------------------------------------------------------------------
(***************************************************************************)
(* The invariant of the deployment                                         *)
(***************************************************************************)
\* A busy worker holds a created message.
MessagesCreated ==
    \A w \in Worker : worker[w].pc # "idle" => worker[w].msg \in Created

\* A poll about to schedule another stage was made below the attempt limit.
PollsBelowLimit ==
    \A w \in Worker :
       /\ worker[w].pc = "persist"
       /\ Msg(w).stage = "video_poll"
       /\ worker[w].res \in {"pending", "completed"}
       => Msg(w).attempt < MaxAttempts

WorkInv == WorkTypeOK /\ MessagesCreated /\ PollsBelowLimit

\* The inductive strengthening of TypeOK and AttemptWithinLimit.
GatewayInv == OutboxInv /\ WorkInv /\ ApiTypeOK /\ faults \in 0..MaxFaults

-----------------------------------------------------------------------------
(***************************************************************************)
(* Rows of the jobs and job_attempts tables                                *)
(***************************************************************************)
\* A transition that passes its checks writes a typed row of the job's kind.
LEMMA TransitionType ==
    ASSUME NEW kind, NEW row \in JobRows, NEW version, NEW status \in ValidStatuses,
           NEW stage \in Stages, NEW task \in BOOLEAN,
           CanTransition(kind, row, version, status, stage)
    PROVE  /\ Transitioned(row, status, stage, task) \in JobRows
           /\ Transitioned(row, status, stage, task).stage \in StagesByKind[kind]
           /\ Transitioned(row, status, stage, task).status = status
  BY DEF Transitioned, JobRows, RowStatuses, CanTransition

\* The claim writes a typed row of the same stage.
LEMMA ClaimedType ==
    ASSUME NEW row \in JobRows
    PROVE  /\ Claimed(row) \in JobRows
           /\ Claimed(row).stage = row.stage
           /\ Claimed(row).status = "running"
           /\ row.version + 1 \in Nat
  BY DEF Claimed, JobRows, RowStatuses, ValidStatuses, ActiveStatuses

\* An admission writes a typed row of the job's kind.
LEMMA InsertedType ==
    ASSUME NEW j \in Job
    PROVE  /\ InsertedJob(KindOf[j]) \in JobRows
           /\ InsertedJob(KindOf[j]).stage \in StagesByKind[KindOf[j]]
           /\ InsertedJob(KindOf[j]).status = "queued"
           /\ AdmissionStage(KindOf[j]) \in {"image_generate", "video_submit"}
  BY KindAssumption
     DEF InsertedJob, AdmissionStage, StagesByKind, JobRows, RowStatuses, ValidStatuses,
         ActiveStatuses, Stages

\* A new and a finished attempt are typed; an attempt never disappears.
LEMMA AttemptUpdates ==
    ASSUME NEW rows \in [AttemptNumbers -> AttemptRows], NEW a \in AttemptNumbers,
           NEW stage \in Stages, NEW status \in {"succeeded", "failed"}
    PROVE  /\ WithAttempt(rows, a, stage) \in [AttemptNumbers -> AttemptRows]
           /\ WithAttempt(rows, a, stage)[a].status = "running"
           /\ WithFinished(rows, a, status) \in [AttemptNumbers -> AttemptRows]
           /\ \A b \in AttemptNumbers : rows[b].status # "none" =>
                 /\ WithAttempt(rows, a, stage)[b].status # "none"
                 /\ WithFinished(rows, a, status)[b].status # "none"
  BY DEF WithAttempt, WithFinished, AttemptRows

\* What a persisting transaction may write.
LEMMA OutcomeType ==
    ASSUME NEW stage, NEW a, NEW res
    PROVE  /\ Outcome(stage, a, res).status \in {"running", "succeeded", "failed"}
           /\ Outcome(stage, a, res).stage \in {"video_poll", "asset_import", "finalize"}
           /\ Outcome(stage, a, res).attempt \in {"succeeded", "failed"}
           /\ Outcome(stage, a, res).status = "running" =>
                /\ Outcome(stage, a, res).stage \in {"video_poll", "asset_import"}
                /\ \/ stage = "video_submit"
                   \/ stage = "video_poll" /\ res \in {"pending", "completed"}
                   \/ ~Exhausted(a)
  BY DEF Outcome, Succeeded, Failed, Scheduled, Retried

-----------------------------------------------------------------------------
(***************************************************************************)
(* Worker processes                                                        *)
(***************************************************************************)
\* A worker state that fits the invariant.
FitsWorker(s) ==
    /\ s \in WorkerStates
    /\ s.pc # "idle" => s.msg \in Created
    /\ s.pc = "persist" /\ dispatch[s.msg].stage = "video_poll"
                        /\ s.res \in {"pending", "completed"}
       => dispatch[s.msg].attempt < MaxAttempts

\* The state a worker takes decides about the workers' part of the invariant.
LEMMA WorkerMoves ==
    ASSUME WorkInv, RowsKept, NEW w \in Worker, NEW s, FitsWorker(s),
           Created \subseteq Created',
           worker' = [worker EXCEPT ![w] = s]
    PROVE  /\ worker' \in [Worker -> WorkerStates]
           /\ MessagesCreated'
           /\ PollsBelowLimit'
<1>1. worker' \in [Worker -> WorkerStates]
  BY DEF WorkInv, WorkTypeOK, FitsWorker
<1>2. MessagesCreated'
  BY DEF WorkInv, WorkTypeOK, MessagesCreated, FitsWorker
<1>3. PollsBelowLimit'
  <2> SUFFICES ASSUME NEW v \in Worker,
                      worker'[v].pc = "persist",
                      Msg(v)'.stage = "video_poll",
                      worker'[v].res \in {"pending", "completed"}
               PROVE  Msg(v)'.attempt < MaxAttempts
    BY DEF PollsBelowLimit
  <2>1. CASE v = w
    <3>1. worker'[v] = s /\ s.msg \in Created
      BY <2>1 DEF WorkInv, WorkTypeOK, FitsWorker
    <3> QED
      BY <3>1 DEF FitsWorker, RowsKept, Msg
  <2>2. CASE v # w
    <3>1. worker'[v] = worker[v] /\ worker[v].msg \in Created
      BY <2>2 DEF WorkInv, WorkTypeOK, MessagesCreated
    <3> QED
      BY <3>1 DEF WorkInv, PollsBelowLimit, RowsKept, Msg
  <2> QED
    BY <2>1, <2>2
<1> QED
  BY <1>1, <1>2, <1>3

\* The workers' part survives steps that leave the workers alone.
LEMMA WorkersUntouched ==
    ASSUME WorkInv, RowsKept, Created \subseteq Created', UNCHANGED worker
    PROVE  /\ worker' \in [Worker -> WorkerStates]
           /\ MessagesCreated'
           /\ PollsBelowLimit'
<1>1. MessagesCreated'
  BY DEF WorkInv, MessagesCreated
<1>2. PollsBelowLimit'
  <2> SUFFICES ASSUME NEW v \in Worker,
                      worker[v].pc = "persist",
                      Msg(v)'.stage = "video_poll",
                      worker[v].res \in {"pending", "completed"}
               PROVE  Msg(v)'.attempt < MaxAttempts
    BY DEF PollsBelowLimit
  <2>1. worker[v].msg \in Created
    BY DEF WorkInv, MessagesCreated
  <2> QED
    BY <2>1 DEF WorkInv, PollsBelowLimit, RowsKept, Msg
<1> QED
  BY <1>1, <1>2 DEF WorkInv, WorkTypeOK

\* An idle worker always fits.
LEMMA IdleFits == FitsWorker(IdleWorker)
  BY DEF FitsWorker, IdleWorker, WorkerStates, AbsentJob, JobRows, RowStatuses, Stages, Results

\* RowsKept means that created rows stay created.
LEMMA KeptStayCreated ==
    ASSUME RowsKept
    PROVE  Created \subseteq Created'
  BY DEF RowsKept, Created

\* Celery acknowledges every task: a handler's end leaves an idle worker.
LEMMA EndedIsIdle ==
    ASSUME NEW w, NEW verdict
    PROVE  Ended(w, verdict) = IdleWorker
  BY CeleryAssumption DEF Ended

\* A step that leaves the outbox alone.
LEMMA OutboxUntouched ==
    ASSUME OutboxInv, UNCHANGED outboxVars
    PROVE  OutboxInv' /\ RowsKept
  BY DEF outboxVars, OutboxInv, OutboxTypeOK, ReferencesCreated, RowsWellFormed,
         UnusedRowsFree, RowsKept, Created

\* The row of the message a busy worker holds.
LEMMA MessageRow ==
    ASSUME OutboxInv, WorkInv, NEW w \in Worker, worker[w].pc # "idle"
    PROVE  /\ worker[w].msg \in Created
           /\ Msg(w).job \in Job
           /\ Msg(w).stage \in {"image_generate", "video_submit", "video_poll", "asset_import"}
           /\ Msg(w).stage \in Stages
           /\ Msg(w).attempt \in 1..MaxAttempts
           /\ Msg(w).attempt \in AttemptNumbers
           /\ Msg(w).stage \in {"image_generate", "video_submit"} => Msg(w).attempt = 1
<1>1. worker[w].msg \in Created
  BY DEF WorkInv, MessagesCreated
<1> QED
  BY <1>1, MaxAttemptsAssumption DEF OutboxInv, RowsWellFormed, Msg, Stages, AttemptNumbers

\* WorkerRuntime.handle starts on a created message.
LEMMA StartedFits ==
    ASSUME OutboxInv, WorkInv, NEW d \in Created
    PROVE  FitsWorker(StartedOn(d)) /\ StartedOn(d).pc \in {"idle", "check"}
<1>1. CASE ~Exists(job[dispatch[d].job])
  <2>1. StartedOn(d) = IdleWorker
    BY <1>1, CeleryAssumption DEF StartedOn
  <2> QED
    BY <2>1, IdleFits DEF IdleWorker
<1>2. CASE Exists(job[dispatch[d].job])
  <2>1. StartedOn(d) = [IdleWorker EXCEPT !.pc = "check", !.msg = d,
                                          !.snap = job[dispatch[d].job]]
    BY <1>2 DEF StartedOn
  <2>2. job[dispatch[d].job] \in JobRows /\ d \in Dispatch
    BY DEF OutboxInv, RowsWellFormed, WorkInv, WorkTypeOK, Created
  <2>3. StartedOn(d) = [pc |-> "check", msg |-> d, snap |-> job[dispatch[d].job],
                        ver |-> 0, res |-> "none"]
    BY <2>1 DEF IdleWorker
  <2> QED
    BY <2>2, <2>3 DEF FitsWorker, WorkerStates, Results
<1> QED
  BY <1>1, <1>2

\* Reading the attempt keeps the invariant.
LEMMA CheckKeeps ==
    ASSUME OutboxInv, WorkInv, NEW w \in Worker, Check(w)
    PROVE  OutboxInv' /\ WorkInv' /\ RowsKept
<1>1. OutboxInv' /\ RowsKept /\ Created \subseteq Created'
  BY OutboxUntouched, KeptStayCreated DEF Check
<1>2. worker[w].pc = "check" /\ worker[w] \in WorkerStates /\ worker[w].msg \in Created
  BY DEF Check, WorkInv, WorkTypeOK, MessagesCreated
<1>3. FitsWorker([worker[w] EXCEPT !.pc = "claim"])
  BY <1>2 DEF FitsWorker, WorkerStates
<1>4. PICK s : FitsWorker(s) /\ worker' = [worker EXCEPT ![w] = s]
  BY <1>3, IdleFits, EndedIsIdle DEF Check
<1> QED
  BY <1>1, <1>4, WorkerMoves DEF WorkInv, WorkTypeOK, Check

\* What a worker does after its claim fits.
LEMMA AfterClaimFits ==
    ASSUME OutboxInv, WorkInv, NEW w \in Worker, worker[w].pc = "claim", NEW version \in Nat
    PROVE  FitsWorker(AfterClaim(w, version))
<1>1. worker[w] \in WorkerStates /\ worker[w].msg \in Created
  BY DEF WorkInv, WorkTypeOK, MessagesCreated
<1>2. FitsWorker([worker[w] EXCEPT !.pc = "persist", !.ver = version, !.res = "known"])
  BY <1>1 DEF FitsWorker, WorkerStates, Results
<1>3. FitsWorker([worker[w] EXCEPT !.pc = "call", !.ver = version])
  BY <1>1 DEF FitsWorker, WorkerStates
<1> QED
  BY <1>2, <1>3 DEF AfterClaim

\* The claim transaction keeps the invariant.
LEMMA ClaimKeeps ==
    ASSUME OutboxInv, WorkInv, NEW w \in Worker, Claim(w)
    PROVE  OutboxInv' /\ WorkInv' /\ RowsKept
<1> DEFINE m == Msg(w)
           verdict == ClaimVerdict(m, worker[w].snap, attempt[m.job], job[m.job])
<1>1. OutboxInv' /\ RowsKept /\ Created \subseteq Created'
  BY OutboxUntouched, KeptStayCreated DEF Claim
<1>2. worker[w].pc = "claim" /\ worker[w] \in WorkerStates
  BY DEF Claim, WorkInv, WorkTypeOK
<1>3. m.job \in Job /\ m.stage \in Stages /\ m.attempt \in AttemptNumbers
  BY <1>2, MessageRow
<1>4. CASE verdict = "claimed"
  <2>1. job[m.job] \in JobRows /\ attempt[m.job] \in [AttemptNumbers -> AttemptRows]
    BY <1>3 DEF WorkInv, WorkTypeOK
  <2>2. /\ job' = [job EXCEPT ![m.job] = Claimed(job[m.job])]
        /\ attempt' = [attempt EXCEPT ![m.job] = WithAttempt(attempt[m.job], m.attempt, m.stage)]
        /\ worker' = [worker EXCEPT ![w] = AfterClaim(w, job[m.job].version + 1)]
    BY <1>4 DEF Claim
  <2>3. FitsWorker(AfterClaim(w, job[m.job].version + 1))
    BY <1>2, <2>1, ClaimedType, AfterClaimFits
  <2>4. /\ job' \in [Job -> JobRows]
        /\ \A j \in Job : job'[j].stage \in StagesByKind[KindOf[j]]
    BY <1>3, <2>1, <2>2, ClaimedType DEF WorkInv, WorkTypeOK
  <2>5. attempt' \in [Job -> [AttemptNumbers -> AttemptRows]]
    BY <1>3, <2>1, <2>2, AttemptUpdates DEF WorkInv, WorkTypeOK
  <2> HIDE DEF m
  <2> QED
    BY <1>1, <2>2, <2>3, <2>4, <2>5, WorkerMoves DEF WorkInv, WorkTypeOK, Claim
<1>5. CASE verdict # "claimed"
  <2>1. worker[w].snap.version \in Nat
    BY <1>2 DEF WorkerStates, JobRows
  <2>2. PICK s : FitsWorker(s) /\ worker' = [worker EXCEPT ![w] = s]
    BY <1>2, <1>5, <2>1, AfterClaimFits, IdleFits, EndedIsIdle DEF Claim
  <2> QED
    BY <1>1, <1>5, <2>2, WorkerMoves DEF WorkInv, WorkTypeOK, Claim
<1> QED
  BY <1>4, <1>5

\* A poll at the attempt limit is always "timeout"; every answer is a result.
LEMMA CallResultsType ==
    ASSUME NEW stage, NEW a \in Nat, NEW res \in CallResults(stage, a)
    PROVE  /\ res \in Results
           /\ stage = "video_poll" /\ res \in {"pending", "completed"} => ~Exhausted(a)
  BY DEF CallResults, ImageResults, SubmitResults, PollResults, ImportResults, Results

\* The provider call keeps the invariant.
LEMMA ProviderCallKeeps ==
    ASSUME OutboxInv, WorkInv, NEW w \in Worker, ProviderCall(w)
    PROVE  OutboxInv' /\ WorkInv' /\ RowsKept
<1>1. OutboxInv' /\ RowsKept /\ Created \subseteq Created'
  BY OutboxUntouched, KeptStayCreated DEF ProviderCall
<1>2. /\ worker[w].pc = "call" /\ worker[w] \in WorkerStates /\ worker[w].msg \in Created
      /\ Msg(w).job \in Job /\ Msg(w).attempt \in 1..MaxAttempts
  BY MessageRow DEF ProviderCall, WorkInv, WorkTypeOK
<1>3. PICK res \in CallResults(Msg(w).stage, Msg(w).attempt) :
        /\ worker' = [worker EXCEPT ![w].pc = "persist", ![w].res = res]
        /\ calls' = IF Billable(Msg(w).stage, res)
                    THEN [calls EXCEPT ![Msg(w).job] = @ + 1] ELSE calls
  BY DEF ProviderCall
<1> DEFINE s == [worker[w] EXCEPT !.pc = "persist", !.res = res]
<1>4. FitsWorker(s)
  <2>1. Msg(w).attempt \in Nat /\ MaxAttempts \in Nat
    BY <1>2, MaxAttemptsAssumption
  <2>2. /\ res \in Results
        /\ Msg(w).stage = "video_poll" /\ res \in {"pending", "completed"}
             => Msg(w).attempt < MaxAttempts
    BY <2>1, CallResultsType DEF Exhausted
  <2> QED
    BY <1>2, <2>2 DEF FitsWorker, WorkerStates, Msg
<1>5. worker' = [worker EXCEPT ![w] = s]
  BY <1>2, <1>3 DEF WorkInv, WorkTypeOK
<1>6. calls' \in [Job -> Nat]
  BY <1>2, <1>3 DEF WorkInv, WorkTypeOK
<1> HIDE DEF s
<1> QED
  BY <1>1, <1>4, <1>5, <1>6, WorkerMoves DEF WorkInv, WorkTypeOK, ProviderCall

\* A job row and an attempt row written by one transaction.
LEMMA JobWrite ==
    ASSUME WorkInv, NEW j \in Job, NEW version, NEW status \in ValidStatuses,
           NEW stage \in Stages, NEW task \in BOOLEAN,
           CanTransition(KindOf[j], job[j], version, status, stage),
           job' = [job EXCEPT ![j] = Transitioned(job[j], status, stage, task)]
    PROVE  /\ job' \in [Job -> JobRows]
           /\ \A i \in Job : job'[i].stage \in StagesByKind[KindOf[i]]
  BY TransitionType DEF WorkInv, WorkTypeOK

\* The persisting transaction keeps the invariant; the follow-up dispatch is
\* within the attempt limit.
LEMMA PersistKeeps ==
    ASSUME OutboxInv, WorkInv, NEW w \in Worker, Persist(w)
    PROVE  OutboxInv' /\ WorkInv' /\ RowsKept
<1> DEFINE m == Msg(w)
           j == m.job
           out == Outcome(m.stage, m.attempt, worker[w].res)
           legal == CanTransition(KindOf[j], job[j], worker[w].ver, out.status, out.stage)
<1>1. /\ worker[w].pc = "persist" /\ worker[w] \in WorkerStates
      /\ j \in Job /\ m.attempt \in 1..MaxAttempts /\ m.attempt \in AttemptNumbers
      /\ m.stage \in {"image_generate", "video_submit"} => m.attempt = 1
  BY MessageRow DEF Persist, WorkInv, WorkTypeOK
<1>2. /\ out.status \in {"running", "succeeded", "failed"}
      /\ out.stage \in {"video_poll", "asset_import", "finalize"}
      /\ out.attempt \in {"succeeded", "failed"}
      /\ out.status = "running" =>
           /\ out.stage \in {"video_poll", "asset_import"}
           /\ m.attempt < MaxAttempts
  <2>1. /\ out.status \in {"running", "succeeded", "failed"}
        /\ out.stage \in {"video_poll", "asset_import", "finalize"}
        /\ out.attempt \in {"succeeded", "failed"}
        /\ out.status = "running" =>
             /\ out.stage \in {"video_poll", "asset_import"}
             /\ \/ m.stage = "video_submit"
                \/ m.stage = "video_poll" /\ worker[w].res \in {"pending", "completed"}
                \/ ~Exhausted(m.attempt)
    BY OutcomeType
  <2>2. m.stage = "video_submit" => m.attempt < MaxAttempts
    BY <1>1, MaxAttemptsAssumption
  <2>3. m.stage = "video_poll" /\ worker[w].res \in {"pending", "completed"}
          => m.attempt < MaxAttempts
    BY <1>1 DEF WorkInv, PollsBelowLimit
  <2>4. ~Exhausted(m.attempt) => m.attempt < MaxAttempts
    BY <1>1, MaxAttemptsAssumption DEF Exhausted
  <2> QED
    BY <2>1, <2>2, <2>3, <2>4
<1>3. CASE legal
  <2>1. /\ out.status = "running" => HasFreeRow
        /\ job' = [job EXCEPT ![j] =
                     Transitioned(job[j], out.status, out.stage, out.status = "running")]
        /\ attempt' = [attempt EXCEPT ![j] = WithFinished(attempt[j], m.attempt, out.attempt)]
        /\ dispatch' = IF out.status = "running"
                       THEN WithDispatch(dispatch, j, out.stage, m.attempt + 1)
                       ELSE dispatch
        /\ generation' = [generation EXCEPT ![j] = @ \/ out.status = "succeeded"]
        /\ \E saved \in SavedAssets(out.status) :
             asset' = [asset EXCEPT ![j] = @ \/ saved]
        /\ worker' = [worker EXCEPT ![w] = IdleWorker]
    BY <1>3, EndedIsIdle DEF Persist
  <2>2. UNCHANGED <<calls, dispatcher, queue, sent>>
    BY DEF Persist
  <2>3. out.status \in ValidStatuses /\ out.stage \in Stages
    BY <1>2 DEF ValidStatuses, ActiveStatuses, TerminalStatuses, Stages
  <2>4. job' \in [Job -> JobRows] /\ \A i \in Job : job'[i].stage \in StagesByKind[KindOf[i]]
    BY <1>1, <1>3, <2>1, <2>3, JobWrite
  <2>5. attempt' \in [Job -> [AttemptNumbers -> AttemptRows]]
    <3>1. attempt[j] \in [AttemptNumbers -> AttemptRows] /\ "admitted" \in Stages
      BY <1>1 DEF WorkInv, WorkTypeOK, Stages
    <3>2. WithFinished(attempt[j], m.attempt, out.attempt) \in [AttemptNumbers -> AttemptRows]
      BY <1>1, <1>2, <3>1, AttemptUpdates
    <3> QED
      BY <1>1, <2>1, <3>2 DEF WorkInv, WorkTypeOK
  <2>6. generation' \in [Job -> BOOLEAN] /\ asset' \in [Job -> BOOLEAN]
    BY <2>1 DEF WorkInv, WorkTypeOK, SavedAssets
  <2>7. OutboxInv' /\ RowsKept
    <3>1. CASE out.status = "running"
      <4>1. m.attempt + 1 \in 1..MaxAttempts
        BY <1>1, <1>2, <3>1, MaxAttemptsAssumption
      <4> QED
        BY <1>1, <1>2, <2>1, <2>2, <3>1, <4>1, CreateKeeps
    <3>2. CASE out.status # "running"
      BY <2>1, <2>2, <3>2, OutboxUntouched DEF outboxVars
    <3> QED
      BY <3>1, <3>2
  <2> HIDE DEF m, j, out, legal
  <2> QED
    BY <2>1, <2>2, <2>4, <2>5, <2>6, <2>7, WorkerMoves, IdleFits, KeptStayCreated
       DEF WorkInv, WorkTypeOK
<1>4. CASE ~legal
  <2>1. /\ worker' = [worker EXCEPT ![w] = IdleWorker]
        /\ UNCHANGED <<job, attempt, calls, generation, asset>>
        /\ UNCHANGED outboxVars
    BY <1>4, EndedIsIdle DEF Persist, outboxVars
  <2> QED
    BY <2>1, OutboxUntouched, WorkerMoves, IdleFits, KeptStayCreated DEF WorkInv, WorkTypeOK
<1> QED
  BY <1>3, <1>4

\* Saving the task id of an accepted submit keeps the invariant.
LEMMA RecoveryKeeps ==
    ASSUME OutboxInv, WorkInv, NEW w \in Worker, RecordSubmittedRecovery(w)
    PROVE  OutboxInv' /\ WorkInv' /\ RowsKept
<1> DEFINE j == Msg(w).job
<1>1. OutboxInv' /\ RowsKept /\ Created \subseteq Created'
  BY OutboxUntouched, KeptStayCreated DEF RecordSubmittedRecovery
<1>2. j \in Job /\ "running" \in ValidStatuses /\ "video_submit" \in Stages
  BY MessageRow DEF RecordSubmittedRecovery, ValidStatuses, ActiveStatuses, Stages
<1>3. worker' = [worker EXCEPT ![w] = IdleWorker]
  BY EndedIsIdle DEF RecordSubmittedRecovery
<1>4. job' \in [Job -> JobRows] /\ \A i \in Job : job'[i].stage \in StagesByKind[KindOf[i]]
  <2>1. CASE CanTransition(KindOf[j], job[j], worker[w].ver, "running", "video_submit")
    BY <1>2, <2>1, JobWrite DEF RecordSubmittedRecovery
  <2>2. CASE ~CanTransition(KindOf[j], job[j], worker[w].ver, "running", "video_submit")
    BY <2>2 DEF RecordSubmittedRecovery, WorkInv, WorkTypeOK
  <2> QED
    BY <2>1, <2>2
<1> QED
  BY <1>1, <1>3, <1>4, WorkerMoves, IdleFits DEF WorkInv, WorkTypeOK, RecordSubmittedRecovery

\* A database error in a worker keeps the invariant.
LEMMA DatabaseErrorKeeps ==
    ASSUME OutboxInv, WorkInv, NEW w \in Worker, DatabaseError(w)
    PROVE  OutboxInv' /\ WorkInv' /\ RowsKept
<1>1. OutboxInv' /\ RowsKept /\ Created \subseteq Created'
  BY OutboxUntouched, KeptStayCreated DEF DatabaseError
<1>2. worker[w].pc # "idle" /\ worker[w] \in WorkerStates /\ worker[w].msg \in Created
  BY DEF DatabaseError, WorkInv, WorkTypeOK, MessagesCreated
<1>3. FitsWorker([worker[w] EXCEPT !.res = "error"])
  BY <1>2 DEF FitsWorker, WorkerStates, Results
<1>4. FitsWorker([worker[w] EXCEPT !.pc = "recover"])
  BY <1>2 DEF FitsWorker, WorkerStates
<1>5. PICK s : FitsWorker(s) /\ worker' = [worker EXCEPT ![w] = s]
  BY <1>3, <1>4, IdleFits, EndedIsIdle DEF DatabaseError
<1> QED
  BY <1>1, <1>5, WorkerMoves DEF WorkInv, WorkTypeOK, DatabaseError

\* Admission keeps the invariant.
LEMMA AdmitKeeps ==
    ASSUME OutboxInv, WorkInv, NEW j \in Job, NEW same, Admit(j, same)
    PROVE  OutboxInv' /\ WorkInv' /\ RowsKept
<1>1. OutboxInv' /\ RowsKept
  <2>1. 1 \in 1..MaxAttempts
    BY MaxAttemptsAssumption
  <2> QED
    BY <2>1, InsertedType, CreateKeeps DEF Admit
<1>2. job' \in [Job -> JobRows] /\ \A i \in Job : job'[i].stage \in StagesByKind[KindOf[i]]
  BY InsertedType DEF Admit, WorkInv, WorkTypeOK
<1> QED
  BY <1>1, <1>2, WorkersUntouched, KeptStayCreated DEF WorkInv, WorkTypeOK, Admit

\* The requeue gives the job a second row with what the first one asked for.
LEMMA RequeueKeeps ==
    ASSUME OutboxInv, WorkInv, NEW j \in Job, RequeueOrphaned(j)
    PROVE  OutboxInv' /\ WorkInv' /\ RowsKept
<1>1. PICK d \in Dispatch :
        /\ dispatch[d].job = j
        /\ dispatch[d].status = "published"
        /\ dispatch' = WithDispatch([dispatch EXCEPT ![d].status = "failed"],
                                    j, dispatch[d].stage, dispatch[d].attempt)
  BY DEF RequeueOrphaned
<1> DEFINE f == FreshDispatch
           stage == dispatch[d].stage
           a == dispatch[d].attempt
           r == PendingRow(j, stage, a)
<1>2. dispatch \in [Dispatch -> DispatchRows] /\ d \in Created
  BY <1>1 DEF OutboxInv, OutboxTypeOK, Created
<1>3. f \in Dispatch /\ dispatch[f].status = "none" /\ f # d
  BY <1>1, FreshIsUnused DEF RequeueOrphaned
<1>4. /\ r \in DispatchRows
      /\ r.status = "pending" /\ r.job = j /\ r.stage = stage /\ r.attempt = a
  <2>1. stage \in Stages /\ a \in AttemptNumbers
    BY <1>2 DEF DispatchRows
  <2> QED
    BY <2>1, PendingRowType
<1>5. dispatch' = [[dispatch EXCEPT ![d].status = "failed"] EXCEPT ![f] = r]
  BY <1>1 DEF WithDispatch
<1> DEFINE mid == [dispatch EXCEPT ![d].status = "failed"]
<1>6. /\ mid \in [Dispatch -> DispatchRows]
      /\ mid[d].status = "failed" /\ mid[d].job = dispatch[d].job
      /\ mid[d].stage = dispatch[d].stage /\ mid[d].attempt = dispatch[d].attempt
      /\ \A e \in Dispatch \ {d} : mid[e] = dispatch[e]
  BY <1>1, <1>2 DEF DispatchRows, DispatchStatuses
<1>7. dispatch' = [mid EXCEPT ![f] = r]
  BY <1>5
<1> HIDE DEF f, r, mid
<1>8. /\ dispatch' \in [Dispatch -> DispatchRows]
      /\ dispatch'[f] = r /\ dispatch'[d] = mid[d]
      /\ \A e \in Dispatch \ {d, f} : dispatch'[e] = dispatch[e]
  BY <1>3, <1>4, <1>6, <1>7
<1>9. RowsKept
  BY <1>2, <1>3, <1>6, <1>8 DEF RowsKept, Created
<1>10. RowsWellFormed'
  <2> SUFFICES ASSUME NEW e \in Created'
               PROVE  /\ dispatch'[e].job \in Job
                      /\ dispatch'[e].stage \in {"image_generate", "video_submit",
                                                 "video_poll", "asset_import"}
                      /\ dispatch'[e].attempt \in 1..MaxAttempts
                      /\ dispatch'[e].stage \in {"image_generate", "video_submit"}
                           => dispatch'[e].attempt = 1
    BY DEF RowsWellFormed
  <2>1. e \in Dispatch /\ dispatch'[e].status # "none"
    BY DEF Created
  <2>2. CASE e \in {d, f}
    BY <1>1, <1>2, <1>4, <1>6, <1>8, <2>2 DEF OutboxInv, RowsWellFormed
  <2>3. CASE e \notin {d, f}
    BY <1>8, <2>1, <2>3 DEF OutboxInv, RowsWellFormed, Created
  <2> QED
    BY <2>2, <2>3
<1>11. UnusedRowsFree'
  BY <1>2, <1>4, <1>6, <1>8 DEF OutboxInv, UnusedRowsFree, Created
<1>12. OutboxInv'
  <2>1. Created \subseteq Created'
    BY <1>9, KeptStayCreated
  <2> QED
    BY <1>8, <1>10, <1>11, <2>1 DEF OutboxInv, OutboxTypeOK, ReferencesCreated, RequeueOrphaned
<1> QED
  BY <1>9, <1>12, WorkersUntouched, KeptStayCreated
     DEF WorkInv, WorkTypeOK, RequeueOrphaned, workVars

\* Cleanup keeps the invariant: the rows of the job stay as "deleted".
LEMMA CleanupKeeps ==
    ASSUME OutboxInv, WorkInv, NEW j \in Job, CleanupJob(j)
    PROVE  OutboxInv' /\ WorkInv' /\ RowsKept
<1>1. dispatch \in [Dispatch -> DispatchRows]
  BY DEF OutboxInv, OutboxTypeOK
<1>2. ASSUME NEW d \in Dispatch, dispatch[d].job = j
      PROVE  /\ dispatch'[d] = Unleased(dispatch[d], "deleted")
             /\ Unleased(dispatch[d], "deleted") \in DispatchRows
             /\ Unleased(dispatch[d], "deleted").status = "deleted"
             /\ dispatch'[d].job = dispatch[d].job
             /\ dispatch'[d].stage = dispatch[d].stage
             /\ dispatch'[d].attempt = dispatch[d].attempt
  BY <1>1, <1>2 DEF CleanupJob, Unleased, DispatchRows, DispatchStatuses
<1>3. ASSUME NEW d \in Dispatch, dispatch[d].job # j
      PROVE  dispatch'[d] = dispatch[d]
  BY <1>3 DEF CleanupJob
<1>4. dispatch' \in [Dispatch -> DispatchRows]
  <2>1. dispatch' = [d \in Dispatch |-> IF dispatch[d].job = j
                                        THEN Unleased(dispatch[d], "deleted")
                                        ELSE dispatch[d]]
    BY DEF CleanupJob
  <2> QED
    BY <1>1, <1>2, <2>1
<1>5. RowsKept
  BY <1>2, <1>3 DEF RowsKept, Created
<1>6. \A d \in Dispatch : dispatch[d].status = "none" => dispatch[d].job # j
  BY NoJobAssumption DEF OutboxInv, UnusedRowsFree, Created
<1>7. Created' = Created
  BY <1>2, <1>3, <1>5, <1>6 DEF Created, RowsKept
<1>8. RowsWellFormed' /\ UnusedRowsFree'
  BY <1>2, <1>3, <1>7 DEF RowsWellFormed, UnusedRowsFree, OutboxInv, Created
<1>9. OutboxInv'
  BY <1>4, <1>7, <1>8 DEF OutboxInv, OutboxTypeOK, ReferencesCreated, CleanupJob
<1>10. job' \in [Job -> JobRows] /\ \A i \in Job : job'[i].stage \in StagesByKind[KindOf[i]]
  BY DEF CleanupJob, WorkInv, WorkTypeOK, JobRows, RowStatuses
<1>11. attempt' \in [Job -> [AttemptNumbers -> AttemptRows]]
  BY DEF CleanupJob, WorkInv, WorkTypeOK, NoAttempts, NoAttempt, AttemptRows, Stages
<1> QED
  BY <1>5, <1>9, <1>10, <1>11, WorkersUntouched, KeptStayCreated
     DEF WorkInv, WorkTypeOK, CleanupJob

\* The broker: delivery, redelivery and loss keep the invariant.
LEMMA BrokerKeeps ==
    ASSUME OutboxInv, WorkInv,
           \/ BrokerLoss
           \/ \E w \in Worker : Deliver(w) \/ WorkerCrash(w) \/ VisibilityTimeout(w)
    PROVE  OutboxInv' /\ WorkInv' /\ RowsKept
<1>1. ASSUME UNCHANGED <<dispatch, dispatcher, sent>>, queue' \subseteq Created
      PROVE  OutboxInv' /\ RowsKept /\ Created \subseteq Created'
  BY <1>1 DEF OutboxInv, OutboxTypeOK, ReferencesCreated, RowsWellFormed, UnusedRowsFree,
              RowsKept, Created
<1>2. queue \subseteq Created
  BY DEF OutboxInv, ReferencesCreated
<1>3. CASE BrokerLoss
  BY <1>1, <1>2, <1>3, WorkersUntouched DEF BrokerLoss, workVars, WorkInv, WorkTypeOK
<1>4. ASSUME NEW w \in Worker, Deliver(w)
      PROVE  OutboxInv' /\ WorkInv' /\ RowsKept
  <2>1. PICK d \in queue : /\ queue' = queue \ {d}
                           /\ worker' = [worker EXCEPT ![w] = StartedOn(d)]
    BY <1>4 DEF Deliver
  <2>2. FitsWorker(StartedOn(d))
    BY <1>2, StartedFits
  <2>3. OutboxInv' /\ RowsKept /\ Created \subseteq Created'
    BY <1>1, <1>2, <1>4, <2>1 DEF Deliver
  <2> QED
    BY <1>4, <2>1, <2>2, <2>3, WorkerMoves DEF Deliver, WorkInv, WorkTypeOK
<1>5. ASSUME NEW w \in Worker, WorkerCrash(w)
      PROVE  OutboxInv' /\ WorkInv' /\ RowsKept
  <2>1. queue' \subseteq Created
    BY <1>2, <1>5 DEF WorkerCrash, WorkInv, MessagesCreated
  <2>2. OutboxInv' /\ RowsKept /\ Created \subseteq Created'
    BY <1>1, <1>5, <2>1 DEF WorkerCrash
  <2> QED
    BY <1>5, <2>2, IdleFits, WorkerMoves DEF WorkerCrash, WorkInv, WorkTypeOK
<1>6. ASSUME NEW w \in Worker, VisibilityTimeout(w)
      PROVE  OutboxInv' /\ WorkInv' /\ RowsKept
  <2>1. queue' \subseteq Created
    BY <1>2, <1>6 DEF VisibilityTimeout, WorkInv, MessagesCreated
  <2>2. OutboxInv' /\ RowsKept /\ Created \subseteq Created'
    BY <1>1, <1>6, <2>1 DEF VisibilityTimeout
  <2> QED
    BY <1>6, <2>2, WorkersUntouched DEF VisibilityTimeout, workVars, WorkInv, WorkTypeOK
<1> QED
  BY <1>3, <1>4, <1>5, <1>6

\* A dispatcher or a lease moves and the workers do not.
LEMMA OutboxStepKeeps ==
    ASSUME OutboxInv, WorkInv, UNCHANGED workVars,
           \/ \E p \in Dispatcher : DispatcherStep(p) \/ DispatcherFault(p)
           \/ \E d \in Dispatch : LeaseExpires(d)
    PROVE  OutboxInv' /\ WorkInv' /\ RowsKept
<1>1. OutboxInv' /\ RowsKept
  BY DispatcherKeeps, LeaseExpiresKeeps
<1> QED
  BY <1>1, WorkersUntouched, KeptStayCreated DEF workVars, WorkInv, WorkTypeOK

\* A client's poll keeps the invariant.
LEMMA ApiKeeps ==
    ASSUME OutboxInv, WorkInv, ApiTypeOK, NEW j \in Job, ApiStep(j)
    PROVE  OutboxInv' /\ WorkInv' /\ ApiTypeOK' /\ RowsKept
<1>1. OutboxInv' /\ RowsKept /\ Created \subseteq Created'
  BY OutboxUntouched, KeptStayCreated
     DEF ApiStep, ApiPoll, ApiMark, ApiMarkStale, ApiSaveAsset
<1>2. CASE ApiPoll(j)
  <2>1. PICK answer \in {"idle", "completed", "localized", "failed"} :
          api' = [api EXCEPT ![j] = [pc |-> answer, left |-> api[j].left - 1]]
    BY <1>2 DEF ApiPoll
  <2>2. api[j].left \in 0..MaxApiPolls /\ api[j].left > 0
    BY <1>2 DEF ApiPoll, ApiTypeOK, ApiStates
  <2>3. [pc |-> answer, left |-> api[j].left - 1] \in ApiStates
    BY <2>2, MaxApiPollsAssumption DEF ApiStates
  <2> QED
    BY <1>1, <1>2, <2>1, <2>3, WorkersUntouched
       DEF ApiPoll, workVars, WorkInv, WorkTypeOK, ApiTypeOK
<1>3. CASE ApiMark(j)
  <2> DEFINE status == ApiStatus(api[j].pc)
             legal == CanTransition(KindOf[j], job[j], job[j].version, status, "finalize")
  <2>1. status \in ValidStatuses /\ "finalize" \in Stages /\ FALSE \in BOOLEAN
    BY DEF ApiStatus, ValidStatuses, TerminalStatuses, Stages
  <2>2. job' \in [Job -> JobRows] /\ \A i \in Job : job'[i].stage \in StagesByKind[KindOf[i]]
    <3>1. CASE legal
      BY <1>3, <2>1, <3>1, JobWrite DEF ApiMark
    <3>2. CASE ~legal
      BY <1>3, <3>2 DEF ApiMark, WorkInv, WorkTypeOK
    <3> QED
      BY <3>1, <3>2
  <2>3. ApiTypeOK'
    BY <1>3 DEF ApiMark, ApiTypeOK, ApiStates
  <2> QED
    BY <1>1, <1>3, <2>2, <2>3, WorkersUntouched DEF ApiMark, WorkInv, WorkTypeOK
<1>4. CASE ApiMarkStale(j)
  BY <1>1, <1>4, WorkersUntouched
     DEF ApiMarkStale, workVars, WorkInv, WorkTypeOK, ApiTypeOK, ApiStates
<1>5. CASE ApiSaveAsset(j)
  BY <1>1, <1>5, WorkersUntouched
     DEF ApiSaveAsset, WorkInv, WorkTypeOK, ApiTypeOK, ApiStates
<1> QED
  BY <1>2, <1>3, <1>4, <1>5 DEF ApiStep

-----------------------------------------------------------------------------
(***************************************************************************)
(* Well-formedness and the attempt limit                                   *)
(***************************************************************************)
\* The initial state satisfies the invariant.
LEMMA GatewayInit == Init => GatewayInv
<1> SUFFICES ASSUME Init
             PROVE  GatewayInv
  OBVIOUS
<1>1. OutboxInv
  <2>1. UnusedRow \in DispatchRows /\ UnusedRow.status = "none" /\ UnusedRow.job = NoJob
    BY MaxAttemptsAssumption, DispatchAttemptsAssumption
       DEF UnusedRow, DispatchRows, DispatchStatuses, Stages, AttemptNumbers
  <2>2. IdleDispatcher \in DispatcherStates /\ IdleDispatcher.batch = {}
    BY DEF IdleDispatcher, DispatcherStates
  <2> QED
    BY <2>1, <2>2 DEF Init, OutboxInit, OutboxInv, OutboxTypeOK, ReferencesCreated,
                      RowsWellFormed, UnusedRowsFree, Created
<1>2. WorkInv
  <2>1. AbsentJob \in JobRows /\ \A j \in Job : AbsentJob.stage \in StagesByKind[KindOf[j]]
    BY KindAssumption DEF AbsentJob, JobRows, RowStatuses, Stages, StagesByKind
  <2>2. NoAttempts \in [AttemptNumbers -> AttemptRows]
    BY DEF NoAttempts, NoAttempt, AttemptRows, Stages
  <2>3. IdleWorker \in WorkerStates /\ IdleWorker.pc = "idle"
    BY IdleFits DEF FitsWorker, IdleWorker
  <2> QED
    BY <2>1, <2>2, <2>3
       DEF Init, WorkInit, WorkInv, WorkTypeOK, MessagesCreated, PollsBelowLimit
<1> QED
  BY <1>1, <1>2, MaxApiPollsAssumption, MaxFaultsAssumption
     DEF GatewayInv, Init, ApiInit, ApiTypeOK, ApiStates

\* Every step keeps the invariant and what every created dispatch asks for.
LEMMA GatewayStep ==
    ASSUME GatewayInv, Next
    PROVE  GatewayInv' /\ RowsKept
<1> USE DEF GatewayInv
<1>1. ASSUME NEW j \in Job, Admit(j, SameRequest(j)), UNCHANGED <<api, faults>>
      PROVE  GatewayInv' /\ RowsKept
  BY <1>1, AdmitKeeps DEF ApiTypeOK
<1>2. ASSUME NEW j \in Job, RequeueOrphaned(j), UNCHANGED <<api, faults>>
      PROVE  GatewayInv' /\ RowsKept
  BY <1>2, RequeueKeeps DEF ApiTypeOK
<1>3. ASSUME NEW j \in Job, CleanupJob(j), UNCHANGED <<api, faults>>
      PROVE  GatewayInv' /\ RowsKept
  BY <1>3, CleanupKeeps DEF ApiTypeOK
<1>4. ASSUME UNCHANGED <<api, faults>>, UNCHANGED workVars,
             \/ \E p \in Dispatcher : DispatcherStep(p)
             \/ \E d \in Dispatch : LeaseExpires(d)
      PROVE  GatewayInv' /\ RowsKept
  BY <1>4, OutboxStepKeeps DEF ApiTypeOK
<1>5. ASSUME NEW w \in Worker, Deliver(w), UNCHANGED <<api, faults>>
      PROVE  GatewayInv' /\ RowsKept
  BY <1>5, BrokerKeeps DEF ApiTypeOK
<1>6. ASSUME NEW w \in Worker, WorkerStep(w), UNCHANGED <<api, faults>>
      PROVE  GatewayInv' /\ RowsKept
  BY <1>6, CheckKeeps, ClaimKeeps, ProviderCallKeeps, PersistKeeps, RecoveryKeeps
     DEF WorkerStep, ApiTypeOK
<1>7. ASSUME NEW j \in Job, ApiStep(j), UNCHANGED faults
      PROVE  GatewayInv' /\ RowsKept
  BY <1>7, ApiKeeps
<1>8. ASSUME Fault
      PROVE  GatewayInv' /\ RowsKept
  <2>1. faults' \in 0..MaxFaults /\ ApiTypeOK'
    BY <1>8, MaxFaultsAssumption DEF Fault, ApiTypeOK
  <2>2. OutboxInv' /\ WorkInv' /\ RowsKept
    BY <1>8, DatabaseErrorKeeps, BrokerKeeps, OutboxStepKeeps DEF Fault
  <2> QED
    BY <2>1, <2>2
<1> QED
  BY <1>1, <1>2, <1>3, <1>4, <1>5, <1>6, <1>7, <1>8 DEF Next

\* A stuttering step keeps the invariant.
LEMMA GatewayStutter ==
    ASSUME GatewayInv, UNCHANGED vars
    PROVE  GatewayInv'
<1>1. OutboxInv' /\ RowsKept /\ Created \subseteq Created'
  BY OutboxUntouched, KeptStayCreated DEF GatewayInv, vars, outboxVars
<1> QED
  BY <1>1, WorkersUntouched DEF GatewayInv, vars, WorkInv, WorkTypeOK, ApiTypeOK

\* GatewayInv is an invariant of the Celery deployment.
THEOREM GatewayInvariant == Spec => []GatewayInv
<1>1. GatewayInv /\ [Next]_vars => GatewayInv'
  BY GatewayStep, GatewayStutter
<1> QED
  BY <1>1, GatewayInit, PTL DEF Spec

\* The state of the Celery deployment always has its declared shape.
THEOREM TypeCorrect == Spec => []TypeOK
<1>1. GatewayInv => TypeOK
  BY DEF GatewayInv, TypeOK, OutboxInv, WorkInv
<1> QED
  BY <1>1, GatewayInvariant, PTL

\* No dispatch ever asks for an attempt past the job's limit, for any limit
\* and any number of redeliveries, requeues and crashes: the follow-up of
\* _schedule and _retry is only written below max_attempts.
THEOREM AttemptsBounded == Spec => []AttemptWithinLimit
<1>1. GatewayInv => AttemptWithinLimit
  BY MaxAttemptsAssumption
     DEF GatewayInv, AttemptWithinLimit, OutboxInv, RowsWellFormed, Created
<1> QED
  BY <1>1, GatewayInvariant, PTL

-----------------------------------------------------------------------------
(***************************************************************************)
(* Published rows                                                          *)
(***************************************************************************)
\* What a step does to a created row: the requeue of a queued job gives up a
\* published one, cleanup deletes the rows of a terminal job, and only
\* dispatchers and leases change any other.
LEMMA RowStep ==
    ASSUME GatewayInv, Next, NEW d \in Created
    PROVE  \/ dispatch'[d] = dispatch[d]
           \/ \E p \in Dispatcher : DispatcherStep(p) \/ DispatcherFault(p)
           \/ \E e \in Dispatch : LeaseExpires(e)
           \/ RequeueOrphaned(dispatch[d].job) /\ dispatch'[d].status = "failed"
           \/ CleanupJob(dispatch[d].job) /\ dispatch'[d].status = "deleted"
<1>1. /\ OutboxInv /\ WorkInv /\ dispatch \in [Dispatch -> DispatchRows]
      /\ d \in Dispatch /\ dispatch[d].status # "none"
  BY DEF GatewayInv, OutboxInv, OutboxTypeOK, Created
<1>2. CASE UNCHANGED dispatch
  BY <1>2
<1>3. ASSUME HasFreeRow, NEW rows \in [Dispatch -> DispatchRows], NEW j, NEW stage, NEW a,
             dispatch' = WithDispatch(rows, j, stage, a)
      PROVE  dispatch'[d] = rows[d]
  BY <1>1, <1>3, CreatedRow, FreshIsUnused
<1>4. ASSUME NEW j \in Job, Admit(j, SameRequest(j))
      PROVE  dispatch'[d] = dispatch[d]
  BY <1>1, <1>3, <1>4 DEF Admit
<1>5. ASSUME NEW w \in Worker, Persist(w)
      PROVE  dispatch'[d] = dispatch[d]
  BY <1>1, <1>2, <1>3, <1>5 DEF Persist
<1>6. ASSUME NEW j \in Job, RequeueOrphaned(j), dispatch'[d] # dispatch[d]
      PROVE  j = dispatch[d].job /\ dispatch'[d].status = "failed"
  <2>1. PICK e \in Dispatch :
          /\ dispatch[e].job = j
          /\ dispatch' = WithDispatch([dispatch EXCEPT ![e].status = "failed"],
                                      j, dispatch[e].stage, dispatch[e].attempt)
    BY <1>6 DEF RequeueOrphaned
  <2> DEFINE mid == [dispatch EXCEPT ![e].status = "failed"]
  <2>2. mid \in [Dispatch -> DispatchRows] /\ mid[e].status = "failed"
    BY <1>1 DEF DispatchRows, DispatchStatuses
  <2>3. dispatch'[d] = mid[d]
    BY <1>3, <1>6, <2>1, <2>2 DEF RequeueOrphaned
  <2>4. d = e
    BY <1>1, <1>6, <2>3
  <2> QED
    BY <2>1, <2>2, <2>3, <2>4
<1>7. ASSUME NEW j \in Job, CleanupJob(j), dispatch'[d] # dispatch[d]
      PROVE  j = dispatch[d].job /\ dispatch'[d].status = "deleted"
  <2>1. dispatch[d].job = j /\ dispatch'[d] = Unleased(dispatch[d], "deleted")
    BY <1>1, <1>7 DEF CleanupJob
  <2> QED
    BY <1>1, <2>1 DEF Unleased, DispatchRows
<1>8. ASSUME NEW w \in Worker, WorkerStep(w)
      PROVE  dispatch'[d] = dispatch[d]
  BY <1>2, <1>5, <1>8
     DEF WorkerStep, Check, Claim, ProviderCall, RecordSubmittedRecovery, outboxVars
<1>9. ASSUME NEW j \in Job, ApiStep(j)
      PROVE  dispatch'[d] = dispatch[d]
  BY <1>9 DEF ApiStep, ApiPoll, ApiMark, ApiMarkStale, ApiSaveAsset, outboxVars
<1>10. CASE Fault
  BY <1>10 DEF Fault, DatabaseError, WorkerCrash, VisibilityTimeout, BrokerLoss, outboxVars
<1> QED
  BY <1>4, <1>6, <1>7, <1>8, <1>9, <1>10 DEF Next, Deliver

\* A row marked published stays so for every interleaving of dispatchers, of
\* leases that run out and of the admin's requeue and cleanup: a dispatcher
\* that lost its claim never releases or re-marks the row.
THEOREM PublishedStaysFinal == Spec => PublishedIsFinal
<1>1. ASSUME GatewayInv, Next, NEW d \in Dispatch, dispatch[d].status = "published"
      PROVE  \/ dispatch'[d].status \in {"published", "deleted"}
             \/ dispatch'[d].status = "failed" /\ job[dispatch[d].job].status = "queued"
  <2>1. d \in Created /\ OutboxInv
    BY <1>1 DEF Created, GatewayInv
  <2>2. CASE \/ \E p \in Dispatcher : DispatcherStep(p) \/ DispatcherFault(p)
             \/ \E e \in Dispatch : LeaseExpires(e)
    BY <1>1, <2>1, <2>2, DispatcherRows
  <2> QED
    BY <1>1, <2>1, <2>2, RowStep DEF RequeueOrphaned
<1>2. GatewayInv /\ [Next]_vars =>
        [\A d \in Dispatch :
           dispatch[d].status = "published" =>
              \/ dispatch'[d].status \in {"published", "deleted"}
              \/ dispatch'[d].status = "failed" /\ job[dispatch[d].job].status = "queued"]_vars
  BY <1>1
<1> QED
  BY <1>2, GatewayInvariant, PTL DEF Spec, PublishedIsFinal
=============================================================================
