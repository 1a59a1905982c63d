---------------------------- MODULE DirectProofs ----------------------------
(***************************************************************************)
(* The requests the API process executes itself, for any number of         *)
(* concurrent requests, jobs, tasks and faults: an accepted provider task  *)
(* is on record, a succeeded image has its history, an unfinished image    *)
(* job has a request working on it, an outcome is never replaced, and the  *)
(* types hold.                                                             *)
(*                                                                         *)
(* None of these is inductive.  DirectInv adds what a request may rely on  *)
(* where it stands (Turn): that the job it works on has the status its     *)
(* last write left, that nobody else works on it, and that a task somebody *)
(* polls is on record.  The event loop is what makes it true: everything   *)
(* but an await is done by the handler that holds it.                      *)
(***************************************************************************)
EXTENDS DirectGateway, WellFoundedInduction, TLAPS

Suspended == Awaits \cup {"idle"}

\* The record of a handler; its routes are left as they are.
Frame(x) ==
    [op: {"none", "image", "video", "wait", "poll", "refresh"},
     pc: {"idle", "insert", "start", "call", "record", "asset", "succeed", "fail",
          "submit", "upsert", "mark", "poll"},
     req: Request \cup {NoRequest}, job: Job \cup {NoJob}, task: Task \cup {NoTask},
     routes: {x.routes}, answer: Answers, file: BOOLEAN]

TablesOK ==
    /\ job \in [Job -> JobRows]
    /\ taskOf \in [Job -> Task \cup {NoTask}]
    /\ videoTask \in [Task -> Answers \cup {"none", "submitted"}]
    /\ accepted \subseteq Task

\* The handler that holds the loop is the only one between two awaits.
LoopOK ==
    /\ loop \in Handler \cup {NoHandler}
    /\ handler = [h \in Handler |-> handler[h]]
    /\ \A h \in Handler : /\ handler[h] \in Frame(handler[h])
                          /\ loop = h <=> handler[h].pc \notin Suspended

\* The task is in video_tasks, or a fault kept it out.
OnRecord(t) == t \in accepted /\ (videoTask[t] # "none" \/ t \in lost)

\* What an image request relies on.
ImageTurn(x) ==
    /\ x.op = "image"
    /\ x.req \in Request /\ RequestKind[x.req] = "image" /\ x.task = NoTask
    /\ \/ x.pc = "insert" /\ x.job = NoJob /\ ~IndexRefuses(x)
       \/ /\ x.pc \in {"start", "call", "record", "asset", "succeed", "fail"}
          /\ x.job \in Job /\ KindOf[x.job] = "image"
          /\ job[x.job].status = IF x.pc = "start" THEN "queued" ELSE "running"
          /\ x.pc \in {"asset", "succeed"} => x.job \in generation

\* What a video request relies on.
VideoTurn(x) ==
    /\ x.op \in {"video", "wait"}
    /\ \/ x.pc = "submit" /\ x.task = NoTask
       \/ x.pc \in {"upsert", "insert", "record", "asset"} /\ x.task \in accepted
    /\ x.pc = "insert" => x.op = "video"

\* What a client's poll and a refresh rely on.
PollTurn(x) ==
    /\ x.op \in {"poll", "refresh"}
    /\ x.pc \in {"poll", "upsert", "mark", "asset"}
    /\ OnRecord(x.task)
    /\ x.job # NoJob => KindOf[x.job] = "video"
    /\ x.op = "refresh" => x.job # NoJob

Turn(x) == x = Idle \/ ImageTurn(x) \/ VideoTurn(x) \/ PollTurn(x)

\* The handler executes the image job.
Owns(x, j) == x.op = "image" /\ x.job = j

OneOwner ==
    \A j \in Job : \A g, h \in Handler : Owns(handler[g], j) /\ Owns(handler[h], j) => g = h

\* Only video jobs carry a task, one the provider handed out.
TasksAreAccepted ==
    \A j \in Job : taskOf[j] # NoTask => KindOf[j] = "video" /\ taskOf[j] \in accepted

DirectInv ==
    /\ TablesOK /\ LoopOK
    /\ \A h \in Handler : Turn(handler[h])
    /\ OneOwner /\ TasksAreAccepted
    /\ AcceptedTaskOnRecord /\ ActiveImageHasRequest /\ SucceededImageRecorded
-----------------------------------------------------------------------------
(***************************************************************************)
(* One handler moves                                                       *)
(***************************************************************************)
\* Only the handler moves, it respects the event loop, and nothing recorded is
\* taken back.
Moves(h) ==
    /\ handler' = [handler EXCEPT ![h] = handler'[h]]
    /\ handler'[h] \in Frame(handler'[h])
    /\ loop \in {h, NoHandler}
    /\ loop' = IF handler'[h].pc \in Suspended THEN NoHandler ELSE h
    /\ generation \subseteq generation' /\ accepted \subseteq accepted' /\ lost \subseteq lost'
    /\ \A t \in Task : videoTask[t] # "none" => videoTask'[t] # "none"

\* The handler writes the image row it owns or inserts, and leaves it neither
\* abandoned nor succeeded without history.
MindsImages(h) ==
    \A j \in Job : KindOf[j] = "image" =>
       /\ \/ job'[j] = job[j]
          \/ Owns(handler[h], j)
          \/ job[j].status = "absent" /\ Owns(handler'[h], j)
       /\ Active(job'[j]) =>
            (Active(job[j]) /\ ~Owns(handler[h], j)) \/ Owns(handler'[h], j) \/ j \in lost'
       /\ job'[j].status = "succeeded" => job[j].status = "succeeded" \/ j \in generation'

\* A job is taken over by nobody.
TakesOver(h, j) == Owns(handler'[h], j) /\ ~Owns(handler[h], j) /\ job[j].status # "absent"

\* A newly accepted task is about to be recorded, and what was is recorded now.
MindsTasks(h) ==
    /\ \A t \in accepted' \ accepted : handler'[h].task = t /\ handler'[h].pc = "upsert"
    /\ handler[h].pc = "upsert" =>
         videoTask'[handler[h].task] # "none" \/ handler[h].task \in lost'

\* Giving the loop up, or going on, is a move.
LEMMA GoMoves ==
    ASSUME LoopOK, NEW h \in Handler, NEW x, x \in Frame(x), Go(h, x)
    PROVE  /\ handler'[h] = x
           /\ handler' = [handler EXCEPT ![h] = handler'[h]]
           /\ handler'[h] \in Frame(handler'[h])
           /\ loop' = IF handler'[h].pc \in Suspended THEN NoHandler ELSE h
<1>1. handler'[h] = x
  BY DEF Go, LoopOK
<1> QED
  BY <1>1 DEF Go, Suspended

\* The other handlers stay as they are, and keep what they rely on.
LEMMA OthersKeep ==
    ASSUME DirectInv, NEW h \in Handler, Moves(h), MindsImages(h), NEW g \in Handler \ {h}
    PROVE  handler'[g] = handler[g] /\ Turn(handler[g])'
<1>1. handler'[g] = handler[g] /\ g # h /\ g \in Handler
  BY DEF DirectInv, LoopOK, Moves
<1>2. /\ Turn(handler[g]) /\ handler[g] \in Frame(handler[g]) /\ loop # g
      /\ handler[g].pc \in Suspended
  BY <1>1, SentinelAssumption DEF DirectInv, LoopOK, Moves
<1>3. CASE handler[g] = Idle
  BY <1>1, <1>3 DEF Turn, Idle
<1>4. CASE ImageTurn(handler[g])
  <2>1. handler[g].pc \in {"start", "call", "record", "asset", "succeed", "fail"}
    BY <1>2, <1>4 DEF ImageTurn, Suspended, Awaits
  <2>2. /\ handler[g].job \in Job /\ KindOf[handler[g].job] = "image"
        /\ Owns(handler[g], handler[g].job)
        /\ job[handler[g].job].status \in {"queued", "running"}
    BY <1>4, <2>1 DEF ImageTurn, Owns
  <2>3. ~Owns(handler[h], handler[g].job)
    BY <1>1, <2>2 DEF DirectInv, OneOwner
  <2>4. job'[handler[g].job] = job[handler[g].job]
    BY <2>2, <2>3 DEF MindsImages
  <2> QED
    BY <1>1, <1>4, <2>1, <2>4 DEF ImageTurn, Turn, Moves
<1>5. CASE VideoTurn(handler[g])
  BY <1>1, <1>5 DEF VideoTurn, Turn, Moves
<1>6. CASE PollTurn(handler[g])
  <2>1. OnRecord(handler[g].task) /\ handler[g].task \in Task
    BY <1>6 DEF PollTurn, OnRecord, DirectInv, TablesOK
  <2>2. OnRecord(handler[g].task)'
    BY <1>1, <2>1 DEF OnRecord, Moves
  <2> QED
    BY <1>1, <1>6, <2>2 DEF PollTurn, Turn
<1> QED
  BY <1>2, <1>3, <1>4, <1>5, <1>6 DEF Turn

\* A step of one handler that minds its images and tasks keeps the invariant.
LEMMA MoveKeeps ==
    ASSUME DirectInv, NEW h \in Handler, Moves(h), TablesOK', Turn(handler[h])',
           MindsImages(h), MindsTasks(h), TasksAreAccepted',
           \A j \in Job : ~TakesOver(h, j)
    PROVE  DirectInv'
<1>1. \A g \in Handler \ {h} : handler'[g] = handler[g] /\ Turn(handler[g])'
  BY OthersKeep
<1>2. \A g \in Handler : Turn(handler[g])'
  BY <1>1
<1>3. LoopOK'
  <2>1. /\ loop' \in Handler \cup {NoHandler}
        /\ handler' = [g \in Handler |-> handler'[g]]
    BY DEF Moves, DirectInv, LoopOK
  <2>2. ASSUME NEW g \in Handler
        PROVE  handler'[g] \in Frame(handler'[g]) /\ (loop' = g <=> handler'[g].pc \notin Suspended)
    <3>1. CASE g = h
      BY <3>1, SentinelAssumption DEF Moves
    <3>2. CASE g # h
      <4>1. handler'[g] = handler[g] /\ loop # g
        BY <1>1, <3>2, SentinelAssumption DEF Moves
      <4> QED
        BY <3>2, <4>1, SentinelAssumption DEF Moves, DirectInv, LoopOK
    <3> QED
      BY <3>1, <3>2
  <2> QED
    BY <2>1, <2>2 DEF LoopOK, Frame
<1>4. OneOwner'
  <2>1. ASSUME NEW j \in Job, NEW g \in Handler \ {h}, Owns(handler[g], j), Owns(handler'[h], j)
        PROVE  FALSE
    <3>1. ~Owns(handler[h], j)
      BY <2>1 DEF DirectInv, OneOwner
    <3>2. job[j].status = "absent"
      BY <2>1, <3>1 DEF TakesOver
    <3>3. ImageTurn(handler[g]) /\ handler[g].job = j
      BY <2>1 DEF DirectInv, Turn, Owns, Idle, VideoTurn, PollTurn
    <3> QED
      BY <3>2, <3>3, SentinelAssumption DEF ImageTurn
  <2> QED
    BY <1>1, <2>1 DEF OneOwner, Owns, DirectInv
<1>5. AcceptedTaskOnRecord'
  <2> SUFFICES ASSUME NEW t \in accepted'
               PROVE  \/ videoTask'[t] # "none"
                      \/ t \in lost'
                      \/ \E g \in Handler : handler'[g].task = t /\ handler'[g].pc = "upsert"
    BY DEF AcceptedTaskOnRecord
  <2>1. CASE t \notin accepted
    BY <2>1 DEF MindsTasks
  <2>2. CASE t \in accepted
    <3>1. \/ videoTask[t] # "none" \/ t \in lost
          \/ \E g \in Handler : handler[g].task = t /\ handler[g].pc = "upsert"
      BY <2>2 DEF DirectInv, AcceptedTaskOnRecord
    <3>2. t \in Task
      BY <2>2 DEF DirectInv, TablesOK
    <3> QED
      BY <1>1, <3>1, <3>2 DEF Moves, MindsTasks
  <2> QED
    BY <2>1, <2>2
<1>6. ActiveImageHasRequest'
  <2> SUFFICES ASSUME NEW j \in Job, KindOf[j] = "image", Active(job'[j]), j \notin lost'
               PROVE  \E g \in Handler : Owns(handler'[g], j)
    BY DEF ActiveImageHasRequest, Owns, Active
  <2>1. CASE Active(job[j]) /\ ~Owns(handler[h], j)
    <3>1. PICK g \in Handler : Owns(handler[g], j)
      BY <2>1 DEF DirectInv, ActiveImageHasRequest, Owns, Moves
    <3> QED
      BY <1>1, <2>1, <3>1
  <2> QED
    BY <2>1 DEF MindsImages
<1>7. SucceededImageRecorded'
  BY DEF MindsImages, DirectInv, SucceededImageRecorded, Moves
<1> QED
  BY <1>2, <1>3, <1>4, <1>5, <1>6, <1>7 DEF DirectInv

\* A handler that has nothing to do with images minds them.
LEMMA NoImages ==
    ASSUME NEW h \in Handler, handler[h].op # "image", handler'[h].op # "image",
           \A j \in Job : KindOf[j] = "image" => job'[j] = job[j]
    PROVE  MindsImages(h) /\ \A j \in Job : ~TakesOver(h, j)
  BY DEF MindsImages, TakesOver, Owns
-----------------------------------------------------------------------------
(***************************************************************************)
(* A request arrives                                                       *)
(***************************************************************************)
\* A new request that may rely on where it starts, and owns no job yet.
LEMMA AcceptKeeps ==
    ASSUME DirectInv, NEW h \in Handler, NEW x, x \in Frame(x), Accept(h, x), Turn(x),
           x.op # "image" \/ x.job = NoJob
    PROVE  DirectInv'
<1>1. /\ handler[h] = Idle /\ loop = NoHandler /\ Go(h, x)
      /\ UNCHANGED <<job, hashOf, taskOf, videoTask, generation, asset, accepted, lost>>
  BY DEF Accept, tables, observers
<1>2. handler'[h] = x
  BY <1>1, GoMoves DEF DirectInv
<1>3. Moves(h)
  BY <1>1, GoMoves DEF DirectInv, Moves
<1>4. Turn(handler[h])'
  BY <1>1, <1>2 DEF Turn, ImageTurn, VideoTurn, PollTurn, OnRecord, IndexRefuses, InFlight,
                    SameHash, HashFor
<1>5. TablesOK' /\ TasksAreAccepted'
  BY <1>1 DEF DirectInv, TablesOK, TasksAreAccepted
<1>6. \A j \in Job : ~Owns(handler[h], j) /\ ~Owns(handler'[h], j)
  BY <1>1, <1>2, SentinelAssumption DEF Owns, Idle
<1>7. MindsImages(h) /\ \A j \in Job : ~TakesOver(h, j)
  BY <1>1, <1>6 DEF MindsImages, TakesOver
<1>8. MindsTasks(h)
  BY <1>1 DEF MindsTasks, Idle
<1> QED
  BY <1>3, <1>4, <1>5, <1>7, <1>8, MoveKeeps

\* A request is accepted in a state it may rely on: the duplicate check of an
\* image, and a job read together with its recorded task.
LEMMA ArrivalKeeps ==
    ASSUME DirectInv, NEW h \in Handler,
           \/ \E r \in Request : CreateImage(h, r) \/ CreateVideo(h, r)
           \/ \E t \in Task : GetVideo(h, t)
           \/ \E j \in Job : Refresh(h, j)
    PROVE  DirectInv'
<1>1. ASSUME NEW r \in Request, CreateImage(h, r)
      PROVE  DirectInv'
  <2>1. PICK plan \in Plans :
          /\ ~InFlight("image", ImageHash(r, plan), ImageAdmissionStatuses)
          /\ Accept(h, [Idle EXCEPT !.op = "image", !.pc = "insert", !.req = r, !.routes = plan])
    BY <1>1 DEF CreateImage
  <2> DEFINE x == [Idle EXCEPT !.op = "image", !.pc = "insert", !.req = r, !.routes = plan]
  <2>2. /\ x.op = "image" /\ x.pc = "insert" /\ x.req = r /\ x.routes = plan
        /\ x.job = NoJob /\ x.task = NoTask /\ x \in Frame(x)
    BY DEF Idle, Frame, Answers
  <2>3. Accept(h, x)
    BY <2>1
  <2> HIDE DEF x
  <2>4. RequestKind[r] = "image"
    BY <1>1 DEF CreateImage
  <2>5. ImageTurn(x)
    BY <2>1, <2>2, <2>4
       DEF ImageTurn, IndexRefuses, HashFor, ImageAdmissionStatuses, ActiveStatuses
  <2> QED
    BY <2>2, <2>3, <2>5, AcceptKeeps DEF Turn
<1>2. ASSUME NEW r \in Request, CreateVideo(h, r)
      PROVE  DirectInv'
  <2>1. PICK op \in {"video", "wait"} :
          Accept(h, [Idle EXCEPT !.op = op, !.pc = "submit", !.req = r])
    BY <1>2 DEF CreateVideo
  <2> DEFINE x == [Idle EXCEPT !.op = op, !.pc = "submit", !.req = r]
  <2>2. x.op = op /\ x.pc = "submit" /\ x.task = NoTask /\ x \in Frame(x)
    BY DEF Idle, Frame, Answers
  <2>3. Accept(h, x)
    BY <2>1
  <2> HIDE DEF x
  <2>4. VideoTurn(x)
    BY <2>2 DEF VideoTurn
  <2> QED
    BY <2>2, <2>3, <2>4, AcceptKeeps DEF Turn
<1>3. ASSUME loop = NoHandler, NEW t \in accepted
      PROVE  OnRecord(t)
  <2>1. \A g \in Handler : handler[g].pc # "upsert"
    BY <1>3, SentinelAssumption DEF DirectInv, LoopOK, Suspended, Awaits
  <2> QED
    BY <1>3, <2>1 DEF DirectInv, AcceptedTaskOnRecord, OnRecord
<1>4. ASSUME NEW op \in {"poll", "refresh"}, NEW t \in Task \cap accepted,
             NEW j \in Job \cup {NoJob}, op = "refresh" => j # NoJob,
             j # NoJob => KindOf[j] = "video",
             Accept(h, [Idle EXCEPT !.op = op, !.pc = "poll", !.task = t, !.job = j])
      PROVE  DirectInv'
  <2> DEFINE x == [Idle EXCEPT !.op = op, !.pc = "poll", !.task = t, !.job = j]
  <2>1. x.op = op /\ x.pc = "poll" /\ x.task = t /\ x.job = j /\ x \in Frame(x)
    BY DEF Idle, Frame, Answers
  <2>2. Accept(h, x)
    BY <1>4
  <2> HIDE DEF x
  <2>3. loop = NoHandler
    BY <2>2 DEF Accept
  <2>4. PollTurn(x)
    BY <1>3, <1>4, <2>1, <2>3 DEF PollTurn
  <2> QED
    BY <2>1, <2>2, <2>4, AcceptKeeps DEF Turn
<1>5. ASSUME NEW t \in Task, GetVideo(h, t)
      PROVE  DirectInv'
  <2>1. PICK j \in Job \cup {NoJob} :
          /\ Accept(h, [Idle EXCEPT !.op = "poll", !.pc = "poll", !.task = t, !.job = j])
          /\ j # NoJob => taskOf[j] = t /\ j \in Job
    BY <1>5 DEF GetVideo
  <2>2. t \in accepted
    BY <1>5 DEF GetVideo
  <2>3. j # NoJob => KindOf[j] = "video"
    BY <2>1, SentinelAssumption DEF DirectInv, TasksAreAccepted
  <2> QED
    BY <1>4, <2>1, <2>2, <2>3
<1>6. ASSUME NEW j \in Job, Refresh(h, j)
      PROVE  DirectInv'
  <2>1. /\ KindOf[j] = "video" /\ taskOf[j] # NoTask /\ j # NoJob
        /\ Accept(h, [Idle EXCEPT !.op = "refresh", !.pc = "poll", !.task = taskOf[j], !.job = j])
    BY <1>6, SentinelAssumption DEF Refresh
  <2>2. taskOf[j] \in Task \cap accepted
    BY <2>1 DEF DirectInv, TasksAreAccepted, TablesOK
  <2> QED
    BY <1>4, <2>1, <2>2
<1> QED
  BY <1>1, <1>2, <1>5, <1>6

-----------------------------------------------------------------------------
(***************************************************************************)
(* The image flow                                                          *)
(***************************************************************************)
\* A handler relies on what its operation says.
LEMMA TurnOf ==
    ASSUME DirectInv, NEW h \in Handler
    PROVE  /\ handler[h] \in Frame(handler[h])
           /\ handler[h].op = "image" => ImageTurn(handler[h])
           /\ handler[h].op \in {"video", "wait"} => VideoTurn(handler[h])
           /\ handler[h].op \in {"poll", "refresh"} => PollTurn(handler[h])
  BY DEF DirectInv, LoopOK, Turn, Idle, ImageTurn, VideoTurn, PollTurn

\* What a mark writes.
LEMMA MarkedRow ==
    ASSUME job \in [Job -> JobRows], NEW j \in Job, NEW status \in ValidStatuses
    PROVE  /\ Marked(j, status) \in [Job -> JobRows]
           /\ Marked(j, status)[j].status = status
           /\ \A i \in Job \ {j} : Marked(j, status)[i] = job[i]
<1>1. job[j] \in JobRows
  OBVIOUS
<1> DEFINE row == Transitioned(job[j], status, StageAfter(job[j], status), FALSE)
<1>2. row \in JobRows /\ row.status = status
  BY <1>1 DEF Transitioned, StageAfter, JobRows, RowStatuses, Stages
<1>3. Marked(j, status) = [job EXCEPT ![j] = row]
  BY DEF Marked
<1> HIDE DEF row
<1> QED
  BY <1>2, <1>3
\* An image request past its insert goes on with its job, or ends with the job
\* decided or given up by a fault.
LEMMA OwnerKeeps ==
    ASSUME DirectInv, NEW h \in Handler, NEW j \in Job, Owns(handler[h], j),
           NEW y, y \in Frame(y), Go(h, y), loop \in {h, NoHandler},
           UNCHANGED <<taskOf, videoTask, accepted>>,
           generation \subseteq generation', lost \subseteq lost',
           job' \in [Job -> JobRows], \A i \in Job \ {j} : job'[i] = job[i],
           job'[j].status = "succeeded" => j \in generation',
           \/ Owns(y, j) /\ ImageTurn(handler[h])'
           \/ y = Idle /\ (~Active(job'[j]) \/ j \in lost')
    PROVE  DirectInv'
<1>1. handler'[h] = y
  BY GoMoves DEF DirectInv
<1>2. Moves(h)
  BY GoMoves DEF DirectInv, Moves
<1>3. ImageTurn(handler[h]) /\ KindOf[j] = "image"
  <2>1. ImageTurn(handler[h])
    BY TurnOf DEF Owns
  <2> QED
    BY <2>1, SentinelAssumption DEF ImageTurn, Owns
<1>4. Turn(handler[h])'
  BY <1>1 DEF Turn, Idle
<1>5. TablesOK' /\ TasksAreAccepted'
  BY DEF DirectInv, TablesOK, TasksAreAccepted
<1>6. \A i \in Job \ {j} : ~Owns(handler[h], i) /\ ~Owns(handler'[h], i)
  BY <1>1 DEF Owns, Idle
<1>7. MindsImages(h)
  <2>1. ASSUME NEW i \in Job, i # j
        PROVE  job'[i] = job[i] /\ ~Owns(handler[h], i)
    BY <1>6, <2>1
  <2>2. Active(job'[j]) => Owns(handler'[h], j) \/ j \in lost'
    BY <1>1
  <2> QED
    BY <2>1, <2>2 DEF MindsImages
<1>8. \A i \in Job : ~TakesOver(h, i)
  BY <1>6 DEF TakesOver
<1>9. MindsTasks(h)
  BY <1>3 DEF MindsTasks, ImageTurn
<1> QED
  BY <1>2, <1>4, <1>5, <1>7, <1>8, <1>9, MoveKeeps

\* Every step of create_image past the insert.
LEMMA ImageWorkKeeps ==
    ASSUME DirectInv, NEW h \in Handler,
           \/ MarkImageRunning(h) \/ ExecuteImage(h) \/ RecordImage(h)
           \/ SaveImageAsset(h) \/ MarkImageSucceeded(h) \/ MarkImageFailure(h)
    PROVE  DirectInv'
<1> DEFINE x == handler[h]
           j == x.job
<1>1. /\ x.op = "image" /\ x.pc \in {"start", "call", "record", "asset", "succeed", "fail"}
      /\ loop \in {h, NoHandler}
      /\ UNCHANGED <<taskOf, videoTask, accepted, lost>>
  BY DEF MarkImageRunning, ExecuteImage, RecordImage, SaveImageAsset, MarkImageSucceeded,
         MarkImageFailure, Running, Resumed, At, tables, observers
<1>2. ImageTurn(x) /\ x \in Frame(x) /\ job \in [Job -> JobRows] /\ SucceededImageRecorded
  BY <1>1, TurnOf DEF DirectInv, TablesOK
<1>3. /\ j \in Job /\ Owns(x, j) /\ KindOf[j] = "image" /\ x.task = NoTask
      /\ x.req \in Request /\ RequestKind[x.req] = "image"
      /\ job[j].status = IF x.pc = "start" THEN "queued" ELSE "running"
  BY <1>1, <1>2 DEF ImageTurn, Owns
<1>4. ASSUME NEW y, y \in Frame(y), Go(h, y), y.op = "image", y.job = j, y.task = NoTask,
             y.req = x.req, y.pc \in {"call", "record", "asset", "succeed", "fail"},
             job' \in [Job -> JobRows], \A i \in Job \ {j} : job'[i] = job[i],
             job'[j].status = "running", generation \subseteq generation',
             y.pc \in {"asset", "succeed"} => j \in generation'
      PROVE  DirectInv'
  <2>1. handler'[h] = y
    BY <1>4, GoMoves DEF DirectInv
  <2>2. ImageTurn(handler[h])'
    BY <1>3, <1>4, <2>1 DEF ImageTurn
  <2>3. Owns(y, j)
    BY <1>4 DEF Owns
  <2> QED
    BY <1>1, <1>3, <1>4, <2>2, <2>3, OwnerKeeps
<1>5. ASSUME NEW pc \in {"call", "record", "asset", "succeed", "fail"}
      PROVE  LET y == [x EXCEPT !.pc = pc]
             IN  /\ y \in Frame(y) /\ y.op = "image" /\ y.job = j /\ y.task = NoTask
                 /\ y.req = x.req /\ y.pc = pc
  BY <1>1, <1>2, <1>3 DEF Frame
<1>6. CASE MarkImageRunning(h)
  <2>1. Go(h, [x EXCEPT !.pc = "call"]) /\ job' = Marked(j, "running") /\ UNCHANGED generation
    BY <1>6 DEF MarkImageRunning
  <2>2. /\ job' \in [Job -> JobRows] /\ job'[j].status = "running"
        /\ \A i \in Job \ {j} : job'[i] = job[i]
    BY <1>2, <1>3, <2>1, MarkedRow DEF ValidStatuses, ActiveStatuses
  <2> HIDE DEF x
  <2> QED
    BY <1>4, <1>5, <2>1, <2>2
<1>7. CASE ExecuteImage(h)
  <2>1. x.pc = "call" /\ UNCHANGED <<job, generation>>
    BY <1>7 DEF ExecuteImage, Resumed, At, tables
  <2>2. PICK end \in CallEnds :
          Go(h, IF end # "error" THEN [x EXCEPT !.pc = "record", !.file = (end = "localized")]
                ELSE [x EXCEPT !.routes = Tail(@),
                               !.pc = IF Len(x.routes) > 1 THEN "call" ELSE "fail"])
    BY <1>7 DEF ExecuteImage
  <2>3. PICK y : /\ Go(h, y) /\ y \in Frame(y) /\ y.op = "image" /\ y.job = j
                 /\ y.task = NoTask /\ y.req = x.req /\ y.pc \in {"record", "call", "fail"}
    <3>1. CASE end # "error"
      <4> DEFINE y == [x EXCEPT !.pc = "record", !.file = (end = "localized")]
      <4>1. /\ y \in Frame(y) /\ y.op = "image" /\ y.job = j
            /\ y.task = NoTask /\ y.req = x.req /\ y.pc = "record"
        BY <1>1, <1>2, <1>3 DEF Frame
      <4>2. Go(h, y)
        BY <2>2, <3>1
      <4> QED
        BY <4>1, <4>2
    <3>2. CASE end = "error"
      <4> DEFINE pc == IF Len(x.routes) > 1 THEN "call" ELSE "fail"
                 y == [x EXCEPT !.routes = Tail(@), !.pc = pc]
      <4>1. pc \in {"call", "fail"}
        OBVIOUS
      <4>2. Go(h, y)
        BY <2>2, <3>2
      <4> HIDE DEF pc
      <4>3. /\ y \in Frame(y) /\ y.op = "image" /\ y.job = j
            /\ y.task = NoTask /\ y.req = x.req /\ y.pc = pc
        BY <1>1, <1>2, <1>3, <4>1 DEF Frame
      <4> QED
        BY <4>1, <4>2, <4>3
    <3> QED
      BY <3>1, <3>2
  <2> QED
    BY <1>2, <1>3, <1>4, <2>1, <2>3
<1>8. CASE RecordImage(h)
  <2>1. /\ Go(h, [x EXCEPT !.pc = "asset"]) /\ generation' = generation \cup {j}
        /\ UNCHANGED job /\ x.pc = "record"
    BY <1>8 DEF RecordImage, Running, At
  <2>2. job[j].status = "running"
    BY <1>3, <2>1
  <2> HIDE DEF x
  <2> QED
    BY <1>2, <1>4, <1>5, <2>1, <2>2
<1>9. CASE SaveImageAsset(h)
  <2>1. /\ Go(h, [x EXCEPT !.pc = "succeed"]) /\ UNCHANGED <<job, generation>>
        /\ x.pc = "asset"
    BY <1>9 DEF SaveImageAsset, Running, At
  <2>2. job[j].status = "running" /\ j \in generation
    BY <1>2, <1>3, <2>1 DEF ImageTurn
  <2> HIDE DEF x
  <2> QED
    BY <1>2, <1>4, <1>5, <2>1, <2>2
<1>10. CASE MarkImageSucceeded(h) \/ MarkImageFailure(h)
  <2>1. PICK status \in {"succeeded", "failed"} :
          /\ job' = Marked(j, status) /\ Go(h, Idle) /\ UNCHANGED generation
          /\ status = "succeeded" => x.pc = "succeed"
    BY <1>10 DEF MarkImageSucceeded, MarkImageFailure, Running, At
  <2>2. /\ job' \in [Job -> JobRows] /\ job'[j].status = status
        /\ \A i \in Job \ {j} : job'[i] = job[i]
    BY <1>2, <1>3, <2>1, MarkedRow DEF ValidStatuses, TerminalStatuses
  <2>3. status = "succeeded" => j \in generation
    BY <1>2, <2>1 DEF ImageTurn
  <2>4. ~Active(job'[j])
    BY <2>2 DEF Active, ActiveStatuses
  <2>5. Idle \in Frame(Idle)
    BY DEF Idle, Frame, Answers
  <2> QED
    BY <1>1, <1>3, <2>1, <2>2, <2>3, <2>4, <2>5, OwnerKeeps
<1> QED
  BY <1>6, <1>7, <1>8, <1>9, <1>10

\* The insert of an image job: the new row is owned at once.
LEMMA ImageInsertKeeps ==
    ASSUME DirectInv, NEW h \in Handler, CreateImageJob(h)
    PROVE  DirectInv'
<1> DEFINE x == handler[h]
           row == [InsertedJob("image") EXCEPT !.stage = "admitted"]
<1>1. /\ loop = h /\ x.op = "image" /\ x.pc = "insert" /\ UNCHANGED <<accepted, lost>>
      /\ InsertJob(h, "image", row, "start")
  BY DEF CreateImageJob, Running, At, observers
<1>2. ImageTurn(x) /\ x \in Frame(x) /\ TablesOK
  BY <1>1, TurnOf DEF DirectInv
<1>3. ~IndexRefuses(x) /\ x.job = NoJob /\ x.task = NoTask
  BY <1>1, <1>2 DEF ImageTurn
<1>4. PICK j \in Job :
        /\ Fresh(j, "image")
        /\ job' = [job EXCEPT ![j] = row]
        /\ taskOf' = [taskOf EXCEPT ![j] = NoTask]
        /\ Go(h, [x EXCEPT !.job = j, !.pc = "start"])
        /\ UNCHANGED <<videoTask, generation, asset>>
  BY <1>1, <1>3 DEF InsertJob
<1>5. row \in JobRows /\ row.status = "queued"
  BY DEF InsertedJob, AdmissionStage, JobRows, RowStatuses, ValidStatuses, ActiveStatuses, Stages
<1> HIDE DEF row
<1> DEFINE y == [x EXCEPT !.job = j, !.pc = "start"]
<1>6. /\ y \in Frame(y) /\ y.op = "image" /\ y.pc = "start" /\ y.job = j /\ y.task = NoTask
      /\ y.req = x.req
  BY <1>1, <1>2, <1>3 DEF Frame
<1>7. Go(h, y)
  BY <1>4
<1> HIDE DEF y
<1>8. handler'[h] = y
  BY <1>6, <1>7, GoMoves DEF DirectInv
<1>9. Moves(h)
  BY <1>1, <1>4, <1>6, <1>7, GoMoves DEF DirectInv, Moves
<1>10. TablesOK' /\ job'[j] = row /\ \A i \in Job \ {j} : job'[i] = job[i] /\ taskOf'[i] = taskOf[i]
  BY <1>1, <1>2, <1>4, <1>5 DEF TablesOK
<1>11. Turn(handler[h])'
  BY <1>2, <1>4, <1>5, <1>6, <1>8, <1>10 DEF Turn, ImageTurn, Fresh
<1>12. TasksAreAccepted'
  BY <1>1, <1>2, <1>4, <1>10 DEF DirectInv, TasksAreAccepted, TablesOK
<1>13. \A i \in Job : ~Owns(handler[h], i) /\ (Owns(handler'[h], i) => i = j)
  BY <1>3, <1>6, <1>8, SentinelAssumption DEF Owns
<1>14. MindsImages(h)
  <2>1. job[j].status = "absent" /\ Owns(handler'[h], j) /\ job'[j].status # "succeeded"
    BY <1>4, <1>5, <1>6, <1>8, <1>10 DEF Fresh, Owns
  <2> QED
    BY <1>10, <1>13, <2>1 DEF MindsImages
<1>15. \A i \in Job : ~TakesOver(h, i)
  BY <1>4, <1>13 DEF TakesOver, Fresh
<1>16. MindsTasks(h)
  BY <1>1 DEF MindsTasks
<1> QED
  BY <1>9, <1>10, <1>11, <1>12, <1>14, <1>15, <1>16, MoveKeeps
-----------------------------------------------------------------------------
(***************************************************************************)
(* The video flow, polls and refreshes                                     *)
(***************************************************************************)
\* A step of a request that touches no image.
LEMMA VideoMoveKeeps ==
    ASSUME DirectInv, NEW h \in Handler, handler[h].op # "image",
           NEW y, y \in Frame(y), y.op # "image", Go(h, y), loop \in {h, NoHandler},
           generation \subseteq generation', accepted \subseteq accepted', lost \subseteq lost',
           \A t \in Task : videoTask[t] # "none" => videoTask'[t] # "none",
           \A j \in Job : KindOf[j] = "image" => job'[j] = job[j],
           TablesOK', TasksAreAccepted', MindsTasks(h), Turn(handler[h])'
    PROVE  DirectInv'
<1>1. handler'[h] = y
  BY GoMoves DEF DirectInv
<1>2. Moves(h)
  BY GoMoves DEF DirectInv, Moves
<1>3. MindsImages(h) /\ \A j \in Job : ~TakesOver(h, j)
  BY <1>1, NoImages
<1> QED
  BY <1>2, <1>3, MoveKeeps

\* A step that changes at most the row of a video job, and no task.
LEMMA VideoMarkKeeps ==
    ASSUME DirectInv, NEW h \in Handler, handler[h].op # "image",
           NEW y, y \in Frame(y), y.op # "image", Go(h, y), loop \in {h, NoHandler},
           UNCHANGED <<taskOf, videoTask, accepted>>,
           generation \subseteq generation', lost \subseteq lost', job' \in [Job -> JobRows],
           \A j \in Job : KindOf[j] = "image" => job'[j] = job[j],
           handler[h].pc = "upsert" =>
             videoTask'[handler[h].task] # "none" \/ handler[h].task \in lost',
           y = Idle \/ VideoTurn(y) \/ PollTurn(y)
    PROVE  DirectInv'
<1>1. handler'[h] = y
  BY GoMoves DEF DirectInv
<1>2. Turn(handler[h])'
  BY <1>1 DEF Turn, VideoTurn, PollTurn, OnRecord, Idle
<1>3. TablesOK' /\ TasksAreAccepted'
  BY DEF DirectInv, TablesOK, TasksAreAccepted
<1>4. MindsTasks(h)
  BY DEF MindsTasks
<1> QED
  BY <1>2, <1>3, <1>4, VideoMoveKeeps

\* The idle record is well formed.
LEMMA IdleFrame == Idle \in Frame(Idle) /\ Idle.op = "none" /\ Idle.pc = "idle"
  BY DEF Idle, Frame, Answers

\* The provider takes a task, which is about to be recorded.
LEMMA SubmitKeeps ==
    ASSUME DirectInv, NEW h \in Handler, SubmitVideo(h)
    PROVE  DirectInv'
<1> DEFINE x == handler[h]
<1>1. /\ loop = NoHandler /\ x.op \in {"video", "wait"} /\ x.pc = "submit"
      /\ UNCHANGED <<job, taskOf, videoTask, generation, lost>>
  BY DEF SubmitVideo, Resumed, At, tables
<1>2. x \in Frame(x) /\ TablesOK /\ TasksAreAccepted
  BY TurnOf DEF DirectInv
<1>3. CASE Go(h, Idle) /\ UNCHANGED accepted
  BY <1>1, <1>2, <1>3, IdleFrame, VideoMarkKeeps DEF TablesOK
<1>4. ASSUME NEW t \in Task \ accepted, NEW answer \in Answers, NEW file \in BOOLEAN,
             accepted' = accepted \cup {t},
             Go(h, [x EXCEPT !.task = t, !.pc = "upsert", !.answer = answer, !.file = file])
      PROVE  DirectInv'
  <2> DEFINE y == [x EXCEPT !.task = t, !.pc = "upsert", !.answer = answer, !.file = file]
  <2>1. y \in Frame(y) /\ y.op = x.op /\ y.pc = "upsert" /\ y.task = t
    BY <1>2 DEF Frame
  <2>2. Go(h, y)
    BY <1>4
  <2> HIDE DEF y
  <2>3. handler'[h] = y
    BY <2>1, <2>2, GoMoves DEF DirectInv
  <2>4. Turn(handler[h])'
    BY <1>1, <1>4, <2>1, <2>3 DEF Turn, VideoTurn
  <2>5. TablesOK' /\ TasksAreAccepted'
    BY <1>1, <1>2, <1>4 DEF TablesOK, TasksAreAccepted
  <2>6. MindsTasks(h)
    BY <1>1, <1>4, <2>1, <2>3 DEF MindsTasks
  <2> QED
    BY <1>1, <1>4, <2>1, <2>2, <2>4, <2>5, <2>6, VideoMoveKeeps
<1> QED
  BY <1>3, <1>4 DEF SubmitVideo

\* upsert_video_task puts the task on record.
LEMMA UpsertKeeps ==
    ASSUME DirectInv, NEW h \in Handler, UpsertVideoTask(h)
    PROVE  DirectInv'
<1> DEFINE x == handler[h]
           value == IF x.op = "video" THEN "submitted" ELSE x.answer
           pc == AfterUpsert(x)
           y == [x EXCEPT !.pc = pc]
<1>1. /\ loop = h /\ x.op \in {"video", "wait", "poll", "refresh"} /\ x.pc = "upsert"
      /\ videoTask' = [videoTask EXCEPT ![x.task] = value] /\ Go(h, y)
      /\ UNCHANGED <<job, taskOf, generation, accepted, lost>>
  BY DEF UpsertVideoTask, Running, At, observers
<1>2. /\ x \in Frame(x) /\ TablesOK /\ TasksAreAccepted
      /\ x.op \in {"video", "wait"} => VideoTurn(x)
      /\ x.op \in {"poll", "refresh"} => PollTurn(x)
  BY TurnOf DEF DirectInv
<1>3. /\ value \in Answers \cup {"submitted"} /\ value # "none"
  BY <1>2 DEF Frame, Answers
<1>4. x.task \in accepted /\ x.task \in Task
  BY <1>1, <1>2 DEF VideoTurn, PollTurn, OnRecord, TablesOK
<1>5. /\ x.op = "video" => pc = "insert"
      /\ x.op = "wait" => pc = "record"
      /\ x.op \in {"poll", "refresh"} => pc \in {"mark", "asset"}
  BY DEF AfterUpsert
<1> HIDE DEF value, pc
<1>6. /\ y \in Frame(y) /\ y.op = x.op /\ y.pc = pc /\ y.task = x.task /\ y.job = x.job
  BY <1>1, <1>2, <1>5 DEF Frame
<1> HIDE DEF y
<1>7. handler'[h] = y
  BY <1>1, <1>6, GoMoves DEF DirectInv
<1>8. /\ videoTask' \in [Task -> Answers \cup {"none", "submitted"}]
      /\ videoTask'[x.task] # "none"
      /\ \A t \in Task : videoTask[t] # "none" => videoTask'[t] # "none"
  BY <1>1, <1>2, <1>3, <1>4 DEF TablesOK
<1>9. Turn(handler[h])'
  <2>1. CASE x.op \in {"video", "wait"}
    BY <1>1, <1>4, <1>5, <1>6, <1>7, <2>1 DEF Turn, VideoTurn
  <2>2. CASE x.op \in {"poll", "refresh"}
    BY <1>1, <1>2, <1>4, <1>5, <1>6, <1>7, <1>8, <2>2 DEF Turn, PollTurn, OnRecord
  <2> QED
    BY <1>1, <2>1, <2>2
<1>10. TablesOK' /\ TasksAreAccepted' /\ MindsTasks(h)
  BY <1>1, <1>2, <1>8 DEF TablesOK, TasksAreAccepted, MindsTasks
<1> QED
  BY <1>1, <1>6, <1>8, <1>9, <1>10, VideoMoveKeeps

\* _create_video_job gives the job the task of its request.
LEMMA VideoInsertKeeps ==
    ASSUME DirectInv, NEW h \in Handler, CreateVideoJob(h)
    PROVE  DirectInv'
<1> DEFINE x == handler[h]
           row == [status |-> "running", stage |-> "admitted", version |-> 0, task |-> TRUE]
<1>1. /\ loop = h /\ x.op = "video" /\ x.pc = "insert" /\ UNCHANGED <<accepted, lost>>
      /\ InsertJob(h, "video", row, "record")
  BY DEF CreateVideoJob, Running, At, observers
<1>2. x \in Frame(x) /\ TablesOK /\ TasksAreAccepted /\ VideoTurn(x)
  BY <1>1, TurnOf DEF DirectInv
<1>3. x.task \in accepted /\ x.task \in Task
  BY <1>1, <1>2 DEF VideoTurn, TablesOK
<1>4. row \in JobRows
  BY DEF JobRows, RowStatuses, ValidStatuses, ActiveStatuses, Stages
<1> HIDE DEF row
<1>5. CASE Go(h, Idle) /\ UNCHANGED tables
  BY <1>1, <1>2, <1>5, IdleFrame, VideoMarkKeeps DEF TablesOK, tables
<1>6. ASSUME NEW j \in Job, Fresh(j, "video"), job' = [job EXCEPT ![j] = row],
             taskOf' = [taskOf EXCEPT ![j] = x.task],
             Go(h, [x EXCEPT !.job = j, !.pc = "record"]),
             UNCHANGED <<videoTask, generation, asset>>
      PROVE  DirectInv'
  <2> DEFINE y == [x EXCEPT !.job = j, !.pc = "record"]
  <2>1. y \in Frame(y) /\ y.op = "video" /\ y.pc = "record" /\ y.task = x.task
    BY <1>1, <1>2 DEF Frame
  <2>2. Go(h, y)
    BY <1>6
  <2> HIDE DEF y
  <2>3. handler'[h] = y
    BY <2>1, <2>2, GoMoves DEF DirectInv
  <2>4. Turn(handler[h])'
    BY <1>1, <1>3, <2>1, <2>3 DEF Turn, VideoTurn
  <2>5. /\ KindOf[j] = "video" /\ TablesOK'
        /\ \A i \in Job \ {j} : job'[i] = job[i] /\ taskOf'[i] = taskOf[i]
    BY <1>1, <1>2, <1>3, <1>4, <1>6 DEF TablesOK, Fresh
  <2>6. TasksAreAccepted' /\ \A i \in Job : KindOf[i] = "image" => job'[i] = job[i]
    BY <1>1, <1>2, <1>3, <1>6, <2>5 DEF TasksAreAccepted, TablesOK
  <2>7. MindsTasks(h)
    BY <1>1 DEF MindsTasks
  <2> QED
    BY <1>1, <1>6, <2>1, <2>2, <2>4, <2>5, <2>6, <2>7, VideoMoveKeeps
<1> QED
  BY <1>1, <1>5, <1>6 DEF InsertJob

\* The history and asset rows of a video, and the answers of polls.
LEMMA VideoWorkKeeps ==
    ASSUME DirectInv, NEW h \in Handler,
           \/ RecordVideo(h) \/ SaveVideoAsset(h) \/ PollAnswered(h)
           \/ SavePolledAsset(h) \/ ImportCompleted(h)
    PROVE  DirectInv'
<1> DEFINE x == handler[h]
<1>1. /\ loop \in {h, NoHandler} /\ x.op \in {"video", "wait", "poll", "refresh"}
      /\ x.pc \in {"record", "asset", "poll"}
      /\ UNCHANGED <<job, taskOf, videoTask, accepted, lost>>
      /\ generation \subseteq generation'
  BY DEF RecordVideo, SaveVideoAsset, PollAnswered, SavePolledAsset, ImportCompleted, Running,
         Resumed, At, tables, observers
<1>2. /\ x \in Frame(x) /\ job \in [Job -> JobRows]
      /\ x.op \in {"video", "wait"} => VideoTurn(x)
      /\ x.op \in {"poll", "refresh"} => PollTurn(x)
  BY TurnOf DEF DirectInv, TablesOK
<1>3. ASSUME NEW y, y \in Frame(y), Go(h, y), y.op # "image", y = Idle \/ VideoTurn(y) \/ PollTurn(y)
      PROVE  DirectInv'
  BY <1>1, <1>2, <1>3, VideoMarkKeeps
<1>4. CASE Go(h, Idle)
  BY <1>3, <1>4, IdleFrame
<1>5. CASE RecordVideo(h)
  <2> DEFINE y == [x EXCEPT !.pc = "asset"]
  <2>1. Go(h, y) /\ x.op \in {"video", "wait"} /\ x.pc = "record"
    BY <1>5 DEF RecordVideo, Running, At
  <2>2. y \in Frame(y) /\ y.op = x.op /\ y.pc = "asset" /\ y.task = x.task
    BY <1>2 DEF Frame
  <2> HIDE DEF y
  <2>3. VideoTurn(y)
    BY <1>2, <2>1, <2>2 DEF VideoTurn
  <2> QED
    BY <1>3, <2>1, <2>2, <2>3
<1>6. ASSUME x.op \in {"poll", "refresh"}, NEW pc \in {"mark", "upsert"},
             NEW answer \in Answers, NEW file \in BOOLEAN,
             Go(h, [x EXCEPT !.pc = pc, !.answer = answer, !.file = file])
      PROVE  DirectInv'
  <2> DEFINE y == [x EXCEPT !.pc = pc, !.answer = answer, !.file = file]
  <2>1. y \in Frame(y) /\ y.op = x.op /\ y.pc = pc /\ y.task = x.task /\ y.job = x.job
    BY <1>2 DEF Frame
  <2>2. Go(h, y)
    BY <1>6
  <2> HIDE DEF y
  <2>3. PollTurn(y)
    BY <1>2, <1>6, <2>1 DEF PollTurn
  <2> QED
    BY <1>3, <1>6, <2>1, <2>2, <2>3
<1>7. ASSUME x.op \in {"poll", "refresh"}, Go(h, [x EXCEPT !.pc = "mark"])
      PROVE  DirectInv'
  <2> DEFINE y == [x EXCEPT !.pc = "mark"]
  <2>1. y \in Frame(y) /\ y.op = x.op /\ y.pc = "mark" /\ y.task = x.task /\ y.job = x.job
    BY <1>2 DEF Frame
  <2>2. Go(h, y)
    BY <1>7
  <2> HIDE DEF y
  <2>3. PollTurn(y)
    BY <1>2, <1>7, <2>1 DEF PollTurn
  <2> QED
    BY <1>3, <1>7, <2>1, <2>2, <2>3
<1>8. CASE SaveVideoAsset(h) \/ SavePolledAsset(h)
  BY <1>4, <1>8 DEF SaveVideoAsset, SavePolledAsset
<1>9. CASE PollAnswered(h)
  BY <1>4, <1>6, <1>7, <1>9 DEF PollAnswered, Resumed, At
<1>10. CASE ImportCompleted(h)
  BY <1>7, <1>10 DEF ImportCompleted, Running, At
<1> QED
  BY <1>5, <1>8, <1>9, <1>10

\* The marks of polls and refreshes are of video jobs.
LEMMA MarkKeeps ==
    ASSUME DirectInv, NEW h \in Handler, MarkPolled(h) \/ MarkRefreshed(h)
    PROVE  DirectInv'
<1> DEFINE x == handler[h]
<1>1. /\ loop = h /\ x.op \in {"poll", "refresh"} /\ x.pc = "mark"
      /\ UNCHANGED <<taskOf, videoTask, accepted, lost, generation>>
  BY DEF MarkPolled, MarkRefreshed, Running, At, observers
<1>2. x \in Frame(x) /\ job \in [Job -> JobRows] /\ PollTurn(x)
  BY <1>1, TurnOf DEF DirectInv, TablesOK
<1>3. \/ job' = job
      \/ /\ x.job # NoJob
         /\ \E status \in {"succeeded", "failed", "running"} : job' = Marked(x.job, status)
  <2>1. CASE MarkPolled(h)
    BY <2>1 DEF MarkPolled
  <2>2. CASE MarkRefreshed(h)
    <3>1. RefreshTarget(x) \in {"succeeded", "failed", "running"}
      BY DEF RefreshTarget
    <3>2. x.job # NoJob
      BY <1>2, <2>2 DEF MarkRefreshed, Running, At, PollTurn
    <3> QED
      BY <2>2, <3>1, <3>2 DEF MarkRefreshed
  <2> QED
    BY <2>1, <2>2
<1>4. /\ job' \in [Job -> JobRows]
      /\ \A j \in Job : KindOf[j] = "image" => job'[j] = job[j]
  <2>1. CASE job' = job
    BY <1>2, <2>1
  <2>2. ASSUME x.job # NoJob, NEW status \in {"succeeded", "failed", "running"},
               job' = Marked(x.job, status)
        PROVE  /\ job' \in [Job -> JobRows]
               /\ \A j \in Job : KindOf[j] = "image" => job'[j] = job[j]
    <3>1. x.job \in Job /\ KindOf[x.job] = "video" /\ status \in ValidStatuses
      BY <1>2, <2>2 DEF Frame, PollTurn, ValidStatuses, ActiveStatuses, TerminalStatuses
    <3>2. /\ job' \in [Job -> JobRows]
          /\ \A j \in Job \ {x.job} : job'[j] = job[j]
      BY <1>2, <2>2, <3>1, MarkedRow
    <3> QED
      BY <3>1, <3>2
  <2> QED
    BY <1>3, <2>1, <2>2
<1>5. Go(h, Idle) \/ Go(h, [x EXCEPT !.pc = "asset"])
  BY DEF MarkPolled, MarkRefreshed
<1>6. CASE Go(h, Idle)
  BY <1>1, <1>4, <1>6, IdleFrame, VideoMarkKeeps
<1>7. CASE Go(h, [x EXCEPT !.pc = "asset"])
  <2> DEFINE y == [x EXCEPT !.pc = "asset"]
  <2>1. y \in Frame(y) /\ y.op = x.op /\ y.pc = "asset" /\ y.task = x.task /\ y.job = x.job
    BY <1>2 DEF Frame
  <2>2. Go(h, y)
    BY <1>7
  <2> HIDE DEF y
  <2>3. PollTurn(y)
    BY <1>1, <1>2, <2>1 DEF PollTurn
  <2> QED
    BY <1>1, <1>4, <2>1, <2>2, <2>3, VideoMarkKeeps
<1> QED
  BY <1>5, <1>6, <1>7
-----------------------------------------------------------------------------
(***************************************************************************)
(* Faults and cleanup                                                      *)
(***************************************************************************)
\* A failed transaction ends the request, or is caught; what it leaves behind
\* is accounted for.
LEMMA DatabaseErrorKeeps ==
    ASSUME DirectInv, NEW h \in Handler, DatabaseError(h)
    PROVE  DirectInv'
<1> DEFINE x == handler[h]
           caught == x.op = "image" /\ x.pc \in {"record", "asset", "succeed"}
           forgiven == x.op = "refresh" /\ x.pc = "asset"
           dropped == IF x.op = "image" /\ x.pc \in {"start", "fail"} THEN {x.job} ELSE {}
           unrecorded == IF x.op \in {"video", "wait"} /\ x.pc = "upsert" THEN {x.task} ELSE {}
<1>1. /\ loop = h /\ lost' = lost \cup dropped \cup unrecorded
      /\ UNCHANGED <<job, taskOf, videoTask, generation, accepted>>
      /\ Go(h, CASE caught -> [x EXCEPT !.pc = "fail"]
                 [] forgiven -> [x EXCEPT !.pc = "mark", !.file = FALSE]
                 [] OTHER -> Idle)
  BY DEF DatabaseError, tables
<1>2. /\ x \in Frame(x) /\ job \in [Job -> JobRows] /\ SucceededImageRecorded
      /\ x.pc \notin Suspended
      /\ x.op = "image" => ImageTurn(x)
      /\ x.op \in {"video", "wait"} => VideoTurn(x)
      /\ x.op \in {"poll", "refresh"} => PollTurn(x)
  BY <1>1, TurnOf DEF DirectInv, LoopOK, TablesOK
<1>3. lost \subseteq lost'
  BY <1>1
<1>4. CASE x.op = "image" /\ x.pc = "insert"
  <2>1. x.job = NoJob /\ Go(h, Idle)
    BY <1>1, <1>2, <1>4 DEF ImageTurn
  <2>2. handler'[h] = Idle
    BY <2>1, IdleFrame, GoMoves DEF DirectInv
  <2>3. Moves(h)
    BY <1>1, <1>3, <2>1, IdleFrame, GoMoves DEF DirectInv, Moves
  <2>4. Turn(handler[h])' /\ TablesOK' /\ TasksAreAccepted'
    BY <1>1, <2>2 DEF Turn, Idle, DirectInv, TablesOK, TasksAreAccepted
  <2>5. \A j \in Job : ~Owns(handler[h], j) /\ ~Owns(handler'[h], j)
    BY <2>1, <2>2, SentinelAssumption DEF Owns, Idle
  <2>6. MindsImages(h) /\ \A j \in Job : ~TakesOver(h, j)
    BY <1>1, <2>5 DEF MindsImages, TakesOver
  <2>7. MindsTasks(h)
    BY <1>1, <1>4 DEF MindsTasks
  <2> QED
    BY <2>3, <2>4, <2>6, <2>7, MoveKeeps
<1>5. CASE x.op = "image" /\ x.pc # "insert"
  <2>1. /\ x.job \in Job /\ Owns(x, x.job) /\ x.pc \in {"start", "record", "asset", "succeed", "fail"}
        /\ KindOf[x.job] = "image"
    BY <1>2, <1>5 DEF ImageTurn, Owns, Suspended, Awaits
  <2>2. job[x.job].status = "succeeded" => x.job \in generation
    BY <1>2, <2>1 DEF SucceededImageRecorded
  <2>3. CASE caught
    <3> DEFINE y == [x EXCEPT !.pc = "fail"]
    <3>1. /\ y \in Frame(y) /\ y.op = "image" /\ y.pc = "fail" /\ y.job = x.job
          /\ y.req = x.req /\ y.task = x.task
      BY <1>2, <1>5 DEF Frame
    <3>2. Go(h, y)
      BY <1>1, <2>3
    <3> HIDE DEF y
    <3>3. handler'[h] = y
      BY <3>1, <3>2, GoMoves DEF DirectInv
    <3>4. ImageTurn(handler[h])' /\ Owns(y, x.job)
      BY <1>1, <1>2, <1>5, <2>1, <2>3, <3>1, <3>3 DEF ImageTurn, Owns
    <3> QED
      BY <1>1, <1>2, <1>3, <2>1, <2>2, <3>1, <3>2, <3>4, OwnerKeeps
  <2>4. CASE ~caught
    <3>1. x.job \in lost' /\ Go(h, Idle)
      BY <1>1, <1>5, <2>1, <2>4
    <3> QED
      BY <1>1, <1>2, <1>3, <2>1, <2>2, <3>1, IdleFrame, OwnerKeeps
  <2> QED
    BY <2>3, <2>4
<1>6. CASE x.op # "image"
  <2>1. x.pc = "upsert" => videoTask'[x.task] # "none" \/ x.task \in lost'
    <3>1. x.op # "none" \/ x.pc = "idle"
      BY DEF DirectInv, Turn, Idle, ImageTurn, VideoTurn, PollTurn
    <3>2. CASE x.op \in {"video", "wait"}
      BY <1>1, <3>2
    <3>3. CASE x.op \in {"poll", "refresh"}
      BY <1>1, <1>2, <1>3, <3>3 DEF PollTurn, OnRecord
    <3> QED
      BY <1>2, <1>6, <3>1, <3>2, <3>3 DEF Frame
  <2>2. CASE forgiven
    <3> DEFINE y == [x EXCEPT !.pc = "mark", !.file = FALSE]
    <3>1. y \in Frame(y) /\ y.op = x.op /\ y.pc = "mark" /\ y.task = x.task /\ y.job = x.job
      BY <1>2 DEF Frame
    <3>2. Go(h, y)
      BY <1>1, <1>6, <2>2
    <3> HIDE DEF y
    <3>3. PollTurn(y)
      BY <1>2, <2>2, <3>1 DEF PollTurn
    <3> QED
      BY <1>1, <1>2, <1>3, <1>6, <2>1, <3>1, <3>2, <3>3, VideoMarkKeeps
  <2>3. CASE ~forgiven
    <3>1. Go(h, Idle)
      BY <1>1, <1>6, <2>3
    <3> QED
      BY <1>1, <1>2, <1>3, <1>6, <2>1, <3>1, IdleFrame, VideoMarkKeeps
  <2> QED
    BY <2>2, <2>3
<1> QED
  BY <1>4, <1>5, <1>6

\* After a crash every abandoned job and every unrecorded task is accounted for.
LEMMA CrashKeeps ==
    ASSUME DirectInv, Crash
    PROVE  DirectInv'
<1>1. /\ \A h \in Handler : handler'[h] = Idle
      /\ handler' = [h \in Handler |-> handler'[h]] /\ loop' = NoHandler
      /\ UNCHANGED <<job, taskOf, videoTask, generation, accepted>>
      /\ lost \subseteq lost'
      /\ \A h \in Handler : /\ handler[h].op = "image" /\ handler[h].job # NoJob =>
                                 handler[h].job \in lost'
                            /\ At(h, {"video", "wait"}, "upsert") => handler[h].task \in lost'
  BY DEF Crash, tables, Pending
<1>2. LoopOK'
  BY <1>1, IdleFrame, SentinelAssumption DEF LoopOK, Suspended, Frame
<1>3. \A h \in Handler : Turn(handler[h])'
  BY <1>1 DEF Turn, Idle
<1>4. OneOwner'
  BY <1>1, IdleFrame DEF OneOwner, Owns
<1>5. TablesOK' /\ TasksAreAccepted' /\ SucceededImageRecorded'
  BY <1>1 DEF DirectInv, TablesOK, TasksAreAccepted, SucceededImageRecorded
<1>6. AcceptedTaskOnRecord'
  <2> SUFFICES ASSUME NEW t \in accepted, videoTask[t] = "none", t \notin lost
               PROVE  t \in lost'
    BY <1>1 DEF AcceptedTaskOnRecord
  <2>1. PICK h \in Handler : handler[h].task = t /\ handler[h].pc = "upsert"
    BY DEF DirectInv, AcceptedTaskOnRecord
  <2>2. ~PollTurn(handler[h])
    BY <2>1 DEF PollTurn, OnRecord
  <2>3. VideoTurn(handler[h])
    BY <2>1, <2>2 DEF DirectInv, Turn, Idle, ImageTurn
  <2> QED
    BY <1>1, <2>1, <2>3 DEF VideoTurn, At
<1>7. ActiveImageHasRequest'
  <2> SUFFICES ASSUME NEW j \in Job, KindOf[j] = "image", Active(job[j]), j \notin lost'
               PROVE  FALSE
    BY <1>1 DEF ActiveImageHasRequest, Active
  <2>1. PICK h \in Handler : handler[h].op = "image" /\ handler[h].job = j
    BY <1>1 DEF DirectInv, ActiveImageHasRequest
  <2> QED
    BY <1>1, <2>1, SentinelAssumption
<1> QED
  BY <1>2, <1>3, <1>4, <1>5, <1>6, <1>7 DEF DirectInv

\* Cleanup takes decided jobs, on which no request works.
LEMMA CleanupKeeps ==
    ASSUME DirectInv, NEW j \in Job, CleanupJob(j)
    PROVE  DirectInv'
<1>1. /\ loop = NoHandler /\ Terminal(job[j])
      /\ job' = [job EXCEPT ![j] = [AbsentJob EXCEPT !.status = "deleted"]]
      /\ taskOf' = [taskOf EXCEPT ![j] = NoTask]
      /\ generation' = generation \ {j}
      /\ UNCHANGED <<loop, handler, videoTask, accepted, lost>>
  BY DEF CleanupJob, observers
<1>2. /\ [AbsentJob EXCEPT !.status = "deleted"] \in JobRows
      /\ [AbsentJob EXCEPT !.status = "deleted"].status = "deleted"
  BY DEF AbsentJob, JobRows, RowStatuses, Stages
<1>3. /\ TablesOK' /\ job'[j].status = "deleted"
      /\ \A i \in Job \ {j} : job'[i] = job[i] /\ taskOf'[i] = taskOf[i]
      /\ taskOf'[j] = NoTask
  BY <1>1, <1>2 DEF DirectInv, TablesOK
<1>4. ASSUME NEW h \in Handler
      PROVE  Turn(handler[h])'
  <2>1. handler[h].pc \in Suspended /\ Turn(handler[h]) /\ handler'[h] = handler[h]
    BY <1>1, SentinelAssumption DEF DirectInv, LoopOK
  <2>2. CASE ImageTurn(handler[h])
    <3>1. handler[h].pc = "call" /\ handler[h].job \in Job
      BY <2>1, <2>2 DEF ImageTurn, Suspended, Awaits
    <3>2. handler[h].job # j
      BY <1>1, <2>2, <3>1 DEF ImageTurn, Terminal, TerminalStatuses
    <3> QED
      BY <1>3, <2>1, <2>2, <3>1, <3>2 DEF Turn, ImageTurn
  <2> QED
    BY <1>1, <2>1, <2>2 DEF Turn, Idle, VideoTurn, PollTurn, OnRecord
<1>5. LoopOK' /\ OneOwner' /\ AcceptedTaskOnRecord' /\ TasksAreAccepted'
  BY <1>1, <1>3 DEF DirectInv, LoopOK, OneOwner, AcceptedTaskOnRecord, TasksAreAccepted
<1>6. ActiveImageHasRequest'
  <2>1. ~Active(job'[j])
    BY <1>3 DEF Active, ActiveStatuses
  <2> QED
    BY <1>1, <1>3, <2>1 DEF DirectInv, ActiveImageHasRequest
<1>7. SucceededImageRecorded'
  BY <1>1, <1>3 DEF DirectInv, SucceededImageRecorded
<1> QED
  BY <1>3, <1>4, <1>5, <1>6, <1>7 DEF DirectInv

-----------------------------------------------------------------------------
(***************************************************************************)
(* Theorems                                                                *)
(***************************************************************************)
\* Every step keeps the invariant.
LEMMA DirectStep ==
    ASSUME DirectInv, [DirectNext]_vars
    PROVE  DirectInv'
<1>1. ASSUME NEW h \in Handler, HandlerStep(h)
      PROVE  DirectInv'
  BY <1>1, ImageInsertKeeps, ImageWorkKeeps, SubmitKeeps, UpsertKeeps, VideoInsertKeeps,
     VideoWorkKeeps, MarkKeeps DEF HandlerStep, ImageStep, VideoStep, PollStep
<1>2. CASE UNCHANGED vars
  <2>1. UNCHANGED <<loop, handler, job, hashOf, taskOf, videoTask, generation, accepted, lost>>
    BY <1>2 DEF vars, tables, observers
  <2>2. \A h \in Handler : Turn(handler[h])'
    <3> SUFFICES ASSUME NEW h \in Handler
                 PROVE  Turn(handler[h])'
      OBVIOUS
    <3>1. Turn(handler[h]) /\ handler'[h] = handler[h]
      BY <2>1 DEF DirectInv
    <3>2. IndexRefuses(handler[h])' <=> IndexRefuses(handler[h])
      BY <2>1 DEF IndexRefuses, InFlight, SameHash, HashFor
    <3> QED
      BY <2>1, <3>1, <3>2 DEF Turn, Idle, ImageTurn, VideoTurn, PollTurn, OnRecord
  <2>3. TablesOK' /\ LoopOK' /\ OneOwner' /\ TasksAreAccepted'
    BY <2>1 DEF DirectInv, TablesOK, LoopOK, OneOwner, TasksAreAccepted
  <2>4. AcceptedTaskOnRecord' /\ ActiveImageHasRequest' /\ SucceededImageRecorded'
    BY <2>1 DEF DirectInv, AcceptedTaskOnRecord, ActiveImageHasRequest, SucceededImageRecorded
  <2> QED
    BY <2>2, <2>3, <2>4 DEF DirectInv
<1> QED
  BY <1>1, <1>2, ArrivalKeeps, DatabaseErrorKeeps, CrashKeeps, CleanupKeeps DEF DirectNext

\* What the handlers of the API process rely on holds in every state.
THEOREM DirectInvariant == DirectSpec => []DirectInv
<1>1. DirectInit => DirectInv
  <2> SUFFICES ASSUME DirectInit
               PROVE  DirectInv
    OBVIOUS
  <2>1. TablesOK
    BY DEF DirectInit, TablesOK, AbsentJob, JobRows, RowStatuses, Stages
  <2>2. /\ loop = NoHandler /\ \A h \in Handler : handler[h] = Idle
        /\ handler = [h \in Handler |-> handler[h]]
    BY DEF DirectInit
  <2>3. LoopOK
    BY <2>2, IdleFrame, SentinelAssumption DEF LoopOK, Suspended
  <2>4. OneOwner /\ \A h \in Handler : Turn(handler[h])
    BY <2>2, IdleFrame DEF OneOwner, Owns, Turn
  <2>5. TasksAreAccepted /\ AcceptedTaskOnRecord
    BY DEF DirectInit, TasksAreAccepted, AcceptedTaskOnRecord
  <2>6. ActiveImageHasRequest /\ SucceededImageRecorded
    BY DEF DirectInit, ActiveImageHasRequest, SucceededImageRecorded, Active, ActiveStatuses,
           AbsentJob
  <2> QED
    BY <2>1, <2>3, <2>4, <2>5, <2>6 DEF DirectInv
<1>2. DirectInv /\ [DirectNext]_vars => DirectInv'
  BY DirectStep
<1> QED
  BY <1>1, <1>2, PTL DEF DirectSpec

\* Every task id the provider handed out is in video_tasks, on the way there
\* or lost to a fault, whoever wins the race for the job row
\* (create_video, upsert_video_task before _create_video_job).
THEOREM AcceptedTasksRecorded == DirectSpec => []AcceptedTaskOnRecord
<1>1. DirectInv => AcceptedTaskOnRecord
  BY DEF DirectInv
<1> QED
  BY <1>1, DirectInvariant, PTL

\* An unfinished image job has a request executing it, short of a crash or a
\* failed status write (create_image and its except branches).
THEOREM ActiveImagesHaveRequests == DirectSpec => []ActiveImageHasRequest
<1>1. DirectInv => ActiveImageHasRequest
  BY DEF DirectInv
<1> QED
  BY <1>1, DirectInvariant, PTL

\* A succeeded image job has its history row, wherever a crash cut the three
\* transactions of _complete_image_success.
THEOREM SucceededImagesRecorded == DirectSpec => []SucceededImageRecorded
<1>1. DirectInv => SucceededImageRecorded
  BY DEF DirectInv
<1> QED
  BY <1>1, DirectInvariant, PTL

\* The unique index never refuses an image the duplicate check let through.
THEOREM ImageInsertsSucceed == DirectSpec => []ImageInsertNeverRefused
<1>1. DirectInv => ImageInsertNeverRefused
  BY TurnOf DEF ImageInsertNeverRefused, At, ImageTurn
<1> QED
  BY <1>1, DirectInvariant, PTL
\* Who writes job rows: inserts and image marks write rows that are not decided,
\* polls and refreshes go through the status table.
LEMMA DecidedStays ==
    ASSUME DirectInv, DirectNext, NEW j \in Job, Terminal(job[j])
    PROVE  job'[j].status \in {job[j].status, "deleted"}
<1>1. job \in [Job -> JobRows]
  BY DEF DirectInv, TablesOK
<1>2. CASE UNCHANGED job
  BY <1>2
<1>3. ASSUME NEW h \in Handler, CreateImageJob(h) \/ CreateVideoJob(h)
      PROVE  job'[j] = job[j]
  <2>1. \/ UNCHANGED job
        \/ \E i \in Job : \E row : job[i].status = "absent" /\ job' = [job EXCEPT ![i] = row]
    BY <1>3 DEF CreateImageJob, CreateVideoJob, InsertJob, Fresh, tables
  <2> QED
    BY <1>1, <2>1 DEF Terminal, TerminalStatuses
<1>4. ASSUME NEW h \in Handler,
             MarkImageRunning(h) \/ MarkImageSucceeded(h) \/ MarkImageFailure(h)
      PROVE  job'[j] = job[j]
  <2>1. /\ handler[h].op = "image" /\ handler[h].pc \in {"start", "succeed", "fail"}
        /\ \E status \in ValidStatuses : job' = Marked(handler[h].job, status)
    BY <1>4 DEF MarkImageRunning, MarkImageSucceeded, MarkImageFailure, Running, At,
                ValidStatuses, ActiveStatuses, TerminalStatuses
  <2>2. handler[h].job \in Job /\ job[handler[h].job].status \in {"queued", "running"}
    BY <2>1, TurnOf DEF ImageTurn
  <2>3. handler[h].job # j
    BY <2>2 DEF Terminal, TerminalStatuses
  <2> QED
    BY <1>1, <2>1, <2>2, <2>3, MarkedRow
<1>5. ASSUME NEW h \in Handler, MarkPolled(h) \/ MarkRefreshed(h)
      PROVE  job'[j].status = job[j].status
  <2>1. /\ handler[h] \in Frame(handler[h]) /\ PollTurn(handler[h])
        /\ handler[h].op = "refresh" => handler[h].job # NoJob
    BY <1>5, TurnOf DEF MarkPolled, MarkRefreshed, Running, At, PollTurn
  <2>2. \/ job' = job
        \/ /\ handler[h].job \in Job
           /\ \E status \in {"succeeded", "failed", "running"} :
                Markable(handler[h].job, status) /\ job' = Marked(handler[h].job, status)
    <3>1. CASE MarkPolled(h)
      BY <2>1, <3>1 DEF MarkPolled, Frame
    <3>2. CASE MarkRefreshed(h)
      <4>1. RefreshTarget(handler[h]) \in {"succeeded", "failed", "running"}
        BY DEF RefreshTarget
      <4>2. handler[h].job \in Job
        BY <2>1, <3>2 DEF MarkRefreshed, Running, At, Frame
      <4> QED
        BY <3>2, <4>1, <4>2 DEF MarkRefreshed
    <3> QED
      BY <1>5, <3>1, <3>2
  <2>3. ASSUME NEW status \in {"succeeded", "failed", "running"}, Markable(j, status)
        PROVE  status = job[j].status
    BY <2>3 DEF Markable, CanTransition, StatusTransitions, Terminal, TerminalStatuses
  <2>4. {"succeeded", "failed", "running"} \subseteq ValidStatuses
    BY DEF ValidStatuses, ActiveStatuses, TerminalStatuses
  <2> QED
    BY <1>1, <2>2, <2>3, <2>4, MarkedRow
<1>6. ASSUME NEW i \in Job, CleanupJob(i)
      PROVE  job'[j].status \in {job[j].status, "deleted"}
  BY <1>1, <1>6 DEF CleanupJob, AbsentJob
<1>7. ASSUME NEW h \in Handler, HandlerStep(h)
      PROVE  job'[j].status = job[j].status
  BY <1>2, <1>3, <1>4, <1>5, <1>7
     DEF HandlerStep, ImageStep, VideoStep, PollStep, ExecuteImage, RecordImage, SaveImageAsset,
         SubmitVideo, UpsertVideoTask, RecordVideo, SaveVideoAsset, PollAnswered,
         SavePolledAsset, ImportCompleted, tables
<1>8. ASSUME NEW h \in Handler,
             \/ DatabaseError(h)
             \/ \E r \in Request : CreateImage(h, r) \/ CreateVideo(h, r)
             \/ \E t \in Task : GetVideo(h, t)
             \/ \E i \in Job : Refresh(h, i)
      PROVE  UNCHANGED job
  BY <1>8 DEF DatabaseError, CreateImage, CreateVideo, GetVideo, Refresh, Accept, tables
<1>9. CASE Crash
  BY <1>2, <1>9 DEF Crash, tables
<1> QED
  BY <1>6, <1>7, <1>8, <1>9 DEF DirectNext

\* The answer of a slower poll or refresh never replaces the outcome of a job:
\* what was read before the await is checked again by the transition.
THEOREM DirectOutcomeFinal == DirectSpec => OutcomeIsFinal
<1>1. DirectInv /\ [DirectNext]_vars =>
        [\A j \in Job : Terminal(job[j]) => job'[j].status \in {job[j].status, "deleted"}]_vars
  BY DecidedStays
<1> QED
  BY <1>1, DirectInvariant, PTL DEF DirectSpec, OutcomeIsFinal

\* While a refresh holds the loop, only its mark writes a job row, and it
\* succeeds only a job with an asset.
LEMMA RefreshMarks ==
    ASSUME DirectInv, DirectNext, NEW j \in Job, job[j].status # "succeeded",
           job'[j].status = "succeeded", loop \in Pending("refresh")
    PROVE  j \in asset'
<1>1. PICK h \in Handler : loop = h /\ handler[h].op = "refresh" /\ loop # NoHandler
  BY SentinelAssumption DEF Pending
<1>2. job \in [Job -> JobRows] /\ handler[h] \in Frame(handler[h]) /\ PollTurn(handler[h])
  BY <1>1, TurnOf DEF DirectInv, TablesOK
<1>3. ~UNCHANGED job
  OBVIOUS
<1>4. ASSUME NEW g \in Handler, HandlerStep(g)
      PROVE  g = h /\ PollStep(h)
  BY <1>1, <1>3, <1>4
     DEF HandlerStep, ImageStep, VideoStep, PollStep, CreateImageJob, MarkImageRunning,
         ExecuteImage, RecordImage, SaveImageAsset, MarkImageSucceeded, MarkImageFailure,
         SubmitVideo, UpsertVideoTask, CreateVideoJob, RecordVideo, SaveVideoAsset,
         PollAnswered, MarkPolled, SavePolledAsset, ImportCompleted, MarkRefreshed,
         Running, Resumed, At, tables
<1>5. ASSUME NEW g \in Handler,
             \/ DatabaseError(g)
             \/ \E r \in Request : CreateImage(g, r) \/ CreateVideo(g, r)
             \/ \E t \in Task : GetVideo(g, t)
             \/ \E i \in Job : Refresh(g, i)
      PROVE  UNCHANGED job
  BY <1>5 DEF DatabaseError, CreateImage, CreateVideo, GetVideo, Refresh, Accept, tables
<1>6. ~Crash /\ \A i \in Job : ~CleanupJob(i)
  BY <1>1, <1>3 DEF Crash, CleanupJob, tables
<1>7. MarkRefreshed(h)
  <2>1. PollStep(h)
    BY <1>3, <1>4, <1>5, <1>6 DEF DirectNext
  <2> QED
    BY <1>1, <1>3, <2>1 DEF PollStep, PollAnswered, MarkPolled, SavePolledAsset, ImportCompleted,
                            Running, At, tables
<1>8. /\ job' = Marked(handler[h].job, RefreshTarget(handler[h]))
      /\ UNCHANGED asset /\ handler[h].job \in Job
  BY <1>1, <1>2, <1>3, <1>7 DEF MarkRefreshed, PollTurn, Frame
<1>9. RefreshTarget(handler[h]) \in {"succeeded", "failed", "running"}
  BY DEF RefreshTarget
<1>10. handler[h].job = j /\ RefreshTarget(handler[h]) = "succeeded"
  BY <1>2, <1>8, <1>9, MarkedRow DEF ValidStatuses, ActiveStatuses, TerminalStatuses
<1>11. handler[h].job \in asset
  BY <1>10 DEF RefreshTarget
<1> QED
  BY <1>8, <1>10, <1>11

\* A refresh marks a job succeeded only with a local asset linked to it
\* (_import_completed), whatever happened to the job while it polled.
THEOREM RefreshNeedsAsset == DirectSpec => RefreshedHasAsset
<1>1. DirectInv /\ [DirectNext]_vars =>
        [\A j \in Job :
           /\ job[j].status # "succeeded"
           /\ job'[j].status = "succeeded"
           /\ loop \in Pending("refresh")
           => j \in asset']_vars
  BY RefreshMarks
<1> QED
  BY <1>1, DirectInvariant, PTL DEF DirectSpec, RefreshedHasAsset

-----------------------------------------------------------------------------
(***************************************************************************)
(* Types.  The routes of a request come from resolve_chain, which is       *)
(* defined by recursion over the chain.  The library states induction for  *)
(* an operator; stated for a set of numbers the provers can use it.        *)
(***************************************************************************)
\* Induction over the natural numbers, for a set of them.
LEMMA NatSetInduction ==
    ASSUME NEW T, T \subseteq Nat, 0 \in T, \A n \in T : n + 1 \in T
    PROVE  T = Nat
<1> DEFINE M == Nat \ T
<1>1. SUFFICES ASSUME M # {} PROVE FALSE
  OBVIOUS
<1>2. \E x \in M : \A y \in M : ~ (<<y, x>> \in OpToRel(<, Nat))
  <2>1. M \subseteq Nat
    OBVIOUS
  <2> HIDE DEF M
  <2> QED
    BY <1>1, <2>1, WFMin, NatLessThanWellFounded
<1>3. PICK x \in M : \A y \in M : ~ (<<y, x>> \in OpToRel(<, Nat))
  BY <1>2
<1>4. x # 0 /\ x - 1 \in Nat /\ x - 1 < x
  OBVIOUS
<1>5. x - 1 \in M
  BY <1>4
<1>6. <<x - 1, x>> \in OpToRel(<, Nat)
  BY <1>4 DEF OpToRel
<1> QED
  BY <1>3, <1>5, <1>6


\* What the loop of resolve_chain holds after the first n routes.
Kept(f, n, wanted, enabled) ==
    IF n = 0 THEN << >>
    ELSE IF wanted[n] \in enabled THEN Append(f[n - 1], wanted[n])
    ELSE f[n - 1]

Loop(f, k, wanted, enabled) == f = [n \in 0..k |-> Kept(f, n, wanted, enabled)]

\* The recursive definition of ResolveChain has a solution.
LEMMA LoopExists ==
    ASSUME NEW wanted, NEW enabled, NEW k \in Nat
    PROVE  \E f : Loop(f, k, wanted, enabled)
<1> DEFINE T == {n \in Nat : \E f : Loop(f, n, wanted, enabled)}
<1>1. 0 \in T
  <2> DEFINE f == [n \in 0..0 |-> << >>]
  <2>1. f = [n \in 0..0 |-> Kept(f, n, wanted, enabled)]
    BY DEF Kept
  <2> QED
    BY <2>1 DEF Loop
<1>2. ASSUME NEW m \in T
      PROVE  m + 1 \in T
  <2>1. m \in Nat
    OBVIOUS
  <2>2. PICK f : Loop(f, m, wanted, enabled)
    OBVIOUS
  <2> DEFINE g == [n \in 0..(m + 1) |-> IF n = m + 1 THEN Kept(f, n, wanted, enabled) ELSE f[n]]
  <2>3. ASSUME NEW n \in 0..(m + 1)
        PROVE  g[n] = Kept(g, n, wanted, enabled)
    <3>1. n # 0 => n - 1 \in 0..m /\ g[n - 1] = f[n - 1]
      BY <2>1
    <3>2. g[n] = Kept(f, n, wanted, enabled)
      BY <2>1, <2>2 DEF Loop
    <3> HIDE DEF g
    <3> QED
      BY <3>1, <3>2 DEF Kept
  <2>4. g = [n \in 0..(m + 1) |-> g[n]]
    OBVIOUS
  <2>5. Loop(g, m + 1, wanted, enabled)
    <3> HIDE DEF g
    <3> QED
      BY <2>3, <2>4 DEF Loop
  <2> QED
    BY <2>1, <2>5
<1>3. T \subseteq Nat
  OBVIOUS
<1> HIDE DEF T
<1>4. T = Nat
  BY <1>1, <1>2, <1>3, NatSetInduction
<1> QED
  BY <1>4 DEF T

\* resolve_chain keeps routes of the chain it was given, and enabled ones only.
LEMMA ResolvedRoutes ==
    ASSUME NEW P, NEW wanted \in Seq(P), NEW enabled
    PROVE  ResolveChain(wanted, enabled) \in Seq(P \cap enabled)
<1> DEFINE k == Len(wanted)
           c == CHOOSE f : Loop(f, k, wanted, enabled)
<1>1. k \in Nat
  OBVIOUS
<1>2. Loop(c, k, wanted, enabled)
  BY <1>1, LoopExists
<1>3. ResolveChain(wanted, enabled) = c[k]
  BY DEF ResolveChain, Loop, Kept
<1> HIDE DEF k, c
<1> DEFINE T == {n \in Nat : n <= k => c[n] \in Seq(P \cap enabled)}
<1>4. 0 \in T
  BY <1>1, <1>2 DEF Loop, Kept
<1>5. ASSUME NEW n \in T
      PROVE  n + 1 \in T
  <2>1. SUFFICES ASSUME n + 1 <= k
                 PROVE  c[n + 1] \in Seq(P \cap enabled)
    OBVIOUS
  <2>2. n \in Nat /\ n + 1 \in 0..k /\ c[n] \in Seq(P \cap enabled)
    BY <1>1, <2>1
  <2>3. c[n + 1] = Kept(c, n + 1, wanted, enabled)
    BY <1>2, <2>2 DEF Loop
  <2>4. c[n + 1] = IF wanted[n + 1] \in enabled THEN Append(c[n], wanted[n + 1]) ELSE c[n]
    BY <2>2, <2>3 DEF Kept
  <2>5. wanted[n + 1] \in P
    BY <2>2 DEF k
  <2> QED
    BY <2>2, <2>4, <2>5
<1>6. T = Nat
  <2>1. T \subseteq Nat
    OBVIOUS
  <2> HIDE DEF T
  <2> QED
    BY <1>4, <1>5, <2>1, NatSetInduction
<1>7. k \in T
  BY <1>1, <1>6
<1> QED
  BY <1>3, <1>7

\* Every plan is a non-empty sequence of known providers.
LEMMA PlansAreRoutes ==
    ASSUME NEW plan \in Plans
    PROVE  plan \in Seq(Providers) /\ plan # << >>
<1>1. PICK wanted \in {DefaultChain} \cup {<<p>> : p \in Providers}, enabled \in SUBSET Providers :
        plan = ResolveChain(wanted, enabled)
  BY DEF Plans
<1>2. wanted \in Seq(Providers)
  <2>1. CASE wanted = DefaultChain
    BY <2>1, ChainAssumption
  <2>2. ASSUME NEW p \in Providers, wanted = <<p>>
        PROVE  wanted \in Seq(Providers)
    BY <2>2
  <2> QED
    BY <2>1, <2>2
<1>3. plan \in Seq(Providers \cap enabled)
  BY <1>1, <1>2, ResolvedRoutes
<1>4. plan \in Seq(Providers)
  BY <1>3
<1> QED
  BY <1>4 DEF Plans

\* The routes and the request of a handler: an image still to be executed has a
\* route left, one still to be inserted its whole plan.
RequestFits(x) ==
    /\ x.routes \in Seq(Providers)
    /\ x.op = "image" /\ x.pc \in {"insert", "start", "call"} => x.routes # << >>
    /\ x.op = "image" /\ x.pc = "insert" => x.routes \in Plans
    /\ x.op \in {"video", "wait"} => x.req \in Request

RequestsFit == \A h \in Handler : RequestFits(handler[h])

\* The columns and counters DirectInv does not need.
RowsFit ==
    /\ hashOf \in [Job -> Hashes]
    /\ generation \subseteq (Job \cup Task) /\ asset \subseteq (Job \cup Task)
    /\ lost \subseteq (Task \cup Job)
    /\ requests \in 0..MaxRequests /\ faults \in 0..MaxFaults

TypesInv == RequestsFit /\ RowsFit

LEMMA IdleFits == RequestFits(Idle)
  BY DEF RequestFits, Idle

\* A handler that goes on as a fitting one leaves the others alone.
LEMMA GoFits ==
    ASSUME DirectInv, RequestsFit, NEW h \in Handler, NEW x, RequestFits(x), Go(h, x)
    PROVE  RequestsFit'
<1> SUFFICES ASSUME NEW g \in Handler
             PROVE  RequestFits(handler'[g])
  BY DEF RequestsFit, RequestFits
<1>1. handler'[g] = IF g = h THEN x ELSE handler[g]
  BY DEF Go, DirectInv, LoopOK
<1> QED
  BY <1>1 DEF RequestsFit

\* Going on past the provider calls needs no routes.
LEMMA PastCallsFits ==
    ASSUME NEW x, RequestFits(x), NEW y, y.op = x.op, y.req = x.req, y.routes = x.routes,
           y.pc \in {"record", "asset", "succeed", "fail", "upsert", "mark"} \/ x.op # "image"
    PROVE  RequestFits(y)
  BY DEF RequestFits

\* Arriving requests: an image brings its plan.
LEMMA ArrivalFits ==
    ASSUME DirectInv, TypesInv, NEW h \in Handler,
           \/ \E r \in Request : CreateImage(h, r) \/ CreateVideo(h, r)
           \/ \E t \in Task : GetVideo(h, t)
           \/ \E j \in Job : Refresh(h, j)
    PROVE  TypesInv'
<1>1. ASSUME NEW x, RequestFits(x), Accept(h, x)
      PROVE  TypesInv'
  <2>1. RequestsFit'
    BY <1>1, GoFits DEF Accept, TypesInv
  <2>2. RowsFit'
    BY <1>1, DirectBoundsAssumption DEF Accept, TypesInv, RowsFit, tables, observers
  <2> QED
    BY <2>1, <2>2 DEF TypesInv
<1>2. ASSUME NEW r \in Request, CreateImage(h, r)
      PROVE  TypesInv'
  <2>1. PICK plan \in Plans :
          Accept(h, [Idle EXCEPT !.op = "image", !.pc = "insert", !.req = r, !.routes = plan])
    BY <1>2 DEF CreateImage
  <2>2. plan \in Seq(Providers) /\ plan # << >>
    BY PlansAreRoutes
  <2>3. RequestFits([Idle EXCEPT !.op = "image", !.pc = "insert", !.req = r, !.routes = plan])
    BY <2>2 DEF RequestFits, Idle
  <2> QED
    BY <1>1, <2>1, <2>3
<1>3. ASSUME NEW r \in Request, CreateVideo(h, r)
      PROVE  TypesInv'
  <2>1. \A op \in {"video", "wait"} :
          RequestFits([Idle EXCEPT !.op = op, !.pc = "submit", !.req = r])
    BY DEF RequestFits, Idle
  <2> QED
    BY <1>1, <1>3, <2>1 DEF CreateVideo
<1>4. ASSUME NEW op \in {"poll", "refresh"}, NEW t, NEW j
      PROVE  RequestFits([Idle EXCEPT !.op = op, !.pc = "poll", !.task = t, !.job = j])
  BY DEF RequestFits, Idle
<1>5. ASSUME NEW t \in Task, GetVideo(h, t)
      PROVE  TypesInv'
  BY <1>1, <1>4, <1>5 DEF GetVideo
<1>6. ASSUME NEW j \in Job, Refresh(h, j)
      PROVE  TypesInv'
  BY <1>1, <1>4, <1>6 DEF Refresh
<1> QED
  BY <1>2, <1>3, <1>5, <1>6

\* Inserting a job row: the hash is one of the request and its chain.
LEMMA InsertFits ==
    ASSUME DirectInv, TypesInv, NEW h \in Handler, CreateImageJob(h) \/ CreateVideoJob(h)
    PROVE  TypesInv'
<1> DEFINE x == handler[h]
<1> DEFINE next == IF x.op = "image" THEN "start" ELSE "record"
<1>1. /\ \E kind, row : InsertJob(h, kind, row, next)
      /\ x.pc = "insert" /\ x.op \in {"image", "video"}
      /\ UNCHANGED <<accepted, lost, requests, faults>>
  <2>1. CASE CreateImageJob(h)
    BY <2>1 DEF CreateImageJob, Running, At, observers, Unbudgeted
  <2>2. CASE CreateVideoJob(h)
    BY <2>2 DEF CreateVideoJob, Running, At, observers, Unbudgeted
  <2> QED
    BY <2>1, <2>2
<1>2. RequestsFit /\ RequestFits(x) /\ RowsFit /\ x \in Frame(x)
  BY TurnOf DEF TypesInv, RequestsFit
<1>3. CASE Go(h, Idle) /\ UNCHANGED tables
  BY <1>1, <1>2, <1>3, GoFits, IdleFits DEF RowsFit, TypesInv, tables
<1>4. ASSUME NEW j \in Job, hashOf' = [hashOf EXCEPT ![j] = HashFor(x)],
             Go(h, [x EXCEPT !.job = j, !.pc = next]), UNCHANGED <<generation, asset>>
      PROVE  TypesInv'
  <2> DEFINE y == [x EXCEPT !.job = j, !.pc = next]
  <2>1. y.op = x.op /\ y.req = x.req /\ y.routes = x.routes /\ y.pc = next
    BY <1>2 DEF Frame
  <2>2. RequestFits(y)
    BY <1>1, <1>2, <2>1 DEF RequestFits
  <2>3. RequestsFit'
    BY <1>2, <1>4, <2>2, GoFits
  <2>4. HashFor(x) \in Hashes
    <3>1. x.req \in Request
      BY <1>1, <1>2, TurnOf DEF RequestFits, ImageTurn
    <3>2. x.op = "image" => x.routes \in Plans
      BY <1>1, <1>2 DEF RequestFits
    <3> QED
      BY <3>1, <3>2 DEF HashFor, Hashes
  <2>5. RowsFit'
    BY <1>1, <1>2, <1>4, <2>4 DEF RowsFit
  <2> QED
    BY <2>3, <2>5 DEF TypesInv
<1> QED
  BY <1>1, <1>3, <1>4 DEF InsertJob

\* A step that neither inserts a row nor calls a provider.
LEMMA PlainStepFits ==
    ASSUME DirectInv, TypesInv, NEW h \in Handler, NEW x, RequestFits(x), Go(h, x),
           UNCHANGED <<hashOf, lost, requests, faults>>,
           generation' \subseteq (Job \cup Task), asset' \subseteq (Job \cup Task)
    PROVE  TypesInv'
  BY GoFits DEF TypesInv, RowsFit

\* What is left of a chain when its first provider failed.
LEMMA RestOfRoutes ==
    ASSUME NEW S, NEW s \in Seq(S), s # << >>
    PROVE  Tail(s) \in Seq(S) /\ (Len(s) > 1 => Tail(s) # << >>)
<1>1. Len(s) \in Nat /\ Len(s) # 0
  OBVIOUS
<1>2. Tail(s) \in Seq(S) /\ Len(Tail(s)) = Len(s) - 1
  BY <1>1
<1>3. ASSUME Len(s) > 1
      PROVE  Tail(s) # << >>
  <2>1. Len(Tail(s)) # 0
    BY <1>1, <1>2, <1>3
  <2>2. \A u : u = << >> => Len(u) = 0
    OBVIOUS
  <2> QED
    BY <2>1, <2>2, Zenon
<1> QED
  BY <1>2, <1>3

\* The image steps past the insert: each failed provider uses up a route.
LEMMA ImageFits ==
    ASSUME DirectInv, TypesInv, NEW h \in Handler, ImageStep(h), ~CreateImageJob(h)
    PROVE  TypesInv'
<1> DEFINE x == handler[h]
<1>1. RequestFits(x) /\ RowsFit /\ x \in Frame(x)
  BY TurnOf DEF TypesInv, RequestsFit
<1>2. /\ x.op = "image"
      /\ x.pc # "insert"
      /\ UNCHANGED <<hashOf, lost, requests, faults>>
  BY DEF ImageStep, MarkImageRunning, ExecuteImage, RecordImage, SaveImageAsset,
         MarkImageSucceeded, MarkImageFailure, Running, Resumed, At, tables, observers, Unbudgeted
<1>3. x.pc # "idle"
  BY DEF ImageStep, MarkImageRunning, ExecuteImage, RecordImage, SaveImageAsset,
         MarkImageSucceeded, MarkImageFailure, Running, Resumed, At
<1>4. x.job \in Job
  BY <1>2, TurnOf DEF ImageTurn
<1>5. generation' \subseteq (Job \cup Task)
  BY <1>1, <1>4 DEF ImageStep, MarkImageRunning, ExecuteImage, RecordImage, SaveImageAsset,
         MarkImageSucceeded, MarkImageFailure, tables, RowsFit
<1>6. asset' \subseteq (Job \cup Task)
  BY <1>1, <1>4
     DEF SavesAsset, ImageStep, MarkImageRunning, ExecuteImage, RecordImage, SaveImageAsset,
         MarkImageSucceeded, MarkImageFailure, tables, RowsFit
<1>7. CASE MarkImageSucceeded(h) \/ MarkImageFailure(h)
  BY <1>2, <1>5, <1>6, <1>7, IdleFits, PlainStepFits DEF MarkImageSucceeded, MarkImageFailure
<1>8. CASE RecordImage(h) \/ SaveImageAsset(h)
  <2>1. PICK pc \in {"asset", "succeed"} : Go(h, [x EXCEPT !.pc = pc])
    BY <1>8 DEF RecordImage, SaveImageAsset
  <2>2. RequestFits([x EXCEPT !.pc = pc])
    BY <1>1, PastCallsFits DEF Frame
  <2> QED
    BY <1>2, <1>5, <1>6, <2>1, <2>2, PlainStepFits
<1>9. CASE MarkImageRunning(h)
  <2>1. x.pc = "start" /\ Go(h, [x EXCEPT !.pc = "call"])
    BY <1>9 DEF MarkImageRunning, Running, At
  <2>2. RequestFits([x EXCEPT !.pc = "call"])
    BY <1>1, <1>2, <2>1 DEF RequestFits, Frame
  <2> QED
    BY <1>2, <1>5, <1>6, <2>1, <2>2, PlainStepFits
<1>10. CASE ExecuteImage(h)
  <2>1. x.pc = "call" /\ x.routes \in Seq(Providers) /\ x.routes # << >>
    BY <1>1, <1>2, <1>10 DEF ExecuteImage, Resumed, At, RequestFits
  <2> DEFINE next == IF Len(x.routes) > 1 THEN "call" ELSE "fail"
             y == [x EXCEPT !.routes = Tail(@), !.pc = next]
  <2>2. /\ Tail(x.routes) \in Seq(Providers)
        /\ Len(x.routes) > 1 => Tail(x.routes) # << >>
    BY <2>1, RestOfRoutes
  <2>3. y.op = x.op /\ y.pc = next /\ y.routes = Tail(x.routes)
    BY <1>1 DEF Frame
  <2>4. RequestFits(y)
    <3> HIDE DEF y
    <3> QED
      BY <1>2, <2>2, <2>3 DEF RequestFits
  <2>5. \A file \in BOOLEAN : RequestFits([x EXCEPT !.pc = "record", !.file = file])
    BY <1>1, PastCallsFits DEF Frame
  <2>6. \/ Go(h, y)
        \/ \E file \in BOOLEAN : Go(h, [x EXCEPT !.pc = "record", !.file = file])
    BY <1>10 DEF ExecuteImage
  <2> HIDE DEF y
  <2> QED
    BY <1>2, <1>5, <1>6, <2>4, <2>5, <2>6, PlainStepFits
<1> QED
  BY <1>7, <1>8, <1>9, <1>10 DEF ImageStep

\* The video, poll and refresh steps past the insert keep routes and request.
LEMMA VideoFits ==
    ASSUME DirectInv, TypesInv, NEW h \in Handler, VideoStep(h) \/ PollStep(h), ~CreateVideoJob(h)
    PROVE  TypesInv'
<1> DEFINE x == handler[h]
<1>1. RequestFits(x) /\ RowsFit /\ x \in Frame(x)
  BY TurnOf DEF TypesInv, RequestsFit
<1>2. /\ x.op \in {"video", "wait", "poll", "refresh"}
      /\ UNCHANGED <<hashOf, lost, requests, faults>>
  BY DEF VideoStep, SubmitVideo, UpsertVideoTask, RecordVideo, SaveVideoAsset, PollStep,
         PollAnswered, MarkPolled, SavePolledAsset, ImportCompleted, MarkRefreshed,
         Running, Resumed, At, tables, observers, Unbudgeted
<1>3. /\ RecordVideo(h) \/ SaveVideoAsset(h) => x.task \in Task
      /\ SavePolledAsset(h) => x.task \in Task
      /\ SavePolledAsset(h) /\ x.job # NoJob => x.job \in Job
      /\ ImportCompleted(h) => x.job \in Job
  BY <1>1, TurnOf DEF RecordVideo, SaveVideoAsset, SavePolledAsset, ImportCompleted, Running, At,
       VideoTurn, PollTurn, OnRecord, DirectInv, TablesOK, Frame
<1>4. generation' \subseteq (Job \cup Task)
  BY <1>1, <1>3 DEF VideoStep, SubmitVideo, UpsertVideoTask, RecordVideo, SaveVideoAsset, PollStep,
         PollAnswered, MarkPolled, SavePolledAsset, ImportCompleted, MarkRefreshed, tables, RowsFit
<1>5. asset' \subseteq (Job \cup Task)
  BY <1>1, <1>3
     DEF SavesAsset, VideoStep, SubmitVideo, UpsertVideoTask, RecordVideo, SaveVideoAsset, PollStep,
         PollAnswered, MarkPolled, SavePolledAsset, ImportCompleted, MarkRefreshed, tables, RowsFit
<1>6. \E y : RequestFits(y) /\ Go(h, y)
  <2>1. CASE Go(h, Idle)
    BY <2>1, IdleFits
  <2>2. ASSUME NEW pc, Go(h, [x EXCEPT !.pc = pc])
        PROVE  \E y : RequestFits(y) /\ Go(h, y)
    BY <1>1, <1>2, <2>2, PastCallsFits DEF Frame
  <2>3. ASSUME NEW pc, NEW answer, NEW file,
               Go(h, [x EXCEPT !.pc = pc, !.answer = answer, !.file = file])
        PROVE  \E y : RequestFits(y) /\ Go(h, y)
    BY <1>1, <1>2, <2>3, PastCallsFits DEF Frame
  <2>4. ASSUME NEW pc, NEW task, NEW answer, NEW file,
               Go(h, [x EXCEPT !.task = task, !.pc = pc, !.answer = answer, !.file = file])
        PROVE  \E y : RequestFits(y) /\ Go(h, y)
    BY <1>1, <1>2, <2>4, PastCallsFits DEF Frame
  <2>5. CASE SubmitVideo(h)
    BY <2>1, <2>4, <2>5 DEF SubmitVideo
  <2>6. CASE PollAnswered(h)
    BY <2>1, <2>2, <2>3, <2>6 DEF PollAnswered
  <2>7. CASE UpsertVideoTask(h) \/ RecordVideo(h) \/ ImportCompleted(h)
    BY <2>2, <2>7 DEF UpsertVideoTask, RecordVideo, ImportCompleted
  <2>8. CASE MarkPolled(h)
    BY <2>1, <2>2, <2>8 DEF MarkPolled
  <2>9. CASE SaveVideoAsset(h) \/ SavePolledAsset(h) \/ MarkRefreshed(h)
    BY <2>1, <2>9 DEF SaveVideoAsset, SavePolledAsset, MarkRefreshed
  <2> QED
    BY <2>5, <2>6, <2>7, <2>8, <2>9 DEF VideoStep, PollStep
<1> QED
  BY <1>2, <1>4, <1>5, <1>6, PlainStepFits

\* A failed statement costs a fault, and loses at most the job or the task the
\* handler works on.
LEMMA DatabaseErrorFits ==
    ASSUME DirectInv, TypesInv, NEW h \in Handler, DatabaseError(h)
    PROVE  TypesInv'
<1> DEFINE x == handler[h]
           caught == x.op = "image" /\ x.pc \in {"record", "asset", "succeed"}
           forgiven == x.op = "refresh" /\ x.pc = "asset"
<1>1. RequestFits(x) /\ RowsFit /\ x \in Frame(x)
  BY TurnOf DEF TypesInv, RequestsFit
<1>2. /\ x.op = "image" /\ x.pc \in {"start", "fail"} => x.job \in Job
      /\ x.op \in {"video", "wait"} /\ x.pc = "upsert" => x.task \in Task
  BY TurnOf DEF ImageTurn, VideoTurn, DirectInv, TablesOK
<1>3. lost' \subseteq (Task \cup Job)
  BY <1>1, <1>2 DEF DatabaseError, RowsFit
<1>4. faults' \in 0..MaxFaults /\ UNCHANGED <<hashOf, generation, asset, requests>>
  BY <1>1, DirectBoundsAssumption DEF DatabaseError, RowsFit, tables
<1>5. /\ RequestFits([x EXCEPT !.pc = "fail"])
      /\ RequestFits([x EXCEPT !.pc = "mark", !.file = FALSE])
  BY <1>1, PastCallsFits DEF Frame
<1>6. \E y : RequestFits(y) /\ Go(h, y)
  <2>1. CASE caught
    BY <1>5, <2>1 DEF DatabaseError
  <2>2. CASE ~caught /\ forgiven
    BY <1>5, <2>2 DEF DatabaseError
  <2>3. CASE ~caught /\ ~forgiven
    BY <2>3, IdleFits DEF DatabaseError
  <2> QED
    BY <2>1, <2>2, <2>3
<1>7. RequestsFit'
  BY <1>6, GoFits DEF TypesInv
<1> QED
  BY <1>1, <1>3, <1>4, <1>7 DEF TypesInv, RowsFit

\* A crash loses the jobs and tasks of the requests it ends.
LEMMA CrashFits ==
    ASSUME DirectInv, TypesInv, Crash
    PROVE  TypesInv'
<1>1. RequestsFit'
  BY IdleFits DEF Crash, RequestsFit, RequestFits
<1>2. \A h \in Handler : /\ handler[h].op = "image" /\ handler[h].job # NoJob => handler[h].job \in Job
                         /\ At(h, {"video", "wait"}, "upsert") => handler[h].task \in Task
  BY TurnOf DEF At, ImageTurn, VideoTurn, DirectInv, TablesOK
<1>3. lost' \subseteq (Task \cup Job)
  BY <1>2 DEF Crash, Pending, TypesInv, RowsFit
<1>4. faults' \in 0..MaxFaults /\ UNCHANGED <<hashOf, generation, asset, requests>>
  BY DirectBoundsAssumption DEF Crash, TypesInv, RowsFit, tables
<1> QED
  BY <1>1, <1>3, <1>4 DEF TypesInv, RowsFit

\* Every step keeps the types.
LEMMA TypesStep ==
    ASSUME DirectInv, TypesInv, [DirectNext]_vars
    PROVE  TypesInv'
<1>1. ASSUME NEW h \in Handler, HandlerStep(h)
      PROVE  TypesInv'
  BY <1>1, InsertFits, ImageFits, VideoFits DEF HandlerStep
<1>2. ASSUME NEW j \in Job, CleanupJob(j)
      PROVE  TypesInv'
  <2>1. RequestsFit'
    BY <1>2 DEF CleanupJob, TypesInv, RequestsFit, RequestFits
  <2>2. RowsFit'
    BY <1>2 DEF CleanupJob, TypesInv, RowsFit, observers, Unbudgeted, Hashes
  <2> QED
    BY <2>1, <2>2 DEF TypesInv
<1>3. CASE UNCHANGED vars
  BY <1>3 DEF vars, tables, observers, TypesInv, RequestsFit, RequestFits, RowsFit
<1> QED
  BY <1>1, <1>2, <1>3, ArrivalFits, DatabaseErrorFits, CrashFits DEF DirectNext

\* Type correctness, and the discipline of the event loop: exactly the handler
\* that holds it is between two awaits.  The routes of an image are providers
\* of the default chain, whatever is enabled (resolve_chain), and a hash is one
\* of a request and the chain it resolved to.
THEOREM DirectTypeCorrect == DirectSpec => []DirectTypeOK
<1>1. DirectInit => TypesInv
  BY IdleFits, DirectBoundsAssumption
     DEF DirectInit, TypesInv, RequestsFit, RowsFit, Hashes
<1>2. DirectInv /\ TypesInv /\ [DirectNext]_vars => TypesInv'
  BY TypesStep
<1>3. DirectInv /\ TypesInv => DirectTypeOK
  <2> SUFFICES ASSUME DirectInv, TypesInv
               PROVE  DirectTypeOK
    OBVIOUS
  <2>1. ASSUME NEW h \in Handler
        PROVE  handler[h] \in HandlerStates
    <3>1. handler[h] \in Frame(handler[h]) /\ handler[h].routes \in Seq(Providers)
      BY TurnOf DEF TypesInv, RequestsFit, RequestFits
    <3> QED
      BY <3>1 DEF Frame, HandlerStates
  <2>2. handler \in [Handler -> HandlerStates]
    BY <2>1 DEF DirectInv, LoopOK
  <2> QED
    BY <2>2 DEF DirectTypeOK, DirectInv, LoopOK, Suspended, TablesOK, TypesInv, RowsFit
<1> QED
  BY <1>1, <1>2, <1>3, DirectInvariant, PTL DEF DirectSpec
=============================================================================
