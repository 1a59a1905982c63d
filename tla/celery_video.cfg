SPECIFICATION Spec
CONSTANTS
  Job = {v1}
  KindOf <- MCVideos
  HashOf <- MCHashOf
  MaxAttempts = 3
  Dispatch = {1, 2, 3, 4}
  Dispatcher = {p1}
  BatchSize = 1
  MaxDispatchAttempts = 2
  Worker = {w1, w2}
  Backend = "celery"
  MaxApiPolls = 1
  MaxRequeues = 1
  MaxFaults = 1
  FaultKinds = {"database", "crash", "visibility", "loss", "dispatcher"}
  NoDispatch = NoDispatch
  NoJob = NoJob
  NoToken = NoToken
SYMMETRY Interchangeable
INVARIANTS
  TypeOK
  AtMostOneBillableCall
  RecordsMatchOutcome
  RunningAttemptOwnsStage
  ActiveHasWork
  AttemptWithinLimit
PROPERTIES
  TerminalIsFinal
  ImplementsContract
CHECK_DEADLOCK FALSE
