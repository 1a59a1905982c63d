SPECIFICATION Spec
CONSTANTS
  Job = {i1, i2}
  KindOf <- MCImages
  HashOf <- MCHashOf
  MaxAttempts = 3
  Dispatch = {1, 2}
  Dispatcher = {p1, p2}
  BatchSize = 2
  MaxDispatchAttempts = 2
  Worker = {w1}
  Backend = "celery"
  MaxApiPolls = 0
  MaxRequeues = 0
  MaxFaults = 1
  FaultKinds = {"database", "crash", "visibility", "loss", "dispatcher"}
  NoDispatch = NoDispatch
  NoJob = NoJob
  NoToken = NoToken
SYMMETRY Interchangeable
INVARIANTS
  RecordsMatchOutcome
PROPERTIES
  PublishedIsFinal
  ImplementsContract
CHECK_DEADLOCK FALSE
