SPECIFICATION Spec
CONSTANTS
  Job = {"vid"}
  KindOf <- MCKindOf
  MaxAttempts = 4
  Dispatch = {1, 2, 3, 4, 5}
  Dispatcher = {p1}
  BatchSize = 1
  MaxDispatchAttempts = 3
  Worker = {p1}
  MaxApiPolls = 0
  MaxRequeues = 1
  MaxFaults = 1
  Backend = "local"
  NoDispatch = NoDispatch
  NoJob = NoJob
  NoToken = NoToken
PROPERTIES
  RecoveryFailsOnlyAmbiguous
CHECK_DEADLOCK FALSE
