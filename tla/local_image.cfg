SPECIFICATION FairSpec
CONSTANTS
  Job = {"img"}
  KindOf <- MCKindOf
  MaxAttempts = 3
  Dispatch = {1, 2}
  Dispatcher = {p1}
  BatchSize = 1
  MaxDispatchAttempts = 5
  Worker = {p1}
  MaxApiPolls = 0
  MaxRequeues = 1
  MaxFaults = 4
  Backend = "local"
  NoDispatch = NoDispatch
  NoJob = NoJob
  NoToken = NoToken
INVARIANTS
  RecordsMatchOutcome
PROPERTIES
  EventuallySettled
CHECK_DEADLOCK FALSE
