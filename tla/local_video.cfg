SPECIFICATION FairSpec
CONSTANTS
  Job = {"vid"}
  KindOf <- MCKindOf
  MaxAttempts = 3
  Dispatch = {1, 2, 3, 4}
  Dispatcher = {p1}
  BatchSize = 1
  MaxDispatchAttempts = 3
  Worker = {p1}
  MaxApiPolls = 1
  MaxRequeues = 1
  MaxFaults = 2
  Backend = "local"
  NoDispatch = NoDispatch
  NoJob = NoJob
  NoToken = NoToken
INVARIANTS
  OverrunOnlyAfterSubmitRetry
  ActiveIsDelivered
  PublishedWasHandled
PROPERTIES
  ImplementsContract
  EventuallySettled
CHECK_DEADLOCK FALSE
