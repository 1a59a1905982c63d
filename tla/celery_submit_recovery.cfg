SPECIFICATION FairSpec
CONSTANTS
  Job = {v1}
  KindOf <- MCVideos
  HashOf <- MCHashOf
  MaxAttempts = 3
  Dispatch = {1, 2, 3, 4}
  Dispatcher = {p1}
  BatchSize = 1
  MaxDispatchAttempts = 2
  Worker = {w1}
  Backend = "celery"
  MaxApiPolls = 0
  MaxRequeues = 1
  MaxFaults = 1
  FaultKinds = {"database"}
  NoDispatch = NoDispatch
  NoJob = NoJob
  NoToken = NoToken
PROPERTIES
  SubmittedJobResumes
CHECK_DEADLOCK FALSE
