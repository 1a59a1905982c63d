SPECIFICATION DirectSpec
CONSTANTS
  i1 = i1
  i2 = i2
  v1 = v1
  v2 = v2
  image = image
  video = video
  first = first
  second = second
  Job = {i1, i2, v1, v2}
  KindOf <- MCKindOf
  MaxAttempts = 3
  Handler = {h1, h2}
  Request = {image, video}
  RequestKind <- MCRequestKind
  HashOf <- MCHashOf
  Task = {t1, t2}
  DefaultChain <- MCChain
  MaxRequests = 3
  MaxFaults = 1
  NoHandler = NoHandler
  NoJob = NoJob
  NoTask = NoTask
  NoRequest = NoRequest
  NoHash = NoHash
INVARIANTS
  DirectTypeOK
  ImageInsertNeverRefused
  AcceptedTaskOnRecord
  ActiveImageHasRequest
  SucceededImageRecorded
PROPERTIES
  RefreshedHasAsset
  OutcomeIsFinal
  RequestsAnswered
CHECK_DEADLOCK FALSE
