SPECIFICATION FairSpec
CONSTANTS
  c1 = c1
  c2 = c2
  c3 = c3
  s1 = s1
  s2 = s2
  Requests <- FiveCallers
  Streaming <- TwoStreams
  MaxConcurrent = 2
  MaxQueueSize = 2
  MaxRetries = 1
  FailureThreshold = 2
INVARIANTS TypeOK AdmissionSound CircuitCoherent
PROPERTIES ImplementsAdmission QueuedCallsLeave DetachedStateDrains
CHECK_DEADLOCK FALSE
