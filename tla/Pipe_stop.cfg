CONSTANTS
  PartitionCount = 1
  MaxBufferSize = 2
  MinFlushEvents = 1
  Forwarders <- TwoForwarders
  TypeOf <- MixedTypes
  MaxAttempts = 2
  Fetching = FALSE
  Cancels = TRUE
  Disconnects = TRUE
  MaxEvents = 3
  MaxTotal = 3
SPECIFICATION Spec
INVARIANTS TypeOK Conserved HeldNotAcked
CHECK_DEADLOCK FALSE
