CONSTANTS
  PartitionCount = 2
  MaxBufferSize = 1
  MinFlushEvents = 1
  Forwarders <- OneForwarder
  TypeOf <- OneType
  MaxAttempts = 1
  Fetching = FALSE
  Cancels = TRUE
  Disconnects = FALSE
  MaxEvents = 1
  MaxTotal = 1
SPECIFICATION Spec
INVARIANT DrainedBeforeExit
CHECK_DEADLOCK FALSE
