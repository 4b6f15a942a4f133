CONSTANTS
  PartitionCount = 1
  MaxBufferSize = 2
  MinFlushEvents = 1
  Forwarders <- TwoForwarders
  TypeOf <- MixedTypes
  MaxAttempts = 2
  Fetching = FALSE
  Cancels = FALSE
  Disconnects = TRUE
  MaxEvents = 7
  MaxTotal = 7
SPECIFICATION FairSpec
INVARIANTS AckedAfterForward InFlightBound
PROPERTIES AckMovesForward EventuallyAcked
