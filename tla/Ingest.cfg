CONSTANTS
  Clients = {c1, c2}
  Partition = 2
  EventBufferSize = 1
  Enqueuers = {gatherer}
  Items <- Events
  LimitCount = 2
  MaxMessages = 3
SPECIFICATION FairSpec
INVARIANTS QueueTypeOK Accounted RefusedOnlyWhenFull
PROPERTY StreamEnds
CHECK_DEADLOCK FALSE
