CONSTANTS
  SegmentSize = 4
  QueueCapacitySegments = 4
  MaxEventSize = 6
  uInt64Size = 2
  Lengths = {1, 6}
  FlushCeilingNum = 2
  MaxEvents = 3
  MaxUnacked = 1
  MaxRestarts = 2
  MaxSegmentID = 5
  Crashes = TRUE
SPECIFICATION Spec
INVARIANTS TypeOK OffsetOrder UnreadIntact
PROPERTIES UnreadNeverOverwritten CloseKeepsAccepted
CHECK_DEADLOCK FALSE
