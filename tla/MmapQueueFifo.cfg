CONSTANTS
  SegmentSize = 4
  QueueCapacitySegments = 3
  MaxEventSize = 2
  uInt64Size = 2
  Lengths = {0, 1, 2}
  FlushCeilingNum = 2
  MaxEvents = 4
  MaxUnacked = 2
  MaxRestarts = 0
  MaxSegmentID = 100
  Crashes = FALSE
SPECIFICATION Spec
PROPERTY ImplementsFifo
