CONSTANTS
  QueueCapacitySegments = 6
  MaxInMemSegments = 4
  Span = 0
  MaxSegmentID = 6
  MaxBacklog = 2
  MaxFailures = 1
  CloseFrom = 6
SPECIFICATION Spec
INVARIANTS TypeOK MemoryBound PublisherUndisturbed
CHECK_DEADLOCK FALSE
