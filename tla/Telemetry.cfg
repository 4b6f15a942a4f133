CONSTANTS
  Writers = {w1, w2}
  Sum = sum
  Count = count
  Buckets = {b1}
  MaxUpdates = 2
  MaxOutages = 1
  StreamTicks = 1
SPECIFICATION FairTelemetrySpec
INVARIANT CountExact
PROPERTY CatchUp
CHECK_DEADLOCK FALSE
