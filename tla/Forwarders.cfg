CONSTANTS
  Keys = {k1, k2}
  Clients = {"grpc", "kafka"}
  MaxBatch = 2
  MaxSize = 2
  MaxAttempts = 2
SPECIFICATION FairSpec
INVARIANTS TypeOK SuccessMeans StreamsClosed
PROPERTIES ForwardReturns 
CHECK_DEADLOCK FALSE
