CONSTANTS
  Clients = {a1, a2}
  ConnectionCount = 1
  Pipes = {p1, p2}
  Partition = 2
SPECIFICATION Spec
INVARIANTS WithinLimit Ready Released
PROPERTY StopOrder
CHECK_DEADLOCK FALSE
