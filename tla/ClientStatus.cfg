CONSTANTS
  ListenerCount = 2
  Reporters = {r1, r2}
  Cancels = TRUE
  MaxFlaps = 2
  MaxReports = 2
SPECIFICATION FairSpec
INVARIANTS TypeOK SendersAgree
PROPERTIES SendersRecover UpdateReturns
CHECK_DEADLOCK FALSE
