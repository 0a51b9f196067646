SPECIFICATION FairSpec
CONSTANTS
  MaxIterations = 3
  MaxRequests = 3
  MaxExpiries = 1
INVARIANTS
  TypeOK
  LossIsReported
  CleansUp
  SettledWhenStopped
  OkMeansFewFailures
PROPERTIES
  MissingIsOutstanding
  SpammerStops
  StopReturns
CHECK_DEADLOCK FALSE
