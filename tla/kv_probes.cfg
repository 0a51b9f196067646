SPECIFICATION FairSpec
CONSTANTS
  MaxAttempts = 2
  MaxForeign = 1
  HistorySize = 2
  MaxBreaks = 2
INVARIANTS
  TypeOK
  WrittenOnce
  CleanCheckIsTrue
  StoppedIsDrained
PROPERTIES
  ImplementsReplica
  CatchesUp
  SpammerEnds
CHECK_DEADLOCK FALSE
