SPECIFICATION FairSpec
CONSTANTS
  Nodes = {n1, n2, n3}
  NoNode = NoNode
  NoId = NoId
  NoIdent = NoIdent
  NoPid = NoPid
  MaxStarts = 2
  Faults = {}
  MaxListTries = 2
  MaxSyncCalls = 2
  Serial = TRUE
INVARIANTS
  StoppedHasLeft
  SettledHasQuorum
PROPERTIES
  ImplementsMembership
  NoAmnesia
  StartTakesEffect
  StopTakesEffect
