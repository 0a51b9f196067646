SPECIFICATION FairSpec
CONSTANTS
  Nodes = {n1, n2}
  NoNode = NoNode
  NoId = NoId
  NoIdent = NoIdent
  NoPid = NoPid
  MaxStarts = 1
  Faults = {"list", "blip", "add", "remove", "keys", "slow", "io", "crash", "timeout"}
  MaxListTries = 2
  MaxSyncCalls = 2
  Serial = FALSE
INVARIANTS
  TypeOK
  SupervisedHasData
PROPERTIES
  RemovesOnlySelf
  EtcdfabTerminates
