SPECIFICATION Spec
CONSTANTS
  Nodes = {n1, n2}
  NoNode = NoNode
  NoId = NoId
  NoIdent = NoIdent
  NoPid = NoPid
  MaxStarts = 2
  Faults = {"slow"}
  MaxListTries = 2
  MaxSyncCalls = 2
  Serial = TRUE
SYMMETRY Symmetry
PROPERTY
  FailedStartKillsEtcd
