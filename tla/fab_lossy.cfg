SPECIFICATION Spec
CONSTANTS
  Nodes = {n1, n2, n3}
  NoNode = NoNode
  NoId = NoId
  NoIdent = NoIdent
  NoPid = NoPid
  MaxStarts = 2
  Faults = {"blip", "add", "remove"}
  MaxListTries = 2
  MaxSyncCalls = 2
  Serial = TRUE
SYMMETRY Symmetry
INVARIANT
  OneCluster
