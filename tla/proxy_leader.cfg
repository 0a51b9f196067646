SPECIFICATION FairSpec
CONSTANTS
  Nodes = {n1, n2, n3}
  NoLeader = NoLeader
  Default = Default
  MaxChanges = 3
INVARIANTS
  TypeOK
  StaleByOneFind
  FoundWasReported
PROPERTY
  FollowsLeader
