SPECIFICATION FairSpec
CONSTANTS
  Nodes = {1, 2, 3}
  NoLeader = NoLeader
  MaxChanges = 2
INVARIANTS
  TypeOK
  AlarmIsOfThisRound
PROPERTY
  FindsSplitBrain
