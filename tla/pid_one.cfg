SPECIFICATION FairSpec
CONSTANTS
  Pids = {p1, p2, p3}
  NoPid = NoPid
  Timeout = 3
  Reuse = TRUE
INVARIANTS
  TypeOK
  OneProcess
PROPERTY
  ScriptsEnd
