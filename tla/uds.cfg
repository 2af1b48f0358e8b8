SPECIFICATION FairSpec
CONSTANTS
  Procs = {p1, p2, p3}
  None = none
  Sizes = {1, 2}
  NumFds = 2
  MaxCalls = 4
  MaxFailures = 1
INVARIANTS
  TypeOK
  OneOwner
  OwnerIsDone
  FdsInOrder
PROPERTIES
  HandshakeEnds
  StaleSocketIsRemoved
CHECK_DEADLOCK FALSE
