SPECIFICATION FairSpec
CONSTANTS
  Procs = {p1, p2, p3}
  Sizes = {1, 2}
  MaxCalls = 4
  MaxFailures = 2
INVARIANTS
  TypeOK
  OneOwner
  SizeIsFileSize
  SetUpAlone
  MappedUnderLock
  AllOrNothing
  OwnerIsDoneUnlessFailed
PROPERTY HandshakeEnds
CHECK_DEADLOCK FALSE
