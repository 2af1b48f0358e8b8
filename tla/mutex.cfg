SPECIFICATION FairSpec
CONSTANTS
  Procs = {p1, p2, p3, p4}
  Spurious = TRUE
INVARIANTS
  MutualExclusion
  NoLostWakeup
PROPERTIES
  ImplementsMutex
  ReleasedLockIsTaken
