SPECIFICATION FairSpec
CONSTANTS
  Writers = {w1}
  Readers = {r1}
  Free = free
  Lens = {2}
  MaxSends = 1
  QueueSize = 4
  WordSize = 1
  U32Max = 99
  Panics = FALSE
  StoreBuffering = TRUE
  DEAD = 57005
  MaxSignals = 0
PROPERTY DeadlockIsReal
CHECK_DEADLOCK FALSE
