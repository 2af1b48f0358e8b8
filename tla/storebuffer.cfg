SPECIFICATION FairSpec
CONSTANTS
  Writers = {w1}
  Readers = {r1}
  Lens = {2}
  MaxSends = 2
  QueueSize = 4
  U32Max = 99
  Panics = FALSE
  StoreBuffering = TRUE
  Spins = TRUE
  Free = free
  WordSize = 1
  Spurious = FALSE
PROPERTY AllReceived
CHECK_DEADLOCK FALSE
