SPECIFICATION FairSpec
CONSTANTS
  Writers = {w1}
  Readers = {r1}
  Lens = {1}
  MaxSends = 5
  QueueSize = 4
  U32Max = 99
  Panics = FALSE
  StoreBuffering = FALSE
  Spins = FALSE
  Free = free
  WordSize = 1
  Spurious = FALSE
PROPERTY AllReceived
CHECK_DEADLOCK FALSE
