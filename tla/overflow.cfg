SPECIFICATION Spec
CONSTANTS
  Writers = {w1}
  Readers = {r1}
  Lens = {1, 2}
  MaxSends = 4
  QueueSize = 4
  U32Max = 7
  Panics = FALSE
  StoreBuffering = FALSE
  Spins = FALSE
  Free = free
  WordSize = 1
  Spurious = FALSE
INVARIANT OffsetsInBounds
CHECK_DEADLOCK FALSE
