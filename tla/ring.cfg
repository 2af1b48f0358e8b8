SPECIFICATION Spec
CONSTANTS
  Writers = {w1}
  Readers = {r1}
  Free = free
  Lens = {0, 1, 2, 3}
  MaxSends = 5
  QueueSize = 6
  WordSize = 2
  U32Max = 99
  Panics = TRUE
  StoreBuffering = TRUE
  Spins = FALSE
  Spurious = TRUE
INVARIANTS
  TypeOK
  OffsetsInBounds
  WriterOwnsSpace
  ReaderOwnsSlice
  NoUnderflow
  CachesLag
  NoStrandedWriter
PROPERTIES
  WrapIsAtomic
  ImplementsFifo
CHECK_DEADLOCK FALSE
