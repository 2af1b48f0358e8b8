SPECIFICATION FairSpec
CONSTANTS
  Writers = {w1, w2}
  Readers = {r1, r2}
  Free = free
  Lens = {2}
  MaxSends = 3
  QueueSize = 4
  WordSize = 1
  U32Max = 99
  Panics = FALSE
  StoreBuffering = FALSE
  Spins = TRUE
  Spurious = FALSE
INVARIANTS
  WaitersCounted
  NoStrandedReaders
PROPERTIES
  AllReceived
  SendsReturn
