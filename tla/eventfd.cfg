SPECIFICATION FairSpec
CONSTANTS
  Writers = {w1}
  Readers = {r1, r2}
  Free = free
  Lens = {2}
  MaxSends = 2
  QueueSize = 4
  WordSize = 1
  U32Max = 99
  DEAD = 2
  Panics = FALSE
  StoreBuffering = TRUE
  MaxSignals = 2
INVARIANTS
  TypeOK
  NoWaiterUncounted
  NoStrandedReaders
  NoStrandedWriter
  SenderReadsAtOnce
  DeadHoldNoLock
PROPERTIES
  ImplementsFifo
  ReceivedUnlessLapse
  SendsEnd
CHECK_DEADLOCK FALSE
