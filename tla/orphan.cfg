SPECIFICATION Spec
CONSTANTS
  Procs = {p1, p2}
  Sizes = {1, 2}
  MaxCalls = 2
  MaxFailures = 1
INVARIANT OwnerIsDone
CHECK_DEADLOCK FALSE
