SPECIFICATION Spec
CONSTANTS
  Procs = {p1, p2, p3}
  None = none
  Sizes = {1}
  NumFds = 0
  MaxCalls = 4
  MaxFailures = 0
INVARIANT AcceptorReachable
CHECK_DEADLOCK FALSE
