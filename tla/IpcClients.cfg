SPECIFICATION FairSpec
CONSTANTS
  Fds = {f1, f2}
  Clients = {c1, c2, c3}
  None = None
  Files = TRUE
INVARIANTS ClientInv StopIsComplete
PROPERTIES StopReturns
CHECK_DEADLOCK FALSE
