SPECIFICATION FairSpec
CONSTANTS
  Discover = {TRUE, FALSE}
  QueueMax = 3
  ResolveMax = 2
INVARIANTS SessionInv WriteInv
PROPERTIES LeaveIsFinal Reconnects
CHECK_DEADLOCK FALSE
