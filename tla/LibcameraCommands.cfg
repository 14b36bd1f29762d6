SPECIFICATION FairSpec
CONSTANTS
  Requests = {r1, r2}
  MaxCommands = 3
INVARIANTS CommandInv
PROPERTIES CommandsReturn
CHECK_DEADLOCK FALSE
