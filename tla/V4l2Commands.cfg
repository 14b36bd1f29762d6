SPECIFICATION FairSpec
CONSTANTS
  Buffers = {b1, b2}
  NoBuffer = NoBuffer
  MaxFailures = 2
  Passive = {TRUE, FALSE}
  H264 = TRUE
  MaxCommands = 3
INVARIANTS ThreadInv SessionInv LastCommandWins
PROPERTIES CommandsReturn
CHECK_DEADLOCK FALSE
