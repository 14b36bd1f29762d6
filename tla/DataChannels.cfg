SPECIFICATION FairSpec
CONSTANTS
  Kinds = {"command", "ipc", "sfu", "subscriber"}
  ChunkSize = 2
  Sizes = {0, 3}
  MaxStreams = 2
  SendRoom = 2
INVARIANTS SendInv Reassembles TerminateIsFinal
PROPERTIES TerminateReturns
CHECK_DEADLOCK FALSE
