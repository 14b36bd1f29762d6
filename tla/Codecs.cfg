SPECIFICATION FairSpec
CONSTANTS
  Kinds = {"encoder", "decoder", "jetsonEncoder", "jetsonScaler"}
  BufferNum = 2
  QueueMax = 4
  MaxFrames = 5
  MaxFaults = 2
INVARIANTS BufferInv OwnFrame
PROPERTIES RefinesPipe ReleaseEnds
CHECK_DEADLOCK FALSE
