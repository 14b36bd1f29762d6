SPECIFICATION FairStoreSpec
CONSTANTS
  HourTicks = 1
  DayHours = 2
  LastTick = 2
  Capacity = 1
  AskedTimes = {1, 4}
  Horizon = 4
  MaxOlder = 2
  MaxFolders = 2
  None = None
PROPERTIES StoreInOrder RepliesRight SpaceFreed
CHECK_DEADLOCK FALSE
