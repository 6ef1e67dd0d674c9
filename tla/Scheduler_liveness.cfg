SPECIFICATION FairSpec
CONSTANTS
  Main = main
  NoThread = NoThread
  Thread = {main, t1, t2}
  InitialPriority = {0, 2}
  MaxPriority = 2
  L1Floor = 2
  L2Floor = 1
  AgeStep = 1
  AgeThreshold = 3
  TimerTicks = 2
  UserTick = 1
  SystemTick = 1
  RandomSlice = FALSE
  AgeCap = 3
  BurstCap = 2
PROPERTIES
  AgingReachesL1
