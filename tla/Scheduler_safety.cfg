SPECIFICATION HSpec
CONSTANTS
  t1 = t1
  t2 = t2
  Main = main
  NoThread = NoThread
  Thread = {main, t1, t2}
  InitialPriority = {0, 2}
  MaxPriority = 2
  L1Floor = 2
  L2Floor = 1
  AgeStep = 1
  AgeThreshold = 2
  TimerTicks = 3
  UserTick = 1
  SystemTick = 2
  RandomSlice = FALSE
  AgeCap = 2
  BurstCap = 3
SYMMETRY Symmetry
INVARIANTS
  QueuedAtItsLevel
  ListsOrdered
  NoThreadLost
  CarcassSafe
  InversionBounded
  BurstNeverUndercounted
PROPERTIES
  LifecycleSpec
