SPECIFICATION FairSpec
CONSTANTS
  Producer = {p1, p2}
  Consumer = {c1, c2}
  NoItem = NoItem
  n = 4
  ReaderQueueSize = 1
  WorkerQueueSize = 3
  WriterQueueSize = 1
  LowThreshold = 2
  HighThreshold = 2
INVARIANTS
  EachItemOnceInItsStage
  ListsRunningConsumers
  QuietAtExit
PROPERTIES
  AtLeastOneConsumer
  MainReturns
