SPECIFICATION FairSpec
CONSTANTS
  Enqueuer = {e1, e2}
  Dequeuer = {d1, d2}
  Item = {a, b}
  NoItem = NoItem
  NoThread = NoThread
  Capacity = 2
INVARIANTS
  IndicesAgree
  NoLostWakeup
PROPERTIES
  ImplementsBoundedQueue
