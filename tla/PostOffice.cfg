SPECIFICATION FairSpec
CONSTANTS
  Nobody = Nobody
  Device = {network}
  Network = network
  Caller = {s1, s2}
  Receiver = {r1, r2}
  Worker = worker
  MailCount = 3
  NoMail = NoMail
  Box = {b1}
  Lossy = TRUE
INVARIANTS
  OneRequestAtATime
  CallBackAnswersItsRequest
  NoSleeperForgotten
  WorkerFindsThePacket
  NoLostSignal
PROPERTIES
  ImplementsMailboxes
  EverySendReturns
CHECK_DEADLOCK FALSE
