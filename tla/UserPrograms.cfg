CONSTANTS
  p1 = p1
  p2 = p2
  p3 = p3
  Program = {p1, p2, p3}
  execfile <- MCExecfile
  Name = {"f", "g"}
  Size = {1, 2}
  NumFiles = 2
  Descriptor = {3, 4, 5}
  NULL = NULL
  Nobody = Nobody
  LengthCap = 2
  Digits = 2
  UserTick = 1
  SystemTick = 2
  ConsoleTime = 1
  TimerDelay = {4}
  CallMax = 4
SPECIFICATION FairSpec
INVARIANTS ModeIsRight InterruptsAgree NumbersAreWhole NoProgramLost NoDescriptorLeak
PROPERTIES ImplementsOpenFiles PrintReturns
