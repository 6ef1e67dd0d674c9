SPECIFICATION Spec
CONSTANTS
  Process = {p1, p2}
  Main = Main
  Layout <- MCLayout
  NoFile = NoFile
  PageSize = 3
  NumPhysPages = 9
  UserStackSize = 3
  Zero = Zero
  StoreCap = 2
INVARIANTS
  FramesHaveOneOwner
  LegalStoresSucceed
PROPERTIES
  ImplementsPrivateMemory
CHECK_DEADLOCK FALSE
