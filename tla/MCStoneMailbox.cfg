SPECIFICATION FairSpec
CONSTANTS
  Chain <- MCChain
  OtherNames <- MCOther
  Field <- MCField
  QueueLength = 1
  MaxFrames = 3
  MaxSys = 1
INVARIANTS
  OwnValue
  RepeatsBounded
  PacedExactlyOnce
PROPERTIES
  InOrder
  LastFrameHandled
CHECK_DEADLOCK FALSE
