SPECIFICATION FairSpec
CONSTANTS
  NModes = 2
  OpenTime <- MCOpenTime
  Word = 5
  HalfWord = 4
  QueueLength = 1
  ModeValues = {1, 2}
  LabelValues = {0, 1, 2, 3}
  Minute = 2
  Byte = 2
  MaxUp = 2
  MaxDown = 1
INVARIANTS
  WindowMatchesRun
PROPERTIES
  ResumedAsLeft
  LoggedUnderItsMode
  DisplayReturns
