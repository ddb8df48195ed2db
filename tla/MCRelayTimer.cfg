SPECIFICATION SerialSpec
CONSTANTS
  NModes = 2
  OpenTime <- MCOpenTime
  Word = 5
  HalfWord = 4
  NRelays = 2
  QueueLength = 2
  ModeValues = {2}
  LabelValues = {0, 1}
INVARIANTS
  TypeOK
  NoUnattendedRelay
  CountersAddUp
  EndedRunIsLogged
PROPERTIES
  LoggedTimeIsElapsed
  RunEnds
  HandlersAreSteps
