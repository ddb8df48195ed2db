SPECIFICATION MCSpec
CONSTANTS
  Pairs = {"cmd_code", "type"}
  MaxPairs = 4
  MaxPackets = 2
  Room = 8
  Byte = 4
  Names = {"W02"}
  WTypes <- SomeTypes
  Texts = {"text"}
  Literals = {"1", "2", "true", "false"}
  Builders <- AllBuilders
  WidgetRoom = 3
  NameLengths = {1, 3}
  TextLengths = {0, 2, 5}
  Kinds <- AllKinds
  Releases = {"data", "widget", "text", "all"}
INVARIANTS
  MessagesAsCalled
  FrameAsSent
  
  ClearsOwnBuffer
CHECK_DEADLOCK FALSE
