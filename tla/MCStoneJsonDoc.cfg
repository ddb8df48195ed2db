SPECIFICATION JsonSpec
CONSTANTS
  Pairs = {"cmd_code", "type"}
  MaxPairs = 2
  MaxPackets = 2
  Room = 40
  Byte = 256
INVARIANTS
  MessagesAsGiven
CHECK_DEADLOCK FALSE
