SPECIFICATION Spec
CONSTANTS
  Tasks = {"stone_cmd", "timer_handle"}
  TX_LEN = 4
  Lengths = {1, 3}
  MaxCalls = 3
INVARIANTS
  IntactWhenAlone
  OnlyPrinted
CHECK_DEADLOCK FALSE
