SPECIFICATION MCSpec
CONSTANTS
  Tasks = {"stone_cmd", "timer_handle"}
  Pushers = {"stone_cmd"}
  HeapLines = 2
  LOG_MAX = 3
  MaxEntries = 4
  Dates = {d1}
  Modes = {1, 5, 12}
  Times = {120, 1200, 12000}
  Newline = Newline
  NoText = NoText
  CutDate = CutDate
  Behinds = {"none", "str2", "array_res_5"}
  TX_LEN = 150
INVARIANTS
  BuffersHold
  AloneKept
  NoDuplicates
  PushIsSnapshot
PROPERTIES
  ResetLosesOldest
  RowsAreRuns
