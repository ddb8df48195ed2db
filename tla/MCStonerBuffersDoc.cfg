SPECIFICATION BuffersSpec
CONSTANTS
  WidgetRoom = 3
  NameLengths = {1, 3}
  TextLengths = {0, 1, 2, 5}
  Kinds = {"text"}
  Releases = {}
INVARIANTS
  ClearsWhatWasOccupied
