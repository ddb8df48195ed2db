SPECIFICATION Spec
CONSTANTS
  Samples = 3
  Half = 8
  FullScale = 300
  Span = 130
  RawValues = {0, 7, 15}
INVARIANTS
  WaitsForResult
