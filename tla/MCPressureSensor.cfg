SPECIFICATION FairSpec
CONSTANTS
  Samples = 3
  Half = 8
  FullScale = 300
  Span = 130
  RawValues = {0, 1, 2, 7, 8, 9, 15}
PROPERTIES
  ShownIsMean
  ShownAgain
