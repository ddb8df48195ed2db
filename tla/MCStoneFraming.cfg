SPECIFICATION Spec
CONSTANTS
  RX_LEN = 9
  NFrames = 3
  MaxHead = 2
INVARIANTS
  Delivery
  NoPhantomEnd
  BufferBounded
CHECK_DEADLOCK FALSE
