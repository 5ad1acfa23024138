CONSTANTS
  FifoDepth = 2
  RxCapacity = 2
  IsrCapacity = 2
  CounterRange = 4
  CyclesPerUs = 1
  Gaps = {1}
  MaxFrames = 6
SPECIFICATION Spec
INVARIANT NeverOverwritesUnread
CHECK_DEADLOCK FALSE
