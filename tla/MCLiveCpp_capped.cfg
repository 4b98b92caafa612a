CONSTANTS
  Chunk = 2
  SpeechCapacity = 7
  Lookback = 2
  SilenceToEnd = 2
  MaxHeard = 1
  MaxTaken = 6
SPECIFICATION Spec
INVARIANT SegmentCapped
CHECK_DEADLOCK FALSE
