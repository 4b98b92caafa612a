CONSTANTS
  Chunk = 2
  SpeechCapacity = 7
  Lookback = 2
  SilenceToEnd = 2
  MaxHeard = 2
  MaxTaken = 9
SPECIFICATION FairSpec
INVARIANTS TypeOK SizeIsHonest SilenceCounted SegmentEndsInSilence MissingWasRefused StartsWithSpeech LoudIsKept
PROPERTIES ImplementsCaptions SignalEnds
CHECK_DEADLOCK FALSE
