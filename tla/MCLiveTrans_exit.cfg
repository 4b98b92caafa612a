CONSTANTS
  Lookback = 2
  MaxSpeech = 3
  MinSilence = 1
  MaxHeard = 6
SPECIFICATION Spec
INVARIANT VoiceCachedAtExit
CHECK_DEADLOCK FALSE
