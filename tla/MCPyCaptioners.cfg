CONSTANTS
  Lookback = 2
  MaxSpeech = 3
  MinSilence = 2
  MaxHeard = 10
SPECIFICATION CaptionersSpec
INVARIANTS TypeOK RecordingMatchesVad SegmentBounded ZerosOnlyPad NoVoiceDropped FlushComplete VoskKeepsAll
PROPERTIES ImplementsCaptions InterruptEnds
CHECK_DEADLOCK FALSE
