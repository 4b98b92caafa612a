CONSTANTS
  Lookback = 1
  MaxSpeech = 2
  MinSilence = 1
  MaxHeard = 9
SPECIFICATION Spec
INVARIANTS FileInOrder OnlyKillLoses LoopInStep
