CONSTANTS
  Token = {1, 2, 3}
  First = 1
  End = 2
  Rate = 16000
  Sizes = {2666, 2667, 5334, 8000}
  Longest = 3
  MaxArg = 2
  Slice = 5334
  Lengths = {0, 2667, 8001, 13335}
  Spelled <- spelled
SPECIFICATION BothSpec
INVARIANTS CacheMatchesTokens WordsAreKept OutsideOnlyIfCut ReturnedIsWhole
PROPERTIES ImplementsGreedy PyImplementsGreedy
CHECK_DEADLOCK FALSE
