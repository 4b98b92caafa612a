CONSTANTS
  Capacity = 7
  Chunk = 2
  SizeMod = 64
  MaxSamples = 12
SPECIFICATION Spec
INVARIANT NoOverwrite
