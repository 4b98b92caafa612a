CONSTANTS
  Capacity = 7
  Chunk = 2
  SizeMod = 64
  MaxSamples = 20
SPECIFICATION Spec
INVARIANT ChunkIntact
