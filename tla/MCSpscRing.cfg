CONSTANTS
  Capacity = 10
  Chunk = 3
  SizeMod = 64
  MaxSamples = 27
SPECIFICATION FairSpec
INVARIANTS TypeOK NoOverrun PoppedInOrder
PROPERTIES ImplementsChannel PushedIsUsed
