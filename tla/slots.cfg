CONSTANTS
  NMAX = 3
  EmitAt = 2
  Lengths <- MCLengths
  ChunkDepth = 2
  SpecDepth = 2
  SlotDepth = 2
  Lag = 2
  MaxSlots = 4
  MaxMarks = 0
  MaxTx = 0
SPECIFICATION FairPipeline
PROPERTIES ImplementsStream EverySlotDecoded
CHECK_DEADLOCK FALSE
