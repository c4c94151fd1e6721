CONSTANTS
  NMAX = 3
  EmitAt = 2
  Lengths <- MCLengths
  ChunkDepth = 2
  SpecDepth = 2
  SlotDepth = 2
  Lag = 2
  MaxSlots = 3
  MaxMarks = 1
  MaxTx = 0
SPECIFICATION FairStick
INVARIANT OneRecording
CHECK_DEADLOCK FALSE
