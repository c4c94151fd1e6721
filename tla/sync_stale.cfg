SPECIFICATION AutoSyncSpec
CONSTANTS
  SLOT = 150
  TX_LEN = 127
  MAX_SHIFT = 2
  TIER1_DT = 5
  TIER1_MIN_N = 3
  TIER2_DT = 3
  TIER2_MIN_N = 2
  TIER2_STREAK = 3
  Tolerance = 25
  Counts <- Busy
  NoiseMedians <- AnyNoise
  StartPhases <- Near
  PressPhases <- HandMark
  LaunchDelays <- Window
  MaxPresses = 1
  MaxTx = 0
PROPERTY
  NoStaleShift
