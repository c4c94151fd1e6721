SPECIFICATION FairCiv
CONSTANTS
  Freq <- OneBand
  NextHasCiv = FALSE
  MaxKeys = 1
  MaxBands = 0
  MaxFaults = 0
  MaxReboots = 1
CHECK_DEADLOCK FALSE
PROPERTY
  BootsInRx
