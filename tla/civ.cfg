SPECIFICATION FairCiv
CONSTANTS
  Freq <- Bands
  NextHasCiv = TRUE
  MaxKeys = 1
  MaxBands = 1
  MaxFaults = 2
  MaxReboots = 1
INVARIANTS
  CommandsGranted
  EdgeDetectorTruthful
PROPERTY
  RadioFollows
