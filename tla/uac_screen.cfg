SPECIFICATION FairUsb
CONSTANTS
  a1 = a1 a2 = a2 t1 = t1 t2 = t2 h1 = h1 h2 = h2
  Addr <- TwoAddr
  Thread <- TwoThread
  Handle <- TwoHandle
  MaxAttempts = 1
  QuietReads = 2
  SlowReplug = TRUE
  MaxFaults = 3
  MaxNotices = 2
INVARIANT
  ScreenTruthful
CHECK_DEADLOCK FALSE
