SPECIFICATION FairUsb
CONSTANTS
  a1 = a1 a2 = a2 t1 = t1 t2 = t2 h1 = h1 h2 = h2
  Addr <- TwoAddr
  Thread <- TwoThread
  Handle <- TwoHandle
  MaxAttempts = 1
  QuietReads = 2
  SlowReplug = FALSE
  MaxFaults = 1
  MaxNotices = 2
PROPERTY
  RadioComesBack
CHECK_DEADLOCK FALSE
