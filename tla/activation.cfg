SPECIFICATION FairActivation
CONSTANTS
  weak = weak
  strong = strong
  NoCall = NoCall
  Call <- Callers
  Snr <- Strength
  Style <- Mixed
  PENDING_MAX = 8
  PENDING_TTL = 2
  RECENT_MAX = 16
  RECENT_TTL = 4
  DROPPED_MAX = 4
  TARGET = 0
  GIVE_UP = 2
  GRACE = 2
  IDLE_STOP = 0
  MaxHeard = 4
  MaxGap = 1
  MaxLosses = 3
  MaxLate = 1
INVARIANTS
  InOurLog
  ReportKept
PROPERTY
  EveryoneWorked
