SPECIFICATION ActivatorSpec
CONSTANTS
  weak = weak
  strong1 = strong1
  strong2 = strong2
  NoCall = NoCall
  Call <- Three
  Snr <- SnrThree
  PENDING_MAX = 1
  PENDING_TTL = 1
  RECENT_MAX = 3
  RECENT_TTL = 1
  DROPPED_MAX = 1
  TARGET = 3
  GIVE_UP = 2
  GRACE = 1
  IDLE_STOP = 1
  MaxHeard = 2
  MaxGap = 1
SYMMETRY Equals
INVARIANTS
  TargetKept
  ActivatorTypeOK
  PhaseMatchesPartner
  RecentFits
  PartnerNotQueued
PROPERTY
  NotInterrupted
