SPECIFICATION FairStation
CONSTANTS
  dx = dx
  long = long
  cut = cut
  NoCall = NoCall
  Call <- MCCall
  Text <- MCText
  Clip <- MCClip
  SlotOf <- MCSlots
  MAX_RETRIES = 2
  FINAL_MAX_RETRIES = 1
  SlotQueue = 2
  MaxMessages = 2
  MaxPresses = 1
INVARIANTS
  RetryBounded
  PartnerKnown
  PttBracket
PROPERTIES
  PartnerKept
  ParityKeptInContact
  ImplementsFsm
  PttReleased
  UnansweredEnds
