SPECIFICATION FsmSpec
CONSTANTS
  a = a
  b = b
  long = long
  cut = cut
  NoCall = NoCall
  Call <- MCCall
  Text <- MCText
  Clip <- MCClip
  SlotOf <- OwnSlot
  MAX_RETRIES = 5
  FINAL_MAX_RETRIES = 3
INVARIANT
  AnswersOutsidePeerSlot
