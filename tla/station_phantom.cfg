SPECIFICATION StationSpec
CONSTANTS
  dx = dx
  long = long
  cut = cut
  NoCall = NoCall
  Call <- OneCall
  Text <- OneCall
  Clip <- OneClip
  SlotOf <- OneSlots
  MAX_RETRIES = 2
  FINAL_MAX_RETRIES = 1
  SlotQueue = 2
  MaxMessages = 2
  MaxPresses = 1
INVARIANT
  AnsweredTwiceHeard
