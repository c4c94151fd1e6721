SPECIFICATION GridSpec
CONSTANTS
  SLOT = 300
  CAPTURE = 500
  DEAD_ZONE = 4
  LOCK_MAX_PHASE = 6
  DT_TRIM_MIN = 3
  DT_TRIM_MIN_EARLY = 17
  DT_TRIM_MAX = 20
  LOCK_MIN_DECODES = 3
  ACQUIRE_TRIGGER_SLOTS = 3
  REACQUIRE_TRIGGER_SLOTS = 6
  DT_TRIM_MIN_OBS = 6
  DT_POOL_CAP = 6
  Search = 20
  Useful = 8
  Few = 2
  Many = 4
  Noise <- NoBias
  StartPhases <- Everywhere
  MaxMishaps = 0
PROPERTIES
  GridCentred
