SPECIFICATION FairLocks
CONSTANTS
  Mode = "Acoustic"
  MenuItems = {"NextMode"}
  Booting = TRUE
  NvsWorks = FALSE
CHECK_DEADLOCK FALSE
PROPERTY
  AliveAfterFlip
