SPECIFICATION FairLocks
CONSTANTS
  Mode = "Qso"
  MenuItems = {"Band", "FindDf", "NextMode"}
  Booting = TRUE
  NvsWorks = TRUE
CHECK_DEADLOCK FALSE
INVARIANTS
  NoDeadlock
PROPERTY
  Served
