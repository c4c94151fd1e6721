SPECIFICATION FairLocks
CONSTANTS
  Mode = "Qso"
  MenuItems = {"AutoCq"}
  Booting = FALSE
  NvsWorks = TRUE
CHECK_DEADLOCK FALSE
INVARIANT
  NoDeadlock
