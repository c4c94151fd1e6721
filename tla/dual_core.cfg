CONSTANTS
  Cells = 4
  PASS1_LIMIT = 3
  MAX_CAND = 2
  Never = 9
  Scenarios <- MCScenarios
SPECIFICATION DualCoreSpec
INVARIANTS WorkerQuiescent NoDoubleWork EveryAttemptAccounted
  WithinBudget BestRefined RetriesYield
PROPERTY SlotFinishes
CHECK_DEADLOCK FALSE
