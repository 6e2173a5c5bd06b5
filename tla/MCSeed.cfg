SPECIFICATION Spec
CONSTANTS
  Modes = {"plain", "reset"}
  Attempts = 2
  MaxJobs = 4
INVARIANTS
  SeededOnce
  CompleteIsWhole
CHECK_DEADLOCK FALSE
