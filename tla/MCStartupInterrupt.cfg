CONSTANTS
  Scripts <- Plain
  PipesLeft <- Anything
  MaxRuns = 1
  MaxDeaths = 0
SPECIFICATION Spec
INVARIANT ReliableCleanup
CHECK_DEADLOCK FALSE
