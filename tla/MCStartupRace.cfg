CONSTANTS
  Scripts <- Plain
  PipesLeft <- Fresh
  MaxRuns = 1
  MaxDeaths = 0
SPECIFICATION Spec
INVARIANT RescanFindsEmulator
CHECK_DEADLOCK FALSE
