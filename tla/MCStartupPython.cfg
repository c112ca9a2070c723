CONSTANTS
  Scripts <- Python
  PipesLeft <- Anything
  MaxRuns = 1
  MaxDeaths = 0
SPECIFICATION Spec
PROPERTY StartupCompletes
CHECK_DEADLOCK FALSE
