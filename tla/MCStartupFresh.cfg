CONSTANTS
  Scripts <- Improved
  PipesLeft <- Fresh
  MaxRuns = 1
  MaxDeaths = 0
SPECIFICATION Spec
PROPERTY StartupCompletes
CHECK_DEADLOCK FALSE
