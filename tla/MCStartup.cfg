CONSTANTS
  Scripts <- MCScripts
  PipesLeft <- Anything
  MaxRuns = 2
  MaxDeaths = 1
SPECIFICATION Spec
INVARIANTS
  RescanOnOwnChain
  CleanStop
PROPERTIES
  StuckOnlyIfDied
  ImprovedCompletes
CHECK_DEADLOCK FALSE
