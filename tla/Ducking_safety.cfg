SPECIFICATION FairSpec
CONSTANTS
  Apps = {a1}
  MaxLaunches = 2
  MaxSets = 1
  MaxQueue = 2
  Silence = 4
  RampsCut = TRUE
  Modes = {"veille", "ecoute", "dictee"}
INVARIANTS
  
  IdleIsRestored
PROPERTIES
  DeafEndsUp
CHECK_DEADLOCK FALSE
