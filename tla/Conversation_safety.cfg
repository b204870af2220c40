SPECIFICATION FairSpec
CONSTANTS
  Texts = {"opener", "night", "wait", "void"}
  MaxSaid = 4
  MaxHeard = 1
  MaxRespawns = 1
  MouthDies = TRUE
  BrainStalls = FALSE
INVARIANTS OneAtATime  PauseKeepsTheThought
PROPERTY GateReopens
CHECK_DEADLOCK FALSE
