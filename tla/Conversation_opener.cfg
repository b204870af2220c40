SPECIFICATION Spec
CONSTANTS
  Texts = {"opener", "night", "wait", "void"}
  MaxSaid = 4
  MaxHeard = 1
  MaxRespawns = 1
  MouthDies = TRUE
  BrainStalls = FALSE
INVARIANT GreetsOnItsOpener

CHECK_DEADLOCK FALSE
