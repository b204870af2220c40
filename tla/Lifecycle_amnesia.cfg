SPECIFICATION Spec
CONSTANTS
  MaxErase = 1
  KeepN = 1
  MaxSnaps = 1
  MaxFaults = 1
  MaxCuts = 0
  MaxRefusals = 0
  MaxLost = 0
INVARIANT NoSilentAmnesia
CHECK_DEADLOCK FALSE
