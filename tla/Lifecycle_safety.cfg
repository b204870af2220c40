SPECIFICATION FairSpec
CONSTANTS
  MaxErase = 2
  KeepN = 2
  MaxSnaps = 3
  MaxFaults = 2
  MaxCuts = 1
  MaxRefusals = 1
  MaxLost = 1
INVARIANTS
  NeverBornAgain
  NoSilentResurrection
  NoPoisonedBase
PROPERTIES
  
  AwakensAgain
CHECK_DEADLOCK FALSE
