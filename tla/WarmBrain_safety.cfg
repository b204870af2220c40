SPECIFICATION FairSpec
CONSTANTS
  MaxAsks = 2
PROPERTIES
  
  EveryAskEnds
CHECK_DEADLOCK FALSE
