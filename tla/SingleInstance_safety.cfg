SPECIFICATION LockFairSpec
CONSTANTS
  Procs = {p1, p2, p3}
  None = None
  QuickTries = 1
  FocusAttempts = 2
  ReclaimTries = 2
  MaxFaults = 2

  
PROPERTIES
  OneOwner
  AcquireEnds
CHECK_DEADLOCK FALSE
