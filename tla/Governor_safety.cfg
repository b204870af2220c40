SPECIFICATION FairSpec
CONSTANTS
  Tasks = {"consolidation", "index"}
  Queue <- MCQueue
  RealBrain = {"consolidation"}
  Quota = {"consolidation"}
  Units = 2
  BudgetCap = 1
  Backoff = 1
  BackoffCap = 2
  MaxAge = 1
  Grace = 5000
  Ack = 1500
  Term = 2500
  WatchdogDelay = 10000
  MaxEvents = 3
  MaxFaults = 1
  MaxEnds = 2
INVARIANTS
  TypeOK
  BegunIsOwed
  OneLateUnit
PROPERTIES
  CleanIsLast
  QuitLeaves
  BacklogClears
CHECK_DEADLOCK FALSE
