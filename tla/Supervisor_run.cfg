SPECIFICATION FairSpec
CONSTANTS
  Pids = {p1, p2}
  Beats = {b1, b2}
  None = None
  K = 2
  Missed = 2
  Retries = 1
  Faults = {"quit", "stop", "crash", "probe"}
INVARIANTS
  OneSidecar
  
  TraceKept
  NoInnocentKilled
PROPERTIES
  SidecarKept
  FreezeIsDetected
  StopReaps
