SPECIFICATION FairSpec
CONSTANTS
  MaxId = 3
  MaxText = 1
  Poison = {1}
  Batch = 2
  SurfaceAfter = 2
  Sweeps = {s1, s2}
  Spaces = {"bge", "e5"}
  MaxDowns = 1
INVARIANTS
  
  NoClash
PROPERTIES
  NothingSilent
