SPECIFICATION FairSpec
CONSTANTS
  Ports = {p1, p2}
  MaxPid = 3
  Socks = {s1, s2}
  Builds = {b1}
  K = 2
  None = None
INVARIANTS
  VoiceIsReal
  NothingLeaks
  ConversationKept
PROPERTIES
  VoiceComesBack
CHECK_DEADLOCK FALSE
