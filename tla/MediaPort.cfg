CONSTANTS
  Callers = {c1, c2, c3}
  Codecs = {k1, k2}
  Addrs = {a1, a2}
  none = none
SPECIFICATION FairSpec
CHECK_DEADLOCK FALSE
INVARIANTS
  OneReader
  MediaFollowsNegotiation
  CloseIsFinal
PROPERTY
  PortReleased
