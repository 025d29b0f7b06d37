SPECIFICATION FairSpec
CONSTANTS
  MaxAuthTries = 2
  MaxRefers = 1
  MaxByes = 2
  Byes = {b1}
  Events = {"endCall", "stop", "transfer"}
INVARIANTS
  EndedOnce
  EndStatusIsFinal
  NoZombie
  Released
  OneOutcome
  ByeOnce
PROPERTIES
  CSeqIncreases
  NothingAfterEnd
  CallEnds
CHECK_DEADLOCK FALSE
