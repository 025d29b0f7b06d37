SPECIFICATION Spec
CONSTANTS
  MaxAuthTries = 2
  MaxRefers = 1
  MaxByes = 2
  Byes = {}
  Events = {"endCall"}
INVARIANTS
  EndedNotActive
CHECK_DEADLOCK FALSE
