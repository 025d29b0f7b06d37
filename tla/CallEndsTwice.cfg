\* A challenged INVITE and its retry.
CONSTANTS
  MaxInvites = 2
  MaxEvictions = 0
SPECIFICATION Spec
INVARIANT CallEndsOnce
CHECK_DEADLOCK FALSE
