SPECIFICATION Spec
CONSTANTS
  InviteCSeq = 7
  inviteOKRetryAttempts = 1
  inviteOKRetryAttemptsNoACK = 0
  MaxRefers = 1
  MaxAcks = 0
  Byes = {b1, b2}
  Events = {"cancel", "stop"}
SYMMETRY Symmetry
INVARIANTS
  NoOrphanDialog
  EndedOnce
  EndStatusIsAnswer
  ReplayIsRejection
  OneFinalAnswer
  ByeOnlyWhenAnswered
PROPERTIES
  NothingAfterEnd
CHECK_DEADLOCK FALSE
