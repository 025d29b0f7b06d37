SPECIFICATION Spec
CONSTANTS
  InviteCSeq = 7
  inviteOKRetryAttempts = 1
  inviteOKRetryAttemptsNoACK = 0
  MaxRefers = 1
  MaxAcks = 1
  Byes = {b1}
  Events = {"txAck", "endCall", "maxDuration", "mediaTimeout", "roomDisconnect"}
INVARIANTS
  HandlerReleases
  ActiveOnlyIfAnswered
PROPERTIES
  CSeqIncreases
  AckFollowsAnswer
CHECK_DEADLOCK FALSE
