SPECIFICATION FairSpec
CONSTANTS
  InviteCSeq = 7
  inviteOKRetryAttempts = 1
  inviteOKRetryAttemptsNoACK = 0
  MaxRefers = 0
  MaxAcks = 0
  Byes = {b1}
  Events = {"stop", "endCall"}
PROPERTIES
  EndRequestsHonoured
CHECK_DEADLOCK FALSE
