CONSTANTS
  Tracks = {t1}
  sip = sip
  MaxClosers = 2
  MaxSessions = 2
SPECIFICATION FairSpec
CHECK_DEADLOCK FALSE
INVARIANTS
  NotBeforeSubscribe
  CloseJoinsRecovery
PROPERTIES
  RoomAudio
