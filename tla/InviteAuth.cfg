CONSTANTS
  MaxInvites = 3
  MaxEvictions = 1
SPECIFICATION Spec
INVARIANTS TakenOverEndsOnce AcceptedChallengeIsQuiet NoSecondCall ChallengePending
CHECK_DEADLOCK FALSE
