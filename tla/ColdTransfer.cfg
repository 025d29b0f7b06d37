CONSTANTS
  MaxReqs = 2
  MaxNotifies = 1
  MaxTargets = 2
  none = none
SPECIFICATION FairSpec
INVARIANTS NotifyIdHonoured TransfersBalance AudioRestored
PROPERTIES RequestsSpec EveryoneAnswered TransferredHangsUp
