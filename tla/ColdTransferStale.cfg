CONSTANTS
  MaxReqs = 2
  MaxNotifies = 1
  MaxTargets = 1
  none = none
SPECIFICATION Spec
INVARIANT OwnResult
