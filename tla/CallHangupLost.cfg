SPECIFICATION Spec
CONSTANTS
  Call <- OneCall
  Leg <- OneLeg
  CallOf <- MCCallOf
  Event <- Short
  LegOf <- MCLegOf
  KindOf <- MCKindOf
  Before <- InOrder
  Unresolved <- None
  Worker = {w1, w2}
  MaxDeliveries = 5
  MaxAttempts = 3
  FeatureTriggers <- None
  Faults <- None
  VersionCap = 0
  NoEvent = NoEvent
  Free = Free
  Other = Other
INVARIANT HangupIsNotLost
CHECK_DEADLOCK FALSE
