SPECIFICATION LiveSpec
CONSTANTS
  Call <- OneCall
  Leg <- OneLeg
  CallOf <- MCCallOf
  Event <- Failing
  LegOf <- MCLegOf
  KindOf <- MCKindOf
  Before <- AnyOrder
  Unresolved <- None
  Worker = {w1, w2}
  MaxDeliveries = 2
  MaxAttempts = 2
  FeatureTriggers <- None
  Faults <- Outages
  VersionCap = 1
  NoEvent = NoEvent
  Free = Free
  Other = Other
INVARIANT TeardownIsCommanded
PROPERTY EventuallySettled
CHECK_DEADLOCK FALSE
