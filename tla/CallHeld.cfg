SPECIFICATION Spec
CONSTANTS
  Call <- OneCall
  Leg <- OneLeg
  CallOf <- MCCallOf
  Event <- Full
  LegOf <- MCLegOf
  KindOf <- MCKindOf
  Before <- InOrder
  Unresolved <- NoTenant
  Worker = {w1}
  MaxDeliveries = 1
  MaxAttempts = 2
  FeatureTriggers <- Features
  Faults <- Writes
  VersionCap = 5
  NoEvent = NoEvent
  Free = Free
  Other = Other
PROPERTY ImplementsCallLife
CHECK_DEADLOCK FALSE
