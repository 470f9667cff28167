SPECIFICATION Spec
CONSTANTS
  Call <- OneCall
  Leg <- TwoLegs
  CallOf <- MCCallOf
  Event <- BothEnd
  LegOf <- MCLegOf
  KindOf <- MCKindOf
  Before <- CallerFirst
  Unresolved <- None
  Worker = {w1, w2}
  MaxDeliveries = 1
  MaxAttempts = 2
  FeatureTriggers <- Routing
  Faults <- Lapses
  VersionCap = 2
  NoEvent = NoEvent
  Free = Free
  Other = Other
SYMMETRY Symmetry
INVARIANT TypeOK PublishedAtMostOnce CallIsOffered HandledHangupEndsLeg TeardownIsCommanded
PROPERTY ImplementsCallLife
CHECK_DEADLOCK FALSE
