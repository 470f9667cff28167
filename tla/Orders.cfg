SPECIFICATION Spec
CONSTANTS
  card = card
  bank = bank
  shared = shared
  single = single
  r1 = r1
  r2 = r2
  t1 = t1
  t2 = t2
  NoRequest = NoRequest
  NoTenant = NoTenant
  NoOrder = NoOrder
  NoNumber = NoNumber
  Order = {card, bank}
  MethodOf <- Methods
  Number = {shared, single}
  NumbersOf <- Numbers
  Tenant = {t1, t2}
  TenantOf <- Tenants
  Request = {r1, r2}
  Asks <- SomeRequests
  MaxMishaps = 1
SYMMETRY Symmetry
INVARIANTS
  TypeOK
  OneFulfillerPerOrder
  LockIsHeldOrLost
  
  FulfilledOrderHasItsNumbers
  ClaimedPaymentIsServed
PROPERTIES
  ClosedOrderChangesOnlyByStaleHandler
CHECK_DEADLOCK FALSE
