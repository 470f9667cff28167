------------------------- MODULE NumberOrdersProofs -------------------------
(***************************************************************************)
(* Proofs that the invariants of NumberOrders hold for any number of       *)
(* orders, numbers, tenants, concurrent requests and mishaps.              *)
(***************************************************************************)
EXTENDS NumberOrders, TLAPS

\* Next, with its actions named one by one for the case splits below.
AnyStep ==
  \/ \E o \in Order : Place(o)
  \/ \E o \in Order, p \in {"complete", "paid"} : Pay(o, p)
  \/ \E r \in Request, a \in Asks : Arrive(r, a)
  \/ \E r \in Request :
       \/ ClaimEvent(r) \/ CheckPayment(r) \/ Approve(r) \/ Read(r) \/ Write(r)
       \/ AcquireLock(r) \/ ClaimOrder(r)
       \/ OrderAccepted(r) \/ OrderRejected(r) \/ SaveNumber(r) \/ SaveFails(r)
       \/ Settle(r) \/ ReleaseLock(r) \/ Throw(r) \/ Crash(r)
  \/ \E r \in Request, n \in Number : FindOwned(r, n) \/ FindFree(r, n)

LEMMA NextIsAnyStep == Next => AnyStep
BY DEF Next, AnyStep, Serve, Buy

-----------------------------------------------------------------------------
(***************************************************************************)
(* Types                                                                   *)
(***************************************************************************)
LEMMA OrderIsAnOrder ==
  ASSUME TypeOK, NEW r \in Request, pc[r] # "idle"
  PROVE  ask[r] \in Asks /\ OrderOf(r) \in Order
BY OrdersAssumption DEF TypeOK, OrderOf

LEMMA TypeOKInit == ASSUME Init PROVE TypeOK
BY OrdersAssumption DEF Init, TypeOK, NoAsk

LEMMA TypeOKStep == ASSUME TypeOK, [Next]_vars PROVE TypeOK'
<1> USE DEF TypeOK, orderVars, requestVars, At, Finish, Claimable, Closed,
            Complete, Locked, Filling
<1>1. ASSUME NEW o \in Order, Place(o) PROVE TypeOK'
  BY <1>1 DEF Place
<1>2. ASSUME NEW r \in Request, NEW a \in Asks, Arrive(r, a) PROVE TypeOK'
  BY <1>2, OrdersAssumption DEF Arrive, FirstStep
<1>3. ASSUME NEW r \in Request, ClaimEvent(r) PROVE TypeOK'
  BY <1>3, OrderIsAnOrder DEF ClaimEvent, FirstStep
<1>4. ASSUME NEW r \in Request, Approve(r) PROVE TypeOK'
  BY <1>4, OrderIsAnOrder DEF Approve
<1>5. ASSUME NEW r \in Request, Read(r) PROVE TypeOK'
  BY <1>5, OrderIsAnOrder DEF Read
<1>6. ASSUME NEW r \in Request, Write(r) PROVE TypeOK'
  BY <1>6, OrderIsAnOrder DEF Write
<1>7. ASSUME NEW r \in Request, AcquireLock(r) PROVE TypeOK'
  BY <1>7, OrderIsAnOrder DEF AcquireLock
<1>8. ASSUME NEW r \in Request, ClaimOrder(r) PROVE TypeOK'
  <2>1. OrderOf(r) \in Order /\ NumbersOf[OrderOf(r)] \in SUBSET Number
    BY <1>8, OrderIsAnOrder, OrdersAssumption DEF ClaimOrder
  <2>2. CASE status[OrderOf(r)] \in Claimable
    BY <1>8, <2>1, <2>2 DEF ClaimOrder
  <2>3. CASE status[OrderOf(r)] \notin Claimable
    BY <1>8, <2>3 DEF ClaimOrder
  <2> QED
    BY <2>2, <2>3
<1>9. ASSUME NEW r \in Request, NEW n \in Number, FindOwned(r, n) PROVE TypeOK'
  BY <1>9 DEF FindOwned, Dispose
<1>10. ASSUME NEW r \in Request, NEW n \in Number, FindFree(r, n) PROVE TypeOK'
  BY <1>10 DEF FindFree, Dispose
<1>11. ASSUME NEW r \in Request, OrderAccepted(r) PROVE TypeOK'
  BY <1>11, OrderIsAnOrder DEF OrderAccepted
<1>12. ASSUME NEW r \in Request, OrderRejected(r) PROVE TypeOK'
  BY <1>12 DEF OrderRejected
<1>13. ASSUME NEW r \in Request, SaveNumber(r) PROVE TypeOK'
  BY <1>13, OrderIsAnOrder, OrdersAssumption DEF SaveNumber
<1>14. ASSUME NEW r \in Request, SaveFails(r) PROVE TypeOK'
  BY <1>14, OrdersAssumption DEF SaveFails, Mishap
<1>15. ASSUME NEW r \in Request, Settle(r) PROVE TypeOK'
  BY <1>15, OrderIsAnOrder DEF Settle, Outcome
<1>16. ASSUME NEW r \in Request, ReleaseLock(r) PROVE TypeOK'
  BY <1>16, OrderIsAnOrder DEF ReleaseLock
<1>17. ASSUME NEW r \in Request, Throw(r) PROVE TypeOK'
  <2>1. mishaps' \in 0..MaxMishaps
    BY <1>17, OrdersAssumption DEF Throw, Mishap
  <2>2. CASE Finish(r)
    BY <1>17, <2>1, <2>2 DEF Throw
  <2>3. CASE At(r, "unlock")
    BY <1>17, <2>1, <2>3 DEF Throw
  <2> QED
    BY <1>17, <2>2, <2>3 DEF Throw
<1>18. ASSUME NEW r \in Request, Crash(r) PROVE TypeOK'
  BY <1>18, OrdersAssumption DEF Crash, Mishap
<1>19. ASSUME NEW o \in Order, NEW p \in {"complete", "paid"}, Pay(o, p)
       PROVE  TypeOK'
  BY <1>19 DEF Pay
<1>20. ASSUME NEW r \in Request, CheckPayment(r) PROVE TypeOK'
  BY <1>20, OrderIsAnOrder DEF CheckPayment
<1>21. CASE UNCHANGED vars
  BY <1>21 DEF vars
<1> QED
  BY NextIsAnyStep, <1>1, <1>2, <1>3, <1>4, <1>5, <1>6, <1>7, <1>8, <1>9, <1>10,
     <1>11, <1>12, <1>13, <1>14, <1>15, <1>16, <1>17, <1>18, <1>19, <1>20,
     <1>21 DEF AnyStep

\* Every variable keeps its type, and a request that is being served has
\* something it was asked for.
THEOREM OrderTypes == Spec => []TypeOK
<1>1. Init => TypeOK
  BY TypeOKInit
<1>2. TypeOK /\ [Next]_vars => TypeOK'
  BY TypeOKStep
<1> QED
  BY <1>1, <1>2, PTL DEF Spec

-----------------------------------------------------------------------------
(***************************************************************************)
(* The lock                                                                *)
(***************************************************************************)
HoldersHaveTheLock ==
  \A r \in Request : pc[r] \in Locked => lock[OrderOf(r)] = r

LockInv == TypeOK /\ HoldersHaveTheLock /\ LockIsHeldOrLost

LEMMA LockInvStep == ASSUME LockInv, [Next]_vars PROVE LockInv'
<1> USE DEF LockInv, HoldersHaveTheLock, LockIsHeldOrLost, TypeOK, orderVars,
            requestVars, At, Finish, Locked, Filling, OrderOf
<1>0. TypeOK'
  BY TypeOKStep
<1>1. ASSUME NEW o \in Order, Place(o) PROVE LockInv'
  BY <1>0, <1>1 DEF Place
<1>2. ASSUME NEW r \in Request, NEW a \in Asks, Arrive(r, a) PROVE LockInv'
  <2>1. pc[r] = "idle"
    BY <1>2 DEF Arrive, FirstStep
  <2>2. PICK step \in {"event", "payment", "review", "read"} : pc' = [pc EXCEPT ![r] = step]
    BY <1>2 DEF Arrive, FirstStep
  <2>3. ask' = [ask EXCEPT ![r] = a] /\ lock' = lock
    BY <1>2 DEF Arrive, FirstStep
  <2> QED
    BY <1>0, <2>1, <2>2, <2>3, OrdersAssumption
<1>3. ASSUME NEW r \in Request, ClaimEvent(r) PROVE LockInv'
  <2>1. pc[r] = "event" /\ r \in Request
    BY <1>3 DEF ClaimEvent
  <2>2. CASE Finish(r)
    BY <1>0, <1>3, <2>1, <2>2, OrdersAssumption DEF ClaimEvent
  <2>3. CASE At(r, FirstStep(ask[r]))
    <3>1. FirstStep(ask[r]) \in {"payment", "read"}
      BY DEF FirstStep
    <3> QED
      BY <1>0, <1>3, <2>1, <2>3, <3>1, OrdersAssumption DEF ClaimEvent
  <2> QED
    BY <1>3, <2>2, <2>3 DEF ClaimEvent
<1>4. ASSUME NEW r \in Request, Approve(r) PROVE LockInv'
  BY <1>0, <1>4, OrdersAssumption DEF Approve
<1>5. ASSUME NEW r \in Request, Read(r) PROVE LockInv'
  BY <1>0, <1>5, OrdersAssumption DEF Read
<1>6. ASSUME NEW r \in Request, Write(r) PROVE LockInv'
  BY <1>0, <1>6, OrdersAssumption DEF Write
<1>7. ASSUME NEW r \in Request, AcquireLock(r) PROVE LockInv'
  <2>1. pc[r] = "lock" /\ OrderOf(r) \in Order
    BY <1>7, OrderIsAnOrder DEF AcquireLock
  <2>2. CASE lock[OrderOf(r)] = NoRequest
    <3>1. /\ lock' = [lock EXCEPT ![OrderOf(r)] = r]
          /\ pc' = [pc EXCEPT ![r] = "claim"]
          /\ ask' = ask
      BY <1>7, <2>2 DEF AcquireLock
    <3> QED
      BY <1>0, <2>1, <2>2, <3>1, OrdersAssumption
  <2>3. CASE lock[OrderOf(r)] # NoRequest
    BY <1>0, <1>7, <2>1, <2>3 DEF AcquireLock
  <2> QED
    BY <2>2, <2>3
<1>8. ASSUME NEW r \in Request, ClaimOrder(r) PROVE LockInv'
  <2>1. pc[r] = "claim" /\ lock' = lock /\ ask' = ask
    BY <1>8 DEF ClaimOrder
  <2>2. PICK step \in {"buy", "unlock"} : pc' = [pc EXCEPT ![r] = step]
    BY <1>8 DEF ClaimOrder
  <2> QED
    BY <1>0, <2>1, <2>2, OrdersAssumption
<1>9. ASSUME NEW r \in Request, NEW n \in Number, FindOwned(r, n) PROVE LockInv'
  BY <1>0, <1>9 DEF FindOwned, Dispose
<1>10. ASSUME NEW r \in Request, NEW n \in Number, FindFree(r, n) PROVE LockInv'
  BY <1>0, <1>10, OrdersAssumption DEF FindFree, Dispose
<1>11. ASSUME NEW r \in Request, OrderAccepted(r) PROVE LockInv'
  BY <1>0, <1>11, OrdersAssumption DEF OrderAccepted
<1>12. ASSUME NEW r \in Request, OrderRejected(r) PROVE LockInv'
  BY <1>0, <1>12, OrdersAssumption DEF OrderRejected
<1>13. ASSUME NEW r \in Request, SaveNumber(r) PROVE LockInv'
  BY <1>0, <1>13, OrdersAssumption DEF SaveNumber
<1>14. ASSUME NEW r \in Request, SaveFails(r) PROVE LockInv'
  BY <1>0, <1>14, OrdersAssumption DEF SaveFails
<1>15. ASSUME NEW r \in Request, Settle(r) PROVE LockInv'
  BY <1>0, <1>15, OrdersAssumption DEF Settle
<1>16. ASSUME NEW r \in Request, ReleaseLock(r) PROVE LockInv'
  BY <1>0, <1>16, OrderIsAnOrder, OrdersAssumption DEF ReleaseLock
<1>17. ASSUME NEW r \in Request, Throw(r) PROVE LockInv'
  BY <1>0, <1>17, OrdersAssumption DEF Throw
<1>18. ASSUME NEW r \in Request, Crash(r) PROVE LockInv'
  BY <1>0, <1>18, OrdersAssumption DEF Crash
<1>19. ASSUME NEW o \in Order, NEW p \in {"complete", "paid"}, Pay(o, p)
       PROVE  LockInv'
  BY <1>0, <1>19 DEF Pay
<1>20. ASSUME NEW r \in Request, CheckPayment(r) PROVE LockInv'
  BY <1>0, <1>20, OrdersAssumption DEF CheckPayment
<1>21. CASE UNCHANGED vars
  BY <1>0, <1>21 DEF vars
<1> QED
  BY NextIsAnyStep, <1>1, <1>2, <1>3, <1>4, <1>5, <1>6, <1>7, <1>8, <1>9, <1>10,
     <1>11, <1>12, <1>13, <1>14, <1>15, <1>16, <1>17, <1>18, <1>19, <1>20,
     <1>21 DEF AnyStep

LEMMA LockInvHolds == Spec => []LockInv
<1>1. Init => LockInv
  BY TypeOKInit
     DEF Init, LockInv, HoldersHaveTheLock, LockIsHeldOrLost, Locked, Filling
<1>2. LockInv /\ [Next]_vars => LockInv'
  BY LockInvStep
<1> QED
  BY <1>1, <1>2, PTL DEF Spec

LEMMA LockExcludes == ASSUME LockInv PROVE OneFulfillerPerOrder
BY DEF LockInv, HoldersHaveTheLock, OneFulfillerPerOrder

\* Two requests never fulfil one order at a time.
THEOREM FulfilmentIsExclusive == Spec => []OneFulfillerPerOrder
BY LockInvHolds, LockExcludes, PTL

\* A lock whose request is over was left by a crash or a failed release.
THEOREM LocksAreReleased == Spec => []LockIsHeldOrLost
<1>1. LockInv => LockIsHeldOrLost
  BY DEF LockInv
<1> QED
  BY LockInvHolds, <1>1, PTL

-----------------------------------------------------------------------------
(***************************************************************************)
(* Payment.  Whoever is past the check of the order it read was let        *)
(* through by a completed checkout or an approval, also when the approval  *)
(* has been taken back since.                                              *)
(***************************************************************************)
PastTheCheck == {"lock"} \cup Locked

Vouched(o) ==
  IF MethodOf[o] = "MANUAL_BANK" THEN o \in approved ELSE payment[o] # "open"

PaymentInv ==
  /\ \A o \in Order : review[o] = "APPROVED" => o \in approved
  /\ \A r \in Request :
       /\ pc[r] # "idle" => Suits(ask[r]) /\ Sent(ask[r])
       /\ pc[r] = "read" /\ ask[r].op \in Card => payment[OrderOf(r)] # "open"
       /\ pc[r] = "review" => ask[r].op \notin Card
       /\ pc[r] = "write" => ask[r].op \in Writing
       /\ pc[r] \in PastTheCheck => Vouched(OrderOf(r))
  /\ \A o \in Order :
       [op |-> "webhook", order |-> o] \in claimed => payment[o] # "open"
  /\ \A n \in Number : boughtFor[n] # NoOrder => Vouched(boughtFor[n])

LEMMA PaymentInvStep ==
  ASSUME TypeOK, TypeOK', PaymentInv, [Next]_vars PROVE PaymentInv'
<1> USE DEF PaymentInv, PastTheCheck, Vouched, Sent, TypeOK,
            orderVars, requestVars, At, Finish, Locked, Filling, OrderOf
<1>1. ASSUME NEW o \in Order, Place(o) PROVE PaymentInv'
  BY <1>1 DEF Place
<1>2. ASSUME NEW r \in Request, NEW a \in Asks, Arrive(r, a) PROVE PaymentInv'
  <2>1. pc[r] = "idle"
    BY <1>2 DEF Arrive, FirstStep
  <2>2. PICK step \in {"event", "payment", "review", "read"} : pc' = [pc EXCEPT ![r] = step]
    BY <1>2 DEF Arrive, FirstStep
  <2>3. /\ ask' = [ask EXCEPT ![r] = a]
        /\ UNCHANGED <<review, boughtFor, claimed>>
    BY <1>2 DEF Arrive, FirstStep
  <2>4. approved' = approved /\ payment' = payment /\ Suits(a) /\ Sent(a)
    BY <1>2 DEF Arrive
  <2>5. step \in {"read", "review"} => \/ a.op \notin Card
                                       \/ step = "read" /\ payment[a.order] # "open"
    BY <1>2, <2>1, <2>2 DEF Arrive, FirstStep, Card
  <2> QED
    BY <2>1, <2>2, <2>3, <2>4, <2>5
<1>3. ASSUME NEW r \in Request, ClaimEvent(r) PROVE PaymentInv'
  <2>1. pc[r] = "event" /\ r \in Request
    BY <1>3 DEF ClaimEvent
  <2>2. CASE Finish(r)
    BY <1>3, <2>1, <2>2 DEF ClaimEvent
  <2>3. CASE At(r, FirstStep(ask[r]))
    <3>1. FirstStep(ask[r]) \in {"payment", "read"}
      BY DEF FirstStep
    <3>2. FirstStep(ask[r]) = "read" /\ ask[r].op \in Card =>
            payment[OrderOf(r)] # "open"
      BY <2>1 DEF FirstStep, Card
    <3> QED
      BY <1>3, <2>1, <2>3, <3>1, <3>2 DEF ClaimEvent
  <2> QED
    BY <1>3, <2>2, <2>3 DEF ClaimEvent
<1>4. ASSUME NEW r \in Request, Approve(r) PROVE PaymentInv'
  BY <1>4, OrderIsAnOrder DEF Approve
<1>5. ASSUME NEW r \in Request, Read(r) PROVE PaymentInv'
  <2>1. OrderOf(r) \in Order /\ pc[r] = "read"
    BY <1>5, OrderIsAnOrder DEF Read
  <2>2. CASE Finish(r)
    BY <1>5, <2>2 DEF Read
  <2>3. CASE GoesOn(r) /\ ask[r].op \in Fulfilling /\ At(r, "lock")
    <3>1. Vouched(OrderOf(r))
      BY <2>1, <2>3 DEF GoesOn, Suits, Fulfilling, Card, Bank
    <3> QED
      BY <1>5, <2>3, <3>1 DEF Read
  <2>4. CASE ask[r].op \in Writing /\ At(r, "write")
    BY <1>5, <2>1, <2>4 DEF Read
  <2> QED
    BY <1>5, <2>2, <2>3, <2>4 DEF Read
<1>6. ASSUME NEW r \in Request, Write(r) PROVE PaymentInv'
  <2>1. ask[r].op \in Writing
    BY <1>6 DEF Write
  <2>2. \A o \in Order : review'[o] = "APPROVED" => review[o] = "APPROVED"
    BY <1>6, <2>1, OrderIsAnOrder DEF Write, Writing
  <2> QED
    BY <1>6, <2>2 DEF Write
<1>7. ASSUME NEW r \in Request, AcquireLock(r) PROVE PaymentInv'
  BY <1>7 DEF AcquireLock
<1>8. ASSUME NEW r \in Request, ClaimOrder(r) PROVE PaymentInv'
  BY <1>8 DEF ClaimOrder
<1>9. ASSUME NEW r \in Request, NEW n \in Number, FindOwned(r, n)
      PROVE  PaymentInv'
  BY <1>9 DEF FindOwned, Dispose
<1>10. ASSUME NEW r \in Request, NEW n \in Number, FindFree(r, n)
       PROVE  PaymentInv'
  BY <1>10 DEF FindFree, Dispose
<1>11. ASSUME NEW r \in Request, OrderAccepted(r) PROVE PaymentInv'
  BY <1>11, OrderIsAnOrder DEF OrderAccepted
<1>12. ASSUME NEW r \in Request, OrderRejected(r) PROVE PaymentInv'
  BY <1>12 DEF OrderRejected
<1>13. ASSUME NEW r \in Request, SaveNumber(r) PROVE PaymentInv'
  BY <1>13 DEF SaveNumber
<1>14. ASSUME NEW r \in Request, SaveFails(r) PROVE PaymentInv'
  BY <1>14 DEF SaveFails
<1>15. ASSUME NEW r \in Request, Settle(r) PROVE PaymentInv'
  BY <1>15 DEF Settle
<1>16. ASSUME NEW r \in Request, ReleaseLock(r) PROVE PaymentInv'
  BY <1>16 DEF ReleaseLock
<1>17. ASSUME NEW r \in Request, Throw(r) PROVE PaymentInv'
  <2>1. CASE Finish(r)
    BY <1>17, <2>1 DEF Throw
  <2>2. CASE pc[r] \in Locked /\ At(r, "unlock")
    BY <1>17, <2>2 DEF Throw
  <2> QED
    BY <1>17, <2>1, <2>2 DEF Throw
<1>18. ASSUME NEW r \in Request, Crash(r) PROVE PaymentInv'
  BY <1>18 DEF Crash
<1>19. ASSUME NEW o \in Order, NEW p \in {"complete", "paid"}, Pay(o, p)
       PROVE  PaymentInv'
  BY <1>19 DEF Pay
<1>20. ASSUME NEW r \in Request, CheckPayment(r) PROVE PaymentInv'
  BY <1>20 DEF CheckPayment
<1>21. CASE UNCHANGED vars
  BY <1>21 DEF vars
<1> QED
  BY NextIsAnyStep, <1>1, <1>2, <1>3, <1>4, <1>5, <1>6, <1>7, <1>8, <1>9, <1>10,
     <1>11, <1>12, <1>13, <1>14, <1>15, <1>16, <1>17, <1>18, <1>19, <1>20,
     <1>21 DEF AnyStep

\* Nothing is bought for a card order before its checkout is completed, nor
\* for a bank order that was never approved.
THEOREM PurchasesFollowCheckout == Spec => []PurchaseFollowsCheckout
<1>1. Init => PaymentInv
  BY DEF Init, PaymentInv, PastTheCheck, Locked, Filling
<1>2. TypeOK /\ TypeOK' /\ PaymentInv /\ [Next]_vars => PaymentInv'
  BY PaymentInvStep
<1>3. PaymentInv => PurchaseFollowsCheckout
  BY DEF PaymentInv, Vouched, PurchaseFollowsCheckout
<1> QED
  BY <1>1, <1>2, <1>3, OrderTypes, PTL DEF Spec

-----------------------------------------------------------------------------
(***************************************************************************)
(* Ownership.  A request counts a number as bought only when its row is    *)
(* its tenant's, and rows are never rewritten: a number that is bought and *)
(* not yet recorded is in the hands of one request, by the lock.           *)
(***************************************************************************)
OwnedBy(o, n) == owner[n] = TenantOf[o]

OwnershipInv ==
  /\ \A n \in Number : owner[n] # NoTenant => boughtFor[n] # NoOrder
  /\ \A r \in Request :
       /\ got[r] # {} => pc[r] \in Locked \cup {"lost"}
       /\ \A n \in got[r] : OwnedBy(OrderOf(r), n)
       /\ pc[r] = "bought" => /\ boughtFor[now[r]] = OrderOf(r)
                              /\ owner[now[r]] = NoTenant
  /\ FulfilledOrderHasItsNumbers

LEMMA OwnershipInvStep ==
  ASSUME LockInv, LockInv', OwnershipInv, [Next]_vars PROVE OwnershipInv'
<1> USE DEF OwnershipInv, OwnedBy, FulfilledOrderHasItsNumbers, TypeOK, LockInv,
            orderVars, requestVars, At, Finish, Locked, Filling, OrderOf
<1>1. ASSUME NEW o \in Order, Place(o) PROVE OwnershipInv'
  BY <1>1 DEF Place
<1>2. ASSUME NEW r \in Request, NEW a \in Asks, Arrive(r, a) PROVE OwnershipInv'
  <2>1. pc[r] = "idle"
    BY <1>2 DEF Arrive, FirstStep
  <2>2. PICK step \in {"event", "payment", "review", "read"} : pc' = [pc EXCEPT ![r] = step]
    BY <1>2 DEF Arrive, FirstStep
  <2>3. /\ ask' = [ask EXCEPT ![r] = a]
        /\ UNCHANGED <<status, owner, boughtFor, got, now>>
    BY <1>2 DEF Arrive, FirstStep
  <2> QED
    BY <2>1, <2>2, <2>3
<1>3. ASSUME NEW r \in Request, ClaimEvent(r) PROVE OwnershipInv'
  BY <1>3 DEF ClaimEvent, FirstStep
<1>4. ASSUME NEW r \in Request, Approve(r) PROVE OwnershipInv'
  BY <1>4 DEF Approve
<1>5. ASSUME NEW r \in Request, Read(r) PROVE OwnershipInv'
  BY <1>5 DEF Read
<1>6. ASSUME NEW r \in Request, Write(r) PROVE OwnershipInv'
  <2>1. \A o \in Order : status'[o] = "FULFILLED" => status[o] = "FULFILLED"
    BY <1>6, OrderIsAnOrder DEF Write
  <2> QED
    BY <1>6, <2>1 DEF Write
<1>7. ASSUME NEW r \in Request, AcquireLock(r) PROVE OwnershipInv'
  BY <1>7 DEF AcquireLock
<1>8. ASSUME NEW r \in Request, ClaimOrder(r) PROVE OwnershipInv'
  <2>1. \A o \in Order : status'[o] = "FULFILLED" => status[o] = "FULFILLED"
    BY <1>8, OrderIsAnOrder DEF ClaimOrder
  <2> QED
    BY <1>8, <2>1 DEF ClaimOrder
<1>9. ASSUME NEW r \in Request, NEW n \in Number, FindOwned(r, n)
      PROVE  OwnershipInv'
  BY <1>9 DEF FindOwned, Dispose
<1>10. ASSUME NEW r \in Request, NEW n \in Number, FindFree(r, n)
       PROVE  OwnershipInv'
  BY <1>10 DEF FindFree, Dispose
<1>11. ASSUME NEW r \in Request, OrderAccepted(r) PROVE OwnershipInv'
  <2>1. pc[r] = "ordering" /\ now[r] \in Number /\ OrderOf(r) \in Order
    BY <1>11, OrderIsAnOrder DEF OrderAccepted
  <2>2. \A q \in Request \ {r} : pc[q] = "bought" => now[q] # now[r]
    BY <1>11, OrderIsAnOrder, OrdersAssumption DEF OrderAccepted
  <2> QED
    BY <1>11, <2>1, <2>2, OrdersAssumption DEF OrderAccepted
<1>12. ASSUME NEW r \in Request, OrderRejected(r) PROVE OwnershipInv'
  BY <1>12 DEF OrderRejected
<1>13. ASSUME NEW r \in Request, SaveNumber(r) PROVE OwnershipInv'
  <2>1. pc[r] = "bought" /\ now[r] \in Number /\ OrderOf(r) \in Order
    BY <1>13, OrderIsAnOrder DEF SaveNumber
  <2>2. \A q \in Request \ {r} : pc[q] = "bought" => now[q] # now[r]
    BY <2>1, LockExcludes DEF OneFulfillerPerOrder
  <2>3. owner[now[r]] = NoTenant /\ boughtFor[now[r]] # NoOrder
    BY <2>1, OrdersAssumption
  <2>4. TenantOf[OrderOf(r)] # NoTenant
    BY <2>1, OrdersAssumption
  <2>5. \A q \in Request : now[r] \notin got[q]
    <3> SUFFICES ASSUME NEW q \in Request, now[r] \in got[q] PROVE FALSE
      OBVIOUS
    <3>1. pc[q] # "idle" /\ owner[now[r]] = TenantOf[OrderOf(q)]
      OBVIOUS
    <3> QED
      BY <2>3, <3>1, OrderIsAnOrder, OrdersAssumption
  <2>6. \A o \in Order : status[o] = "FULFILLED" => now[r] \notin NumbersOf[o]
    BY <2>3, OrdersAssumption
  <2> QED
    BY <1>13, <2>1, <2>2, <2>3, <2>4, <2>5, <2>6, OrdersAssumption DEF SaveNumber
<1>14. ASSUME NEW r \in Request, SaveFails(r) PROVE OwnershipInv'
  BY <1>14 DEF SaveFails
<1>15. ASSUME NEW r \in Request, Settle(r) PROVE OwnershipInv'
  BY <1>15, OrderIsAnOrder DEF Settle, Outcome
<1>16. ASSUME NEW r \in Request, ReleaseLock(r) PROVE OwnershipInv'
  BY <1>16 DEF ReleaseLock
<1>17. ASSUME NEW r \in Request, Throw(r) PROVE OwnershipInv'
  <2>1. CASE pc[r] \notin Locked /\ Finish(r)
    BY <1>17, <2>1 DEF Throw
  <2>2. CASE pc[r] \in Locked /\ At(r, "unlock")
    BY <1>17, <2>2 DEF Throw
  <2> QED
    BY <1>17, <2>1, <2>2 DEF Throw
<1>18. ASSUME NEW r \in Request, Crash(r) PROVE OwnershipInv'
  BY <1>18 DEF Crash
<1>19. ASSUME NEW o \in Order, NEW p \in {"complete", "paid"}, Pay(o, p)
       PROVE  OwnershipInv'
  BY <1>19 DEF Pay
<1>20. ASSUME NEW r \in Request, CheckPayment(r) PROVE OwnershipInv'
  BY <1>20 DEF CheckPayment
<1>21. CASE UNCHANGED vars
  BY <1>21 DEF vars
<1> QED
  BY NextIsAnyStep, <1>1, <1>2, <1>3, <1>4, <1>5, <1>6, <1>7, <1>8, <1>9, <1>10,
     <1>11, <1>12, <1>13, <1>14, <1>15, <1>16, <1>17, <1>18, <1>19, <1>20,
     <1>21 DEF AnyStep

\* Every number of a FULFILLED order is recorded for the order's tenant.
THEOREM FulfilledMeansOwned == Spec => []FulfilledOrderHasItsNumbers
<1>1. Init => OwnershipInv
  BY DEF Init, OwnershipInv, FulfilledOrderHasItsNumbers
<1>2. LockInv /\ LockInv' /\ OwnershipInv /\ [Next]_vars => OwnershipInv'
  BY OwnershipInvStep
<1>3. OwnershipInv => FulfilledOrderHasItsNumbers
  BY DEF OwnershipInv
<1> QED
  BY <1>1, <1>2, <1>3, LockInvHolds, PTL DEF Spec

-----------------------------------------------------------------------------
(***************************************************************************)
(* The event of a payment.  A request that finds the order closed or       *)
(* locked gives up: the order is decided then, or the one that holds the   *)
(* lock decides it, for only requests of the gateway fulfil a card order.  *)
(***************************************************************************)
Open == {"none"} \cup Claimable

DecidedInv ==
  /\ \A o \in Order : status[o] \notin Open => o \in decided
  /\ \A r \in Request :
       /\ pc[r] # "idle" => Suits(ask[r]) /\ status[OrderOf(r)] # "none"
       /\ pc[r] \in PastTheCheck => ask[r].op \in Fulfilling
       /\ pc[r] = "unlock" => OrderOf(r) \in decided \/ mishaps > 0
       /\ pc[r] = "lost" => mishaps > 0

\* On its way, request by request.
Deciding(r, o) ==
  /\ OrderOf(r) = o
  /\ ask[r].op \in Card
  /\ pc[r] \in {"payment", "read", "lock", "claim"} \cup Filling

LEMMA StillServed ==
  ASSUME ClaimedPaymentIsServed, NEW r \in Request,
         claimed' = claimed, decided \subseteq decided',
         mishaps > 0 => mishaps' > 0,
         \A q \in Request \ {r} : pc'[q] = pc[q] /\ ask'[q] = ask[q],
         \A o \in Order : Deciding(r, o) =>
            \/ o \in decided' \/ mishaps' > 0
            \/ \E q \in Request : Deciding(q, o)'
  PROVE  ClaimedPaymentIsServed'
<1> SUFFICES ASSUME NEW o \in Order, [op |-> "webhook", order |-> o] \in claimed,
                    o \notin decided', ~(mishaps' > 0)
             PROVE  OnItsWay(o)'
  BY DEF ClaimedPaymentIsServed
<1>1. PICK q \in Request : Deciding(q, o)
  BY DEF ClaimedPaymentIsServed, OnItsWay, Deciding
<1>2. CASE q = r
  BY <1>1, <1>2 DEF Deciding, OnItsWay
<1>3. CASE q # r
  BY <1>1, <1>3 DEF Deciding, OnItsWay, OrderOf
<1> QED
  BY <1>2, <1>3

LEMMA DecidedInvStep ==
  ASSUME TypeOK, TypeOK', PaymentInv, DecidedInv, [Next]_vars PROVE DecidedInv'
<1> USE DEF DecidedInv, TypeOK, PastTheCheck, Open, Claimable, orderVars,
            requestVars, At, Finish, Locked, Filling, OrderOf
<1>1. ASSUME NEW o \in Order, Place(o) PROVE DecidedInv'
  BY <1>1, OrderIsAnOrder DEF Place
<1>2. ASSUME NEW r \in Request, NEW a \in Asks, Arrive(r, a) PROVE DecidedInv'
  <2>1. pc[r] = "idle" /\ Suits(a) /\ status[a.order] # "none"
    BY <1>2 DEF Arrive, FirstStep
  <2>2. PICK step \in {"event", "payment", "review", "read"} : pc' = [pc EXCEPT ![r] = step]
    BY <1>2 DEF Arrive, FirstStep
  <2>3. /\ ask' = [ask EXCEPT ![r] = a]
        /\ UNCHANGED <<status, decided, mishaps>>
    BY <1>2 DEF Arrive, FirstStep
  <2> QED
    BY <2>1, <2>2, <2>3
<1>3. ASSUME NEW r \in Request, ClaimEvent(r) PROVE DecidedInv'
  BY <1>3 DEF ClaimEvent, FirstStep
<1>4. ASSUME NEW r \in Request, Approve(r) PROVE DecidedInv'
  BY <1>4 DEF Approve
<1>5. ASSUME NEW r \in Request, Read(r) PROVE DecidedInv'
  BY <1>5 DEF Read
<1>6. ASSUME NEW r \in Request, Write(r) PROVE DecidedInv'
  <2>1. OrderOf(r) \in Order /\ decided \subseteq decided'
    BY <1>6, OrderIsAnOrder DEF Write
  <2>2. \A o \in Order : status'[o] # status[o] =>
          status'[o] \in Claimable \/ (status'[o] = "CANCELLED" /\ o \in decided')
    BY <1>6, <2>1 DEF Write
  <2>3. pc' = [pc EXCEPT ![r] = "idle"] /\ mishaps' = mishaps
    BY <1>6 DEF Write
  <2>4. \A q \in Request \ {r} : ask'[q] = ask[q]
    BY <1>6 DEF Write
  <2>5. \A q \in Request : pc'[q] # "idle" => status'[OrderOf(q)] # "none"
    BY <2>2, <2>3, OrderIsAnOrder
  <2> QED
    BY <2>1, <2>2, <2>3, <2>4, <2>5
<1>7. ASSUME NEW r \in Request, AcquireLock(r) PROVE DecidedInv'
  BY <1>7 DEF AcquireLock
<1>8. ASSUME NEW r \in Request, ClaimOrder(r) PROVE DecidedInv'
  <2>1. OrderOf(r) \in Order /\ status[OrderOf(r)] # "none"
    BY <1>8, OrderIsAnOrder DEF ClaimOrder
  <2>2. CASE status[OrderOf(r)] \in Claimable
    <3>1. status' = [status EXCEPT ![OrderOf(r)] = "PAID"]
      BY <1>8, <2>2 DEF ClaimOrder
    <3>2. \A q \in Request : pc[q] # "idle" => status'[OrderOf(q)] # "none"
      BY <3>1, OrderIsAnOrder
    <3> QED
      BY <1>8, <2>1, <2>2, <3>1, <3>2 DEF ClaimOrder
  <2>3. CASE status[OrderOf(r)] \notin Claimable
    BY <1>8, <2>1, <2>3 DEF ClaimOrder
  <2> QED
    BY <2>2, <2>3
<1>9. ASSUME NEW r \in Request, NEW n \in Number, FindOwned(r, n)
      PROVE  DecidedInv'
  BY <1>9 DEF FindOwned, Dispose
<1>10. ASSUME NEW r \in Request, NEW n \in Number, FindFree(r, n)
       PROVE  DecidedInv'
  BY <1>10 DEF FindFree, Dispose
<1>11. ASSUME NEW r \in Request, OrderAccepted(r) PROVE DecidedInv'
  BY <1>11 DEF OrderAccepted
<1>12. ASSUME NEW r \in Request, OrderRejected(r) PROVE DecidedInv'
  BY <1>12 DEF OrderRejected
<1>13. ASSUME NEW r \in Request, SaveNumber(r) PROVE DecidedInv'
  BY <1>13 DEF SaveNumber
<1>14. ASSUME NEW r \in Request, SaveFails(r) PROVE DecidedInv'
  BY <1>14 DEF SaveFails, Mishap
<1>15. ASSUME NEW r \in Request, Settle(r) PROVE DecidedInv'
  BY <1>15, OrderIsAnOrder DEF Settle, Outcome
<1>16. ASSUME NEW r \in Request, ReleaseLock(r) PROVE DecidedInv'
  BY <1>16 DEF ReleaseLock
<1>17. ASSUME NEW r \in Request, Throw(r) PROVE DecidedInv'
  <2>0. mishaps' > 0
    BY <1>17 DEF Throw, Mishap
  <2>1. CASE Finish(r)
    BY <1>17, <2>0, <2>1 DEF Throw
  <2>2. CASE pc[r] \in Locked /\ At(r, "unlock")
    BY <1>17, <2>0, <2>2 DEF Throw
  <2> QED
    BY <1>17, <2>1, <2>2 DEF Throw
<1>18. ASSUME NEW r \in Request, Crash(r) PROVE DecidedInv'
  BY <1>18 DEF Crash, Mishap
<1>19. ASSUME NEW o \in Order, NEW p \in {"complete", "paid"}, Pay(o, p)
       PROVE  DecidedInv'
  BY <1>19 DEF Pay
<1>20. ASSUME NEW r \in Request, CheckPayment(r) PROVE DecidedInv'
  BY <1>20 DEF CheckPayment
<1>21. CASE UNCHANGED vars
  BY <1>21 DEF vars
<1> QED
  BY NextIsAnyStep, <1>1, <1>2, <1>3, <1>4, <1>5, <1>6, <1>7, <1>8, <1>9, <1>10,
     <1>11, <1>12, <1>13, <1>14, <1>15, <1>16, <1>17, <1>18, <1>19, <1>20,
     <1>21 DEF AnyStep

LEMMA SuitsByMethod ==
  ASSUME NEW a, Suits(a)
  PROVE  /\ a.op \in Card => MethodOf[a.order] # "MANUAL_BANK"
         /\ a.op \in Bank => MethodOf[a.order] = "MANUAL_BANK"
BY DEF Suits, Card, Bank

LEMMA ServedStep ==
  ASSUME LockInv, PaymentInv, DecidedInv, DecidedInv', ClaimedPaymentIsServed,
         [Next]_vars
  PROVE  ClaimedPaymentIsServed'
<1> USE DEF LockInv, TypeOK, orderVars, requestVars, At, Finish, Deciding,
            Filling, OrderOf
<1>1. ASSUME NEW o \in Order, Place(o) PROVE ClaimedPaymentIsServed'
  BY <1>1 DEF Place, ClaimedPaymentIsServed, OnItsWay
<1>2. ASSUME NEW r \in Request, NEW a \in Asks, Arrive(r, a)
      PROVE  ClaimedPaymentIsServed'
  <2>1. pc[r] = "idle"
    BY <1>2 DEF Arrive, FirstStep
  <2>2. PICK step \in {"event", "payment", "review", "read"} : pc' = [pc EXCEPT ![r] = step]
    BY <1>2 DEF Arrive, FirstStep
  <2>3. /\ ask' = [ask EXCEPT ![r] = a]
        /\ UNCHANGED <<claimed, decided, mishaps>>
    BY <1>2 DEF Arrive, FirstStep
  <2> QED
    BY <2>1, <2>2, <2>3, StillServed
<1>3. ASSUME NEW r \in Request, ClaimEvent(r) PROVE ClaimedPaymentIsServed'
  <2> SUFFICES ASSUME NEW o \in Order, [op |-> "webhook", order |-> o] \in claimed',
                      o \notin decided', ~(mishaps' > 0)
               PROVE  OnItsWay(o)'
    BY DEF ClaimedPaymentIsServed
  <2>1. CASE [op |-> "webhook", order |-> o] \in claimed
    BY <1>3, <2>1 DEF ClaimEvent, FirstStep, ClaimedPaymentIsServed, OnItsWay
  <2>2. CASE [op |-> "webhook", order |-> o] \notin claimed
    <3>1. /\ ask[r] = [op |-> "webhook", order |-> o]
          /\ \/ pc' = [pc EXCEPT ![r] = "read"]
             \/ pc' = [pc EXCEPT ![r] = "payment"]
      BY <1>3, <2>2 DEF ClaimEvent, FirstStep
    <3>2. ask' = ask
      BY <1>3, <2>2, <3>1 DEF ClaimEvent, FirstStep
    <3> QED
      BY <3>1, <3>2 DEF OnItsWay, Card
  <2> QED
    BY <2>1, <2>2
<1>4. ASSUME NEW r \in Request, Approve(r) PROVE ClaimedPaymentIsServed'
  BY <1>4, StillServed DEF Approve
<1>5. ASSUME NEW r \in Request, Read(r) PROVE ClaimedPaymentIsServed'
  <2>1. OrderOf(r) \in Order /\ status[OrderOf(r)] # "none"
    BY <1>5, OrderIsAnOrder DEF Read, DecidedInv
  <2>2. ask[r].op \in Card /\ ~GoesOn(r) => OrderOf(r) \in decided
    BY <2>1 DEF GoesOn, Complete, Open, Claimable, DecidedInv, Card, Bank
  <2>3. ask[r].op \in Card => ask[r].op \notin Writing
    BY DEF Card, Writing
  <2> QED
    BY <1>5, <2>2, <2>3, StillServed DEF Read
<1>6. ASSUME NEW r \in Request, Write(r) PROVE ClaimedPaymentIsServed'
  BY <1>6, StillServed DEF Write
<1>7. ASSUME NEW r \in Request, AcquireLock(r) PROVE ClaimedPaymentIsServed'
  <2> DEFINE o == OrderOf(r)
             q == lock[o]
  <2>1. o \in Order
    BY <1>7, OrderIsAnOrder DEF AcquireLock
  <2>2. CASE q = NoRequest
    BY <1>7, <2>2, StillServed DEF AcquireLock
  <2>3. CASE q # NoRequest
    <3>1. q \in Request /\ OrderOf(q) = o /\ pc[q] \in Locked \cup {"lost"}
      BY <2>1, <2>3 DEF LockIsHeldOrLost
    <3>2. ask[r].op \in Card /\ pc[q] \in Locked => ask[q].op \in Card
      BY <1>7, <3>1, SuitsByMethod
         DEF AcquireLock, DecidedInv, PastTheCheck, Locked, Fulfilling
    <3>3. ask[r].op \in Card =>
            o \in decided \/ mishaps > 0 \/ (Deciding(q, o) /\ q # r)
      BY <1>7, <3>1, <3>2 DEF AcquireLock, DecidedInv, Locked
    <3> QED
      BY <1>7, <2>3, <3>1, <3>3, StillServed DEF AcquireLock
  <2> QED
    BY <2>2, <2>3
<1>8. ASSUME NEW r \in Request, ClaimOrder(r) PROVE ClaimedPaymentIsServed'
  <2>1. OrderOf(r) \in Order /\ status[OrderOf(r)] # "none"
    BY <1>8, OrderIsAnOrder DEF ClaimOrder, DecidedInv
  <2>2. status[OrderOf(r)] \notin Claimable => OrderOf(r) \in decided
    BY <2>1 DEF DecidedInv, Open
  <2> QED
    BY <1>8, <2>2, StillServed DEF ClaimOrder
<1>9. ASSUME NEW r \in Request, NEW n \in Number, FindOwned(r, n)
      PROVE  ClaimedPaymentIsServed'
  BY <1>9, StillServed DEF FindOwned, Dispose
<1>10. ASSUME NEW r \in Request, NEW n \in Number, FindFree(r, n)
       PROVE  ClaimedPaymentIsServed'
  BY <1>10, StillServed DEF FindFree, Dispose
<1>11. ASSUME NEW r \in Request, OrderAccepted(r) PROVE ClaimedPaymentIsServed'
  BY <1>11, StillServed DEF OrderAccepted
<1>12. ASSUME NEW r \in Request, OrderRejected(r) PROVE ClaimedPaymentIsServed'
  BY <1>12, StillServed DEF OrderRejected
<1>13. ASSUME NEW r \in Request, SaveNumber(r) PROVE ClaimedPaymentIsServed'
  BY <1>13, StillServed DEF SaveNumber
<1>14. ASSUME NEW r \in Request, SaveFails(r) PROVE ClaimedPaymentIsServed'
  BY <1>14 DEF SaveFails, Mishap, ClaimedPaymentIsServed
<1>15. ASSUME NEW r \in Request, Settle(r) PROVE ClaimedPaymentIsServed'
  BY <1>15, StillServed DEF Settle
<1>16. ASSUME NEW r \in Request, ReleaseLock(r) PROVE ClaimedPaymentIsServed'
  BY <1>16, StillServed DEF ReleaseLock
<1>17. ASSUME NEW r \in Request, Throw(r) PROVE ClaimedPaymentIsServed'
  BY <1>17 DEF Throw, Mishap, ClaimedPaymentIsServed
<1>18. ASSUME NEW r \in Request, Crash(r) PROVE ClaimedPaymentIsServed'
  BY <1>18 DEF Crash, Mishap, ClaimedPaymentIsServed
<1>19. ASSUME NEW o \in Order, NEW p \in {"complete", "paid"}, Pay(o, p)
       PROVE  ClaimedPaymentIsServed'
  BY <1>19 DEF Pay, ClaimedPaymentIsServed, OnItsWay
<1>20. ASSUME NEW r \in Request, CheckPayment(r) PROVE ClaimedPaymentIsServed'
  <2>1. CASE payment[OrderOf(r)] # "open"
    BY <1>20, <2>1, StillServed DEF CheckPayment
  <2>2. CASE payment[OrderOf(r)] = "open"
    <3>1. [op |-> "webhook", order |-> OrderOf(r)] \notin claimed
      BY <1>20, <2>2, OrderIsAnOrder DEF CheckPayment, PaymentInv
    <3> SUFFICES ASSUME NEW o \in Order, o \notin decided', ~(mishaps' > 0),
                        [op |-> "webhook", order |-> o] \in claimed'
                 PROVE  OnItsWay(o)'
      BY DEF ClaimedPaymentIsServed
    <3>2. PICK q \in Request : Deciding(q, o)
      BY <1>20 DEF CheckPayment, ClaimedPaymentIsServed, OnItsWay
    <3>3. q # r
      BY <1>20, <3>1, <3>2 DEF CheckPayment
    <3> QED
      BY <1>20, <3>2, <3>3 DEF CheckPayment, OnItsWay
  <2> QED
    BY <2>1, <2>2
<1>21. CASE UNCHANGED vars
  BY <1>21 DEF vars, ClaimedPaymentIsServed, OnItsWay
<1> QED
  BY NextIsAnyStep, <1>1, <1>2, <1>3, <1>4, <1>5, <1>6, <1>7, <1>8, <1>9, <1>10,
     <1>11, <1>12, <1>13, <1>14, <1>15, <1>16, <1>17, <1>18, <1>19, <1>20,
     <1>21 DEF AnyStep

LEMMA ServiceHolds == Spec => [](DecidedInv /\ ClaimedPaymentIsServed)
<1>1. Init => PaymentInv /\ DecidedInv /\ ClaimedPaymentIsServed
  BY DEF Init, PaymentInv, DecidedInv, PastTheCheck,
         Locked, Filling, Open, ClaimedPaymentIsServed
<1>2. TypeOK /\ TypeOK' /\ PaymentInv /\ [Next]_vars => PaymentInv'
  BY PaymentInvStep
<1>3. TypeOK /\ TypeOK' /\ PaymentInv /\ DecidedInv /\ [Next]_vars => DecidedInv'
  BY DecidedInvStep
<1>4. /\ LockInv /\ PaymentInv /\ DecidedInv /\ DecidedInv'
      /\ ClaimedPaymentIsServed /\ [Next]_vars
      => ClaimedPaymentIsServed'
  BY ServedStep
<1> QED
  BY <1>1, <1>2, <1>3, <1>4, OrderTypes, LockInvHolds, PTL DEF Spec

\* The claimed event of a payment is served, whatever else is at the order.
THEOREM PaymentsAreServed == Spec => []ClaimedPaymentIsServed
BY ServiceHolds, PTL

-----------------------------------------------------------------------------
(***************************************************************************)
(* What may change a closed order                                          *)
(***************************************************************************)
\* On what each of the writing handlers has decided.
SeenInv ==
  \A r \in Request : pc[r] = "write" =>
    /\ ask[r].op \in Writing
    /\ seen[r] \notin (IF ask[r].op \in {"cancel", "reject"} THEN Complete
                      ELSE Closed)

LEMMA SeenInvStep ==
  ASSUME TypeOK, SeenInv, [Next]_vars PROVE SeenInv'
<1> USE DEF SeenInv, TypeOK, orderVars, requestVars, At, Finish
<1>1. ASSUME NEW o \in Order, Place(o) PROVE SeenInv'
  BY <1>1 DEF Place
<1>2. ASSUME NEW r \in Request, NEW a \in Asks, Arrive(r, a) PROVE SeenInv'
  <2>1. PICK step \in {"event", "payment", "review", "read"} : pc' = [pc EXCEPT ![r] = step]
    BY <1>2 DEF Arrive, FirstStep
  <2> QED
    BY <1>2, <2>1 DEF Arrive
<1>3. ASSUME NEW r \in Request, Read(r) PROVE SeenInv'
  <2>1. CASE Finish(r) /\ UNCHANGED seen
    BY <2>1
  <2>2. CASE At(r, "lock") /\ UNCHANGED seen
    BY <2>2
  <2>3. CASE GoesOn(r) /\ ask[r].op \in Writing /\ At(r, "write")
    <3>1. seen' = [seen EXCEPT ![r] = status[OrderOf(r)]]
      BY <1>3, <2>3 DEF Read, Fulfilling, Card, Bank, Writing
    <3>2. status[OrderOf(r)] \notin
            (IF ask[r].op \in {"cancel", "reject"} THEN Complete ELSE Closed)
      BY <2>3 DEF GoesOn, Writing, Card, Bank, Closed, Complete
    <3> QED
      BY <2>3, <3>1, <3>2
  <2> QED
    BY <1>3, <2>1, <2>2, <2>3 DEF Read
<1>4. ASSUME NEW r \in Request,
             \/ ClaimEvent(r) \/ CheckPayment(r) \/ Approve(r) \/ Write(r)
             \/ AcquireLock(r)
      PROVE  SeenInv'
  BY <1>4 DEF ClaimEvent, FirstStep, CheckPayment, Approve, Write, AcquireLock
<1>5. ASSUME NEW r \in Request,
             ClaimOrder(r) \/ Settle(r) \/ ReleaseLock(r) \/ Throw(r) \/ Crash(r)
      PROVE  SeenInv'
  BY <1>5 DEF ClaimOrder, Settle, ReleaseLock, Throw, Crash
<1>6. ASSUME NEW r \in Request, NEW n \in Number, FindOwned(r, n) \/ FindFree(r, n)
      PROVE  SeenInv'
  BY <1>6 DEF FindOwned, FindFree
<1>7. ASSUME NEW r \in Request,
             \/ OrderAccepted(r) \/ OrderRejected(r)
             \/ SaveNumber(r) \/ SaveFails(r)
      PROVE  SeenInv'
  BY <1>7 DEF OrderAccepted, OrderRejected, SaveNumber, SaveFails
<1>8. CASE UNCHANGED vars
  BY <1>8 DEF vars
<1>9. ASSUME NEW o \in Order, NEW p \in {"complete", "paid"}, Pay(o, p)
      PROVE  SeenInv'
  BY <1>9 DEF Pay
<1> QED
  BY NextIsAnyStep, <1>1, <1>2, <1>3, <1>4, <1>5, <1>6, <1>7, <1>8, <1>9 DEF AnyStep

ClosedStep(o) ==
  status[o] \in Closed /\ status'[o] # status[o] =>
    \E r \in Request : StaleOrClaimed(r, o)

LEMMA StatusIsWritten ==
  ASSUME TypeOK, SeenInv, [Next]_vars, NEW o \in Order PROVE ClosedStep(o)
<1> USE DEF ClosedStep, StaleOrClaimed, TypeOK, orderVars, Closed, Complete
<1>1. ASSUME NEW p \in Order, Place(p) PROVE ClosedStep(o)
  BY <1>1 DEF Place
<1>2. ASSUME NEW r \in Request, Write(r) PROVE ClosedStep(o)
  BY <1>2 DEF Write, SeenInv
<1>3. ASSUME NEW r \in Request, ClaimOrder(r) PROVE ClosedStep(o)
  BY <1>3 DEF ClaimOrder, Claimable
<1>4. ASSUME NEW r \in Request, Settle(r) PROVE ClosedStep(o)
  BY <1>4 DEF Settle, Filling
<1>5. CASE UNCHANGED status
  BY <1>5
<1>6. ASSUME NEW r \in Request, NEW a \in Asks, Arrive(r, a)
      PROVE  UNCHANGED status
  BY <1>6 DEF Arrive
<1>7. ASSUME NEW r \in Request,
             \/ ClaimEvent(r) \/ CheckPayment(r) \/ Approve(r) \/ Read(r)
             \/ AcquireLock(r) \/ OrderAccepted(r) \/ OrderRejected(r)
             \/ SaveNumber(r) \/ SaveFails(r) \/ ReleaseLock(r) \/ Throw(r) \/ Crash(r)
      PROVE  UNCHANGED status
  BY <1>7 DEF ClaimEvent, CheckPayment, Approve, Read, AcquireLock, OrderAccepted,
              OrderRejected, SaveNumber, SaveFails, ReleaseLock, Throw, Crash
<1>8. ASSUME NEW r \in Request, NEW n \in Number, FindOwned(r, n) \/ FindFree(r, n)
      PROVE  UNCHANGED status
  BY <1>8 DEF FindOwned, FindFree
<1>9. UNCHANGED vars => UNCHANGED status
  BY DEF vars
<1>10. ASSUME NEW p \in Order, NEW m \in {"complete", "paid"}, Pay(p, m)
       PROVE  UNCHANGED status
  BY <1>10 DEF Pay
<1> QED
  BY NextIsAnyStep, <1>1, <1>2, <1>3, <1>4, <1>5, <1>6, <1>7, <1>8, <1>9, <1>10
     DEF AnyStep

\* A closed order changes only by a handler that read it before it was
\* closed, or that had claimed it.
THEOREM ClosedOrdersAreLeftAlone == Spec => ClosedOrderChangesOnlyByStaleHandler
<1>1. Init => SeenInv
  BY DEF Init, SeenInv
<1>2. TypeOK /\ SeenInv /\ [Next]_vars => SeenInv'
  BY SeenInvStep
<1>3. TypeOK /\ SeenInv /\ [Next]_vars =>
        [\A o \in Order : status[o] \in Closed /\ status'[o] # status[o] =>
           \E r \in Request : StaleOrClaimed(r, o)]_vars
  BY StatusIsWritten DEF ClosedStep
<1> QED
  BY <1>1, <1>2, <1>3, OrderTypes, PTL
     DEF Spec, ClosedOrderChangesOnlyByStaleHandler
=============================================================================
