---------------------------- MODULE NumberOrders ----------------------------
(***************************************************************************)
(* The purchase of phone numbers: orders, their payment and the fulfilment *)
(* that buys the numbers at the carrier (lib/billing, lib/razorpayBilling, *)
(* lib/buyNumber, lib/purchaseAuthorization).                              *)
(*                                                                         *)
(* A card order is fulfilled by the webhook of its payment and by the      *)
(* browser that comes back from the gateway, which may race; a bank        *)
(* transfer by an administrator, after approval.  Fulfilment runs under a  *)
(* row of FulfillmentLock and claims the order by a conditional update;    *)
(* every other handler reads the order, decides, and writes it by id.      *)
(* Each database, gateway or carrier call is a step of the request that    *)
(* makes it.                                                               *)
(*                                                                         *)
(* Not modelled: prices, invoices, receivables, mails and audit rows;      *)
(* refunds; Stripe's subscription events; a super administrator's direct   *)
(* purchase; numbers that exist without a tenant or are given back.        *)
(***************************************************************************)
EXTENDS Naturals

CONSTANTS
  Order, MethodOf,   \* "STRIPE", "RAZORPAY" or "MANUAL_BANK"
  Number, NumbersOf, \* the phone numbers of an order
  Tenant, TenantOf,
  Request,           \* bound of the model: requests served at a time
  Asks,              \* bound of the model: what the requests may ask for
  MaxMishaps,        \* bound of the model: crashes and failing calls
  NoRequest, NoTenant, NoOrder, NoNumber

Card       == {"webhook", "return"}
Bank       == {"approve", "confirm"}
Fulfilling == Card \cup Bank
Writing    == {"cancel", "reject", "upload", "payment failed"}

ASSUME OrdersAssumption ==
  /\ MethodOf \in [Order -> {"STRIPE", "RAZORPAY", "MANUAL_BANK"}]
  /\ NumbersOf \in [Order -> SUBSET Number]
  /\ TenantOf \in [Order -> Tenant]
  /\ Asks \subseteq [op : Fulfilling \cup Writing, order : Order]
  /\ MaxMishaps \in Nat
  /\ NoRequest \notin Request /\ NoTenant \notin Tenant
  /\ NoOrder \notin Order /\ NoNumber \notin Number

VARIABLES
  status,    \* NumberOrder.status, "none" before the row exists
  review,    \* NumberOrder.paymentReviewStatus
  payment,   \* at the gateway: "open"; "complete", with the customer done and
             \* the money still to come (a delayed payment, one authorized and
             \* not captured); "paid"
  lock,      \* FulfillmentLock: the request that created the order's row
  claimed,   \* ProcessedStripeEvent and ProcessedRazorpayEvent rows
  owner,     \* PhoneNumber rows: the tenant of a number
  boughtFor, \* carrier: the order a number was bought for
  pc, ask,   \* each request: where it is and what it asks for
  seen,      \* the status on which it decided to write
  left, now, got,  \* its numbers still to buy, the current one, the bought
  mishaps,   \* counted up to its bound
  approved,  \* history: bank orders whose payment was once approved
  decided    \* history: orders that have had an outcome or were cancelled

orderVars   == <<status, review, payment, approved, decided>>
requestVars == <<pc, ask, seen, left, now, got>>
vars == <<orderVars, lock, claimed, owner, boughtFor, requestVars, mishaps>>

OrderOf(r) == ask[r].order

Claimable == {"PENDING", "PAID", "PENDING_PAYMENT"}
Complete  == {"FULFILLED", "PARTIAL"}
Closed    == Complete \cup {"CANCELLED"}

\* Where a request holds the lock, and where it has claimed the order too.
Filling == {"buy", "ordering", "bought"}
Locked  == {"claim", "unlock"} \cup Filling
-----------------------------------------------------------------------------
NoAsk == [op |-> "none", order |-> NoOrder]

Init ==
  /\ status    = [o \in Order |-> "none"]
  /\ review    = [o \in Order |-> "NONE"]
  /\ payment   = [o \in Order |-> "open"]
  /\ lock      = [o \in Order |-> NoRequest]
  /\ claimed   = {}
  /\ owner     = [n \in Number |-> NoTenant]
  /\ boughtFor = [n \in Number |-> NoOrder]
  /\ pc        = [r \in Request |-> "idle"]
  /\ ask       = [r \in Request |-> NoAsk]
  /\ seen      = [r \in Request |-> "none"]
  /\ left      = [r \in Request |-> {}]
  /\ now       = [r \in Request |-> NoNumber]
  /\ got       = [r \in Request |-> {}]
  /\ mishaps   = 0
  /\ approved  = {}
  /\ decided   = {}

At(r, step) == pc' = [pc EXCEPT ![r] = step] /\ UNCHANGED ask

\* The handler returns or throws, and what it held in memory is gone.
Finish(r) ==
  /\ pc' = [pc EXCEPT ![r] = "idle"]
  /\ ask' = [ask EXCEPT ![r] = NoAsk]

\* createCheckout, createRazorpayCheckoutOrder, createManualOrder: a payment
\* can only follow once they have stored the gateway's id with the row.
Place(o) ==
  /\ status[o] = "none"
  /\ status' = [status EXCEPT ![o] =
       IF MethodOf[o] = "MANUAL_BANK" THEN "PENDING_PAYMENT" ELSE "PENDING"]
  /\ UNCHANGED <<review, payment, approved, decided, lock, claimed, owner,
                 boughtFor, requestVars, mishaps>>

\* The gateway: the customer goes through the checkout, and the money is there
\* at once, or later, or never.
Pay(o, p) ==
  /\ status[o] # "none" /\ MethodOf[o] # "MANUAL_BANK"
  /\ <<payment[o], p>> \in
       {<<"open", "complete">>, <<"open", "paid">>, <<"complete", "paid">>}
  /\ payment' = [payment EXCEPT ![o] = p]
  /\ UNCHANGED <<status, review, approved, decided, lock, claimed, owner,
                 boughtFor, requestVars, mishaps>>
-----------------------------------------------------------------------------
\* The handlers of a method refuse the orders of another, except
\* cancelManualOrder.
Suits(a) ==
  CASE a.op \in Card -> MethodOf[a.order] # "MANUAL_BANK"
    [] a.op = "payment failed" -> MethodOf[a.order] = "RAZORPAY"
    [] a.op = "cancel" -> TRUE
    [] OTHER -> MethodOf[a.order] = "MANUAL_BANK"

\* The gateway signs its events: checkout.session.completed is sent when the
\* session is complete, payment.captured when the money is there.  A browser
\* may return at any time.
Sent(a) ==
  a.op = "webhook" =>
    payment[a.order] \in IF MethodOf[a.order] = "STRIPE"
                           THEN {"complete", "paid"} ELSE {"paid"}

\* Whose payment is looked at first: the session of any Stripe request, the
\* signature of a browser, while Razorpay's event is itself the payment.
FirstStep(a) ==
  IF a.op = "return" \/ (a.op = "webhook" /\ MethodOf[a.order] = "STRIPE")
    THEN "payment" ELSE "read"

\* A request reaches its handler.
Arrive(r, a) ==
  /\ pc[r] = "idle"
  /\ status[a.order] # "none"
  /\ Suits(a) /\ Sent(a)
  /\ ask' = [ask EXCEPT ![r] = a]
  /\ pc' = [pc EXCEPT ![r] =
       CASE a.op \in {"webhook", "payment failed"} -> "event"
         [] a.op = "approve" -> "review"
         [] OTHER -> FirstStep(a)]
  /\ UNCHANGED <<orderVars, lock, claimed, owner, boughtFor,
                 seen, left, now, got, mishaps>>

(* Mutant: an event is taken for another one of the same order.            *)
ClaimEventByOrder(r) ==
  /\ pc[r] = "event"
  /\ claimed' = claimed \cup {ask[r]}
  /\ IF \E a \in claimed : a.order = OrderOf(r) THEN Finish(r)
     ELSE At(r, FirstStep(ask[r]))
  /\ UNCHANGED <<orderVars, lock, owner, boughtFor,
                 seen, left, now, got, mishaps>>

\* claimStripeEvent, claimRazorpayEvent: before anything is done for the
\* event, which is answered as a duplicate from then on.
ClaimEvent(r) ==
  /\ pc[r] = "event"
  /\ claimed' = claimed \cup {ask[r]}
  /\ IF ask[r] \in claimed THEN Finish(r)
     ELSE At(r, FirstStep(ask[r]))
  /\ UNCHANGED <<orderVars, lock, owner, boughtFor,
                 seen, left, now, got, mishaps>>

(* Mutant: the session, or the signature, is not looked at.                *)
CheckNothing(r) ==
  /\ pc[r] = "payment"
  /\ At(r, "read")
  /\ UNCHANGED <<orderVars, lock, claimed, owner, boughtFor,
                 seen, left, now, got, mishaps>>

\* completeCheckoutSession, of webhook and return alike, asks the gateway for
\* the session and refuses one that is neither complete nor paid.
\* finalizeRazorpayPayment verifies the signature of a return, which the
\* browser is given at the end of the checkout.
CheckPayment(r) ==
  /\ pc[r] = "payment"
  /\ IF payment[OrderOf(r)] # "open" THEN At(r, "read") ELSE Finish(r)
  /\ UNCHANGED <<orderVars, lock, claimed, owner, boughtFor,
                 seen, left, now, got, mishaps>>

(* Mutant: the approval overwrites the status of the order.                *)
ApproveStatus(r) ==
  /\ pc[r] = "review"
  /\ status' = [status EXCEPT ![OrderOf(r)] = "APPROVED"]
  /\ approved' = approved \cup {OrderOf(r)}
  /\ At(r, "read")
  /\ UNCHANGED <<review, payment, decided, lock, claimed, owner, boughtFor,
                 seen, left, now, got, mishaps>>

\* approveBankPayment writes the approval, whatever the order's status, and
\* calls confirmManualOrderAndFulfill.
Approve(r) ==
  /\ pc[r] = "review"
  /\ review' = [review EXCEPT ![OrderOf(r)] = "APPROVED"]
  /\ approved' = approved \cup {OrderOf(r)}
  /\ At(r, "read")
  /\ UNCHANGED <<status, payment, decided, lock, claimed, owner, boughtFor,
                 seen, left, now, got, mishaps>>

(* Mutant: assertBankFulfillmentApproved is not called.                    *)
GoesOnUnapproved(r) ==
  LET o == OrderOf(r) IN
  CASE ask[r].op \in Card     -> status[o] \notin Complete
    [] ask[r].op \in Bank     -> status[o] \notin Closed
    [] ask[r].op \in {"cancel", "reject"} -> status[o] \notin Complete
    [] ask[r].op = "upload"   -> /\ status[o] \in {"PENDING_PAYMENT", "PENDING"}
                                 /\ review[o] # "APPROVED"
    [] OTHER                  -> status[o] \notin Closed

\* What each handler demands of the row it reads first.
GoesOn(r) ==
  LET o == OrderOf(r) IN
  CASE ask[r].op \in Card     -> status[o] \notin Complete
    [] ask[r].op \in Bank     -> /\ status[o] \notin Closed
                                 /\ review[o] = "APPROVED"
    [] ask[r].op \in {"cancel", "reject"} -> status[o] \notin Complete
    [] ask[r].op = "upload"   -> /\ status[o] \in {"PENDING_PAYMENT", "PENDING"}
                                 /\ review[o] # "APPROVED"
    [] OTHER                  -> status[o] \notin Closed

Read(r) ==
  /\ pc[r] = "read"
  /\ \/ ~GoesOn(r) /\ Finish(r) /\ UNCHANGED seen
     \/ /\ GoesOn(r)
        /\ ask[r].op \in Fulfilling
        /\ At(r, "lock")
        /\ UNCHANGED seen
     \/ /\ GoesOn(r)
        /\ ask[r].op \in Writing
        /\ At(r, "write")
        /\ seen' = [seen EXCEPT ![r] = status[OrderOf(r)]]
  /\ UNCHANGED <<orderVars, lock, claimed, owner, boughtFor,
                 left, now, got, mishaps>>

\* The handlers that write what they decided, by the order's id alone.
Write(r) ==
  /\ pc[r] = "write"
  /\ status' = [status EXCEPT ![OrderOf(r)] =
       CASE ask[r].op \in {"cancel", "reject"} -> "CANCELLED"
         [] ask[r].op = "upload" -> "PENDING_PAYMENT"
         [] OTHER -> "PENDING"]
  /\ review' = [review EXCEPT ![OrderOf(r)] =
       CASE ask[r].op = "reject" -> "REJECTED"
         [] ask[r].op = "upload" -> "PENDING"
         [] OTHER -> @]
  /\ decided' = IF ask[r].op \in {"cancel", "reject"}
                THEN decided \cup {OrderOf(r)} ELSE decided
  /\ seen' = [seen EXCEPT ![r] = "none"]
  /\ Finish(r)
  /\ UNCHANGED <<payment, approved, lock, claimed, owner, boughtFor,
                 left, now, got, mishaps>>
-----------------------------------------------------------------------------
(***************************************************************************)
(* completeCheckoutSession, finalizeRazorpayPayment and                    *)
(* confirmManualOrderAndFulfill, from the lock on                          *)
(***************************************************************************)
(* Mutant: the lock is asked for inside the try, so that a request that    *)
(* did not get it releases it.                                             *)
LockInsideTry(r) ==
  /\ pc[r] = "lock"
  /\ IF lock[OrderOf(r)] = NoRequest
     THEN lock' = [lock EXCEPT ![OrderOf(r)] = r] /\ At(r, "claim")
     ELSE At(r, "unlock") /\ UNCHANGED lock
  /\ UNCHANGED <<orderVars, claimed, owner, boughtFor,
                 seen, left, now, got, mishaps>>

\* acquireFulfillmentLock: creates the row, or is refused by its key.
AcquireLock(r) ==
  /\ pc[r] = "lock"
  /\ IF lock[OrderOf(r)] = NoRequest
     THEN lock' = [lock EXCEPT ![OrderOf(r)] = r] /\ At(r, "claim")
     ELSE Finish(r) /\ UNCHANGED lock
  /\ UNCHANGED <<orderVars, claimed, owner, boughtFor,
                 seen, left, now, got, mishaps>>

(* Mutant: the claim takes the order whatever its status.                  *)
ClaimAnyOrder(r) ==
  /\ pc[r] = "claim"
  /\ status' = [status EXCEPT ![OrderOf(r)] = "PAID"]
  /\ left' = [left EXCEPT ![r] = NumbersOf[OrderOf(r)]]
  /\ At(r, "buy")
  /\ UNCHANGED <<review, payment, approved, decided, lock, claimed, owner,
                 boughtFor, seen, now, got, mishaps>>

(* Mutant: the request returns early without passing the finally block.    *)
ClaimWithoutFinally(r) ==
  /\ pc[r] = "claim"
  /\ IF status[OrderOf(r)] \in Claimable
     THEN /\ status' = [status EXCEPT ![OrderOf(r)] = "PAID"]
          /\ left' = [left EXCEPT ![r] = NumbersOf[OrderOf(r)]]
          /\ At(r, "buy")
     ELSE Finish(r) /\ UNCHANGED <<status, left>>
  /\ UNCHANGED <<review, payment, approved, decided, lock, claimed, owner,
                 boughtFor, seen, now, got, mishaps>>

\* claimOrderForFulfillment: an update conditional on the status.
ClaimOrder(r) ==
  /\ pc[r] = "claim"
  /\ IF status[OrderOf(r)] \in Claimable
     THEN /\ status' = [status EXCEPT ![OrderOf(r)] = "PAID"]
          /\ left' = [left EXCEPT ![r] = NumbersOf[OrderOf(r)]]
          /\ At(r, "buy")
     ELSE At(r, "unlock") /\ UNCHANGED <<status, left>>
  /\ UNCHANGED <<review, payment, approved, decided, lock, claimed, owner,
                 boughtFor, seen, now, got, mishaps>>

Mishap == mishaps < MaxMishaps /\ mishaps' = mishaps + 1

Dispose(r, n) == left' = [left EXCEPT ![r] = @ \ {n}]

(* Mutant: a row of the number counts as success, whoever owns it.         *)
FindOwnedByAnyone(r, n) ==
  /\ pc[r] = "buy"
  /\ n \in left[r]
  /\ owner[n] # NoTenant
  /\ got' = [got EXCEPT ![r] = @ \cup {n}]
  /\ Dispose(r, n)
  /\ UNCHANGED <<orderVars, lock, claimed, owner, boughtFor,
                 pc, ask, seen, now, mishaps>>

\* buyAndAssignNumber finds a row of the number: it is the tenant's already,
\* or another organisation's, which is an error of this number alone.
FindOwned(r, n) ==
  /\ pc[r] = "buy"
  /\ n \in left[r]
  /\ owner[n] # NoTenant
  /\ got' = [got EXCEPT ![r] =
       IF owner[n] = TenantOf[OrderOf(r)] THEN @ \cup {n} ELSE @]
  /\ Dispose(r, n)
  /\ UNCHANGED <<orderVars, lock, claimed, owner, boughtFor,
                 pc, ask, seen, now, mishaps>>

\* It finds none and goes to the carrier with the number.
FindFree(r, n) ==
  /\ pc[r] = "buy"
  /\ n \in left[r]
  /\ owner[n] = NoTenant
  /\ now' = [now EXCEPT ![r] = n]
  /\ Dispose(r, n)
  /\ At(r, "ordering")
  /\ UNCHANGED <<orderVars, lock, claimed, owner, boughtFor,
                 seen, got, mishaps>>

\* The carrier sells the number, once, or rejects the order.
OrderAccepted(r) ==
  /\ pc[r] = "ordering"
  /\ boughtFor[now[r]] = NoOrder
  /\ boughtFor' = [boughtFor EXCEPT ![now[r]] = OrderOf(r)]
  /\ At(r, "bought")
  /\ UNCHANGED <<orderVars, lock, claimed, owner,
                 seen, left, now, got, mishaps>>

OrderRejected(r) ==
  /\ pc[r] = "ordering"
  /\ now' = [now EXCEPT ![r] = NoNumber]
  /\ At(r, "buy")
  /\ UNCHANGED <<orderVars, lock, claimed, owner, boughtFor,
                 seen, left, got, mishaps>>

\* The number is assigned to the connection and its row created, or one of
\* these calls throws and leaves a number bought and not recorded.
SaveNumber(r) ==
  /\ pc[r] = "bought"
  /\ owner' = [owner EXCEPT ![now[r]] = TenantOf[OrderOf(r)]]
  /\ got' = [got EXCEPT ![r] = @ \cup {now[r]}]
  /\ now' = [now EXCEPT ![r] = NoNumber]
  /\ At(r, "buy")
  /\ UNCHANGED <<orderVars, lock, claimed, boughtFor, seen, left, mishaps>>

SaveFails(r) ==
  /\ pc[r] = "bought"
  /\ Mishap
  /\ now' = [now EXCEPT ![r] = NoNumber]
  /\ At(r, "buy")
  /\ UNCHANGED <<orderVars, lock, claimed, owner, boughtFor,
                 seen, left, got>>

\* fulfillNumberOrder writes the outcome by the order's id.
Outcome(r) ==
  IF got[r] = NumbersOf[OrderOf(r)] THEN "FULFILLED"
  ELSE IF got[r] # {} THEN "PARTIAL" ELSE "FAILED"

Settle(r) ==
  /\ pc[r] = "buy"
  /\ left[r] = {}
  /\ status' = [status EXCEPT ![OrderOf(r)] = Outcome(r)]
  /\ decided' = decided \cup {OrderOf(r)}
  /\ At(r, "unlock")
  /\ UNCHANGED <<review, payment, approved, lock, claimed, owner, boughtFor,
                 seen, left, now, got, mishaps>>

\* releaseFulfillmentLock deletes the order's row, and ignores a failure.
ReleaseLock(r) ==
  /\ pc[r] = "unlock"
  /\ lock' = [lock EXCEPT ![OrderOf(r)] = NoRequest]
  /\ left' = [left EXCEPT ![r] = {}]
  /\ got' = [got EXCEPT ![r] = {}]
  /\ Finish(r)
  /\ UNCHANGED <<orderVars, claimed, owner, boughtFor, seen, now, mishaps>>

\* A call of the database or the gateway throws: inside the try the lock is
\* released.
Throw(r) ==
  /\ Mishap
  /\ \/ /\ pc[r] \in {"event", "payment", "review", "read", "write", "lock"}
        /\ Finish(r)
     \/ pc[r] = "claim" /\ At(r, "unlock")
     \/ pc[r] = "buy" /\ left[r] = {} /\ At(r, "unlock")
  /\ UNCHANGED <<orderVars, lock, claimed, owner, boughtFor,
                 seen, left, now, got>>

\* The process dies, or the lock cannot be released.
Crash(r) ==
  /\ Mishap
  /\ pc[r] \notin {"idle", "lost"}
  /\ At(r, "lost")
  /\ UNCHANGED <<orderVars, lock, claimed, owner, boughtFor,
                 seen, left, now, got>>
-----------------------------------------------------------------------------
Buy(r) ==
  \/ \E n \in Number : FindOwned(r, n) \/ FindFree(r, n)
  \/ OrderAccepted(r) \/ OrderRejected(r) \/ SaveNumber(r) \/ SaveFails(r)

Serve(r) ==
  \/ ClaimEvent(r) \/ CheckPayment(r) \/ Approve(r) \/ Read(r) \/ Write(r)
  \/ AcquireLock(r) \/ ClaimOrder(r) \/ Buy(r) \/ Settle(r) \/ ReleaseLock(r)

Next ==
  \/ \E o \in Order : Place(o) \/ \E p \in {"complete", "paid"} : Pay(o, p)
  \/ \E r \in Request, a \in Asks : Arrive(r, a)
  \/ \E r \in Request : Serve(r) \/ Throw(r) \/ Crash(r)

\* A request that has reached its handler is served to its end.
Fairness == \A r \in Request : WF_vars(Serve(r))

Spec == Init /\ [][Next]_vars /\ Fairness
-----------------------------------------------------------------------------
TypeOK ==
  /\ status \in [Order -> {"none", "FAILED"} \cup Claimable \cup Closed]
  /\ review \in [Order -> {"NONE", "PENDING", "APPROVED", "REJECTED"}]
  /\ payment \in [Order -> {"open", "complete", "paid"}]
  /\ approved \in SUBSET Order
  /\ decided \in SUBSET Order
  /\ lock \in [Order -> Request \cup {NoRequest}]
  /\ claimed \in SUBSET Asks
  /\ owner \in [Number -> Tenant \cup {NoTenant}]
  /\ boughtFor \in [Number -> Order \cup {NoOrder}]
  /\ pc \in [Request -> {"idle", "event", "payment", "review", "read", "write",
                         "lock", "lost"} \cup Locked]
  /\ ask \in [Request -> Asks \cup {NoAsk}]
  /\ seen \in [Request -> {"none", "FAILED"} \cup Claimable \cup Closed]
  /\ left \in [Request -> SUBSET Number]
  /\ got \in [Request -> SUBSET Number]
  /\ now \in [Request -> Number \cup {NoNumber}]
  /\ mishaps \in 0..MaxMishaps
  /\ \A r \in Request : /\ pc[r] # "idle" => ask[r] \in Asks
                        /\ pc[r] \in {"ordering", "bought"} => now[r] \in Number

\* Two requests never fulfil one order at a time: of a payment's webhook and
\* the browser's return, or of two approvals, one gets the lock, and nothing
\* releases the lock of a request that is still buying.
OneFulfillerPerOrder ==
  \A r, q \in Request :
    pc[r] \in Locked /\ pc[q] \in Locked /\ OrderOf(r) = OrderOf(q) => r = q

\* A lock outlives its request only when the process died or the release
\* failed; it is then never given back, as the row does not expire.
LockIsHeldOrLost ==
  \A o \in Order : lock[o] # NoRequest =>
    OrderOf(lock[o]) = o /\ pc[lock[o]] \in Locked \cup {"lost"}

\* Nothing is bought at the carrier for a card order whose checkout was not
\* completed, though anyone may send the browser's return, or for a bank order
\* whose payment no administrator has ever approved.  More does not hold: a
\* complete session need not be paid (billing.js:465), nor a signed Razorpay
\* return be of a captured payment, and an approval may be taken back between
\* the check and the purchase.
PurchaseFollowsCheckout ==
  \A n \in Number : boughtFor[n] # NoOrder =>
    LET o == boughtFor[n] IN
      IF MethodOf[o] = "MANUAL_BANK" THEN o \in approved ELSE payment[o] # "open"

\* An order says FULFILLED only when every one of its numbers is recorded for
\* its tenant, though a number in two carts is sold once and though the order
\* may have been started, interrupted and fulfilled again.
FulfilledOrderHasItsNumbers ==
  \A o \in Order : status[o] = "FULFILLED" =>
    \A n \in NumbersOf[o] : owner[n] = TenantOf[o]

\* A cancelled or completed order changes its status only by a handler that
\* had read it before it was closed, or had claimed it: none opens an order
\* it has seen closed, and fulfilment never starts on one.
StaleOrClaimed(r, o) ==
  /\ OrderOf(r) = o
  /\ \/ pc[r] = "write" /\ seen[r] # status[o]
     \/ pc[r] \in Filling

ClosedOrderChangesOnlyByStaleHandler ==
  [][\A o \in Order :
       status[o] \in Closed /\ status'[o] # status[o] =>
         \E r \in Request : StaleOrClaimed(r, o)]_vars

\* The event of a payment is claimed once and answered as a duplicate
\* ever after: by then the order has had its outcome, or was cancelled, or a
\* request that can decide it is on its way.  However it, the browser's return
\* and a failed attempt are served, only a failing call or a crash loses it.
OnItsWay(o) ==
  \E r \in Request :
    /\ OrderOf(r) = o
    /\ ask[r].op \in Card
    /\ pc[r] \in {"payment", "read", "lock", "claim"} \cup Filling

ClaimedPaymentIsServed ==
  \A o \in Order :
    [op |-> "webhook", order |-> o] \in claimed =>
      o \in decided \/ OnItsWay(o) \/ mishaps > 0
=============================================================================
