# VSP Phone: TLA+ models and proofs

VSP Phone is a multi-tenant telephone system. A Node.js server receives the
webhooks of the carrier (Telnyx, Twilio), keeps the state of every call in
PostgreSQL (through Prisma) and Redis, and sends commands (answer, dial, bridge,
hang up, ...) back. This directory holds TLA+ models of the parts of it where
concurrency, crashes and retries decide whether a call works or money is well
spent: the **V3 call engine** in `src/lib/telephony-v3/` from webhook to carrier
command, the agent queue on top of it, the **simultaneous ring** of the legacy
engine that still serves tenants without V3, and the **purchase of numbers**.
TLC checks small instances of them, TLAPS proves theorems for any size.

Paths below are relative to `src/lib/telephony-v3/` unless they start with
`src/`.

## 1. The system

```
 carrier ──webhook──> WebhookGateway ──XADD──> Redis stream ──> ingress workers
                                                                 │ processIngressEvent
                                                                 v
                     Session / Leg rows  <── one transaction ── CallManager
                            ^    ^                               │ domain events (in process)
     snapshot writes, hold, │    │ co-commit                     v
     transfer ── routers, Hold/Transfer, Queue, IVR, Conference, timers, cleanup
                            │    v                               │ enqueueCommand
                            │  V3CommandOutbox rows <────────────┘
                            │    v  claim, lease, lock, retry
                            └── outbox executor ──HTTP──> carrier
```

### 1.1 Components, their state and what makes them correct

| Component | State | Operations | Correct when |
|---|---|---|---|
| Webhook gateway (`WebhookGateway/gateway.js`) | webhook payload store, dedup keys and rows | check duplicate, store payload, XADD, mark processed | an event that is answered 200 is in the stream; a repeated one is harmless |
| Ingress stream and worker (`Redis/streams.js`, `Workers/ingressWorker.js`) | Redis stream, its pending list, delivery counts, DLQ | read new, claim stale (60 s), process, XACK, move to DLQ after 5 deliveries | every event is acknowledged or in the DLQ in the end; a delivery that dies is repeated |
| Call manager (`CallManager/*`, `Sessions/*`, `StateMachine/*`, `Workers/ingressDispatcher.js`) | `V3CallSession`, `V3CallLeg`, audit rows, bootstrap and session locks | resolve tenant, bootstrap session and leg, load, decide, co-commit, publish | rows follow the frozen transition tables, once per event, with their commands; a call is routed once |
| Command outbox and executor (`Outbox/commandOutbox.js`, `Executor/*`, `scripts/telephony-v3-worker.js`) | `V3CommandOutbox` rows (status, owner, lease, attempts, next attempt) | enqueue, claim, execute under the session lock, complete, fail with backoff, dead-letter, renew, purge | a command is carried out at least once or dead-lettered with reason; outcomes are not overwritten |
| Locks (`Redis/locks.js`) | one Redis key per session / leg, TTL 30 s | SET NX with token, release script | exclusion while the TTL holds; nothing may depend on more |
| Domain events and command bus (`Events/*`, `Commands/commandBus.js`) | in-process subscriber lists | publish, subscribe; enqueue a command for a feature | each event reaches its subscribers; each request gives one command |
| Routing (`Routing/*`) | in-memory set of routed sessions, `routeSnapshot` column | decide desk / mobile / PSTN route, merge snapshot, dial | one router takes a session, its snapshot part is not lost |
| Hold and transfer (`HoldTransfer/*`) | `routeSnapshot`, in-memory transfers | start and resume hold, blind and attended transfer, cancel, complete | session and leg agree; a transfer ends |
| Queue, IVR, conference, recording, voicemail (`Queue/*`, `IVR/*`, ...) | `routeSnapshot`, in-memory registries | enter, offer, time out; menu walk; join, leave; start, stop | an entry is offered to one agent, leaves once; flags match the call |
| Number orders (`src/lib/billing.js`, `razorpayBilling.js`, `buyNumber.js`) | `NumberOrder`, `FulfillmentLock`, processed payment events, `PhoneNumber` rows | place, payment webhook, browser return, approve, reject, upload, cancel, fulfil | one fulfilment per order, after checkout or approval, its outcome true; no payment is lost |
| Legacy inbound ring (`src/lib/inboundCallControl.js`, `callControlSessionStore.js`) | one JSON value per call in Redis, saved whole; a claim by SET NX | dial all targets, register results, accept, answer, bridge, hang up, voicemail | one leg has the call, the others stop ringing, an unanswered caller gets voicemail |
| Timers (`Timer/timerService.js`) | Redis keys with a TTL, a sorted set | schedule, cancel, poll | a timer that is not cancelled fires once |
| Session cleanup, sidecar coordinator (`Sidecar/*`) | caches, timers, `routeSnapshot` | on SESSION_CLOSED / LEG_ENDED clear what belongs to the session | nothing of a closed call is left; nothing of a live one is cleared |
| Replay and DLQ (`Replay/replayService.js`) | DLQ stream | re-enqueue, delete | no entry is lost |
| Runtime sync jobs (`src/lib/v3/runtime/*`) | job rows PENDING, RUNNING, RETRYING, SUCCESS, DEAD_LETTER | enqueue, process, retry | every job is run to an end, none twice at a time |
| The rest: V3 administration, the rest of legacy call control and billing, messaging and AI, authentication, HTTP routes, carrier adapters, portal and mobile clients | database rows | CRUD, HTTP, user interface | mostly sequential; see section 12 |

### 1.2 How the parts meet, and what is hard

* **Processes.** Any number of worker processes run the same loops; the HTTP
  server is one more. They share only PostgreSQL and Redis. All in-process state
  (event subscribers, routed sessions, transfers) is per process and dies with it.
* **Delivery.** The stream hands an event to any worker and hands it out again
  when it has been pending for 60 s, whether or not its first worker is alive.
  The outbox does the same with a 30 s lease. Both are at-least-once.
* **Locks** have a TTL of 30 s, are never renewed and are not looked at again by
  their holder: a slow holder and its successor run at the same time. What
  protects the rows is the version check (`updateMany ... where version`) and
  the unique audit row per event inside the transaction.
* **Atomicity.** Only `persistCallFsmResult` is one transaction. Everything else
  is a sequence of separate queries a crash or another worker may come between:
  bootstrap and publication, mark sent and acknowledge, read attempts and write
  a failure, XADD to the DLQ and XACK, checking an order and writing it, loading
  a legacy session and saving it.
* **Who writes a session without the session lock:** hold, transfer and all
  snapshot writers. They bump the version and mostly ignore the row count.

`PROJECT.json` lists each such place as a hazard, with its line and the
properties that cover it, or the reason why none does yet.

## 2. Plan

| # | Modules | Content | State |
|---|---|---|---|
| 1 | `CommandOutbox`, `CommandDelivery` | outbox, executor, stub tick; at-least-once delivery as its abstract specification | modelled, checked, proved |
| 2 | `CallFsm`, `CallLife`, `CallManager` | transition tables; life of a call as the abstract specification; workers, stream side, bootstrap, co-commit | modelled, checked, proved |
| 3 | `IngressPipeline` | gateway dedup, payload store, stream, pending list, move to the DLQ, replay | modelled, checked, proved |
| 4 | `NumberOrders` | orders, payments, fulfilment lock and claim, purchase of numbers | modelled, checked, proved |
| 5 | `AgentQueue` | the queue's handlers over the version-checked snapshot, and the timers | modelled, checked, proved |
| 6 | `InboundRing` | the simultaneous ring of the legacy engine | modelled, checked, proved |
| 7 | composition of 1 and 2 | a committed teardown reaches the carrier | later |

What the first plan called `TimerService` is part of `AgentQueue`, where a timer
matters to a caller. `HoldTransfer` was dropped: the start functions of both
managers have no caller in the program, and the writes the rest can make are in
`CallManager`.

Modules are written to be proved about: parameters are CONSTANTS with a named
assumption, one action per operation, no RECURSIVE operator, proofs in modules
of their own.

## 3. Command outbox: `CommandOutbox`, `CommandDelivery`

### 3.1 Model

A row of `V3CommandOutbox` is an element of `Command` with the columns that
decide anything: `status`, `owner` (claimOwner), `attempts`; time is abstracted
to two booleans that may change at any moment, `leased` (claimedUntil is in the
future) and `due` (nextAttemptAt is not). A worker has a program counter `pc`,
the rest of its batch `todo`, the row in hand `cur`, the class of the carrier's
answer `answer` and the attempts it read `seen`. `lock` is the Redis lock of
each session. `tries`, `performed` and `verdict` are history: what the carrier
was asked, did and answered.

| Action | Code |
|---|---|
| `Enqueue` | `enqueueCommand`, `enqueueCommandInTransaction` (a duplicate key changes nothing) |
| `Claim` | `claimPendingCommands`: one `UPDATE ... FOR UPDATE SKIP LOCKED`, at most `PollBatch` rows |
| `TakeLock`, `LockTimeout` | `withLock` around `executeOneCommandLocked`, its 2 s acquisition limit |
| `RecordStarted`, `CallCarrier` | `recordCommandExecutionStarted` (ownership check), `executeCommand` + `classifyFailure` |
| `Complete`, `CompleteThrows` | `completeCommand` where owner and status still match, otherwise the exception |
| `ReadForFailure`, `WriteFailure` | the two queries of `markCommandExecutionFailed` |
| `StubSend`, `StubAck`, `StubReadForFailure`, `StubStoreFails` | the tick without the executor (`runOutboxWorkerTick`) |
| `StoreFails` | any database or Redis error during the execution of a row |
| `RenewLease`, `LeaseExpires`, `BackoffElapses`, `LockExpires`, `OtherLocks` | time and the other users of the session lock |
| `Crash`, `Purge` | death of a process; `purgeOutboxRows` |

The payload, the translation of each command type to an HTTP request and the
execution metadata (an audit trail no decision reads) are left out.

### 3.2 Properties

* `AckedWasConfirmed`, `DeadIsJustified`: an acknowledged row was confirmed by
  the carrier; a dead one was refused or really tried `MaxAttempts` times.
* `NoStrandedRow`: an unsettled row is below the attempt bound the claim query
  asks for. `markCommandExecutionFailed` and the claim compare the same column
  in two places; off by one, and a row would never be picked up again.
* `LocksDoNotLeak`: a lock in a worker's name belongs to the row it executes.
* `AckUndoneOnlyByStaleFailure`: an acknowledged row is reopened only by the
  second query of a failure write whose worker has lost the row. This is the one
  hole the two-query write leaves; the property says there is no other.
* `LeaseRespected`, `ImplementsDelivery`: as long as no claim falls into that
  hole (`ClaimMidFailure = FALSE`: no worker stalls there for a whole lease), a
  live lease is ended by its owner only, and the outbox implements
  `CommandDelivery`, plain at-least-once delivery without workers or leases.
* `SentRowIsSettledByItsSender`: a row marked SENT is moved on by the worker that
  marked it or by a stale failure write, and by nothing else: the claim does not
  take SENT rows, so no second worker sends it, and none helps it when its sender
  has died before the acknowledgement.
* `EventuallySettled`: every submitted command is acknowledged or dead for good.

### 3.3 Runs

| Run | Instance | Shows | States |
|---|---|---|---|
| `outbox_safety` | 2 workers, 2 commands of one session, every fault, stalled failure writes | the invariants and `AckUndoneOnlyByStaleFailure` | 2.0 M |
| `outbox_settles` | 2 workers, 1 command, 3 attempts, no stalled failure writes | `EventuallySettled` under races, `LeaseRespected`, `ImplementsDelivery` | 15 k |
| `outbox_stub` | the stub tick, 2 workers, 2 commands | `NoStrandedRow`, `SentRowIsSettledByItsSender` | small |
| `outbox_crash_repeats` | 1 worker, 1 command | **violation** of `PerformedOnce`: see section 10 | - |

Two commands of one session are what makes workers meet on the session lock and
a batch hold a row that waits; two workers are what a lost lease takes. The
attempt bound is 2 instead of 5 in the safety runs: first attempt, last attempt,
and the boundary between them occur; `outbox_settles` has 3, an attempt that is
neither first nor last. Its one command is what a liveness check of two workers
can carry; that a lease is respected and delivery implemented for any number of
commands and workers is proved (section 11). Histories saturate (`PerformedCap`), so the state space is
finite; `outbox_crash_repeats` sets the cap to 2 to tell one from two.

## 4. Call manager: `CallFsm`, `CallLife`, `CallManager`

### 4.1 Model

`CallFsm` holds `SESSION_TRANSITIONS` and `LEG_TRANSITIONS` as sets of triples,
the two resolve functions as nested functions over states and triggers, the
mapping from carrier events to triggers, `resolveSessionCompletion` and
`deriveCommandIntents`.

`CallManager` has the rows (`sState`, `sVersion`, `lState`, `lVersion`, the audit
rows `sRows`, `lRows`, the outbox rows `commands`), the stream entry of each
event (`msg`, `deliveries`), both kinds of locks, and for each worker its place
`pc`, event `ev`, conflict counter `attempt`, the rows it created `made` and what
it loaded `view`. `sPublished`, `lPublished` and `handled` are history.

| Action | Code |
|---|---|
| `Take` | `readIngressBatch` / `claimStaleMessages`, then `processIngressEvent` up to the bootstrap: unresolved tenant and unknown leg are answered unhandled |
| `TakeBootstrapLock`, `BootSession`, `BootLeg`, `Announce` | `bootstrapSessionAndLeg`: second lookup, `findOrCreateSession`, `findOrCreateLeg`, publication by whoever created the row |
| `TakeSessionLock`, `LoadSession`, `LoadLeg` | `withSessionLock`, the two loads of `processFsmWithRetry` |
| `NoTransition`, `Conflict`, `Duplicate`, `Commit` | the outcomes of `applyWithCompletion` and `persistCallFsmResult`: nothing to write; version check fails, retry; unique index refuses; the transaction commits |
| `Publish`, `Ack` | domain events after the commit, release of the lock; `ackIngressJob` |
| `GiveUp`, `StoreFails` | an exception leaves the delivery: lock timeout, last conflict, failing store; DLQ after the last delivery |
| `Crash`, `SessionLockExpires`, `BootstrapLockExpires` | death of a process, TTL of its locks (or of a live holder's) |
| `OtherLocks`, `FeatureSession`, `FeatureLeg`, `SnapshotWrite` | the executor, hold, transfer and routing, and the snapshot writers on the same rows |

A pending entry may be handed out at any moment: that is the 60 s stale claim,
and also an event that is in the stream twice. `Faults`, `FeatureTriggers`,
`Unresolved`, `Before` and `VersionCap` select what a run includes; they bound
the model and are named as such. Left out: the media sidecars called after the
event is answered, the session and leg caches (no decision reads them), the
observe-only policy engine, the bodies of the event subscribers.

### 4.2 Properties

* `ImplementsCallLife` (refinement): rows move along the tables **from the state
  they are in**, not from the one that was loaded; each event moves each row at
  most once; in the same instant the commands its moves call for are written.
  `CallLife` is that promise without workers, locks, versions and retries.
* `HandledHangupEndsLeg`: a hangup or failure answered `handled: true` has ended
  its leg, also when the answer was "duplicate" or "no transition".
* `TeardownIsCommanded`: a session in teardown and an ended leg have a HANGUP
  command.
* `PublishedAtMostOnce`: `SESSION_CREATED` and `LEG_CREATED` are published at most
  once, so a call is not routed twice, however many deliveries bootstrap it.
* `CallIsOffered`: with nobody at work, a row that exists has been published, so
  that some router has heard of the call. Only the creator of a row publishes it,
  and creator and finder may be different workers on different events; a crash in
  between loses the publication for good, so the run is without crashes. So does
  the tenant check on the session loaded back (`callManager.js:104`), which throws
  for a leg that belongs to a session of another tenant, with no store failing: the
  model has no such leg, since a call is resolved to one tenant in it.
* `EventuallySettled`: every event is acknowledged or in the DLQ in the end.

### 4.3 Runs

| Run | Instance | Shows | States |
|---|---|---|---|
| `call_routed` | 2 workers, two legs that bootstrap one call and both hang up, `route.decided` from outside, locks that lapse | all safety properties while two workers are inside the critical section; teardown of a session that got as far as RINGING | 0.6 M |
| `call_held` | 1 worker, a whole call, hold, executor and snapshot writes, an unresolved event | `ImplementsCallLife` in the late states (ACTIVE, HELD), interleaved with writers without the lock | 0.6 M |
| `call_settles` | 2 workers, creation and failure of 1 leg in any order, crashes, failing stores, 2 deliveries | `EventuallySettled`, `TeardownIsCommanded` under redelivery | 0.1 M |
| `call_hangup_lost` | 2 workers, 1 leg | **violation**: section 10 | - |

One call suffices because no action reads the rows of two calls; two legs are
what the completion rule looks at; two workers are what a lapsed lock takes. The
conflict bound is 2 (3 in the code) and the delivery bound 1 or 2 (5 in the
code): one retry and the give-up after it both occur. In `call_routed` the
stream holds both creations, then the caller's hangup, then the callee's; an
entry may still be overtaken by the next one in the other worker, and be
delivered again.
`VersionCap` stops the features, not the call manager.

## 5. Ingress: `IngressPipeline`

### 5.1 Model

A POST is one run of the gateway's handler (`hpc`); POSTs of one event are the
carrier's retries and may run at once. The stream is `entry` (absent, new,
pending, acked) with the pending list's `deliveries`; `copy` is the dead letter
stream. A worker has a batch `todo`, the entry in hand `job` and its place `wpc`.

| Action | Code |
|---|---|
| `Send`, `Check`, `Store`, `Enqueue`, `Mark`, `MarkFails` | the steps of `handleV3WebhookIngress`: durable duplicate, payload, XADD, mark; the answer |
| `Read` | `readIngressBatch` and `claimStaleMessages`: new entries, and pending ones of any worker, this one included |
| `Dispatch`, `AckJob` | `dispatchIngressJob`, `ackIngressJob` |
| `Count`, `MoveToDlq`, `EndBatch` | the failure branch: delivery count, XADD to the DLQ and XACK as two steps, the rest of the batch |
| `AckFails`, `WorkerFails` | an exception or a crash at any of these |
| `Requeue`, `Delete` | the two steps of `replayDlqMessages` |
| `Lapse`, `Purge` | the payload's TTL of a day; `purgeProcessedTelnyxEvents` |

Left out: events without an id (never duplicates), trimming of the streams, two
replays of one dead letter at once, what a dispatch does (section 4). `Take` of
`CallManager` assumes of this pipeline only that every entry is handed out, maybe
repeatedly and out of order.

### 5.2 Properties and run

* `NothingAcceptedIsLost`: an event that was answered 200, or that its mark would
  have answered as a duplicate, has been dispatched, is in the stream or in the
  DLQ. It depends on three orders at once: XADD before the mark, DLQ before XACK,
  XADD before XDEL.
* `QueuedHasPayload`: a queued entry's payload is there, unless a day has passed.
* `AnsweredEventIsNotQueuedAgain`: a POST after the answer adds no entry, unless
  the mark failed or was purged.
* `EveryEntryIsSettled`: every entry is acknowledged in the end, also when workers
  abandon batches, take entries over from each other, or always fail.

`ingress`: two POSTs of one event, two workers, two entries, two deliveries (5 in
the code), one mishap anywhere (0.4 M states). Two POSTs race or follow each
other; one mishap is what each of the two-step operations is exposed to, and two
entries are the original and a duplicate or a replay. More of each is covered by
the theorems (section 11).

## 6. Number orders: `NumberOrders`

### 6.1 Model

A request (`pc`, `ask`) serves one call of a handler on one order, a step per
database or carrier call; requests are served at once and one after another.
`status` and `review` are the order's row, `lock` the row of `FulfillmentLock`,
`claimed` the processed payment events, `owner` the `PhoneNumber` rows,
`boughtFor` the carrier's side, `payment` the gateway's: the checkout is open,
complete with the money still to come, or paid. `approved` (bank orders whose
payment was once approved) and `decided` are history.

| Action | Code |
|---|---|
| `Place`, `Pay` | an order is created; the customer completes the checkout and the money comes, at once, later or never (external) |
| `Arrive` | a request comes in: the gateway's signed event (`Sent`), a browser's return at any time, an administrator's or tenant's request |
| `ClaimEvent` | `claimStripeEvent`, `claimRazorpayEvent` |
| `CheckPayment` | the state of the session in `completeCheckoutSession` (billing.js:465), which webhook and return both ask the gateway for; the signature in `finalizeRazorpayPayment` |
| `Approve` | `approveBankPayment` |
| `Read`, `Write` | the check of `status` each handler begins with, and the write by id of cancel, reject, proof upload, payment failed |
| `AcquireLock`, `ClaimOrder`, `ReleaseLock` | `acquireFulfillmentLock`, `claimOrderForFulfillment`, `releaseFulfillmentLock` |
| `FindOwned`, `FindFree`, `OrderAccepted`, `OrderRejected`, `SaveNumber`, `SaveFails` | `buyAndAssignNumber`, number by number |
| `Settle` | the outcome `fulfillNumberOrder` writes |
| `Throw`, `Crash` | a failing call inside or outside the try, the death of the process or a failed release |

### 6.2 Properties and run

* `OneFulfillerPerOrder`, `LockIsHeldOrLost`: of webhook and browser return, or two
  approvals, one fulfils; a lock whose request is over was left by a crash or a
  failed release (it never expires).
* `PurchaseFollowsCheckout`: nothing is bought for a card order whose checkout was
  not completed, though the browser's return is unsigned and comes at any time, or
  for a bank order whose payment was never approved. It says "completed" and not
  "paid", and "was approved" and not "is": the code lets an unpaid complete session
  through (below), and an approval may be taken back by a new proof
  between the check and the purchase.
* `FulfilledOrderHasItsNumbers`: FULFILLED means every number is the tenant's,
  also when it was in two carts or the order was interrupted before.
* `ClaimedPaymentIsServed`: a payment event that was claimed, so that its retries
  are duplicates, has a decided order or a request under way, unless a call failed
  or a process died: an attempt that fails after the claim loses the payment, which
  the code does not prevent. What is covered is the request that is refused the lock.
* `ClosedOrderChangesOnlyByStaleHandler`: a closed order is changed only by a
  handler that read it before it was closed, or is fulfilling it.

`orders`: a card order of two numbers, paid by Razorpay, and a bank order that wants
one of them, two concurrent requests of every kind but cancellation and proof upload
(whose two effects, closing an order by id and taking approval back, a rejection
has; the theorems include all kinds and all gateways), one mishap (1.4 M states).
Two requests are what a lock excludes; a number in both carts is what the carrier
sells once.

What `src/lib/purchaseAuthorization.js:2` says, "tenants must pay before Telnyx
purchase", is more than the code does: the check at billing.js:465 lets a Stripe
session through that is complete with its money still to come (the checkout is
created without a list of payment methods, billing.js:248, so delayed ones are
possible), and a Razorpay signature may be of a payment that is authorized only.
The model has these as `payment` "complete", and no property claims otherwise.

Not modelled: prices, invoices, receivables, refunds, subscriptions, the direct
purchase by a super administrator.

## 7. Agent queue: `AgentQueue`

### 7.1 Model

One call's `routeSnapshot.queue` (`queue`), the Redis keys of its two timers
(`timer`: off or set), per process the in-memory `entry` and `handled` request keys,
the outbox rows it causes (`rows`). A handler (`task`) has its operation, its place, the queue it read, and whether
the version it loaded is still the row's (`fresh`).

| Action | Code |
|---|---|
| `JoinQueue`, `JoinLooks`, `EnterOrAssign`, `ArmWait` | `joinQueue` |
| `LoadSession`, `QueueIsGone`, `Persist`, `Save`, `ArmAgent` | `createQueue`, `assignAgent`: version first, queue next, version-checked write, commands, timer |
| `AgentTimeout`, `Retry`, `WaitTimeout`, `Overflow`, `OverflowSends` | `handleAgentTimeout`, `handleWaitTimeout`, `handleOverflow` |
| `KeyExpires`, `Poll`, `Fire` | the TTL; read and delete of `pollExpiredTimers`; the dispatch to a handler of the polling process |
| `OthersWrite` | any other write of the session row |
| `Throw`, `Restart` | a query, policy or command that fails and ends its handler (`joinQueue`, `assignAgent` catch it, the coordinator logs it); a process that dies with its handlers and what it remembered |
| `CallEnds`, `CleanUp`, `CleanupReads`, `Dequeue`, `Sweep` | `handleLegEndedEvent`, `cleanupSessionSidecars`, `cleanupQueue`, the snapshot sweep without version |

Left out: `agentAnswered`, `leaveQueue`, queue recording (no caller in the
program), the strategy's choice of agent, the overflow destination (the IVR, the
only caller, passes none), observe-only tenants.

### 7.2 Properties and run

* `QueuedCallerIsNotForgotten`: at rest, a parked caller has the wait timer (the
  agents' timer does not count: the retry it starts may find nobody to ring and set
  no other) or a command that ends the wait. It holds through failing calls and
  restarts, dropped writes, a second join and double firing of either timer, with
  one exception, which the history variable `lost` marks: the wait timer itself, or
  a handler it set off, was lost. The code loses it in these ways, and no later
  step makes up for any of them:
  - `scheduleTimer` fails and the failure is swallowed (`queueManager.js:268`);
  - the key expires before a poll reads it (`timerService.js:20`);
  - the handler throws or its process dies after the key was deleted
    (`timerService.js:98`);
  - the timer fires in a process that does not remember the caller, another one or
    one that was restarted (`queueState.js`), or whose entry is too young.

  So the property says less than that no caller is forgotten; it says that the wait
  timer is the one thing a caller depends on. Every other handler may fail.
* `QueueIsChangedFromWhatItIs`: a handler's write replaces the queue it read,
  though it loaded the version in another query before. It holds because version
  first, queue next is the safe order, with the exceptions the property names
  (the cleanup's deletion leaves the version as it was; what is written after it is
  excepted, so the sweep of a live queue is modelled and not covered).

`queue`: one call, two processes with a handler each, two attempts (1.2 M states).
`Followed`, the run's `CONSTRAINT`, follows a behaviour up to the third of these: a
first join, a second one, a fault (a failing call or timer, a restart), the end of
the call, the loss of the wait timer. So a queued caller meets one of the others,
at any step. A second join meets the first one's timers and entry; two processes are what
a timer that fires elsewhere takes. The proofs have no such bound: any number of
joins and faults, and the end of the call, in any order.

## 8. Legacy ring: `InboundRing`

### 8.1 Model

`sess` is the JSON value `ccs:{id}` (stage, status of each leg, winner), `winner`
the claim key. Every handler (`task`) loads the whole value, works on its `copy`
between awaits, and saves it whole; `stale` notes that the stored value has moved
since. `events` are webhooks and API calls not handled yet, taken in any order, as
the webhook answers 200 before it handles. `line`, `caller` are the carrier's
side, `served` and `astray` are history.

`astray` are the phones the program has given up while they were up: it has
recorded their dial as failed, because something threw in `dialSingleTarget`
(`inboundCallControl.js:918`: a lost answer of the carrier, Redis at 857 or 871),
or their hangup failed and they count as cancelled (698-703, 713-718, 975-979).
Both are ordinary steps (`DialLeg`, `HangUp`), and the behaviour goes on: such a
phone rings on, may be picked up, bridged or end, and its events come for a leg
the session does not track or has as cancelled.

| Action | Code |
|---|---|
| `StartRinging`, `DialLeg`, `DialsReturn`, `RegisterLoad`, `RegisterCheck`, `RegisterSave`, `Recount`, `RecountSave` | `dialAllTargetsSimultaneously`, `registerOutboundDialResult` (RC-3: a late leg of a taken call is hung up) |
| `Begin` | `findSession` and the dispatch of `handleInboundCallControlEvent` |
| `AcceptSave` | `markAgentWebRtcAccepted` |
| `MarkConnecting`, `AnswerReload`, `MarkAnswered`, `Claim`, `MarkPaired`, `MarkBridged`, `CancelRemaining`, `SaveWon` | `onOutboundLegAnswered` up to the cancelled losers |
| `IgnoreHangup`, `AbandonRing`, `RingingLegHangup`, `LoserHangup`, `LoserSave`, `ClosingHangup` | the branches of `handleHangup` |
| `LegEnded`, `NoAnswerSave` | `handleSimultaneousLegEnded` |
| `ClearClaims`, `DeleteSession` | `cleanupInboundSession` |
| `RouteToVoicemail`, `PromptSave`, `SpeakPrompt`, `RecordSave`, `RecordMessage` | `routeToVoicemailOrHangup`, `startVoicemailCapture`, `handleSpeakEnded` |
| `PickUp`, `Bridge`, `LegEnds`, `CallerHangsUp` | agents, carrier and caller (external) |

The code loses session state in five ways no property can hold across; the model has them
and notes the first in `mishap`, where a behaviour is cut:

* *overwritten*: a save over a session that changed since its load;
* *revived*: a save after `deleteSession`;
* *reclaimed*: `cleanupInboundSession` deletes the claim first and the session a
  query later, and a leg bridged in between claims a call that is being closed:
  the former winner's handler, still cancelling the losers of the copy it has,
  then hangs that leg up;
* *untracked*: the hangup of a leg that is dialled but not (or no longer) in the
  saved session, which closes a live call, or settles the legs too early;
* *ignored*: a hangup during bridge grace, which nothing repeats.

So each property reads: as long as none of these has happened. Two of them are
reachable by two phones that time out together and by a caller who gives up while
the phones are being dialled; they are listed as hazards.

### 8.2 Properties and run

* `WinnerIsNotHungUp`: the program never hangs up the leg that has the claim while
  the caller is on the line, by whatever stale copy it decides.
* `TakenCallStopsRinging`: at rest, no other phone of a taken call rings, also one
  whose dial returned after the claim, but for the phones in `astray`, which nobody
  hangs up.
* `CallerIsServed`: at rest, a caller all of whose legs have ended talked to an
  agent or left a message, unless the call is in stage "connecting".
* `PromptIsForTheUnanswered`: the prompt is spoken only once every leg has failed
  or ended: not to a bridged caller, not while a phone rings, and not while a
  picked-up leg waits for its bridge. A phone in `astray` may ring through it: the
  dialer counts its leg as failed and routes to the prompt (941-943).

`WinnerIsNotHungUp` and `CallerIsServed` have no such exception: a phone that was
given up takes neither the call from the winner nor the voicemail from the caller.

Assumed: `speakCall` and `startVoicemailRecording` do not throw (a caller for whom
one does hears nothing more, and no later event repeats it), and Redis does not
fail a load or save of the session. Failing hangups and dials are modelled.

`ring`: an app and a phone, two handlers, `MaxBusy` = 2 handlers busy at once with
the dialer (2.1 M states). Two legs are a winner and a loser; two busy handlers
are the dialer against an answer, or two events against each other. `Followed`,
the run's `CONSTRAINT`, follows a behaviour in which a phone went astray until the
caller gives up; the proofs have no such bound. Webhooks wait
in `events` as long as they like, so all orders of handling occur. *Reclaimed*
takes three handlers and lies beyond the run; the proofs (section 11) are for any
number of legs and handlers.

## 9. Fairness

Liveness is checked under `LiveSpec` of `CommandOutbox`, `CallManager` and
`IngressPipeline`.

* A worker that has something to do goes on (`WF` on its own next step): the
  loops of `ingressWorker.js` and `telephony-v3-worker.js` run until the process
  is stopped, catch every exception and poll on a timer. A crashed process is
  started again by its supervisor, which is why a worker can always go on.
* An entry or a claimable row is taken in the end (`WF` on `Take` per event, on
  `Claim`): both reads are ordered by age.
* Time passes (`WF` on the expiry of leases, locks and backoffs).
* Crashes, outages that hit live leases and stalls are finite in number
  (`<>[][...]`): with endless crashes nothing need ever be finished, and the code
  claims nothing of the kind.

No fairness is put on store failures, on the carrier's answers, on features or
on the executor's use of the session lock; in `IngressPipeline` none on POSTs,
replays, lapses or failures, and `MaxMishaps` bounds these. The other modules
have no liveness property: what keeps a request or a timer going there is part of
their safety properties (a caller, a payment must have something under way).

## 10. Where the code and its documents disagree

Each is a `violation` run; `PROJECT.json` quotes the document.

| Run | What happens |
|---|---|
| `outbox_crash_repeats` | A worker dies after the carrier call and before `completeCommand`; the row is claimed again and the command is carried out twice. A DIAL carries no idempotency token. |
| `call_hangup_lost` | A hangup looked up before another worker has created its leg is answered unhandled and acknowledged; the leg created afterwards stays up in the database. |

## 11. Proofs

All proofs are checked by TLAPS with SMT, Zenon and the temporal backend; they
assume nothing but the ASSUME of the module, which every run evaluates.

| Module | Theorems |
|---|---|
| `CommandOutboxProofs` | `TypeCorrect`, `NoRowIsStranded`, `NoLockLeaks`, `AcksAreConfirmed`, `DeadLettersAreJustified`, `SentRowsAreLeftAlone` |
| `CommandDeliveryProofs` | `AcksAreReopenedByStaleFailuresOnly`, `LiveLeasesAreRespected`, `DeliversAtLeastOnce` |
| `CallManagerProofs` | lemmas on the transition tables; `CallTypeCorrect`, `AnsweredHangups`, `TeardownHasItsCommand`, `RoutedAtMostOnce`, `EveryCallIsOffered` |
| `CallLifeProofs` | `CallsLiveTheirLife` (the refinement) |
| `IngressPipelineProofs` | `IngressTypes`, `AcceptedIsKept`, `QueuedIsReadable`, `LatePostsAreDropped` |
| `NumberOrdersProofs` | `OrderTypes`, `FulfilmentIsExclusive`, `LocksAreReleased`, `PurchasesFollowCheckout`, `FulfilledMeansOwned`, `PaymentsAreServed`, `ClosedOrdersAreLeftAlone` |
| `AgentQueueProofs` | `QueueTypes`, `WritesReplaceWhatWasRead`, `QueuedCallersAreCarried` |
| `InboundRingProofs` | `RingTypes`, `WinnersAreSpared`, `TakenCallsAreQuiet`, `CallersAreServed`, `PromptsAreLate` |

**Outbox.** The inductive invariant is `TInv` (types, the row in hand exists, new
rows are fresh, no stranded row), to which `LockInv` adds which row a lock
belongs to and `OutcomeInv` relates the attempts column and the worker's answer
to the carrier's history. The attempt bound needs `seen`: the value written is
the one read a query earlier, so the invariant has to say that even a stale
`seen` stays below the bound. The refinement adds `OwnInv`: under
`~ClaimMidFailure` a worker between the two queries of a failure write still owns
its row. That assumption is part of the statements of `LiveLeasesAreRespected`
and `DeliversAtLeastOnce`.

**Call manager.** `TInv` is the type invariant and `Grounded`: what rows exist by
the time a worker is at each place of its delivery. `ViewInv` says that what a
worker has loaded is the present row or an older version of it, and that a leg it
saw ended is ended. It is inductive because rows only grow (`RowsGrow`): a row
that changes has a new version. From `ViewInv`, a commit whose version check
passes writes from the present state (`CommitWrites`), whatever happened to its
lock. On this rest
- `HangupInv`: the audit rows of a hangup, and a worker past its commit, imply an
  ended leg; the three ways to answer an event all pass through one of them;
- `TeardownIsCommanded` itself, inductive together with `ViewInv` because the
  tables reach ENDED only from ENDING and no feature trigger tears a call down;
- the refinement: a commit is `Life!Apply` of its event, where a part whose row
  was not written is a part the event does not move.
`PublishInv` needs no view: the worker about to publish is the one that created
the row, there is at most one such worker per row, and before it publishes the
count is 0. The proof uses neither lock.

`EveryCallIsOffered` carries, next to it, who announces a row: as long as nothing
fails, an unpublished row has a worker on its way to publish it.

**Ingress.** `NothingAcceptedIsLost` is not inductive: between XADD to the DLQ and
XACK an entry is in both places, and a worker acknowledges what it holds in
memory. `HeldIsReal` says that what a worker holds was added once and, before an
acknowledgement, dispatched; `KnownIsSolid` extends the goal to every event a
handler past its XADD knows of, and does not count an entry that is about to be
dropped for its dead letter. `PayloadsAreKept` and `MarksAreKept` follow an
entry's payload and the answered events through copies and replays.

**Orders.** `LockInv` says both directions of the lock: who is between acquiring
and releasing has the row, and a row belongs to such a request or a lost one. On
it rest `OwnershipInv` (only the order's one fulfiller changes what it has bought;
a claimed order cannot become FULFILLED under another) and `DecidedInv`, the
argument for `PaymentsAreServed`: the event's request, or whoever refused it the
lock, is past the check. `PaymentInv` says that a request past its check of the
payment, or of the approval, works on an order whose checkout was completed, or
that was approved; it is inductive because neither is ever undone (`payment` only
goes on, `approved` only grows), unlike `review`. `SeenInv` carries what a request
read through its steps.

**Queue.** `HandlersOK` ties a handler's place to what it has read; a handler
whose version is current (`Current`) has read the present queue, since every
write of it but the cleanup's takes a new version. `CarryInv` is the argument that
a caller is not forgotten: as long as nothing is `lost`, the wait timer carries the
caller until its key is deleted (`CallerIsCarried`), then the handler it set off,
then the overflow that handler asks for (`OverflowGoesOn`: once some process
remembers the request, an overflow is under way until its row is written). Any
number of faults may hit everything else. It has to say as well that without a
queue nobody has entered one (`NoQueueYet`), and that only the end of the call
cleans up (`OnlyTheEndCleans`). In a state at rest none of these handlers is there,
which leaves the timer or the row. It was in this proof that the agents' timer
turned out not to carry anybody.

**Ring.** The inductive invariant `RingInv` has two layers. `Basis` holds whatever
happens:
- `IInv`: types, and where a handler can be with what it has in hand;
- `LinesOK`: what the session, every copy (stale ones too), the claim and the
  events say of a line is true of it. It is inductive because a line only goes on
  (`Grows`): what was once so of it stays so;
- `DialOK`: until its result is registered, a leg is in no session, copy or claim;
- `CopiesFresh`: a copy that is not stale is the session, or the session with the
  one change its handler is about to save.

`Orderly` holds up to the first mishap. `CopiesFresh` makes every save until then
a change of the stored session itself (`DialerWrites`, `HandlerWrites` say which),
and the rest builds on that:
- `StagesOK`: stages only go on, and a handler of an answer works on a session at
  "connecting" or beyond;
- `HangupsOK`: the end of a leg waits as one event or is with one handler, and the
  leg is "no-answer" only after that;
- `OrphanOK`: while the caller is there and nobody has won, a leg can only have
  gone astray in its dial, and is then a `Stranger`: neither the session nor any
  copy has it as ringing or answered, and no handler is about it. A hangup, the
  other way astray, is sent only in a call that is won or has no caller. So what a
  given-up leg does later changes nothing for the caller (`NextHush`);
- `CaptureOK`: a call on its way to voicemail has all lines down but those of
  strangers, and nobody was served unless no end of a leg is left to be handled.
  This gives `PromptsAreLate`;
- `WinOK`: a handler that cancels losers holds the claim, or the call is over; a
  claim without a winner in the session has a handler about to write it; a line
  that rings in a taken call is still to be registered, or to be cancelled, or
  astray. With
  `DialOK` this gives `WinnersAreSpared`, step by step over the three places that
  hang up, and at rest `TakenCallsAreQuiet`;
- `UnservedOK`: while a caller waits, the session stays, each ended leg is told to
  it, and once all have ended unanswered a handler is on its way to voicemail, or
  the voicemail to the caller. At rest this gives `CallersAreServed`.

**Only model-checked:** `EventuallySettled` of both modules and
`EveryEntryIsSettled`, since liveness under fairness is beyond the prover, and the
two violations. Every safety property and the refinements of the passing runs are
theorems.

## 12. Not modelled

* The bodies of `Routing` and `HoldTransfer` (their writes to the rows of a call
  are in `CallManager` as `FeatureSession`, `FeatureLeg` and `SnapshotWrite`), of
  `IVR`, `Conference`, `Recording`, `Voicemail`: one writer per call in the normal
  case, over the same snapshot as the queue, where `OthersWrite` stands for them.
* Runtime sync jobs: one table, run without a claim; what a second run
  does is up to the adapters.
* Observability of the engine: it reads state and logs.
* V3 administration (about sixty CRUD services), authentication, messaging and AI,
  pricing, receivables, refunds, subscriptions, quotas: one request at a time over
  database rows or calls to outside services; what can be wrong in them is data,
  not control.
* The rest of legacy call control: sequential and ring-first strategies, greeting
  and IVR, extension forward, transfers, recording.
* HTTP routes, carrier adapters, portal and mobile clients, which are most of the
  repository's lines: I/O and user interface.
* Payload contents, tenant and route resolution: database lookups whose outcome
  is chosen freely where it matters (`Unresolved`, `FeatureTriggers`).

## 13. Running

```
tlc -workers 2 -config OutboxSafety.cfg MCCommandOutbox
tlc -workers 2 -config CallRouted.cfg MCCallManager
tlapm CommandOutboxProofs.tla
tlapm CallLifeProofs.tla
tlapm InboundRingProofs.tla
```

A run's cfg, properties and purpose are listed under `runs` in `PROJECT.json`.
Every property of a passing run has a mutant there: a change of one modelled
definition, as a plausible bug would make it, under which TLC finds the property
violated.
