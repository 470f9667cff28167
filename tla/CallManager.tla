----------------------------- MODULE CallManager -----------------------------
(***************************************************************************)
(* The V3 call manager (lib/telephony-v3/CallManager, Sessions,            *)
(* Workers/ingressDispatcher, the job loop of Workers/ingressWorker):      *)
(* worker processes take webhook events from the ingress stream, create    *)
(* the session and leg rows of a call, and drive both state machines.      *)
(*                                                                         *)
(* Each database or Redis call is a step.  The stream hands an event to    *)
(* any worker; one that is still pending may be handed out again while     *)
(* its first worker is at work on it.  Locks run out after 30 s, are       *)
(* never renewed and are not checked again by their holder: what keeps     *)
(* the rows consistent is the version check and the unique audit rows of   *)
(* persistCallFsmResult.                                                   *)
(***************************************************************************)
EXTENDS CallFsm, Naturals, FiniteSets

CONSTANTS
  Call, Leg, CallOf,     \* calls, their legs (call control ids)
  Event, LegOf, KindOf,  \* webhook events
  Before,                \* <<f, e>>: f enters the stream before e does
  Unresolved,            \* events whose tenant cannot be resolved
  Worker,
  MaxDeliveries,         \* WORKER.MAX_DELIVERY_ATTEMPTS (5)
  MaxAttempts,           \* OPTIMISTIC_LOCK_MAX_RETRIES (3)
  FeatureTriggers,       \* triggers raised outside the call manager, by
                         \* hold, transfer and (in the tests) routing
  Faults,                \* bound of the model: which of the disturbances
                         \* "crash", "store", "ttl", "executor" and
                         \* "snapshot" occur
  VersionCap,            \* bound of the model: features stop writing there
  NoEvent, Free, Other   \* Other: a lock held by the outbox executor or
                         \* left behind by a crashed worker

ASSUME CallManagerAssumption ==
  /\ CallOf \in [Leg -> Call]
  /\ LegOf \in [Event -> Leg]
  /\ KindOf \in [Event -> Kind]
  /\ Before \subseteq Event \X Event
  /\ Unresolved \subseteq Event
  /\ MaxDeliveries \in Nat \ {0}
  /\ MaxAttempts \in Nat \ {0}
  /\ FeatureTriggers \subseteq {"route.decided", "hold.started", "hold.ended",
       "transfer.started", "transfer.completed", "transfer.cancelled"}
  /\ VersionCap \in Nat
  /\ NoEvent \notin Event
  /\ Free # Other
  /\ Free \notin Worker
  /\ Other \notin Worker

VARIABLES
  sState, sVersion,   \* V3CallSession rows ("NONE": no row)
  lState, lVersion,   \* V3CallLeg rows
  sRows, lRows,       \* V3SessionTransition, V3LegTransition: <<event, part>>
  commands,           \* V3CommandOutbox rows: <<event, type>>
  msg, deliveries,    \* the stream entry of each event
  sLock, bLock,       \* session locks, bootstrap locks
  pc, ev, attempt,    \* each worker: where it is, its event, its tries so far
  made,               \* which rows it created in this delivery
  view,               \* what it has loaded
  sPublished,         \* history: SESSION_CREATED published, per call
  lPublished,         \* history: LEG_CREATED published, per leg
  handled             \* history: events answered handled: true

rowVars    == <<sState, sVersion, lState, lVersion, sRows, lRows, commands>>
streamVars == <<msg, deliveries>>
workVars   == <<ev, attempt, made, view>>
history    == <<sPublished, lPublished, handled>>
vars == <<rowVars, streamVars, sLock, bLock, pc, workVars, history>>

\* A loaded session and leg: s, v the session's state and version, open
\* whether another leg of it is not terminal; l, lv the leg's.
NoView == [s |-> "NONE", v |-> 0, open |-> FALSE, l |-> "NONE", lv |-> 0]

Msg     == {"new", "pending", "acked", "dlq"}
InBoot  == {"bootlocked", "bootleg", "announce"}
InFsm   == {"locked", "loaded", "decided", "publish"}
Control == InBoot \cup InFsm \cup {"idle", "boot", "found", "ack"}

LegOfW(w)  == LegOf[ev[w]]
CallOfW(w) == CallOf[LegOfW(w)]
-----------------------------------------------------------------------------
Init ==
  /\ sState     = [c \in Call |-> "NONE"]
  /\ sVersion   = [c \in Call |-> 0]
  /\ lState     = [l \in Leg |-> "NONE"]
  /\ lVersion   = [l \in Leg |-> 0]
  /\ sRows      = {}
  /\ lRows      = {}
  /\ commands   = {}
  /\ msg        = [e \in Event |-> "new"]
  /\ deliveries = [e \in Event |-> 0]
  /\ sLock      = [c \in Call |-> Free]
  /\ bLock      = [l \in Leg |-> Free]
  /\ pc         = [w \in Worker |-> "idle"]
  /\ ev         = [w \in Worker |-> NoEvent]
  /\ attempt    = [w \in Worker |-> 0]
  /\ made       = [w \in Worker |-> {}]
  /\ view       = [w \in Worker |-> NoView]
  /\ sPublished = [c \in Call |-> 0]
  /\ lPublished = [l \in Leg |-> 0]
  /\ handled    = {}

Goto(w, p) == pc' = [pc EXCEPT ![w] = p]

\* The worker is through with its delivery.
Drop(w) ==
  /\ Goto(w, "idle")
  /\ ev'      = [ev EXCEPT ![w] = NoEvent]
  /\ attempt' = [attempt EXCEPT ![w] = 0]
  /\ made'    = [made EXCEPT ![w] = {}]
  /\ view'    = [view EXCEPT ![w] = NoView]

\* The release script deletes a lock only if it is still this holder's.
Unlock(lock, w) == [k \in DOMAIN lock |-> IF lock[k] = w THEN Free ELSE lock[k]]

Release(w) == sLock' = Unlock(sLock, w) /\ bLock' = Unlock(bLock, w)

\* processIngressEvent up to the bootstrap.  An event of an unresolved tenant
\* or of an unknown leg is answered handled: false, and acknowledged.
Begin(w, e) ==
  /\ ev' = [ev EXCEPT ![w] = e]
  /\ Goto(w, IF e \in Unresolved THEN "ack"
             ELSE IF lState[LegOf[e]] # "NONE" THEN "found"
             ELSE IF Bootstraps(KindOf[e]) THEN "boot"
             ELSE "ack")

(* Mutant: pending entries are not claimed again.                          *)
TakeNewOnly(w, e) ==
  /\ pc[w] = "idle"
  /\ msg[e] = "new"
  /\ msg' = [msg EXCEPT ![e] = "pending"]
  /\ deliveries' = [deliveries EXCEPT ![e] = 1]
  /\ Begin(w, e)
  /\ UNCHANGED <<rowVars, sLock, bLock, attempt, made, view, history>>

\* claimStaleMessages and readIngressBatch: a new entry, or one that has been
\* pending for 60 s, with whichever worker.
Take(w, e) ==
  /\ pc[w] = "idle"
  /\ \/ msg[e] = "new" /\ \A f \in Event : <<f, e>> \in Before => msg[f] # "new"
     \/ msg[e] = "pending"
  /\ msg' = [msg EXCEPT ![e] = "pending"]
  /\ deliveries' = [deliveries EXCEPT ![e] = IF @ < MaxDeliveries THEN @ + 1 ELSE @]
  /\ Begin(w, e)
  /\ UNCHANGED <<rowVars, sLock, bLock, attempt, made, view, history>>
-----------------------------------------------------------------------------
(***************************************************************************)
(* bootstrapSessionAndLeg                                                  *)
(***************************************************************************)
TakeBootstrapLock(w) ==
  /\ pc[w] = "boot"
  /\ bLock[LegOfW(w)] = Free
  /\ bLock' = [bLock EXCEPT ![LegOfW(w)] = w]
  /\ Goto(w, "bootlocked")
  /\ UNCHANGED <<rowVars, streamVars, sLock, workVars, history>>

(* Mutant: whoever finds no leg believes it created the session.           *)
BootSessionAlwaysNew(w) ==
  /\ pc[w] = "bootlocked"
  /\ IF lState[LegOfW(w)] # "NONE"
     THEN /\ Goto(w, "found")
          /\ Release(w)
          /\ UNCHANGED <<rowVars, made>>
     ELSE /\ sState' = [sState EXCEPT ![CallOfW(w)] = IF @ = "NONE" THEN "NEW" ELSE @]
          /\ made'   = [made EXCEPT ![w] = {"session"}]
          /\ Goto(w, "bootleg")
          /\ UNCHANGED <<sVersion, lState, lVersion, sRows, lRows, commands,
                         sLock, bLock>>
  /\ UNCHANGED <<streamVars, ev, attempt, view, history>>

\* The leg is looked up again; findOrCreateSession, whose unique index makes
\* one of two concurrent creations find the other's row.
BootSession(w) ==
  /\ pc[w] = "bootlocked"
  /\ LET c == CallOfW(w) IN
       IF lState[LegOfW(w)] # "NONE"
       THEN /\ Goto(w, "found")
            /\ Release(w)
            /\ UNCHANGED <<rowVars, made>>
       ELSE /\ sState' = [sState EXCEPT ![c] = IF @ = "NONE" THEN "NEW" ELSE @]
            /\ made'   = [made EXCEPT ![w] = IF sState[c] = "NONE" THEN {"session"} ELSE {}]
            /\ Goto(w, "bootleg")
            /\ UNCHANGED <<sVersion, lState, lVersion, sRows, lRows, commands,
                           sLock, bLock>>
  /\ UNCHANGED <<streamVars, ev, attempt, view, history>>

\* findOrCreateLeg, in the same way.
BootLeg(w) ==
  /\ pc[w] = "bootleg"
  /\ lState' = [lState EXCEPT ![LegOfW(w)] = IF @ = "NONE" THEN "NEW" ELSE @]
  /\ made'   = [made EXCEPT ![w] = IF lState[LegOfW(w)] = "NONE" THEN @ \cup {"leg"} ELSE @]
  /\ Goto(w, "announce")
  /\ UNCHANGED <<sState, sVersion, lVersion, sRows, lRows, commands, streamVars,
                 sLock, bLock, ev, attempt, view, history>>

(* Mutant: a leg is announced by the delivery that created its call.       *)
AnnounceNewCalls(w) ==
  /\ pc[w] = "announce"
  /\ sPublished' = [sPublished EXCEPT ![CallOfW(w)] =
                      IF "session" \in made[w] THEN @ + 1 ELSE @]
  /\ lPublished' = [lPublished EXCEPT ![LegOfW(w)] =
                      IF made[w] = {"session", "leg"} THEN @ + 1 ELSE @]
  /\ Goto(w, "found")
  /\ Release(w)
  /\ UNCHANGED <<rowVars, streamVars, workVars, handled>>

\* eventBus.publish of SESSION_CREATED and LEG_CREATED, which the routers act
\* on, by the delivery that created the row.
Announce(w) ==
  /\ pc[w] = "announce"
  /\ sPublished' = [sPublished EXCEPT ![CallOfW(w)] =
                      IF "session" \in made[w] THEN @ + 1 ELSE @]
  /\ lPublished' = [lPublished EXCEPT ![LegOfW(w)] =
                      IF "leg" \in made[w] THEN @ + 1 ELSE @]
  /\ Goto(w, "found")
  /\ Release(w)
  /\ UNCHANGED <<rowVars, streamVars, workVars, handled>>
-----------------------------------------------------------------------------
(***************************************************************************)
(* processFsmWithRetry under the session lock                              *)
(***************************************************************************)
TakeSessionLock(w) ==
  /\ pc[w] = "found"
  /\ sLock[CallOfW(w)] = Free
  /\ sLock' = [sLock EXCEPT ![CallOfW(w)] = w]
  /\ Goto(w, "locked")
  /\ UNCHANGED <<rowVars, streamVars, bLock, workVars, history>>

\* Another leg of leg m's call that is not terminal.
OthersOpen(m) ==
  \E l \in Leg : l # m /\ CallOf[l] = CallOf[m] /\ lState[l] \notin Terminal \cup {"NONE"}

LoadSession(w) ==
  /\ pc[w] = "locked"
  /\ view' = [view EXCEPT ![w] =
       [s |-> sState[CallOfW(w)], v |-> sVersion[CallOfW(w)],
        open |-> OthersOpen(LegOfW(w)), l |-> "NONE", lv |-> 0]]
  /\ Goto(w, "loaded")
  /\ UNCHANGED <<rowVars, streamVars, sLock, bLock, ev, attempt, made, history>>

LoadLeg(w) ==
  /\ pc[w] = "loaded"
  /\ view' = [view EXCEPT ![w] =
       [s |-> @.s, v |-> @.v, open |-> @.open,
        l |-> lState[LegOfW(w)], lv |-> lVersion[LegOfW(w)]]]
  /\ Goto(w, "decided")
  /\ UNCHANGED <<rowVars, streamVars, sLock, bLock, ev, attempt, made, history>>

\* applyWithCompletion on what was loaded: the leg goes to ToLeg, the session
\* to ToSession and, when the event ends the last open leg, on to ToClosed.
ToLeg(w)     == LegTo(view[w].l, LegTrigger(KindOf[ev[w]]))
ToSession(w) == SessionTo(view[w].s, SessionTrigger(KindOf[ev[w]]))
ToClosed(w)  == Completed(ToSession(w), view[w].l, ToLeg(w), view[w].open)

MovesLeg(w)     == ToLeg(w) # view[w].l
MovesSession(w) == ToSession(w) # view[w].s
Closes(w)       == ToClosed(w) # ToSession(w)

\* The audit rows the event would write.
NewSRows(w) == {<<ev[w], p>> : p \in {q \in {"session", "closed"} :
                  \/ q = "session" /\ MovesSession(w)
                  \/ q = "closed" /\ Closes(w)}}
NewLRows(w) == IF MovesLeg(w) THEN {<<ev[w], "leg">>} ELSE {}

Answer(w) ==
  /\ handled' = handled \cup {ev[w]}
  /\ Goto(w, "ack")
  /\ Release(w)

\* Nothing to write.
NoTransition(w) ==
  /\ pc[w] = "decided"
  /\ NewSRows(w) \cup NewLRows(w) = {}
  /\ Answer(w)
  /\ UNCHANGED <<rowVars, streamVars, workVars, sPublished, lPublished>>

(* Mutants of the version check, one per row.                              *)
StaleSessionUnchecked(w) == FALSE
StaleLegUnchecked(w) == FALSE

\* The version checks of the transaction: updateMany counts no row.
StaleSession(w) == NewSRows(w) # {} /\ sVersion[CallOfW(w)] # view[w].v
StaleLeg(w)     == NewLRows(w) # {} /\ lVersion[LegOfW(w)] # view[w].lv

(* Mutant: no unique index on the audit rows.                              *)
SeenUnchecked(rows, table) == FALSE

\* A unique index refuses a row of the transaction.
Seen(rows, table) == rows \cap table # {}

\* Outcomes of the transaction, in the order of its statements.
ConflictFound(w) ==
  \/ StaleSession(w)
  \/ ~Seen(NewSRows(w), sRows) /\ StaleLeg(w)

DuplicateFound(w) ==
  /\ ~ConflictFound(w)
  /\ Seen(NewSRows(w), sRows) \/ Seen(NewLRows(w), lRows)

(* Mutants: a conflict answered as handled; retries without end.           *)
ConflictAnswered(w) ==
  /\ pc[w] = "decided"
  /\ ConflictFound(w)
  /\ Answer(w)
  /\ UNCHANGED <<rowVars, streamVars, workVars, sPublished, lPublished>>

ConflictForever(w) ==
  /\ pc[w] = "decided"
  /\ ConflictFound(w)
  /\ attempt' = [attempt EXCEPT ![w] = @ + 1]
  /\ Goto(w, "locked")
  /\ UNCHANGED <<rowVars, streamVars, sLock, bLock, ev, made, view, history>>

\* V3ConflictError: load and decide again, OPTIMISTIC_LOCK_MAX_RETRIES times.
\* After the last one the exception leaves processIngressEvent (see GiveUp).
Conflict(w) ==
  /\ pc[w] = "decided"
  /\ ConflictFound(w)
  /\ attempt[w] + 1 < MaxAttempts
  /\ attempt' = [attempt EXCEPT ![w] = @ + 1]
  /\ Goto(w, "locked")
  /\ UNCHANGED <<rowVars, streamVars, sLock, bLock, ev, made, view, history>>

\* P2002: the event's rows are there already, the transaction is rolled back.
Duplicate(w) ==
  /\ pc[w] = "decided"
  /\ DuplicateFound(w)
  /\ Answer(w)
  /\ UNCHANGED <<rowVars, streamVars, workVars, sPublished, lPublished>>

(* Mutant: teardown decided by the session alone.                          *)
CommandsOfSession(w) ==
  {ev[w]} \X Intents(view[w].s, ToSession(w), view[w].l, view[w].l)

CommandsOf(w) ==
  {ev[w]} \X Intents(view[w].s, ToSession(w), view[w].l, ToLeg(w))

\* The transaction commits: both rows, their audit rows and the commands.
Commit(w) ==
  /\ pc[w] = "decided"
  /\ NewSRows(w) \cup NewLRows(w) # {}
  /\ ~ConflictFound(w)
  /\ ~DuplicateFound(w)
  /\ IF NewSRows(w) = {} THEN UNCHANGED <<sState, sVersion>>
     ELSE /\ sState'   = [sState EXCEPT ![CallOfW(w)] = ToClosed(w)]
          /\ sVersion' = [sVersion EXCEPT ![CallOfW(w)] =
                            @ + Cardinality(NewSRows(w))]
  /\ IF NewLRows(w) = {} THEN UNCHANGED <<lState, lVersion>>
     ELSE /\ lState'   = [lState EXCEPT ![LegOfW(w)] = ToLeg(w)]
          /\ lVersion' = [lVersion EXCEPT ![LegOfW(w)] = @ + 1]
  /\ sRows'    = sRows \cup NewSRows(w)
  /\ lRows'    = lRows \cup NewLRows(w)
  /\ commands' = commands \cup CommandsOf(w)
  /\ Goto(w, "publish")
  /\ UNCHANGED <<streamVars, sLock, bLock, workVars, history>>

\* The domain events of the commit, in process; then the lock is released.
Publish(w) ==
  /\ pc[w] = "publish"
  /\ Answer(w)
  /\ UNCHANGED <<rowVars, streamVars, workVars, sPublished, lPublished>>

\* ackIngressJob.
Ack(w) ==
  /\ pc[w] = "ack"
  /\ msg' = [msg EXCEPT ![ev[w]] = IF @ = "pending" THEN "acked" ELSE @]
  /\ Drop(w)
  /\ UNCHANGED <<rowVars, deliveries, sLock, bLock, history>>
-----------------------------------------------------------------------------
\* An exception anywhere in the delivery: a lock that cannot be had, the last
\* conflict, a database or Redis error (also after the commit).  The entry
\* stays pending, or moves to the DLQ after its last delivery.
FailedDelivery(w) ==
  /\ msg' = [msg EXCEPT ![ev[w]] =
       IF @ = "pending" /\ deliveries[ev[w]] >= MaxDeliveries THEN "dlq" ELSE @]
  /\ Drop(w)
  /\ Release(w)
  /\ UNCHANGED <<rowVars, deliveries, history>>

GivesUp(w) ==
  \/ pc[w] = "boot" /\ bLock[LegOfW(w)] # Free
  \/ pc[w] = "found" /\ sLock[CallOfW(w)] # Free
  \/ pc[w] = "decided" /\ ConflictFound(w) /\ attempt[w] + 1 >= MaxAttempts

GiveUp(w) == GivesUp(w) /\ FailedDelivery(w)

StoreFails(w) ==
  /\ "store" \in Faults
  /\ pc[w] # "idle"
  /\ FailedDelivery(w)

\* The process dies.  Its locks stay until their TTL, its entries pending.
Crash(w) ==
  /\ "crash" \in Faults
  /\ pc[w] # "idle"
  /\ Drop(w)
  /\ sLock' = [c \in Call |-> IF sLock[c] = w THEN Other ELSE sLock[c]]
  /\ bLock' = [l \in Leg |-> IF bLock[l] = w THEN Other ELSE bLock[l]]
  /\ UNCHANGED <<rowVars, streamVars, history>>

\* The TTL of a lock passes, or Other releases it.
SessionLockExpires(c) ==
  /\ sLock[c] # Free
  /\ sLock[c] = Other \/ "ttl" \in Faults
  /\ sLock' = [sLock EXCEPT ![c] = Free]
  /\ UNCHANGED <<rowVars, streamVars, bLock, pc, workVars, history>>

BootstrapLockExpires(l) ==
  /\ bLock[l] # Free
  /\ bLock[l] = Other \/ "ttl" \in Faults
  /\ bLock' = [bLock EXCEPT ![l] = Free]
  /\ UNCHANGED <<rowVars, streamVars, sLock, pc, workVars, history>>

\* The outbox executor takes the session lock.
OtherLocks(c) ==
  /\ "executor" \in Faults
  /\ sLock[c] = Free
  /\ sLock' = [sLock EXCEPT ![c] = Other]
  /\ UNCHANGED <<rowVars, streamVars, bLock, pc, workVars, history>>

\* persistSessionTransition and persistLegTransition, for hold and transfer:
\* no session lock, the version check makes each one atomic.
FeatureSession(c) ==
  /\ sState[c] # "NONE"
  /\ sVersion[c] < VersionCap
  /\ \E t \in FeatureTriggers :
       /\ SessionTo(sState[c], t) # sState[c]
       /\ sState' = [sState EXCEPT ![c] = SessionTo(@, t)]
  /\ sVersion' = [sVersion EXCEPT ![c] = @ + 1]
  /\ UNCHANGED <<lState, lVersion, sRows, lRows, commands, streamVars, sLock,
                 bLock, pc, workVars, history>>

\* The routers and feature managers merge their part of the routeSnapshot
\* column under the version check, without the session lock.
SnapshotWrite(c) ==
  /\ "snapshot" \in Faults
  /\ sState[c] # "NONE"
  /\ sVersion[c] < VersionCap
  /\ sVersion' = [sVersion EXCEPT ![c] = @ + 1]
  /\ UNCHANGED <<sState, lState, lVersion, sRows, lRows, commands, streamVars,
                 sLock, bLock, pc, workVars, history>>

FeatureLeg(l) ==
  /\ lState[l] # "NONE"
  /\ lVersion[l] < VersionCap
  /\ \E t \in FeatureTriggers :
       /\ LegTo(lState[l], t) # lState[l]
       /\ lState' = [lState EXCEPT ![l] = LegTo(@, t)]
  /\ lVersion' = [lVersion EXCEPT ![l] = @ + 1]
  /\ UNCHANGED <<sState, sVersion, sRows, lRows, commands, streamVars, sLock,
                 bLock, pc, workVars, history>>
-----------------------------------------------------------------------------
\* What a worker does of its own accord with the event it has.
Progress(w) ==
  \/ TakeBootstrapLock(w) \/ BootSession(w) \/ BootLeg(w) \/ Announce(w)
  \/ TakeSessionLock(w) \/ LoadSession(w) \/ LoadLeg(w)
  \/ NoTransition(w) \/ Conflict(w) \/ Duplicate(w) \/ Commit(w)
  \/ Publish(w) \/ Ack(w) \/ GiveUp(w)

Next ==
  \/ \E w \in Worker : \/ \E e \in Event : Take(w, e)
                       \/ Progress(w)
                       \/ StoreFails(w)
                       \/ Crash(w)
  \/ \E c \in Call : \/ SessionLockExpires(c) \/ OtherLocks(c)
                     \/ FeatureSession(c) \/ SnapshotWrite(c)
  \/ \E l \in Leg : BootstrapLockExpires(l) \/ FeatureLeg(l)

Spec == Init /\ [][Next]_vars

(***************************************************************************)
(* Every worker works on, entries are taken, locks run out, and crashes    *)
(* are finite in number.                                                   *)
(***************************************************************************)
Fairness ==
  /\ \A w \in Worker : WF_vars(Progress(w))
  /\ \A e \in Event : WF_vars(\E w \in Worker : Take(w, e))
  /\ \A c \in Call : WF_vars(SessionLockExpires(c))
  /\ \A l \in Leg : WF_vars(BootstrapLockExpires(l))

FinitelyManyCrashes == <>[][\A w \in Worker : ~Crash(w)]_vars

LiveSpec == Spec /\ Fairness /\ FinitelyManyCrashes
-----------------------------------------------------------------------------
View == [s : SessionState \cup {"NONE"}, v : Nat, open : BOOLEAN,
         l : LegState \cup {"NONE"}, lv : Nat]

TypeOK ==
  /\ sState \in [Call -> SessionState \cup {"NONE"}]
  /\ sVersion \in [Call -> Nat]
  /\ lState \in [Leg -> LegState \cup {"NONE"}]
  /\ lVersion \in [Leg -> Nat]
  /\ sRows \subseteq Event \X {"session", "closed"}
  /\ lRows \subseteq Event \X {"leg"}
  /\ commands \subseteq Event \X {"BRIDGE", "HANGUP"}
  /\ msg \in [Event -> Msg]
  /\ deliveries \in [Event -> 0 .. MaxDeliveries]
  /\ sLock \in [Call -> Worker \cup {Free, Other}]
  /\ bLock \in [Leg -> Worker \cup {Free, Other}]
  /\ pc \in [Worker -> Control]
  /\ ev \in [Worker -> Event \cup {NoEvent}]
  /\ \A w \in Worker : pc[w] # "idle" => ev[w] \in Event
  /\ attempt \in [Worker -> 0 .. (MaxAttempts - 1)]
  /\ made \in [Worker -> SUBSET {"session", "leg"}]
  /\ view \in [Worker -> View]
  /\ sPublished \in [Call -> Nat]
  /\ lPublished \in [Leg -> Nat]
  /\ handled \subseteq Event

\* The call manager implements the abstract life of a call, whatever expires,
\* fails or is delivered twice: rows move along the transition tables from
\* the state they are in (not the one that was loaded), at most once per
\* event, together with their commands.  persistCallFsmResult.
Life == INSTANCE CallLife WITH
  session <- sState, leg <- lState, applied <- sRows \cup lRows

ImplementsCallLife == Life!Spec

\* A hangup that was answered handled: true has ended its leg for good, by
\* whichever delivery.  processFsmWithRetry and its duplicate answer.
HandledHangupEndsLeg ==
  \A e \in handled :
    KindOf[e] \in {"hangup", "failed"} => lState[LegOf[e]] \in Terminal

\* A session in teardown, and an ended leg, have a HANGUP command in the
\* outbox: the co-commit leaves no state without its command.
TeardownIsCommanded ==
  /\ \A c \in Call :
       sState[c] \in {"ENDING", "ENDED", "FAILED"} =>
         \E e \in Event : CallOf[LegOf[e]] = c /\ <<e, "HANGUP">> \in commands
  /\ \A l \in Leg :
       lState[l] \in Terminal =>
         \E e \in Event : LegOf[e] = l /\ <<e, "HANGUP">> \in commands

\* SESSION_CREATED is published at most once per call and LEG_CREATED once
\* per leg, so a call is not routed twice, however many deliveries bootstrap
\* it at once.  bootstrapSessionAndLeg.
PublishedAtMostOnce ==
  /\ \A c \in Call : sPublished[c] <= 1
  /\ \A l \in Leg : lPublished[l] <= 1

Quiet == \A w \in Worker : pc[w] = "idle"

\* As long as no worker dies and no call to the database or Redis fails, every
\* leg and its call have been offered to the routers when the deliveries are
\* through: of the deliveries that bootstrap a call at once, with locks that
\* run out under them, the one that created a row announces it.
\* bootstrapSessionAndLeg.
CallIsOffered ==
  Quiet /\ Faults \cap {"crash", "store"} = {} =>
    \A l \in Leg : lState[l] # "NONE" =>
      lPublished[l] = 1 /\ sPublished[CallOf[l]] = 1

\* Every event that enters the stream is acknowledged or ends in the DLQ.
EventuallySettled == \A e \in Event : <>(msg[e] \in {"acked", "dlq"})

\* A hangup that is acknowledged is not lost on a leg that exists by then or
\* later (docs: concurrent events on a session are handled).
HangupIsNotLost ==
  Quiet => \A e \in Event :
    KindOf[e] = "hangup" /\ msg[e] = "acked" => lState[LegOf[e]] \in Terminal \cup {"NONE"}
=============================================================================
