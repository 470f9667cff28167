----------------------------- MODULE AgentQueue -----------------------------
(***************************************************************************)
(* The agent queue of one call: Queue/queueManager, Queue/queueAgentManager*)
(* and the timers that drive it (Timer/timerService, the handlers of       *)
(* Sidecar/sidecarCoordinator, Sidecar/sessionCleanup).                    *)
(*                                                                         *)
(* The queue is a part of the session row's routeSnapshot, written under   *)
(* the row's version; a write that comes too late is dropped silently.     *)
(* Every handler runs in some worker process, as a task that takes one     *)
(* step per database or Redis call.  The caller is joined by the IVR, an   *)
(* agent is rung, and two timers, polled by every worker, retry the agents *)
(* or send the caller elsewhere.                                           *)
(*                                                                         *)
(* Not modelled: agentAnswered, leaveQueue and the queue's recording, which*)
(* nothing in the program calls; an overflow destination, which the IVR,   *)
(* the only caller, does not pass; which agent a ring strategy picks;      *)
(* observe-only tenants, whose callers the IVR does not queue.             *)
(***************************************************************************)
EXTENDS Naturals

CONSTANTS
  Process,     \* worker processes
  Task,        \* bound of the model: handlers under way at a time
  ProcessOf,   \* the process of each
  JoinId,      \* request ids under which the IVR joins the call
  MaxRetries,  \* DEFAULT_LIMITS.maxRetries
  MaxJoins,    \* bound of the model: times the IVR joins the call
  MaxFaults,   \* bound of the model: calls that fail and processes that die
  NoQueue

ASSUME QueueAssumption ==
  /\ MaxRetries \in Nat \ {0}
  /\ MaxJoins \in Nat /\ MaxFaults \in Nat
  /\ ProcessOf \in [Task -> Process]

VARIABLES
  call,     \* "live", or "over": the session is ENDED or FAILED
  joins,    \* counted up to its bound
  staffed,  \* an agent of the ring group is available and not on DND
  queue,    \* routeSnapshot.queue
  timer,    \* Redis: each timer's key, "off" or "set"
  entry,    \* activeQueueEntries of each process
  handled,  \* handledRequests of each process
  rows,     \* outbox rows: the caller parked, agents dialled, or sent away
  task,     \* the handlers under way
  faults,   \* counted up to their bound
  lost      \* history: the wait timer, or a handler it set off, went missing

caller == <<call, joins, staffed>>
memory == <<entry, handled>>
fault  == <<faults, lost>>
vars == <<caller, queue, timer, memory, rows, task, faults, lost>>

Timer == {"wait", "agent"}
Key   == [op : {"join", "assign", "overflow"}, round : 0..(MaxRetries - 1),
          id : JoinId \cup {"wait", "agent"}]
Snapshot == [status : {"OPEN", "WAITING", "RINGING", "OVERFLOW", "CLOSED"},
             retry : 0..(MaxRetries - 1)]

ASSUME NoQueueAssumption == NoQueue \notin Snapshot

Row   == {"ENQUEUE", "DIAL", "EXIT"}
Op    == {"none", "join", "create", "enter", "assign", "agent", "wait",
          "overflow", "cleanup", "sweep"}
Place == {"idle", "session", "queue", "save", "arm", "retry", "send", "fire",
          "dequeue", "sweep"}
Handler == [op : Op, at : Place, id : JoinId \cup {"none", "wait", "agent"},
            fresh : BOOLEAN, read : Snapshot \cup {NoQueue}]

\* A handler at a step of an operation, for a request, with the version it
\* loaded still valid or not, and the queue it has read.
Handling(op, at, id, fresh, read) ==
  [op |-> op, at |-> at, id |-> id, fresh |-> fresh, read |-> read]

Idle == Handling("none", "idle", "none", FALSE, NoQueue)

Init ==
  /\ call = "live" /\ joins = 0
  /\ staffed \in BOOLEAN
  /\ queue = NoQueue
  /\ timer = [n \in Timer |-> "off"]
  /\ entry = [p \in Process |-> "no"]
  /\ handled = [p \in Process |-> {}]
  /\ rows = {}
  /\ task = [t \in Task |-> Idle]
  /\ faults = 0
  /\ lost = FALSE

-----------------------------------------------------------------------------
(* What the steps share.                                                   *)

At(t, op, at) == task[t].op = op /\ task[t].at = at

Start(t, op, at, id) ==
  /\ task[t] = Idle
  /\ task' = [task EXCEPT ![t] = Handling(op, at, id, FALSE, NoQueue)]
\* Task t goes on at another step, of its own operation or the next one.
Goto(t, op, at) ==
  task' = [task EXCEPT ![t] = Handling(op, at, @.id, @.fresh, @.read)]
\* It goes on to write, from the queue it has just read.
Keep(t, at) ==
  task' = [task EXCEPT ![t] = Handling(@.op, at, @.id, @.fresh, queue)]
Done(t) == task' = [task EXCEPT ![t] = Idle]

\* A call of assignAgent or handleOverflow: skipped when this process has
\* handled the request id before, whatever became of it.
Invoke(t, op, id, round) ==
  LET key == [op |-> op, round |-> round, id |-> id]
      p   == ProcessOf[t]
  IN IF key \in handled[p]
       THEN Done(t) /\ UNCHANGED handled
       ELSE /\ task' = [task EXCEPT ![t] =
                         Handling(op, "session", IF op = "overflow" THEN id ELSE "none",
                                  FALSE, NoQueue)]
            /\ handled' = [handled EXCEPT ![p] = @ \cup {key}]

\* Something goes wrong.
Fails == faults < MaxFaults /\ faults' = faults + 1

\* enqueueIntents: a row is named by its session, type, target and place in
\* the batch, and a second one of that name is not written.
Put(row) == rows' = rows \cup {row}

-----------------------------------------------------------------------------
(* Each handler up to its write.  loadQueueContext loads the session with  *)
(* its version first, then the snapshot; then the policy may refuse, for   *)
(* one because the tenant's business hours are over (~open).               *)

\* joinQueue: the IVR routes a live call to the queue.  It may do so again:
\* the webhook of the digit is redelivered, or meets the IVR's own timeout.
JoinQueue(t, id) ==
  LET key == [op |-> "join", round |-> 0, id |-> id]
      p   == ProcessOf[t]
  IN /\ call = "live" /\ key \notin handled[p]
     /\ joins < MaxJoins /\ joins' = joins + 1
     /\ Start(t, "join", "queue", id)
     /\ handled' = [handled EXCEPT ![p] = @ \cup {key}]
     /\ UNCHANGED <<call, staffed, queue, timer, entry, rows, fault>>

JoinLooks(t) ==
  /\ At(t, "join", "queue")
  /\ \/ entry[ProcessOf[t]] # "no" /\ Done(t)
     \/ entry[ProcessOf[t]] = "no" /\ queue = NoQueue /\ Goto(t, "create", "session")
     \/ entry[ProcessOf[t]] = "no" /\ queue # NoQueue /\ Goto(t, "enter", "session")
  /\ UNCHANGED <<caller, queue, timer, memory, rows, fault>>

LoadSession(t, open) ==
  /\ task[t].at = "session"
  /\ \/ /\ task[t].op = "create" => open
        /\ LET at == IF task[t].op = "create" THEN "save" ELSE "queue"
           IN task' = [task EXCEPT ![t] = Handling(@.op, at, @.id, TRUE, @.read)]
     \/ task[t].op = "create" /\ ~open /\ Done(t)
  /\ UNCHANGED <<caller, queue, timer, memory, rows, fault>>

QueueIsGone(t) ==
  /\ queue = NoQueue
  /\ task[t].at = "queue" /\ task[t].op \notin {"join", "cleanup", "sweep"}
  /\ Done(t)
  /\ UNCHANGED <<caller, queue, timer, memory, rows, fault>>

\* joinQueue and assignAgent give up, the latter also without an agent.
EnterOrAssign(t, open) ==
  /\ queue # NoQueue
  /\ \/ At(t, "enter", "queue") /\ open /\ Keep(t, "save")
     \/ At(t, "enter", "queue") /\ ~open /\ Done(t)
     \/ At(t, "assign", "queue") /\ open /\ staffed /\ Keep(t, "save")
     \/ At(t, "assign", "queue") /\ ~(open /\ staffed) /\ Done(t)
  /\ UNCHANGED <<caller, queue, timer, memory, rows, fault>>

\* Mutant: the last round is counted as one more.
TimeoutWithRoundTooMany(t, open) ==
  LET again == open /\ staffed /\ queue.retry + 1 <= MaxRetries
  IN /\ At(t, "agent", "queue") /\ queue # NoQueue
     /\ \/ again /\ Keep(t, "save") /\ UNCHANGED handled
        \/ ~again /\ Invoke(t, "overflow", "agent", 0)
     /\ UNCHANGED <<caller, queue, timer, entry, rows, fault>>

\* handleAgentTimeout: one more round while agents and retries are left, and
\* the overflow otherwise.
AgentTimeout(t, open) ==
  LET again == open /\ staffed /\ queue.retry + 1 < MaxRetries
  IN /\ At(t, "agent", "queue") /\ queue # NoQueue
     /\ \/ again /\ Keep(t, "save") /\ UNCHANGED handled
        \/ ~again /\ Invoke(t, "overflow", "agent", 0)
     /\ UNCHANGED <<caller, queue, timer, entry, rows, fault>>

\* handleWaitTimeout overflows only in a process that remembers the caller,
\* from before the timer was set; a later entry may be found too young.
WaitTimeout(t) ==
  /\ At(t, "wait", "queue") /\ queue # NoQueue
  /\ \/ /\ entry[ProcessOf[t]] # "no"
        /\ Invoke(t, "overflow", "wait", 0)
        /\ UNCHANGED lost
     \/ /\ entry[ProcessOf[t]] # "ripe"
        /\ Done(t)
        /\ lost' = (lost \/ timer["wait"] = "off")
        /\ UNCHANGED handled
  /\ UNCHANGED <<caller, queue, timer, entry, rows, faults>>

\* handleOverflow: its policy decides only what it will command.
Overflow(t) ==
  /\ At(t, "overflow", "queue") /\ queue # NoQueue
  /\ Keep(t, "save")
  /\ UNCHANGED <<caller, queue, timer, memory, rows, fault>>

-----------------------------------------------------------------------------
(* persistQueueSnapshot: only over the version that was loaded; a write of *)
(* the session row bumps it, so whatever others loaded is old.             *)

NewQueue(op, q) ==
  CASE op = "create"   -> [status |-> "OPEN", retry |-> 0]
    [] op = "enter"    -> [q EXCEPT !.status = "WAITING"]
    [] op = "assign"   -> [q EXCEPT !.status = "RINGING"]
    [] op = "agent"    -> [status |-> "WAITING", retry |-> q.retry + 1]
    [] op = "overflow" -> [q EXCEPT !.status = "OVERFLOW"]
    [] op = "cleanup"  -> [q EXCEPT !.status = "CLOSED"]

Outdated(u) == [task[u] EXCEPT !.fresh = FALSE]

\* Mutant: updateMany selects the row by its id alone.
PersistAnyVersion(t) == queue' = NewQueue(task[t].op, task[t].read)

Persist(t) ==
  \/ task[t].fresh /\ queue' = NewQueue(task[t].op, task[t].read)
  \/ ~task[t].fresh /\ UNCHANGED queue

\* Mutant: a handler whose write was dropped gives up.
AfterWrite(t, op, at) ==
  IF task[t].fresh
    THEN task' = [u \in Task |-> IF u = t THEN Handling(op, at, task[t].id, FALSE, task[t].read)
                                ELSE Outdated(u)]
    ELSE Done(t)

\* What the handler does next, with everybody outdated if it wrote.
After(t, op, at) ==
  LET read == IF at = "retry" THEN task[t].read ELSE NoQueue
  IN task' = [u \in Task |-> IF u = t THEN Handling(op, at, task[t].id, FALSE, read)
                             ELSE IF task[t].fresh THEN Outdated(u) ELSE task[u]]

Save(t) ==
  /\ task[t].at = "save"
  /\ \/ task[t].op = "create"             /\ After(t, "enter", "session")
     \/ task[t].op \in {"enter", "assign"} /\ After(t, task[t].op, "arm")
     \/ task[t].op = "agent"              /\ After(t, "agent", "retry")
     \/ task[t].op = "overflow"           /\ After(t, "overflow", "send")
  /\ Persist(t)
  /\ entry' = IF task[t].op = "enter" THEN [entry EXCEPT ![ProcessOf[t]] = "early"] ELSE entry
  /\ UNCHANGED <<caller, timer, handled, rows, fault>>

-----------------------------------------------------------------------------
(* What the handlers do after the write, whether it took place or not.  A  *)
(* command and the timer before or after it are one step here.             *)

\* Mutant: the wait timer is left to the agents' timer.
JoinWithoutTimer(t) ==
  /\ At(t, "enter", "arm")
  /\ Put("ENQUEUE")
  /\ Invoke(t, "assign", task[t].id, 0)
  /\ UNCHANGED <<caller, queue, timer, entry, fault>>

\* scheduleTimer: SET NX, so a timer that is there is left as it is.
SetWaitTimer ==
  /\ timer' = [timer EXCEPT !["wait"] = "set"]
  /\ entry' = [p \in Process |->
       IF timer["wait"] = "off" /\ entry[p] = "early" THEN "ripe" ELSE entry[p]]

\* When it fails the join goes on without a timer.
ArmWait(t) ==
  /\ At(t, "enter", "arm")
  /\ \/ SetWaitTimer /\ UNCHANGED fault
     \/ Fails /\ lost' = (lost \/ timer["wait"] = "off") /\ UNCHANGED <<timer, entry>>
  /\ Put("ENQUEUE")
  /\ Invoke(t, "assign", task[t].id, 0)
  /\ UNCHANGED <<caller, queue>>

ArmAgent(t) ==
  /\ At(t, "assign", "arm")
  /\ Put("DIAL")
  /\ \/ timer' = [timer EXCEPT !["agent"] = "set"] /\ UNCHANGED faults
     \/ Fails /\ UNCHANGED timer
  /\ Done(t)
  /\ UNCHANGED <<caller, queue, memory, lost>>

\* handleAgentTimeout calls assignAgent, under a request id of the round.
Retry(t) ==
  /\ At(t, "agent", "retry")
  /\ Invoke(t, "assign", "agent", task[t].read.retry + 1)
  /\ UNCHANGED <<caller, queue, timer, entry, rows, fault>>

\* handleOverflow takes the caller off the queue and hangs up, or rejects the
\* call when the policy refuses.
OverflowSends(t) ==
  /\ At(t, "overflow", "send")
  /\ Put("EXIT")
  /\ Done(t)
  /\ UNCHANGED <<caller, queue, timer, memory, fault>>

-----------------------------------------------------------------------------
(* Timers.  A key expires at the time its timer is due, give or take the   *)
(* way to Redis: a poll that does not come in between finds nothing.       *)

\* A handler the wait timer set off, in its poll, as its own or in the overflow.
OffTheWaitTimer(t) == task[t].op = "wait" \/ (task[t].op = "overflow" /\ task[t].id = "wait")

KeyExpires(n) ==
  /\ timer[n] = "set"
  /\ timer' = [timer EXCEPT ![n] = "off"]
  /\ lost' = (lost \/ (n = "wait" /\ \A t \in Task : ~OffTheWaitTimer(t)))
  /\ UNCHANGED <<caller, queue, memory, rows, task, faults>>

\* pollExpiredTimers reads the key in one step and deletes it in another,
\* one key at a time in each process.
Poll(t, n) ==
  /\ timer[n] = "set"
  /\ \A u \in Task : ~(task[u].at = "fire" /\ ProcessOf[u] = ProcessOf[t])
  /\ Start(t, n, "fire", "none")
  /\ UNCHANGED <<caller, queue, timer, memory, rows, fault>>

\* The deletion comes before the handler; it takes whatever is there, a timer
\* set since included, and its failure is not noticed.
Fire(t) ==
  LET n == task[t].op IN
  /\ task[t].at = "fire"
  /\ \/ timer' = [timer EXCEPT ![n] = "off"] /\ UNCHANGED faults
     \/ Fails /\ UNCHANGED timer
  /\ Goto(t, n, IF n = "agent" THEN "session" ELSE "queue")
  /\ UNCHANGED <<caller, queue, memory, rows, lost>>

-----------------------------------------------------------------------------
(* What goes wrong.  A query, a policy or an enqueueIntents that fails ends*)
(* the handler: joinQueue and assignAgent catch it, the sidecar coordinator*)
(* logs it, the cleanup goes on to its sweep; the timer a join sets before *)
(* its commands stays.  A process may die.                                 *)

\* With the handler goes the caller's way out, unless the key is still there.
LosesTheWait(t) ==
  OffTheWaitTimer(t) /\ (task[t].at = "fire" => timer["wait"] = "off")

Throw(t) ==
  /\ task[t] # Idle
  /\ Fails
  /\ IF task[t].op = "cleanup" THEN Goto(t, "sweep", "queue") ELSE Done(t)
  /\ \/ UNCHANGED <<timer, entry>>
     \/ At(t, "enter", "arm") /\ SetWaitTimer
  /\ lost' = (lost \/ LosesTheWait(t))
  /\ UNCHANGED <<caller, queue, handled, rows>>

\* Its handlers are gone, and what it remembered of callers and requests.
Restart(p) ==
  /\ Fails
  /\ entry' = [entry EXCEPT ![p] = "no"]
  /\ handled' = [handled EXCEPT ![p] = {}]
  /\ task' = [t \in Task |-> IF ProcessOf[t] = p THEN Idle ELSE task[t]]
  /\ lost' = (lost \/ (\E t \in Task : ProcessOf[t] = p /\ LosesTheWait(t)))
  /\ UNCHANGED <<caller, queue, timer, rows>>

-----------------------------------------------------------------------------
(* The rest of the call: the call manager and the other features write the *)
(* same row, and the end of the session makes some process clean up.       *)

OthersWrite ==
  /\ \E t \in Task : task[t].fresh
  /\ task' = [u \in Task |-> Outdated(u)]
  /\ UNCHANGED <<caller, queue, timer, memory, rows, fault>>

CallEnds ==
  /\ call = "live"
  /\ call' = "over"
  /\ task' = [u \in Task |-> Outdated(u)]
  /\ UNCHANGED <<joins, staffed, queue, timer, memory, rows, fault>>

\* cleanupSessionSidecars, on SESSION_CLOSED and on every LEG_ENDED after it.
CleanUp(t) ==
  /\ call = "over"
  /\ \A u \in Task : task[u].op \notin {"cleanup", "sweep"}
  /\ Start(t, "cleanup", "session", "none")
  /\ UNCHANGED <<caller, queue, timer, memory, rows, fault>>

CleanupReads(t) ==
  /\ \/ At(t, "cleanup", "queue") /\ queue # NoQueue /\ Keep(t, "dequeue")
     \/ At(t, "cleanup", "queue") /\ queue = NoQueue /\ Goto(t, "sweep", "queue")
     \/ At(t, "sweep", "queue") /\ Keep(t, "sweep")
  /\ UNCHANGED <<caller, queue, timer, memory, rows, fault>>

\* cleanupQueue; the timers stay.
Dequeue(t) ==
  /\ At(t, "cleanup", "dequeue")
  /\ Persist(t)
  /\ After(t, "sweep", "queue")
  /\ entry' = [entry EXCEPT ![ProcessOf[t]] = "no"]
  /\ UNCHANGED <<caller, timer, handled, rows, fault>>

\* The snapshot is written back without its queue, whatever the version is,
\* and the version stays the same.
Sweep(t) ==
  /\ At(t, "sweep", "sweep")
  /\ queue' = NoQueue
  /\ Done(t)
  /\ UNCHANGED <<caller, timer, memory, rows, fault>>

-----------------------------------------------------------------------------
Step(t) ==
  \/ JoinLooks(t) \/ QueueIsGone(t) \/ WaitTimeout(t) \/ Overflow(t) \/ OverflowSends(t)
  \/ \E open \in BOOLEAN : \/ LoadSession(t, open) \/ EnterOrAssign(t, open)
                            \/ AgentTimeout(t, open)
  \/ Save(t) \/ Retry(t) \/ ArmWait(t) \/ ArmAgent(t) \/ Fire(t)
  \/ CleanupReads(t) \/ Dequeue(t) \/ Sweep(t) \/ Throw(t)

Begin(t) ==
  \/ \E id \in JoinId : JoinQueue(t, id)
  \/ \E n \in Timer : Poll(t, n)
  \/ CleanUp(t)

Next ==
  \/ \E t \in Task : Step(t) \/ Begin(t)
  \/ \E n \in Timer : KeyExpires(n)
  \/ \E p \in Process : Restart(p)
  \/ OthersWrite \/ CallEnds

Spec == Init /\ [][Next]_vars

-----------------------------------------------------------------------------
(* Properties.                                                             *)

TypeOK ==
  /\ call \in {"live", "over"} /\ joins \in 0..MaxJoins /\ staffed \in BOOLEAN
  /\ queue \in Snapshot \cup {NoQueue}
  /\ timer \in [Timer -> {"off", "set"}]
  /\ entry \in [Process -> {"no", "early", "ripe"}]
  /\ handled \in [Process -> SUBSET Key]
  /\ rows \subseteq Row
  /\ faults \in 0..MaxFaults /\ lost \in BOOLEAN
  /\ task \in [Task -> Handler]

\* A queued caller whose call goes on is never forgotten: with no handler
\* under way, the wait timer is still there, or the way out has been
\* commanded (the overflow's hangup, or a rejection).  The agents' timer does
\* not count: the retry it starts may find nobody to ring and set no other.
\* So whatever else fails, whichever process dies, whoever joins again and
\* however the writes of the row end, only the wait timer can forget a caller:
\* it could not be set, its key expired unpolled, the handler it set off failed
\* or died after the key was deleted, or ran where nobody remembers the caller
\* (queueManager joinQueue and handleWaitTimeout, queueAgentManager
\* handleAgentTimeout and handleOverflow, timerService pollExpiredTimers).
QueuedCallerIsNotForgotten ==
  call = "live" /\ ~lost /\ "ENQUEUE" \in rows /\ (\A t \in Task : task[t] = Idle)
    => "EXIT" \in rows \/ timer["wait"] = "set"

\* A handler changes the queue only from what it is at the time: its write
\* replaces the queue it read, although the version it checks was loaded
\* before, in another query.  The exceptions are the cleanup's deletion, what
\* is written after one (the deletion leaves the version as it was), and the
\* creation, which another join may have forestalled
\* (queueAgentManager loadQueueContext and persistQueueSnapshot).
QueueIsChangedFromWhatItIs ==
  [][\A t \in Task :
       task[t].at \in {"save", "dequeue"} /\ task[t].op # "create"
         /\ queue' # queue /\ task'[t].at # task[t].at
         => queue \in {task[t].read, NoQueue}]_vars
=============================================================================
