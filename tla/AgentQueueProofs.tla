-------------------------- MODULE AgentQueueProofs --------------------------
(***************************************************************************)
(* Proofs about AgentQueue, for any number of processes, handlers under    *)
(* way, request ids, joins and retries.                                    *)
(***************************************************************************)
EXTENDS AgentQueue, TLAPS

\* Where a handler can be: one about to write the queue has read it, unless it
\* creates it; a retry is counted below the bound; a join has its request id.
Placed(h) ==
  /\ h.op \in {"join", "create", "enter"} => h.id \in JoinId
  /\ h.at = "fire" => h.op \in Timer
  /\ h.at = "save" => h.op \in {"create", "enter", "assign", "agent", "overflow"}
  /\ h.at = "save" /\ h.op # "create" => h.read \in Snapshot
  /\ h.at = "dequeue" => h.op = "cleanup" /\ h.read \in Snapshot
  /\ h.op = "agent" /\ h.at \in {"save", "retry"}
       => h.read \in Snapshot /\ h.read.retry + 1 < MaxRetries

\* As long as nothing bumped the version a handler loaded, the queue is what
\* it read, or the cleanup has removed it.
Current(h) ==
  h.fresh /\ h.at \in {"save", "dequeue"} /\ h.op # "create" => queue \in {h.read, NoQueue}

HandlersOK == \A t \in Task : Placed(task[t]) /\ Current(task[t])

IInv == TypeOK /\ HandlersOK

-----------------------------------------------------------------------------
(***************************************************************************)
(* What the helpers make of a handler.                                     *)
(***************************************************************************)
\* Only the handler of t changes, to h.
Becomes(t, h) ==
  /\ h \in Handler /\ task'[t] = h
  /\ task' \in [Task -> Handler]
  /\ \A u \in Task \ {t} : task'[u] = task[u]

LEMMA DoneBecomes ==
  ASSUME TypeOK, NEW t \in Task, Done(t)
  PROVE  Becomes(t, Handling("none", "idle", "none", FALSE, NoQueue))
BY DEF TypeOK, Done, Idle, Becomes, Handling, Handler, Op, Place

LEMMA StartBecomes ==
  ASSUME TypeOK, NEW t \in Task, NEW op \in Op, NEW at \in Place,
         NEW id \in JoinId \cup {"none", "wait", "agent"}, Start(t, op, at, id)
  PROVE  Becomes(t, Handling(op, at, id, FALSE, NoQueue))
BY DEF TypeOK, Start, Idle, Becomes, Handling, Handler

LEMMA GotoBecomes ==
  ASSUME TypeOK, NEW t \in Task, NEW op \in Op, NEW at \in Place, Goto(t, op, at)
  PROVE  Becomes(t, Handling(op, at, task[t].id, task[t].fresh, task[t].read))
BY DEF TypeOK, Goto, Becomes, Handling, Handler

LEMMA KeepBecomes ==
  ASSUME TypeOK, NEW t \in Task, NEW at \in Place, Keep(t, at)
  PROVE  Becomes(t, Handling(task[t].op, at, task[t].id, task[t].fresh, queue))
BY DEF TypeOK, Keep, Becomes, Handling, Handler

LEMMA InvokeBecomes ==
  ASSUME TypeOK, NEW t \in Task, NEW op \in {"assign", "overflow"},
         NEW id \in JoinId \cup {"wait", "agent"}, NEW round \in 0..(MaxRetries - 1),
         op = "overflow" => id \in {"wait", "agent"}, Invoke(t, op, id, round)
  PROVE  /\ handled' \in [Process -> SUBSET Key]
         /\ \/ Becomes(t, Handling("none", "idle", "none", FALSE, NoQueue))
            \/ Becomes(t, Handling(op, "session", IF op = "overflow" THEN id ELSE "none",
                                   FALSE, NoQueue))
<1> DEFINE key == [op |-> op, round |-> round, id |-> id]
<1>1. ProcessOf[t] \in Process /\ key \in Key
  BY QueueAssumption DEF Key
<1>2. CASE key \in handled[ProcessOf[t]]
  BY <1>2, DoneBecomes DEF Invoke, TypeOK
<1>3. CASE key \notin handled[ProcessOf[t]]
  <2>1. handled' \in [Process -> SUBSET Key]
    BY <1>1, <1>3 DEF Invoke, TypeOK
  <2> DEFINE kept == IF op = "overflow" THEN id ELSE "none"
  <2>2. task' = [task EXCEPT ![t] = Handling(op, "session", kept, FALSE, NoQueue)]
    BY <1>3 DEF Invoke
  <2>3. kept \in JoinId \cup {"none", "wait", "agent"}
    OBVIOUS
  <2> HIDE DEF kept
  <2>4. Becomes(t, Handling(op, "session", kept, FALSE, NoQueue))
    BY <2>2, <2>3 DEF TypeOK, Becomes, Handling, Handler, Op, Place
  <2> QED
    BY <2>1, <2>4 DEF kept
<1> QED
  BY <1>2, <1>3

\* One handler moves to a place that is right for it, the queue as it was.
LEMMA OneMoves ==
  ASSUME IInv, NEW t \in Task, NEW h, Becomes(t, h), queue' = queue, Placed(h), Current(h)
  PROVE  task' \in [Task -> Handler] /\ HandlersOK'
<1>1. ASSUME NEW u \in Task PROVE Placed(task'[u]) /\ Current(task'[u])
  BY DEF Becomes, IInv, HandlersOK
<1> QED
  BY <1>1 DEF Becomes, HandlersOK, Placed, Current

-----------------------------------------------------------------------------
(***************************************************************************)
(* Every step keeps the invariant.                                         *)
(***************************************************************************)
LEMMA IInvInit == ASSUME Init PROVE IInv
<1>1. Idle \in Handler /\ Placed(Idle) /\ Current(Idle)
  BY DEF Idle, Handling, Handler, Op, Place, Placed, Current
<1>2. task \in [Task -> Handler] /\ HandlersOK
  BY <1>1 DEF Init, HandlersOK
<1>3. /\ 0 \in 0..MaxJoins /\ 0 \in 0..MaxFaults
      /\ timer \in [Timer -> {"off", "set"}]
      /\ handled \in [Process -> SUBSET Key]
  BY QueueAssumption DEF Init
<1> QED
  BY <1>2, <1>3 DEF Init, IInv, TypeOK

LEMMA FailsTypes == ASSUME TypeOK, Fails PROVE faults' \in 0..MaxFaults
BY QueueAssumption DEF TypeOK, Fails

LEMMA WaitTimerTypes ==
  ASSUME TypeOK, SetWaitTimer
  PROVE  timer' \in [Timer -> {"off", "set"}] /\ entry' \in [Process -> {"no", "early", "ripe"}]
BY DEF TypeOK, SetWaitTimer

\* The steps in which one handler moves and the queue stays.
LEMMA QueueStays ==
  ASSUME IInv, NEW t \in Task,
         \/ JoinLooks(t) \/ QueueIsGone(t) \/ WaitTimeout(t) \/ Overflow(t)
         \/ OverflowSends(t) \/ Retry(t) \/ ArmWait(t) \/ ArmAgent(t) \/ Fire(t)
         \/ CleanupReads(t) \/ Throw(t) \/ Begin(t)
         \/ \E open \in BOOLEAN : \/ LoadSession(t, open) \/ EnterOrAssign(t, open)
                                   \/ AgentTimeout(t, open)
  PROVE  IInv'
<1> USE DEF At, caller, memory, fault
<1>0. /\ TypeOK /\ HandlersOK /\ Placed(task[t]) /\ task[t] \in Handler
      /\ ProcessOf[t] \in Process
  BY QueueAssumption DEF IInv, HandlersOK, TypeOK
<1>d. ASSUME Done(t), queue' = queue PROVE task' \in [Task -> Handler] /\ HandlersOK'
  BY <1>d, <1>0, DoneBecomes, OneMoves DEF Placed, Current, Handling
<1>i. ASSUME NEW op \in {"assign", "overflow"}, NEW id \in JoinId \cup {"wait", "agent"},
             NEW round \in 0..(MaxRetries - 1), op = "overflow" => id \in {"wait", "agent"},
             Invoke(t, op, id, round), queue' = queue
      PROVE  task' \in [Task -> Handler] /\ HandlersOK' /\ handled' \in [Process -> SUBSET Key]
  BY <1>i, <1>0, InvokeBecomes, OneMoves DEF Placed, Current, Handling
<1>1. CASE JoinLooks(t)
  <2>1. CASE Done(t)
    BY <1>0, <1>1, <1>d, <2>1 DEF JoinLooks, IInv, TypeOK
  <2>2. ASSUME NEW op \in {"create", "enter"}, Goto(t, op, "session") PROVE IInv'
    <3>1. Becomes(t, Handling(op, "session", task[t].id, task[t].fresh, task[t].read))
      BY <1>0, <2>2, GotoBecomes DEF Op, Place
    <3>2. task[t].id \in JoinId
      BY <1>0, <1>1 DEF JoinLooks, Placed
    <3> QED
      BY <1>0, <1>1, <3>1, <3>2, OneMoves DEF JoinLooks, IInv, TypeOK, Placed, Current, Handling
  <2> QED
    BY <1>1, <2>1, <2>2 DEF JoinLooks
<1>2. CASE QueueIsGone(t)
  BY <1>0, <1>2, <1>d DEF QueueIsGone, IInv, TypeOK
<1>3. CASE WaitTimeout(t)
  <2>1. CASE Done(t) /\ handled' = handled
    BY <1>0, <1>3, <1>d, <2>1 DEF WaitTimeout, IInv, TypeOK
  <2>2. CASE Invoke(t, "overflow", "wait", 0)
    <3>1. task' \in [Task -> Handler] /\ HandlersOK' /\ handled' \in [Process -> SUBSET Key]
      BY <1>3, <1>i, <2>2, QueueAssumption DEF WaitTimeout
    <3>2. lost' \in BOOLEAN
      BY <1>0, <1>3 DEF WaitTimeout, TypeOK
    <3> QED
      BY <1>0, <1>3, <3>1, <3>2 DEF WaitTimeout, IInv, TypeOK
  <2> QED
    BY <1>3, <2>1, <2>2 DEF WaitTimeout
<1>4. CASE Overflow(t)
  <2>1. Becomes(t, Handling("overflow", "save", task[t].id, task[t].fresh, queue))
    BY <1>0, <1>4, KeepBecomes DEF Overflow, Place
  <2> QED
    BY <1>0, <1>4, <2>1, OneMoves DEF Overflow, IInv, TypeOK, Placed, Current, Handling
<1>5. CASE OverflowSends(t)
  BY <1>0, <1>5, <1>d DEF OverflowSends, Put, Row, IInv, TypeOK
<1>6. CASE Retry(t)
  <2>1. task[t].read.retry + 1 \in 0..(MaxRetries - 1)
    BY <1>0, <1>6, QueueAssumption DEF Retry, Placed, Snapshot
  <2> QED
    BY <1>0, <1>6, <1>i, <2>1 DEF Retry, IInv, TypeOK
<1>7. CASE ArmWait(t)
  <2>1. task[t].id \in JoinId
    BY <1>0, <1>7 DEF ArmWait, Placed
  <2>2. task' \in [Task -> Handler] /\ HandlersOK' /\ handled' \in [Process -> SUBSET Key]
    BY <1>7, <1>i, <2>1, QueueAssumption DEF ArmWait
  <2>3. timer' \in [Timer -> {"off", "set"}] /\ entry' \in [Process -> {"no", "early", "ripe"}]
    BY <1>0, <1>7, WaitTimerTypes DEF ArmWait, TypeOK
  <2>4. faults' \in 0..MaxFaults /\ lost' \in BOOLEAN
    BY <1>0, <1>7, FailsTypes DEF ArmWait, TypeOK
  <2> QED
    BY <1>0, <1>7, <2>2, <2>3, <2>4 DEF ArmWait, Put, Row, IInv, TypeOK
<1>8. CASE ArmAgent(t)
  <2>1. faults' \in 0..MaxFaults /\ timer' \in [Timer -> {"off", "set"}]
    BY <1>0, <1>8, FailsTypes DEF ArmAgent, TypeOK, Timer
  <2> QED
    BY <1>0, <1>8, <1>d, <2>1 DEF ArmAgent, Put, Row, IInv, TypeOK
<1>9. CASE Fire(t)
  <2>1. task[t].op \in Timer
    BY <1>0, <1>9 DEF Fire, Placed
  <2>2. PICK at \in {"session", "queue"} : Goto(t, task[t].op, at)
    BY <1>9 DEF Fire
  <2>3. Becomes(t, Handling(task[t].op, at, task[t].id, task[t].fresh, task[t].read))
    BY <1>0, <2>1, <2>2, GotoBecomes DEF Op, Place, Timer
  <2>4. task' \in [Task -> Handler] /\ HandlersOK'
    BY <1>9, <2>1, <2>3, OneMoves DEF Fire, Timer, Placed, Current, Handling
  <2>5. faults' \in 0..MaxFaults /\ timer' \in [Timer -> {"off", "set"}]
    BY <1>0, <1>9, FailsTypes DEF Fire, TypeOK
  <2> QED
    BY <1>0, <1>9, <2>4, <2>5 DEF Fire, IInv, TypeOK
<1>10. CASE CleanupReads(t)
  <2>1. ASSUME NEW at \in {"dequeue", "sweep"}, Keep(t, at),
               at = "dequeue" => task[t].op = "cleanup" /\ queue \in Snapshot,
               task[t].op \in {"cleanup", "sweep"}
        PROVE  task' \in [Task -> Handler] /\ HandlersOK'
    <3>1. Becomes(t, Handling(task[t].op, at, task[t].id, task[t].fresh, queue))
      BY <1>0, <2>1, KeepBecomes DEF Place
    <3> QED
      BY <1>10, <2>1, <3>1, OneMoves DEF CleanupReads, Placed, Current, Handling
  <2>2. ASSUME Goto(t, "sweep", "queue") PROVE task' \in [Task -> Handler] /\ HandlersOK'
    <3>1. Becomes(t, Handling("sweep", "queue", task[t].id, task[t].fresh, task[t].read))
      BY <1>0, <2>2, GotoBecomes DEF Op, Place
    <3> QED
      BY <1>10, <3>1, OneMoves DEF CleanupReads, Placed, Current, Handling
  <2> QED
    BY <1>0, <1>10, <2>1, <2>2 DEF CleanupReads, IInv, TypeOK
<1>11. CASE Begin(t)
  <2>1. ASSUME NEW id \in JoinId, JoinQueue(t, id) PROVE IInv'
    <3>1. Becomes(t, Handling("join", "queue", id, FALSE, NoQueue))
      BY <1>0, <2>1, StartBecomes DEF JoinQueue, Op, Place
    <3>2. [op |-> "join", round |-> 0, id |-> id] \in Key
      BY QueueAssumption DEF Key
    <3>3. handled' \in [Process -> SUBSET Key] /\ joins' \in 0..MaxJoins
      BY <1>0, <2>1, <3>2, QueueAssumption DEF JoinQueue, TypeOK
    <3> QED
      BY <1>0, <2>1, <3>1, <3>3, OneMoves DEF JoinQueue, IInv, TypeOK, Placed, Current, Handling
  <2>2. ASSUME NEW n \in Timer, Poll(t, n) PROVE IInv'
    <3>1. Becomes(t, Handling(n, "fire", "none", FALSE, NoQueue))
      BY <1>0, <2>2, StartBecomes DEF Poll, Op, Place, Timer
    <3> QED
      BY <1>0, <2>2, <3>1, OneMoves DEF Poll, IInv, TypeOK, Placed, Current, Handling, Timer
  <2>3. CASE CleanUp(t)
    <3>1. Becomes(t, Handling("cleanup", "session", "none", FALSE, NoQueue))
      BY <1>0, <2>3, StartBecomes DEF CleanUp, Op, Place
    <3> QED
      BY <1>0, <2>3, <3>1, OneMoves DEF CleanUp, IInv, TypeOK, Placed, Current, Handling
  <2> QED
    BY <1>11, <2>1, <2>2, <2>3 DEF Begin
<1>12. ASSUME NEW open \in BOOLEAN, LoadSession(t, open) PROVE IInv'
  <2>1. CASE Done(t)
    BY <1>0, <1>12, <1>d, <2>1 DEF LoadSession, IInv, TypeOK
  <2>2. ASSUME NEW at \in {"save", "queue"}, at = "save" <=> task[t].op = "create",
               task' = [task EXCEPT ![t] = Handling(@.op, at, @.id, TRUE, @.read)]
        PROVE  IInv'
    <3>1. Becomes(t, Handling(task[t].op, at, task[t].id, TRUE, task[t].read))
      BY <1>0, <2>2 DEF TypeOK, Becomes, Handling, Handler, Place
    <3> QED
      BY <1>0, <1>12, <2>2, <3>1, OneMoves DEF LoadSession, IInv, TypeOK, Placed, Current, Handling
  <2> QED
    BY <1>12, <2>1, <2>2 DEF LoadSession
<1>13. ASSUME NEW open \in BOOLEAN, EnterOrAssign(t, open) PROVE IInv'
  <2>1. CASE Done(t)
    BY <1>0, <1>13, <1>d, <2>1 DEF EnterOrAssign, IInv, TypeOK
  <2>2. CASE Keep(t, "save") /\ task[t].op \in {"enter", "assign"}
    <3>1. Becomes(t, Handling(task[t].op, "save", task[t].id, task[t].fresh, queue))
      BY <1>0, <2>2, KeepBecomes DEF Place
    <3>2. task' \in [Task -> Handler] /\ HandlersOK'
      BY <1>0, <1>13, <2>2, <3>1, OneMoves DEF EnterOrAssign, TypeOK, Placed, Current, Handling
    <3> QED
      BY <1>0, <1>13, <2>2, <3>2 DEF EnterOrAssign, IInv, TypeOK
  <2> QED
    BY <1>13, <2>1, <2>2 DEF EnterOrAssign
<1>14. ASSUME NEW open \in BOOLEAN, AgentTimeout(t, open) PROVE IInv'
  <2>1. CASE Invoke(t, "overflow", "agent", 0)
    <3>0. 0 \in 0..(MaxRetries - 1) /\ queue' = queue
      BY <1>14, QueueAssumption DEF AgentTimeout
    <3>1. task' \in [Task -> Handler] /\ HandlersOK' /\ handled' \in [Process -> SUBSET Key]
      BY <1>i, <2>1, <3>0
    <3> QED
      BY <1>0, <1>14, <3>1 DEF AgentTimeout, IInv, TypeOK
  <2>2. CASE Keep(t, "save") /\ queue.retry + 1 < MaxRetries /\ handled' = handled
    <3>1. Becomes(t, Handling("agent", "save", task[t].id, task[t].fresh, queue))
      BY <1>0, <1>14, <2>2, KeepBecomes DEF AgentTimeout, Place
    <3>2. task' \in [Task -> Handler] /\ HandlersOK'
      BY <1>0, <1>14, <2>2, <3>1, OneMoves DEF AgentTimeout, TypeOK, Placed, Current, Handling
    <3> QED
      BY <1>0, <1>14, <2>2, <3>2 DEF AgentTimeout, IInv, TypeOK
  <2> QED
    BY <1>14, <2>1, <2>2 DEF AgentTimeout
<1>15. CASE Throw(t)
  <2>0. queue' = queue
    BY <1>15 DEF Throw
  <2>1. ASSUME Done(t) PROVE task' \in [Task -> Handler] /\ HandlersOK'
    BY <2>0, <2>1, <1>d
  <2>2. ASSUME Goto(t, "sweep", "queue") PROVE task' \in [Task -> Handler] /\ HandlersOK'
    <3>1. Becomes(t, Handling("sweep", "queue", task[t].id, task[t].fresh, task[t].read))
      BY <1>0, <2>2, GotoBecomes DEF Op, Place
    <3> QED
      BY <2>0, <3>1, OneMoves DEF Placed, Current, Handling
  <2>3. task' \in [Task -> Handler] /\ HandlersOK'
    BY <1>15, <2>1, <2>2 DEF Throw
  <2>4. timer' \in [Timer -> {"off", "set"}] /\ entry' \in [Process -> {"no", "early", "ripe"}]
    BY <1>0, <1>15, WaitTimerTypes DEF Throw, TypeOK
  <2>5. faults' \in 0..MaxFaults /\ lost' \in BOOLEAN
    BY <1>0, <1>15, FailsTypes DEF Throw, TypeOK
  <2> QED
    BY <1>0, <1>15, <2>3, <2>4, <2>5 DEF Throw, IInv, TypeOK
<1> QED
  BY <1>1, <1>2, <1>3, <1>4, <1>5, <1>6, <1>7, <1>8, <1>9, <1>10, <1>11, <1>12, <1>13, <1>14,
     <1>15

\* A write of the queue, or of anything else in the session's row: whoever
\* wrote with a valid version leaves everybody else with an old one.
LEMMA WriteMoves ==
  ASSUME IInv, NEW t \in Task, NEW op \in Op, NEW at \in Place,
         task[t].at \in {"save", "dequeue"}, Persist(t), After(t, op, at),
         at \in {"session", "queue", "arm", "retry", "send"},
         at = "retry" => op = "agent" /\ task[t].op = "agent",
         op \in {"join", "create", "enter"} => task[t].op \in {"create", "enter"}
  PROVE  task' \in [Task -> Handler] /\ HandlersOK' /\ queue' \in Snapshot \cup {NoQueue}
<1>0. TypeOK /\ HandlersOK /\ task[t] \in Handler /\ Placed(task[t])
  BY DEF IInv, HandlersOK, TypeOK
<1>1. ASSUME task[t].fresh PROVE queue' \in Snapshot
  <2>1. CASE task[t].op = "create"
    BY <1>1, <2>1, QueueAssumption DEF Persist, NewQueue, Snapshot
  <2>2. CASE task[t].op = "agent"
    BY <1>0, <1>1, <2>2, QueueAssumption DEF Persist, NewQueue, Snapshot, Placed
  <2>3. CASE task[t].op \in {"enter", "assign", "overflow", "cleanup"}
    BY <1>0, <1>1, <2>3 DEF Persist, NewQueue, Snapshot, Placed
  <2> QED
    BY <1>0, <2>1, <2>2, <2>3 DEF Placed
<1>2. queue' \in Snapshot \cup {NoQueue}
  BY <1>0, <1>1 DEF Persist, TypeOK
<1>3. PICK read \in Snapshot \cup {NoQueue} :
        /\ task'[t] = Handling(op, at, task[t].id, FALSE, read)
        /\ at = "retry" => read = task[t].read
  BY <1>0 DEF After, Handler
<1>4. ASSUME NEW u \in Task, u # t
      PROVE  task'[u] = IF task[t].fresh THEN Outdated(u) ELSE task[u]
  BY <1>4 DEF After
<1>5. ASSUME NEW u \in Task
      PROVE  Outdated(u) \in Handler /\ ~Outdated(u).fresh /\ Placed(Outdated(u))
  BY <1>0 DEF Outdated, TypeOK, HandlersOK, Handler, Placed
<1>6. ASSUME NEW u \in Task PROVE (task[u] \in Handler /\ Placed(task[u]) /\ Current(task[u]))'
  <2>1. CASE u = t
    <3> DEFINE h == Handling(op, at, task[t].id, FALSE, read)
    <3>1. task[t].id \in JoinId \cup {"none", "wait", "agent"}
      BY <1>0 DEF Handler
    <3>2. h \in Handler /\ ~h.fresh
      BY <3>1 DEF Handling, Handler
    <3>3. Placed(h)
      BY <1>0, <1>3 DEF Handling, Placed, Op
    <3> QED
      BY <1>3, <2>1, <3>2, <3>3 DEF Placed, Current
  <2>2. CASE u # t /\ task[t].fresh
    BY <1>4, <1>5, <2>2 DEF Placed, Current
  <2>3. CASE u # t /\ ~task[t].fresh
    <3>1. queue' = queue /\ task'[u] = task[u]
      BY <1>4, <2>3 DEF Persist
    <3> QED
      BY <1>0, <3>1 DEF HandlersOK, TypeOK, Placed, Current
  <2> QED
    BY <2>1, <2>2, <2>3
<1>7. task' \in [Task -> Handler]
  BY <1>6 DEF After
<1>8. HandlersOK'
  BY <1>6 DEF HandlersOK
<1> QED
  BY <1>2, <1>7, <1>8

LEMMA AllOutdated ==
  ASSUME IInv, task' = [u \in Task |-> Outdated(u)], queue' = queue
  PROVE  task' \in [Task -> Handler] /\ HandlersOK'
<1>1. ASSUME NEW u \in Task
      PROVE  Outdated(u) \in Handler /\ ~Outdated(u).fresh /\ Placed(Outdated(u))
  BY DEF IInv, Outdated, TypeOK, HandlersOK, Handler, Placed
<1> QED
  BY <1>1 DEF HandlersOK, Placed, Current

LEMMA IInvStep == ASSUME IInv, [Next]_vars PROVE IInv'
<1> USE DEF caller, memory, fault, At
<1>0. TypeOK /\ HandlersOK
  BY DEF IInv
<1>1. ASSUME NEW t \in Task, Save(t) PROVE IInv'
  <2>1. PICK op \in Op, at \in Place :
          /\ After(t, op, at) /\ at \in {"session", "arm", "retry", "send"}
          /\ at = "retry" => op = "agent" /\ task[t].op = "agent"
          /\ op \in {"join", "create", "enter"} => task[t].op \in {"create", "enter"}
    BY <1>1 DEF Save, Op, Place
  <2>2. task' \in [Task -> Handler] /\ HandlersOK' /\ queue' \in Snapshot \cup {NoQueue}
    BY <1>1, <2>1, WriteMoves DEF Save
  <2>3. entry' \in [Process -> {"no", "early", "ripe"}]
    BY <1>0, <1>1 DEF Save, TypeOK
  <2> QED
    BY <1>0, <1>1, <2>2, <2>3 DEF Save, IInv, TypeOK
<1>2. ASSUME NEW t \in Task, Dequeue(t) PROVE IInv'
  <2>1. task' \in [Task -> Handler] /\ HandlersOK' /\ queue' \in Snapshot \cup {NoQueue}
    BY <1>2, WriteMoves DEF Dequeue, Op, Place
  <2> QED
    BY <1>0, <1>2, <2>1 DEF Dequeue, IInv, TypeOK
<1>3. ASSUME NEW t \in Task, Sweep(t) PROVE IInv'
  <2>1. Becomes(t, Handling("none", "idle", "none", FALSE, NoQueue))
    BY <1>0, <1>3, DoneBecomes DEF Sweep
  <2>2. ASSUME NEW u \in Task PROVE (Placed(task[u]) /\ Current(task[u]))'
    <3>1. CASE u = t
      BY <2>1, <3>1 DEF Becomes, Handling, Placed, Current
    <3>2. CASE u # t
      BY <1>0, <1>3, <2>1, <3>2 DEF Becomes, HandlersOK, Sweep, Current
    <3> QED
      BY <3>1, <3>2
  <2>3. HandlersOK'
    BY <2>2 DEF HandlersOK
  <2> QED
    BY <1>0, <1>3, <2>1, <2>3 DEF Sweep, Becomes, IInv, TypeOK
<1>4. ASSUME NEW n \in Timer, KeyExpires(n) PROVE IInv'
  BY <1>0, <1>4 DEF KeyExpires, IInv, TypeOK, HandlersOK, Placed, Current
<1>5. CASE OthersWrite
  BY <1>0, <1>5, AllOutdated DEF OthersWrite, IInv, TypeOK
<1>6. CASE CallEnds
  BY <1>0, <1>6, AllOutdated DEF CallEnds, IInv, TypeOK
<1>7. ASSUME NEW p \in Process, Restart(p) PROVE IInv'
  <2>1. Idle \in Handler /\ Placed(Idle) /\ ~Idle.fresh
    BY DEF Idle, Handling, Handler, Op, Place, Placed
  <2>2. task' \in [Task -> Handler]
    BY <1>0, <1>7, <2>1 DEF Restart, TypeOK
  <2>3. ASSUME NEW u \in Task PROVE (Placed(task[u]) /\ Current(task[u]))'
    <3>1. queue' = queue /\ (task'[u] = Idle \/ task'[u] = task[u])
      BY <1>7 DEF Restart
    <3> QED
      BY <1>0, <2>1, <3>1 DEF HandlersOK, Placed, Current
  <2>4. HandlersOK'
    BY <2>3 DEF HandlersOK
  <2>5. handled' \in [Process -> SUBSET Key] /\ entry' \in [Process -> {"no", "early", "ripe"}]
    BY <1>0, <1>7 DEF Restart, TypeOK
  <2>6. faults' \in 0..MaxFaults /\ lost' \in BOOLEAN
    BY <1>0, <1>7, FailsTypes DEF Restart, TypeOK
  <2> QED
    BY <1>0, <1>7, <2>2, <2>4, <2>5, <2>6 DEF Restart, IInv, TypeOK
<1>8. CASE UNCHANGED vars
  BY <1>0, <1>8 DEF vars, IInv, TypeOK, HandlersOK, Placed, Current
<1> QED
  BY <1>1, <1>2, <1>3, <1>4, <1>5, <1>6, <1>7, <1>8, QueueStays DEF Next, Step

-----------------------------------------------------------------------------
LEMMA IInvAlways == Spec => []IInv
<1>1. Init => IInv
  BY IInvInit
<1>2. IInv /\ [Next]_vars => IInv'
  BY IInvStep
<1> QED
  BY <1>1, <1>2, PTL DEF Spec

\* Types, and with them that no retry is counted beyond the limit
\* (queuePolicy evaluateQueuePolicy, queueAgentManager handleAgentTimeout).
THEOREM QueueTypes == Spec => []TypeOK
<1>1. IInv => TypeOK
  BY DEF IInv
<1> QED
  BY <1>1, IInvAlways, PTL

\* A handler's write replaces the queue it read, however many handlers and
\* processes there are: what the version check is for, although the version
\* is loaded in an earlier query than the queue
\* (queueAgentManager loadQueueContext, persistQueueSnapshot).
THEOREM WritesReplaceWhatWasRead == Spec => QueueIsChangedFromWhatItIs
<1> DEFINE Change == \A t \in Task :
             task[t].at \in {"save", "dequeue"} /\ task[t].op # "create"
               /\ queue' # queue /\ task'[t].at # task[t].at
               => queue \in {task[t].read, NoQueue}
<1>1. IInv /\ [Next]_vars => [Change]_vars
  <2> SUFFICES ASSUME IInv, Next,
                      NEW t \in Task, task[t].at \in {"save", "dequeue"}, task[t].op # "create",
                      queue' # queue, task'[t].at # task[t].at
               PROVE  queue \in {task[t].read, NoQueue}
    OBVIOUS
  <2>1. CASE Save(t) \/ Dequeue(t)
    BY <2>1 DEF Save, Dequeue, Persist, IInv, HandlersOK, Current
  <2>2. CASE ~(Save(t) \/ Dequeue(t))
    <3>1. PICK u \in Task : Save(u) \/ Dequeue(u) \/ Sweep(u)
      BY DEF Next, Step, Begin, JoinLooks, QueueIsGone, WaitTimeout, Overflow, OverflowSends,
             LoadSession, EnterOrAssign, AgentTimeout, Retry, ArmWait, ArmAgent, Fire,
             CleanupReads, Throw, JoinQueue, Poll, CleanUp, KeyExpires, Restart, OthersWrite,
             CallEnds
    <3>2. u # t
      BY <2>2, <3>1 DEF Sweep, At
    <3>3. \/ task'[t] = task[t]
          \/ task'[t] = Outdated(t)
      BY <3>1, <3>2 DEF Save, Dequeue, Sweep, After, Done, IInv, TypeOK
    <3>4. Outdated(t).at = task[t].at
      BY DEF Outdated, IInv, TypeOK, Handler
    <3> QED
      BY <3>3, <3>4
  <2> QED
    BY <2>1, <2>2
<1> QED
  BY <1>1, IInvAlways, PTL DEF Spec, QueueIsChangedFromWhatItIs

-----------------------------------------------------------------------------
(***************************************************************************)
(* A queued caller is not forgotten.  Until it is lost itself, the wait    *)
(* timer carries the caller from the first arming on: it ends in a handler *)
(* that has taken it, that handler in an overflow, the overflow in a row.  *)
(***************************************************************************)
Busy(op) == \E t \in Task : task[t].op = op

Sends(h)   == h.op = "overflow" /\ h.id = "wait"
Carries(h) == h.op = "wait" \/ Sends(h)

\* A handler that has found the queue there.
Inside(h) == h.op = "overflow" \/ (h.op = "enter" /\ h.at \in {"save", "arm"})

\* Some process remembers that the wait timer asked it for the overflow.
WaitAsked == \E p \in Process : \E k \in handled[p] : k.op = "overflow" /\ k.id = "wait"

\* Only the end of the call cleans up.
OnlyTheEndCleans == call = "live" => ~Busy("cleanup") /\ ~Busy("sweep")

\* Without a queue nobody has entered it, and nobody is sent away from it.
NoQueueYet ==
  call = "live" /\ queue = NoQueue
    => "ENQUEUE" \notin rows /\ ~WaitAsked /\ \A t \in Task : ~Inside(task[t])

\* An overflow the wait timer asked for is under way until its row is written.
OverflowGoesOn ==
  call = "live" /\ ~lost /\ WaitAsked => "EXIT" \in rows \/ \E t \in Task : Sends(task[t])

\* The caller in the queue is carried.
CallerIsCarried ==
  call = "live" /\ ~lost /\ "ENQUEUE" \in rows
    => timer["wait"] = "set" \/ "EXIT" \in rows \/ \E t \in Task : Carries(task[t])

CarryInv == OnlyTheEndCleans /\ NoQueueYet /\ OverflowGoesOn /\ CallerIsCarried

\* What the carrying needs of a step of one handler.
Turn(t) ==
  /\ call' = call /\ (lost => lost') /\ rows \subseteq rows'
  /\ \A u \in Task \ {t} :
       task'[u].op = task[u].op /\ task'[u].at = task[u].at /\ task'[u].id = task[u].id
  /\ task'[t].op \in {"cleanup", "sweep"} => call # "live"
  /\ call = "live" /\ queue' = NoQueue =>
       /\ queue = NoQueue /\ "ENQUEUE" \notin rows' /\ ~Inside(task'[t])
       /\ WaitAsked' => WaitAsked
  /\ call = "live" /\ ~lost' =>
       /\ WaitAsked' => WaitAsked \/ Sends(task'[t])
       /\ Sends(task[t]) => Sends(task'[t]) \/ "EXIT" \in rows' \/ queue = NoQueue
       /\ "ENQUEUE" \in rows' => "ENQUEUE" \in rows \/ timer'["wait"] = "set"
       /\ timer["wait"] = "set" => timer'["wait"] = "set" \/ Carries(task'[t])
       /\ task[t].op = "wait"
            => Carries(task'[t]) \/ WaitAsked \/ timer'["wait"] = "set" \/ queue = NoQueue

LEMMA TurnCarries ==
  ASSUME CarryInv, NEW t \in Task, Turn(t) PROVE CarryInv'
<1>0. ASSUME NEW u \in Task \ {t}
      PROVE  /\ Sends(task'[u]) <=> Sends(task[u])
             /\ Carries(task'[u]) <=> Carries(task[u])
             /\ Inside(task'[u]) <=> Inside(task[u])
  BY <1>0 DEF Turn, Sends, Carries, Inside
<1>1. ASSUME NEW op PROVE Busy(op)' => Busy(op) \/ task'[t].op = op
  BY DEF Turn, Busy
<1>2. OnlyTheEndCleans'
  BY <1>1 DEF Turn, CarryInv, OnlyTheEndCleans
<1>3. NoQueueYet'
  BY <1>0 DEF Turn, CarryInv, NoQueueYet
<1>4. OverflowGoesOn'
  <2>1. SUFFICES ASSUME call = "live", ~lost', WaitAsked', ~\E u \in Task : Sends(task'[u])
                 PROVE  "EXIT" \in rows'
    BY DEF OverflowGoesOn, Turn
  <2>2. ~lost /\ WaitAsked /\ queue # NoQueue
    BY <2>1 DEF Turn, CarryInv, NoQueueYet
  <2>3. PICK u \in Task : "EXIT" \in rows \/ Sends(task[u])
    BY <2>1, <2>2 DEF CarryInv, OverflowGoesOn
  <2>4. "EXIT" \in rows \/ (u = t /\ Sends(task[t]))
    BY <1>0, <2>1, <2>3
  <2> QED
    BY <2>1, <2>2, <2>4 DEF Turn
<1>5. CallerIsCarried'
  <2>1. SUFFICES ASSUME call = "live", ~lost', "ENQUEUE" \in rows', timer'["wait"] # "set",
                        ~\E u \in Task : Carries(task'[u])
                 PROVE  "EXIT" \in rows'
    BY DEF CallerIsCarried, Turn
  <2>2. ~lost /\ "ENQUEUE" \in rows /\ timer["wait"] # "set" /\ queue # NoQueue
    BY <2>1 DEF Turn, CarryInv, NoQueueYet
  <2>3. PICK u \in Task : "EXIT" \in rows \/ Carries(task[u])
    BY <2>1, <2>2 DEF CarryInv, CallerIsCarried
  <2>4. CASE "EXIT" \in rows
    BY <2>4 DEF Turn
  <2>5. CASE Carries(task[u])
    <3>1. Carries(task[t])
      BY <1>0, <2>1, <2>5
    <3>2. CASE Sends(task[t])
      BY <2>1, <2>2, <3>2 DEF Turn, Carries
    <3>3. CASE task[t].op = "wait"
      <4>1. WaitAsked
        BY <2>1, <2>2, <3>3 DEF Turn
      <4>2. PICK v \in Task : "EXIT" \in rows \/ Sends(task[v])
        BY <2>1, <2>2, <4>1 DEF CarryInv, OverflowGoesOn
      <4>3. v # t => ~Sends(task[v])
        BY <1>0, <2>1 DEF Carries
      <4>4. ~Sends(task[t])
        BY <3>3 DEF Sends
      <4> QED
        BY <4>2, <4>3, <4>4 DEF Turn
    <3> QED
      BY <3>1, <3>2, <3>3 DEF Carries
  <2> QED
    BY <2>3, <2>4, <2>5
<1> QED
  BY <1>2, <1>3, <1>4, <1>5 DEF CarryInv

\* What a step of t makes of its own handler, when it is one of the helpers.
LEMMA DoneTurns ==
  ASSUME TypeOK, NEW t \in Task, Done(t)
  PROVE  /\ task'[t].op = "none" /\ task'[t].at = "idle"
         /\ \A u \in Task \ {t} : task'[u] = task[u]
BY DoneBecomes DEF Becomes, Handling

\* A request is handed on under its id, or was asked for before.
LEMMA InvokeTurns ==
  ASSUME TypeOK, NEW t \in Task, NEW op \in {"assign", "overflow"}, NEW id, NEW round,
         Invoke(t, op, id, round)
  PROVE  /\ \/ task'[t].op = op /\ task'[t].at = "session" /\ (op = "overflow" => task'[t].id = id)
            \/ /\ task'[t].op = "none" /\ handled' = handled
               /\ op = "overflow" /\ id = "wait" => WaitAsked
         /\ \A u \in Task \ {t} : task'[u] = task[u]
         /\ WaitAsked' => WaitAsked \/ (op = "overflow" /\ id = "wait" /\ task'[t].op = op)
<1> DEFINE key == [op |-> op, round |-> round, id |-> id]
           p   == ProcessOf[t]
<1>0. p \in Process /\ key.op = op /\ key.id = id
  BY QueueAssumption
<1>1. CASE key \in handled[p]
  <2>1. Done(t) /\ handled' = handled
    BY <1>1 DEF Invoke
  <2>2. WaitAsked' <=> WaitAsked
    BY <2>1 DEF WaitAsked
  <2>3. op = "overflow" /\ id = "wait" => WaitAsked
    BY <1>0, <1>1 DEF WaitAsked
  <2> QED
    BY <2>1, <2>2, <2>3, DoneTurns
<1>2. CASE key \notin handled[p]
  <2> DEFINE kept == IF op = "overflow" THEN id ELSE "none"
  <2>1. /\ task' = [task EXCEPT ![t] = Handling(op, "session", kept, FALSE, NoQueue)]
        /\ handled' = [handled EXCEPT ![p] = @ \cup {key}]
    BY <1>2 DEF Invoke
  <2>2. op = "overflow" => kept = id
    OBVIOUS
  <2> HIDE DEF kept
  <2>3. /\ task'[t].op = op /\ task'[t].at = "session" /\ task'[t].id = kept
        /\ \A u \in Task \ {t} : task'[u] = task[u]
    BY <2>1 DEF Handling, TypeOK
  <2>4. ASSUME NEW q \in Process, NEW k \in handled'[q], k.op = "overflow", k.id = "wait"
        PROVE  k \in handled[q] \/ (op = "overflow" /\ id = "wait")
    <3>1. k \in handled[q] \/ k = key
      BY <1>0, <2>1, <2>4 DEF TypeOK
    <3> QED
      BY <1>0, <2>4, <3>1
  <2>5. WaitAsked' => WaitAsked \/ (op = "overflow" /\ id = "wait")
    BY <2>4 DEF WaitAsked
  <2> QED
    BY <2>2, <2>3, <2>5
<1> QED
  BY <1>1, <1>2

\* A write: everybody else stays where he is, and a queue is not lost by it.
LEMMA WriteTurns ==
  ASSUME IInv, NEW t \in Task, NEW op, NEW at, task[t].at \in {"save", "dequeue"},
         Persist(t), After(t, op, at)
  PROVE  /\ task'[t].op = op /\ task'[t].at = at /\ task'[t].id = task[t].id
         /\ \A u \in Task \ {t} :
              task'[u].op = task[u].op /\ task'[u].at = task[u].at /\ task'[u].id = task[u].id
         /\ queue' = NoQueue => queue = NoQueue
<1>1. task'[t].op = op /\ task'[t].at = at /\ task'[t].id = task[t].id
  BY DEF After, Handling
<1>2. ASSUME NEW u \in Task \ {t}
      PROVE  task'[u].op = task[u].op /\ task'[u].at = task[u].at /\ task'[u].id = task[u].id
  BY DEF After, Outdated, IInv, TypeOK, Handler
<1>3. ASSUME task[t].fresh PROVE queue' \in Snapshot
  <2>1. queue' = NewQueue(task[t].op, task[t].read) /\ Placed(task[t])
    BY <1>3 DEF Persist, IInv, HandlersOK
  <2>2. CASE task[t].op \in {"create", "agent"}
    BY <2>1, <2>2, QueueAssumption DEF NewQueue, Snapshot, Placed, IInv, TypeOK
  <2>3. CASE task[t].op \in {"enter", "assign", "overflow", "cleanup"}
    BY <2>1, <2>3 DEF NewQueue, Snapshot, Placed
  <2> QED
    BY <2>1, <2>2, <2>3 DEF Placed
<1> QED
  BY <1>1, <1>2, <1>3, NoQueueAssumption DEF Persist

LEMMA StepTurns ==
  ASSUME IInv, CarryInv, NEW t \in Task, Step(t) PROVE Turn(t)
<1> USE DEF At, caller, memory, fault
<1>0. /\ TypeOK /\ Placed(task[t]) /\ task \in [Task -> Handler]
      /\ \A op : task[t].op = op => Busy(op)
  BY DEF IInv, HandlersOK, TypeOK, Busy
<1>h. handled' = handled => (WaitAsked' <=> WaitAsked)
  BY DEF WaitAsked
<1>c. task[t].op \in {"cleanup", "sweep"} => call # "live"
  BY <1>0 DEF CarryInv, OnlyTheEndCleans
<1>n. call = "live" /\ queue = NoQueue => "ENQUEUE" \notin rows /\ ~Inside(task[t])
  BY DEF CarryInv, NoQueueYet
<1> USE DEF Sends, Carries, Inside
<1>1. CASE JoinLooks(t)
  <2>1. CASE Done(t)
    BY <1>0, <1>1, <1>h, <1>n, <2>1, DoneTurns DEF JoinLooks, Turn
  <2>2. ASSUME NEW op \in {"create", "enter"}, Goto(t, op, "session")
        PROVE  Turn(t)
    BY <1>0, <1>1, <1>h, <1>n, <2>2 DEF JoinLooks, Turn, Goto, Handling
  <2> QED
    BY <1>1, <2>1, <2>2 DEF JoinLooks
<1>2. CASE QueueIsGone(t)
  BY <1>0, <1>2, <1>h, <1>n, DoneTurns DEF QueueIsGone, Turn
<1>3. CASE WaitTimeout(t)
  <2>1. CASE Invoke(t, "overflow", "wait", 0) /\ lost' = lost
    BY <1>0, <1>3, <1>h, <1>n, <2>1, InvokeTurns DEF WaitTimeout, Turn
  <2>2. CASE Done(t) /\ lost' = (lost \/ timer["wait"] = "off") /\ handled' = handled
    <3>1. ~lost' => ~lost /\ timer["wait"] = "set"
      BY <1>0, <2>2 DEF TypeOK, Timer
    <3> QED
      BY <1>0, <1>3, <1>h, <1>n, <2>2, <3>1, DoneTurns DEF WaitTimeout, Turn
  <2> QED
    BY <1>3, <2>1, <2>2 DEF WaitTimeout
<1>4. CASE Overflow(t)
  BY <1>0, <1>4, <1>h, <1>n DEF Overflow, Keep, Handling, Turn
<1>5. CASE OverflowSends(t)
  BY <1>0, <1>5, <1>h, <1>n, DoneTurns DEF OverflowSends, Put, Turn
<1>6. ASSUME NEW open \in BOOLEAN, LoadSession(t, open) PROVE Turn(t)
  <2>1. CASE Done(t) /\ task[t].op = "create"
    BY <1>0, <1>6, <1>h, <1>n, <2>1, DoneTurns DEF LoadSession, Turn
  <2>2. ASSUME NEW at \in {"save", "queue"}, at = "save" <=> task[t].op = "create",
               task' = [task EXCEPT ![t] = Handling(@.op, at, @.id, TRUE, @.read)]
        PROVE  Turn(t)
    <3>1. task'[t].op = task[t].op /\ task'[t].at = at /\ task'[t].id = task[t].id
          /\ \A u \in Task \ {t} : task'[u] = task[u]
      BY <1>0, <2>2 DEF Handling
    <3> QED
      BY <1>0, <1>6, <1>c, <1>h, <1>n, <2>2, <3>1 DEF LoadSession, Turn
  <2> QED
    BY <1>6, <2>1, <2>2 DEF LoadSession
<1>7. ASSUME NEW open \in BOOLEAN, EnterOrAssign(t, open) PROVE Turn(t)
  <2>1. CASE Done(t)
    BY <1>0, <1>7, <1>h, <1>n, <2>1, DoneTurns DEF EnterOrAssign, Turn
  <2>2. CASE Keep(t, "save")
    BY <1>0, <1>7, <1>h, <1>n, <2>2 DEF EnterOrAssign, Keep, Handling, Turn
  <2> QED
    BY <1>7, <2>1, <2>2 DEF EnterOrAssign
<1>8. ASSUME NEW open \in BOOLEAN, AgentTimeout(t, open) PROVE Turn(t)
  <2>1. CASE Invoke(t, "overflow", "agent", 0)
    BY <1>0, <1>8, <1>n, <2>1, InvokeTurns DEF AgentTimeout, Turn
  <2>2. CASE Keep(t, "save") /\ handled' = handled
    BY <1>0, <1>8, <1>h, <1>n, <2>2 DEF AgentTimeout, Keep, Handling, Turn
  <2> QED
    BY <1>8, <2>1, <2>2 DEF AgentTimeout
<1>9. CASE Save(t)
  <2>1. PICK op, at : /\ After(t, op, at) /\ op \notin {"cleanup", "sweep", "wait"}
                      /\ op = task[t].op \/ (op = "enter" /\ at = "session")
                      /\ task[t].op = "overflow" => op = "overflow"
                      /\ task[t].op # "wait"
    BY <1>9 DEF Save
  <2>2. /\ task'[t].op = op /\ task'[t].at = at /\ task'[t].id = task[t].id
        /\ \A u \in Task \ {t} :
             task'[u].op = task[u].op /\ task'[u].at = task[u].at /\ task'[u].id = task[u].id
        /\ queue' = NoQueue => queue = NoQueue
    BY <1>9, <2>1, WriteTurns DEF Save
  <2>3. queue = NoQueue /\ call = "live" => ~Inside(task'[t])
    BY <1>9, <1>n, <2>1, <2>2 DEF Save
  <2>4. /\ call' = call /\ lost' = lost /\ rows' = rows /\ timer' = timer
        /\ WaitAsked' <=> WaitAsked
    BY <1>9, <1>h DEF Save
  <2>5. Sends(task[t]) => Sends(task'[t])
    BY <2>1, <2>2
  <2>6. call = "live" /\ queue' = NoQueue
          => queue = NoQueue /\ "ENQUEUE" \notin rows' /\ ~Inside(task'[t])
    BY <1>n, <2>2, <2>3, <2>4
  <2>7. task'[t].op \notin {"cleanup", "sweep"} /\ task[t].op # "wait"
    BY <2>1, <2>2
  <2> HIDE DEF Inside, Sends, Carries
  <2> QED
    BY <2>2, <2>4, <2>5, <2>6, <2>7 DEF Turn
<1>10. CASE Retry(t)
  BY <1>0, <1>10, <1>n, InvokeTurns DEF Retry, Turn
<1>11. CASE ArmWait(t)
  <2>1. Invoke(t, "assign", task[t].id, 0) /\ rows' = rows \cup {"ENQUEUE"}
    BY <1>11 DEF ArmWait, Put
  <2>2. (lost => lost') /\ (~lost' => timer'["wait"] = "set")
    <3>1. timer["wait"] \in {"off", "set"} /\ timer \in [Timer -> {"off", "set"}]
          /\ "wait" \in Timer
      BY <1>0 DEF TypeOK, Timer
    <3>2. CASE SetWaitTimer /\ UNCHANGED fault
      BY <3>1, <3>2 DEF SetWaitTimer
    <3>3. CASE lost' = (lost \/ timer["wait"] = "off") /\ UNCHANGED <<timer, entry>>
      BY <3>1, <3>3
    <3> QED
      BY <1>11, <3>2, <3>3 DEF ArmWait
  <2> QED
    BY <1>0, <1>11, <1>n, <2>1, <2>2, InvokeTurns DEF ArmWait, Turn
<1>12. CASE ArmAgent(t)
  <2>1. timer'["wait"] = timer["wait"]
    BY <1>0, <1>12 DEF ArmAgent, TypeOK, Timer
  <2> QED
    BY <1>0, <1>12, <1>h, <1>n, <2>1, DoneTurns DEF ArmAgent, Put, Turn
<1>13. CASE Fire(t)
  <2>1. task[t].op \in Timer
    BY <1>0, <1>13 DEF Fire, Placed
  <2>2. PICK at \in {"session", "queue"} : Goto(t, task[t].op, at)
    BY <1>13 DEF Fire
  <2>3. task[t].op # "wait" => timer'["wait"] = timer["wait"]
    BY <1>0, <1>13, <2>1 DEF Fire, TypeOK, Timer
  <2>4. /\ task'[t].op = task[t].op
        /\ \A u \in Task \ {t} : task'[u] = task[u]
    BY <1>0, <2>2 DEF Goto, Handling
  <2>5. call' = call /\ queue' = queue /\ rows' = rows /\ lost' = lost /\ (WaitAsked' <=> WaitAsked)
    BY <1>13, <1>h DEF Fire
  <2> QED
    BY <1>n, <2>1, <2>3, <2>4, <2>5 DEF Turn, Timer
<1>14. CASE CleanupReads(t)
  <2>1. CASE Keep(t, "dequeue") \/ Keep(t, "sweep")
    BY <1>0, <1>14, <1>c, <1>h, <1>n, <2>1 DEF CleanupReads, Keep, Handling, Turn
  <2>2. CASE Goto(t, "sweep", "queue") /\ task[t].op = "cleanup"
    BY <1>0, <1>14, <1>c, <1>h, <1>n, <2>2 DEF CleanupReads, Goto, Handling, Turn
  <2> QED
    BY <1>14, <2>1, <2>2 DEF CleanupReads
<1>15. CASE Dequeue(t)
  BY <1>15, <1>c, <1>h, <1>n, WriteTurns DEF Dequeue, Turn
<1>16. CASE Sweep(t)
  BY <1>0, <1>16, <1>c, <1>h, <1>n, DoneTurns DEF Sweep, Turn
<1>17. CASE Throw(t)
  <2>1. /\ call' = call /\ queue' = queue /\ rows' = rows /\ (WaitAsked' <=> WaitAsked)
        /\ lost' = (lost \/ LosesTheWait(t))
    BY <1>17, <1>h DEF Throw
  <2>2. timer["wait"] = "set" => timer'["wait"] = "set"
    BY <1>0, <1>17 DEF Throw, SetWaitTimer, TypeOK, Timer
  <2>3. task[t].at # "fire" \/ task[t].op \in Timer
    BY <1>0 DEF Placed
  <2>4. ~lost' => ~Sends(task[t]) /\ (task[t].op = "wait" => timer["wait"] = "set")
    BY <1>0, <2>1, <2>3 DEF LosesTheWait, OffTheWaitTimer, TypeOK, Timer
  <2>5. CASE Done(t)
    BY <1>0, <1>n, <2>1, <2>2, <2>4, <2>5, DoneTurns DEF Turn
  <2>6. CASE Goto(t, "sweep", "queue") /\ task[t].op = "cleanup"
    <3>1. task'[t].op = "sweep" /\ \A u \in Task \ {t} : task'[u] = task[u]
      BY <1>0, <2>6 DEF Goto, Handling
    <3> QED
      BY <1>c, <1>n, <2>1, <2>2, <2>6, <3>1 DEF Turn
  <2> QED
    BY <1>17, <2>5, <2>6 DEF Throw
<1> QED
  BY <1>1, <1>2, <1>3, <1>4, <1>5, <1>6, <1>7, <1>8, <1>9, <1>10, <1>11, <1>12, <1>13, <1>14,
     <1>15, <1>16, <1>17 DEF Step

LEMMA BeginTurns ==
  ASSUME IInv, CarryInv, NEW t \in Task, Begin(t) PROVE Turn(t)
<1> USE DEF At, caller, memory, fault, Sends, Carries, Inside
<1>0. /\ TypeOK /\ task \in [Task -> Handler] /\ ProcessOf[t] \in Process
      /\ call = "live" /\ queue = NoQueue => "ENQUEUE" \notin rows
  BY QueueAssumption DEF IInv, TypeOK, CarryInv, NoQueueYet
<1>1. ASSUME NEW op, NEW at, NEW id, Start(t, op, at, id)
      PROVE  /\ task[t].op = "none" /\ task'[t].op = op
             /\ \A u \in Task \ {t} : task'[u] = task[u]
  BY <1>0, <1>1 DEF Start, Idle, Handling
<1>2. ASSUME NEW id \in JoinId, JoinQueue(t, id) PROVE Turn(t)
  <2>1. WaitAsked' => WaitAsked
    BY <1>0, <1>2 DEF JoinQueue, WaitAsked, TypeOK
  <2> QED
    BY <1>0, <1>1, <1>2, <2>1 DEF JoinQueue, Turn
<1>3. ASSUME NEW n \in Timer, Poll(t, n) PROVE Turn(t)
  <2>1. WaitAsked' <=> WaitAsked
    BY <1>3 DEF Poll, WaitAsked
  <2> QED
    BY <1>0, <1>1, <1>3, <2>1 DEF Poll, Turn, Timer
<1>4. CASE CleanUp(t)
  <2>1. WaitAsked' <=> WaitAsked
    BY <1>4 DEF CleanUp, WaitAsked
  <2> QED
    BY <1>0, <1>1, <1>4, <2>1 DEF CleanUp, Turn
<1> QED
  BY <1>2, <1>3, <1>4 DEF Begin

\* The steps of no handler: the others only lose their version, or a process
\* dies with all of its handlers.
LEMMA OutsideCarries ==
  ASSUME IInv, CarryInv,
         \/ \E n \in Timer : KeyExpires(n)
         \/ OthersWrite \/ CallEnds \/ UNCHANGED vars
  PROVE  CarryInv'
<1> USE DEF At, caller, memory, fault
<1>1. ASSUME NEW u \in Task
      PROVE  task'[u].op = task[u].op /\ task'[u].at = task[u].at /\ task'[u].id = task[u].id
  BY DEF KeyExpires, OthersWrite, CallEnds, vars, Outdated, IInv, TypeOK, Handler
<1>2. /\ \A op : Busy(op)' <=> Busy(op)
      /\ WaitAsked' <=> WaitAsked
      /\ \A u \in Task : /\ Sends(task'[u]) <=> Sends(task[u])
                         /\ Carries(task'[u]) <=> Carries(task[u])
                         /\ Inside(task'[u]) <=> Inside(task[u])
  <2>1. WaitAsked' <=> WaitAsked
    BY DEF KeyExpires, OthersWrite, CallEnds, vars, WaitAsked
  <2> QED
    BY <1>1, <2>1 DEF Busy, Sends, Carries, Inside
<1>3. /\ call' = "live" => call = "live"
      /\ ~lost' => ~lost
      /\ queue' = queue /\ rows' = rows
  BY DEF KeyExpires, OthersWrite, CallEnds, vars, IInv, TypeOK
<1>4. ~lost' /\ timer["wait"] = "set"
        => timer'["wait"] = "set" \/ \E u \in Task : Carries(task[u])
  BY DEF KeyExpires, OthersWrite, CallEnds, vars, IInv, TypeOK, Timer, OffTheWaitTimer, Carries,
     Sends
<1>5. OnlyTheEndCleans' /\ NoQueueYet' /\ OverflowGoesOn'
  BY <1>2, <1>3 DEF CarryInv, OnlyTheEndCleans, NoQueueYet, OverflowGoesOn
<1>6. CallerIsCarried'
  BY <1>2, <1>3, <1>4 DEF CarryInv, CallerIsCarried
<1> QED
  BY <1>5, <1>6 DEF CarryInv

LEMMA RestartCarries ==
  ASSUME IInv, CarryInv, NEW p \in Process, Restart(p) PROVE CarryInv'
<1> USE DEF caller, memory, fault
<1>1. ASSUME NEW u \in Task PROVE task'[u] = Idle \/ task'[u] = task[u]
  BY DEF Restart
<1>2. ~Sends(Idle) /\ ~Carries(Idle) /\ ~Inside(Idle) /\ Idle.op = "none"
  BY DEF Idle, Handling, Sends, Carries, Inside
<1>3. /\ call' = call /\ queue' = queue /\ rows' = rows /\ timer' = timer
      /\ ~lost' => ~lost
      /\ WaitAsked' => WaitAsked
  BY DEF Restart, IInv, TypeOK, WaitAsked
<1>4. ASSUME ~lost', NEW u \in Task, Sends(task[u]) PROVE Sends(task'[u])
  <2>1. task[u].at # "fire"
    BY <1>4 DEF IInv, HandlersOK, Placed, Sends, Timer
  <2> QED
    BY <1>4, <2>1 DEF Restart, LosesTheWait, OffTheWaitTimer, Sends
<1>5. ASSUME ~lost', timer["wait"] # "set", NEW u \in Task, Carries(task[u])
      PROVE  Carries(task'[u])
  <2>1. timer["wait"] = "off"
    BY <1>5 DEF IInv, TypeOK, Timer
  <2> QED
    BY <1>5, <2>1 DEF Restart, LosesTheWait, OffTheWaitTimer, Carries, Sends
<1>6. OnlyTheEndCleans' /\ NoQueueYet'
  BY <1>1, <1>2, <1>3 DEF CarryInv, OnlyTheEndCleans, NoQueueYet, Busy
<1>7. OverflowGoesOn'
  BY <1>3, <1>4 DEF CarryInv, OverflowGoesOn
<1>8. CallerIsCarried'
  BY <1>3, <1>5 DEF CarryInv, CallerIsCarried
<1> QED
  BY <1>6, <1>7, <1>8 DEF CarryInv

\* Only the wait timer can forget a queued caller of a live call: whatever
\* fails or dies elsewhere, whatever becomes of the agents' timer and of the
\* writes of the row, and however often the caller joins, the timer or what it
\* set off carries the caller until the way out is written
\* (queueManager joinQueue, handleWaitTimeout, queueAgentManager handleOverflow,
\* timerService pollExpiredTimers).
THEOREM QueuedCallersAreCarried == Spec => []QueuedCallerIsNotForgotten
<1>1. Init => CarryInv
  <2> SUFFICES ASSUME Init PROVE CarryInv
    OBVIOUS
  <2>1. \A op : Busy(op) => op = "none"
    BY DEF Init, Busy, Idle, Handling
  <2>2. ~WaitAsked /\ rows = {} /\ \A t \in Task : ~Inside(task[t])
    BY DEF Init, WaitAsked, Inside, Idle, Handling
  <2> QED
    BY <2>1, <2>2 DEF CarryInv, OnlyTheEndCleans, NoQueueYet, OverflowGoesOn, CallerIsCarried
<1>2. IInv /\ CarryInv /\ [Next]_vars => CarryInv'
  BY TurnCarries, StepTurns, BeginTurns, OutsideCarries, RestartCarries DEF Next
<1>3. CarryInv /\ TypeOK => QueuedCallerIsNotForgotten
  <2>1. ~Carries(Idle)
    BY DEF Idle, Handling, Carries, Sends
  <2> QED
    BY <2>1 DEF CarryInv, CallerIsCarried, QueuedCallerIsNotForgotten
<1> QED
  BY <1>1, <1>2, <1>3, IInvAlways, QueueTypes, PTL DEF Spec

=============================================================================
