------------------------ MODULE IngressPipelineProofs ------------------------
(***************************************************************************)
(* Proofs that the invariants of IngressPipeline hold for any number of    *)
(* events, POSTs, workers, entries, dead letters and mishaps.              *)
(***************************************************************************)
EXTENDS IngressPipeline, TLAPS

\* Next, with its actions named one by one for the case splits below.
AnyStep ==
  \/ \E p \in Post : \/ Send(p) \/ Check(p) \/ Store(p) \/ Enqueue(p)
                     \/ Mark(p) \/ MarkFails(p)
  \/ \E w \in Worker : \/ Read(w) \/ Dispatch(w) \/ EndBatch(w) \/ AckJob(w)
                       \/ Count(w) \/ MoveToDlq(w) \/ AckFails(w)
                       \/ WorkerFails(w)
  \/ \E c \in Copy : Requeue(c) \/ Delete(c)
  \/ \E e \in Event : Lapse(e) \/ Purge(e)

LEMMA NextIsAnyStep == Next => AnyStep
BY DEF Next, AnyStep, Handle, Work

-----------------------------------------------------------------------------
(***************************************************************************)
(* Types                                                                   *)
(***************************************************************************)
LEMMA TypeOKInit == ASSUME Init PROVE TypeOK
BY IngressAssumption DEF Init, TypeOK

LEMMA TypeOKHandler ==
  ASSUME TypeOK, NEW p \in Post,
         Send(p) \/ Check(p) \/ Store(p) \/ Enqueue(p) \/ Mark(p) \/ MarkFails(p)
  PROVE  TypeOK'
<1> USE DEF TypeOK, streamVars, handlerVars, workerVars, history, At
<1>0. EventOf[p] \in Event
  BY IngressAssumption
<1>1. CASE Send(p)     BY <1>0, <1>1 DEF Send
<1>2. CASE Check(p)    BY <1>0, <1>2 DEF Check, Answer
<1>3. CASE Store(p)    BY <1>0, <1>3 DEF Store
<1>4. CASE Enqueue(p)  BY <1>0, <1>4 DEF Enqueue, NextId, AddEntry
<1>5. CASE Mark(p)     BY <1>0, <1>5 DEF Mark, Answer
<1>6. CASE MarkFails(p)
  BY <1>0, <1>6, IngressAssumption DEF MarkFails, Answer, Mishap
<1> QED
  BY <1>1, <1>2, <1>3, <1>4, <1>5, <1>6

LEMMA TypeOKWorker ==
  ASSUME TypeOK, NEW w \in Worker,
         \/ Read(w) \/ Dispatch(w) \/ EndBatch(w) \/ AckJob(w) \/ Count(w)
         \/ MoveToDlq(w) \/ AckFails(w) \/ WorkerFails(w)
  PROVE  TypeOK'
<1> USE DEF TypeOK, streamVars, handlerVars, workerVars, history, WorkerAt
<1>0. wpc[w] \in {"ack", "dlqack", "failed", "dlq"} => job[w] \in Entry
  OBVIOUS
<1>1. CASE Read(w)
  <2>1. deliveries' \in [Entry -> 0 .. MaxDeliveries]
    BY <1>1, IngressAssumption DEF Read
  <2> QED
    BY <1>1, <2>1 DEF Read, Queued
<1>2. CASE Dispatch(w)    BY <1>2, IngressAssumption DEF Dispatch
<1>3. CASE EndBatch(w)    BY <1>3 DEF EndBatch, WorkerDone
<1>4. CASE AckJob(w)      BY <1>0, <1>4, IngressAssumption DEF AckJob
<1>5. CASE Count(w)       BY <1>5 DEF Count
<1>6. CASE MoveToDlq(w)   BY <1>0, <1>6 DEF MoveToDlq, NextId
<1>7. CASE AckFails(w)    BY <1>7, IngressAssumption DEF AckFails, Mishap
<1>8. CASE WorkerFails(w)
  BY <1>8, IngressAssumption DEF WorkerFails, WorkerDone, Mishap
<1> QED
  BY <1>1, <1>2, <1>3, <1>4, <1>5, <1>6, <1>7, <1>8

LEMMA TypeOKOther ==
  ASSUME TypeOK,
         \/ \E c \in Copy : Requeue(c) \/ Delete(c)
         \/ \E e \in Event : Lapse(e) \/ Purge(e)
         \/ UNCHANGED vars
  PROVE  TypeOK'
<1> USE DEF TypeOK, vars, streamVars, handlerVars, workerVars, history
<1>1. ASSUME NEW c \in Copy, Requeue(c) PROVE TypeOK'
  BY <1>1 DEF Requeue, NextId, AddEntry
<1>2. ASSUME NEW c \in Copy, Delete(c) PROVE TypeOK'
  BY <1>2 DEF Delete
<1>3. ASSUME NEW e \in Event, Lapse(e) PROVE TypeOK'
  BY <1>3, IngressAssumption DEF Lapse, Mishap
<1>4. ASSUME NEW e \in Event, Purge(e) PROVE TypeOK'
  BY <1>4, IngressAssumption DEF Purge, Mishap
<1>5. CASE UNCHANGED vars
  BY <1>5
<1> QED
  BY <1>1, <1>2, <1>3, <1>4, <1>5

LEMMA TypeOKStep ==
  ASSUME TypeOK, [Next]_vars PROVE TypeOK'
BY TypeOKHandler, TypeOKWorker, TypeOKOther, NextIsAnyStep DEF AnyStep

\* Every variable keeps its type, and a worker holds an entry exactly while it
\* is about it.
THEOREM IngressTypes == Spec => []TypeOK
<1>1. Init => TypeOK
  BY TypeOKInit
<1>2. TypeOK /\ [Next]_vars => TypeOK'
  BY TypeOKStep
<1> QED
  BY <1>1, <1>2, PTL DEF Spec

-----------------------------------------------------------------------------
(***************************************************************************)
(* No event that is accepted is lost.  NothingAcceptedIsLost says where an *)
(* event is, which the next step may change: an entry may be acknowledged  *)
(* by a worker that has moved it to the dead letter stream, a dead letter  *)
(* be deleted by a replay that has put it back.  The strengthening counts  *)
(* only what nobody is about to take away.                                 *)
(***************************************************************************)
BeingDropped(x) == \E w \in Worker : wpc[w] = "dlqack" /\ job[w] = x

Solid(e) ==
  \/ e \in processed
  \/ \E x \in Queued : about[x] = e /\ ~BeingDropped(x)
  \/ \E c \in Copy : copy[c] = "dead" /\ copied[c] = e

\* The event is marked or answered, or its handler is about to.
Known(e) ==
  e \in answered \cup marked \/ \E p \in Post : hpc[p] = "mark" /\ EventOf[p] = e

\* What a worker holds has been added, and is processed before it is
\* acknowledged.
HeldIsReal ==
  \A w \in Worker :
    /\ \A x \in todo[w] : entry[x] # "absent"
    /\ job[w] # NoEntry => entry[job[w]] # "absent"
    /\ wpc[w] = "ack" => about[job[w]] \in processed

KnownIsSolid == \A e \in Event : Known(e) => Solid(e)

Inv == TypeOK /\ HeldIsReal /\ KnownIsSolid

LEMMA InvInit == Init => Inv
BY TypeOKInit DEF Init, Inv, HeldIsReal, KnownIsSolid, Known

LEMMA HeldIsRealStep ==
  ASSUME TypeOK, HeldIsReal, [Next]_vars PROVE HeldIsReal'
<1> USE DEF TypeOK, HeldIsReal, streamVars, handlerVars, workerVars, history
<1>1. ASSUME NEW p \in Post, Enqueue(p) PROVE HeldIsReal'
  BY <1>1, IngressAssumption DEF Enqueue, NextId, AddEntry
<1>2. ASSUME NEW p \in Post,
             Send(p) \/ Check(p) \/ Store(p) \/ Mark(p) \/ MarkFails(p)
      PROVE  HeldIsReal'
  BY <1>2 DEF Send, Check, Store, Mark, MarkFails, Answer
<1>3. ASSUME NEW w \in Worker, Read(w) PROVE HeldIsReal'
  BY <1>3 DEF Read, WorkerAt, Queued
<1>4. ASSUME NEW w \in Worker, Dispatch(w) PROVE HeldIsReal'
  BY <1>4 DEF Dispatch, WorkerAt
<1>5. ASSUME NEW w \in Worker, AckJob(w) PROVE HeldIsReal'
  BY <1>5 DEF AckJob, WorkerAt
<1>6. ASSUME NEW w \in Worker,
             EndBatch(w) \/ Count(w) \/ AckFails(w) \/ WorkerFails(w)
      PROVE  HeldIsReal'
  BY <1>6 DEF EndBatch, Count, AckFails, WorkerFails, WorkerDone, WorkerAt
<1>7. ASSUME NEW w \in Worker, MoveToDlq(w) PROVE HeldIsReal'
  BY <1>7 DEF MoveToDlq, WorkerAt
<1>8. ASSUME NEW c \in Copy, Requeue(c) PROVE HeldIsReal'
  BY <1>8, IngressAssumption DEF Requeue, NextId, AddEntry
<1>9. ASSUME NEW c \in Copy, Delete(c) PROVE HeldIsReal'
  BY <1>9 DEF Delete
<1>10. ASSUME NEW e \in Event, Lapse(e) \/ Purge(e) PROVE HeldIsReal'
  BY <1>10 DEF Lapse, Purge
<1>11. CASE UNCHANGED vars
  BY <1>11 DEF vars
<1> QED
  BY <1>1, <1>2, <1>3, <1>4, <1>5, <1>6, <1>7, <1>8, <1>9, <1>10, <1>11,
     NextIsAnyStep DEF AnyStep

\* What is solid stays so.
LEMMA SolidStays ==
  ASSUME TypeOK, HeldIsReal, [Next]_vars, NEW e \in Event, Solid(e)
  PROVE  Solid(e)'
<1> USE DEF TypeOK, Solid, BeingDropped, Queued, streamVars, handlerVars,
            workerVars, history
<1>1. ASSUME NEW p \in Post, Enqueue(p) PROVE Solid(e)'
  BY <1>1 DEF Enqueue, NextId, AddEntry
<1>2. ASSUME NEW p \in Post,
             Send(p) \/ Check(p) \/ Store(p) \/ Mark(p) \/ MarkFails(p)
      PROVE  Solid(e)'
  BY <1>2 DEF Send, Check, Store, Mark, MarkFails, Answer
<1>3. ASSUME NEW w \in Worker, Read(w) PROVE Solid(e)'
  BY <1>3 DEF Read, WorkerAt
<1>4. ASSUME NEW w \in Worker, Dispatch(w) PROVE Solid(e)'
  BY <1>4 DEF Dispatch, WorkerAt
<1>5. ASSUME NEW w \in Worker, AckJob(w) PROVE Solid(e)'
  BY <1>5 DEF AckJob, WorkerAt, HeldIsReal
<1>6. ASSUME NEW w \in Worker,
             EndBatch(w) \/ Count(w) \/ AckFails(w) \/ WorkerFails(w)
      PROVE  Solid(e)'
  BY <1>6 DEF EndBatch, Count, AckFails, WorkerFails, WorkerDone, WorkerAt
<1>7. ASSUME NEW w \in Worker, MoveToDlq(w) PROVE Solid(e)'
  BY <1>7 DEF MoveToDlq, WorkerAt, NextId
<1>8. ASSUME NEW c \in Copy, Requeue(c) PROVE Solid(e)'
  BY <1>8, IngressAssumption DEF Requeue, NextId, AddEntry, HeldIsReal
<1>9. ASSUME NEW c \in Copy, Delete(c) PROVE Solid(e)'
  BY <1>9 DEF Delete
<1>10. ASSUME NEW f \in Event, Lapse(f) \/ Purge(f) PROVE Solid(e)'
  BY <1>10 DEF Lapse, Purge
<1>11. CASE UNCHANGED vars
  BY <1>11 DEF vars
<1> QED
  BY <1>1, <1>2, <1>3, <1>4, <1>5, <1>6, <1>7, <1>8, <1>9, <1>10, <1>11,
     NextIsAnyStep DEF AnyStep

\* What becomes known has just been added to the stream.
LEMMA KnownWasQueued ==
  ASSUME TypeOK, HeldIsReal, [Next]_vars,
         NEW e \in Event, ~Known(e), Known(e)'
  PROVE  Solid(e)'
<1> USE DEF TypeOK, Known, streamVars, handlerVars, workerVars, history
<1>1. ASSUME NEW p \in Post, Enqueue(p) PROVE Solid(e)'
  <2>1. PICK x \in NextId(entry, Entry) : AddEntry(x, EventOf[p])
    BY <1>1 DEF Enqueue
  <2>2. EventOf[p] = e
    BY <1>1 DEF Enqueue, At
  <2>3. x \in Queued' /\ about'[x] = e /\ entry[x] = "absent"
    BY <2>1, <2>2 DEF Queued, NextId, AddEntry
  <2>4. ~BeingDropped(x)'
    BY <1>1, <2>3, IngressAssumption DEF Enqueue, BeingDropped, HeldIsReal
  <2> QED
    BY <2>3, <2>4 DEF Solid
<1>2. ASSUME NEW p \in Post,
             Send(p) \/ Check(p) \/ Store(p) \/ Mark(p) \/ MarkFails(p)
      PROVE  FALSE
  BY <1>2 DEF Send, Check, Store, Mark, MarkFails, Answer, At
<1>3. ASSUME NEW w \in Worker,
             \/ Read(w) \/ Dispatch(w) \/ EndBatch(w) \/ AckJob(w) \/ Count(w)
             \/ MoveToDlq(w) \/ AckFails(w) \/ WorkerFails(w)
      PROVE  FALSE
  BY <1>3 DEF Read, Dispatch, EndBatch, AckJob, Count, MoveToDlq, AckFails,
     WorkerFails
<1>4. ASSUME NEW c \in Copy, Requeue(c) \/ Delete(c) PROVE FALSE
  BY <1>4 DEF Requeue, Delete
<1>5. ASSUME NEW f \in Event, Lapse(f) \/ Purge(f) PROVE FALSE
  BY <1>5 DEF Lapse, Purge
<1>6. CASE UNCHANGED vars
  BY <1>6 DEF vars
<1> QED
  BY <1>1, <1>2, <1>3, <1>4, <1>5, <1>6, NextIsAnyStep DEF AnyStep

LEMMA InvStep == Inv /\ [Next]_vars => Inv'
<1> SUFFICES ASSUME Inv, [Next]_vars PROVE Inv'
  OBVIOUS
<1>1. TypeOK' /\ HeldIsReal'
  BY TypeOKStep, HeldIsRealStep DEF Inv
<1>2. ASSUME NEW e \in Event, Known(e)' PROVE Solid(e)'
  BY <1>2, SolidStays, KnownWasQueued DEF Inv, KnownIsSolid
<1> QED
  BY <1>1, <1>2 DEF Inv, KnownIsSolid

\* An event that was answered 200, or is marked so that the next POST of it
\* will be, is processed, queued or a dead letter.
THEOREM AcceptedIsKept == Spec => []NothingAcceptedIsLost
<1>1. Inv => NothingAcceptedIsLost
  BY DEF Inv, TypeOK, KnownIsSolid, Known, Solid, NothingAcceptedIsLost, Kept
<1> QED
  BY <1>1, InvInit, InvStep, PTL DEF Spec

-----------------------------------------------------------------------------
(***************************************************************************)
(* Payloads outlast the entries that refer to them                         *)
(***************************************************************************)
\* The payload is stored before the entry is added, and an entry that goes to
\* the dead letter stream and back still refers to it.
PayloadsAreKept ==
  /\ \A p \in Post : hpc[p] = "enqueue" => EventOf[p] \in payload \cup lapsed
  /\ \A x \in Entry : entry[x] # "absent" => about[x] \in payload \cup lapsed
  /\ \A c \in Copy :
       copy[c] \in {"dead", "requeued"} => copied[c] \in payload \cup lapsed

LEMMA PayloadsAreKeptStep ==
  ASSUME Inv, PayloadsAreKept, [Next]_vars PROVE PayloadsAreKept'
<1> USE DEF Inv, TypeOK, PayloadsAreKept, streamVars, handlerVars, workerVars,
            history
<1>1. ASSUME NEW p \in Post,
             \/ Send(p) \/ Check(p) \/ Store(p) \/ Enqueue(p)
             \/ Mark(p) \/ MarkFails(p)
      PROVE  PayloadsAreKept'
  BY <1>1 DEF Send, Check, Store, Enqueue, Mark, MarkFails, Answer, At,
     NextId, AddEntry
<1>2. ASSUME NEW w \in Worker,
             \/ Read(w) \/ Dispatch(w) \/ EndBatch(w) \/ AckJob(w) \/ Count(w)
             \/ MoveToDlq(w) \/ AckFails(w) \/ WorkerFails(w)
      PROVE  PayloadsAreKept'
  <2>1. \A x \in Entry : entry'[x] # "absent" => entry[x] # "absent"
    BY <1>2 DEF Read, Dispatch, EndBatch, AckJob, Count, MoveToDlq, AckFails,
       WorkerFails, Queued, HeldIsReal
  <2>2. job[w] # NoEntry => about[job[w]] \in payload \cup lapsed
    BY DEF HeldIsReal
  <2>3. CASE MoveToDlq(w)
    BY <2>1, <2>2, <2>3 DEF MoveToDlq, NextId
  <2>4. CASE ~MoveToDlq(w)
    BY <1>2, <2>1, <2>4 DEF Read, Dispatch, EndBatch, AckJob, Count, AckFails,
       WorkerFails
  <2> QED
    BY <2>3, <2>4
<1>3. ASSUME NEW c \in Copy, Requeue(c) \/ Delete(c) PROVE PayloadsAreKept'
  BY <1>3 DEF Requeue, Delete, NextId, AddEntry
<1>4. ASSUME NEW e \in Event, Lapse(e) \/ Purge(e) PROVE PayloadsAreKept'
  BY <1>4 DEF Lapse, Purge
<1>5. CASE UNCHANGED vars
  BY <1>5 DEF vars
<1> QED
  BY <1>1, <1>2, <1>3, <1>4, <1>5, NextIsAnyStep DEF AnyStep

\* A worker that takes an entry finds its payload, unless it has lapsed.
THEOREM QueuedIsReadable == Spec => []QueuedHasPayload
<1>1. Init => Inv /\ PayloadsAreKept
  BY InvInit DEF Init, PayloadsAreKept
<1>2. Inv /\ PayloadsAreKept /\ [Next]_vars => (Inv /\ PayloadsAreKept)'
  BY InvStep, PayloadsAreKeptStep
<1>3. PayloadsAreKept => QueuedHasPayload
  BY DEF PayloadsAreKept, QueuedHasPayload, Queued
<1> QED
  BY <1>1, <1>2, <1>3, PTL DEF Spec

-----------------------------------------------------------------------------
(***************************************************************************)
(* Late POSTs                                                              *)
(***************************************************************************)
MarksAreKept ==
  /\ answered \subseteq marked \cup excused
  /\ \A p \in Post : late[p] => EventOf[p] \in answered
  /\ AnsweredEventIsNotQueuedAgain

LEMMA MarksAreKeptStep ==
  ASSUME TypeOK, MarksAreKept, [Next]_vars PROVE MarksAreKept'
<1> USE DEF TypeOK, MarksAreKept, AnsweredEventIsNotQueuedAgain, streamVars,
            handlerVars, workerVars, history
<1>1. ASSUME NEW p \in Post,
             \/ Send(p) \/ Check(p) \/ Store(p) \/ Enqueue(p)
             \/ Mark(p) \/ MarkFails(p)
      PROVE  MarksAreKept'
  BY <1>1 DEF Send, Check, Store, Enqueue, Mark, MarkFails, Answer, At,
     NextId, AddEntry
<1>2. ASSUME NEW w \in Worker,
             \/ Read(w) \/ Dispatch(w) \/ EndBatch(w) \/ AckJob(w) \/ Count(w)
             \/ MoveToDlq(w) \/ AckFails(w) \/ WorkerFails(w)
      PROVE  MarksAreKept'
  BY <1>2 DEF Read, Dispatch, EndBatch, AckJob, Count, MoveToDlq, AckFails,
     WorkerFails
<1>3. ASSUME NEW c \in Copy, Requeue(c) \/ Delete(c) PROVE MarksAreKept'
  BY <1>3 DEF Requeue, Delete, NextId, AddEntry
<1>4. ASSUME NEW e \in Event, Lapse(e) \/ Purge(e) PROVE MarksAreKept'
  BY <1>4 DEF Lapse, Purge
<1>5. CASE UNCHANGED vars
  BY <1>5 DEF vars
<1> QED
  BY <1>1, <1>2, <1>3, <1>4, <1>5, NextIsAnyStep DEF AnyStep

\* A POST that comes after its event was answered adds no entry, unless the
\* event's mark failed or was purged.
THEOREM LatePostsAreDropped == Spec => []AnsweredEventIsNotQueuedAgain
<1>1. Init => TypeOK /\ MarksAreKept
  BY TypeOKInit DEF Init, MarksAreKept, AnsweredEventIsNotQueuedAgain
<1>2. TypeOK /\ MarksAreKept /\ [Next]_vars => (TypeOK /\ MarksAreKept)'
  BY TypeOKStep, MarksAreKeptStep
<1>3. MarksAreKept => AnsweredEventIsNotQueuedAgain
  BY DEF MarksAreKept
<1> QED
  BY <1>1, <1>2, <1>3, PTL DEF Spec
=============================================================================
