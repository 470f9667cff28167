------------------------- MODULE CommandOutboxProofs -------------------------
(***************************************************************************)
(* Safety of the command outbox for any number of workers, commands,       *)
(* sessions and attempts.                                                  *)
(***************************************************************************)
EXTENDS CommandOutbox, TLAPS

\* The worker that is on a row knows which.
RowKnown ==
  \A w \in Worker :
    /\ pc[w] \in Section \cup {"sent", "stubfail"} => cur[w] \in Command
    /\ pc[w] \in {"locked", "calling", "answered"} => ExecutorEnabled
    /\ pc[w] \in {"sent", "stubfail"} => ~ExecutorEnabled

\* A row that does not exist yet has no attempts behind it.
NewRowsAreFresh == \A c \in Command : status[c] = "ABSENT" => attempts[c] = 0

\* Types, and what the guards of the other conjuncts need.
TInv == TypeOK /\ RowKnown /\ NewRowsAreFresh /\ NoStrandedRow

LEMMA InitTInv == Init => TInv
  BY OutboxAssumption DEF Init, TInv, TypeOK, RowKnown, NewRowsAreFresh,
     NoStrandedRow, Status, Section, Control, Answer, Positive, Negative

\* The worker part of the invariant after the helpers that end a row or a
\* batch.
WorkerPart ==
  /\ pc \in [Worker -> Control]
  /\ todo \in [Worker -> SUBSET Command]
  /\ cur \in [Worker -> Command \cup {NoCommand}]
  /\ answer \in [Worker -> Answer]
  /\ seen \in [Worker -> 0 .. (MaxAttempts - 1)]
  /\ RowKnown

LEMMA AbortBatchTypes ==
  ASSUME TInv, NEW w \in Worker, AbortBatch(w) PROVE WorkerPart'
  BY OutboxAssumption DEF AbortBatch, TInv, TypeOK, RowKnown, WorkerPart, Section,
     Control, Answer, Positive, Negative

LEMMA NextRowTypes ==
  ASSUME TInv, NEW w \in Worker, NextRow(w) PROVE WorkerPart'
  BY OutboxAssumption DEF NextRow, TInv, TypeOK, RowKnown, WorkerPart, Section,
     Control, Answer, Positive, Negative

LEMMA ReleaseTypes ==
  ASSUME TInv, NEW w \in Worker, Release(w)
  PROVE lock' \in [Session -> Worker \cup {Free, Other}]
  BY DEF Release, TInv, TypeOK

LEMMA StepTInv == TInv /\ [Next]_vars => TInv'
<1> SUFFICES ASSUME TInv, [Next]_vars PROVE TInv'
  OBVIOUS
<1> USE OutboxAssumption
        DEF TInv, TypeOK, RowKnown, NewRowsAreFresh, NoStrandedRow, WorkerPart,
            Status, Section, Control, Answer, Positive, Negative, rowVars, workerVars, carrierVars
<1>1. ASSUME NEW w \in Worker, Claim(w) PROVE TInv'
  <2>1. PICK S \in SUBSET Claimable :
          /\ status' = [c \in Command |-> IF c \in S THEN "PROCESSING" ELSE status[c]]
          /\ owner'  = [c \in Command |-> IF c \in S THEN w ELSE owner[c]]
          /\ leased' = [c \in Command |-> IF c \in S THEN TRUE ELSE leased[c]]
          /\ todo'   = [todo EXCEPT ![w] = S]
    BY <1>1 DEF Claim
  <2>2. /\ S \subseteq Command
        /\ \A c \in S : attempts[c] < MaxAttempts
    BY DEF Claimable
  <2> QED BY <1>1, <2>1, <2>2 DEF Claim
<1>2. ASSUME NEW w \in Worker, TakeLock(w) PROVE TInv'
  <2>1. PICK c \in NextRows(w) :
          /\ lock' = [lock EXCEPT ![SessionOf[c]] = w]
          /\ cur'  = [cur EXCEPT ![w] = c]
          /\ todo' = [todo EXCEPT ![w] = @ \ {c}]
    BY <1>2 DEF TakeLock
  <2>2. c \in Command
    BY DEF NextRows
  <2> QED BY <1>2, <2>1, <2>2 DEF TakeLock
<1>3. ASSUME NEW w \in Worker, LockTimeout(w) PROVE TInv'
  BY <1>3, AbortBatchTypes DEF LockTimeout
<1>4. ASSUME NEW w \in Worker, RecordStarted(w) PROVE TInv'
  <2>1. CASE Owned(w, cur[w])
    BY <1>4, <2>1 DEF RecordStarted
  <2>2. CASE AbortBatch(w) /\ Release(w)
    BY <1>4, <2>2, AbortBatchTypes, ReleaseTypes DEF RecordStarted
  <2> QED BY <1>4, <2>1, <2>2 DEF RecordStarted
<1>5. ASSUME NEW w \in Worker, CallCarrier(w) PROVE TInv'
  BY <1>5 DEF CallCarrier, Final
<1>6. ASSUME NEW w \in Worker, Complete(w) PROVE TInv'
  BY <1>6, NextRowTypes, ReleaseTypes DEF Complete
<1>7. ASSUME NEW w \in Worker, ReadForFailure(w) PROVE TInv'
  <2>1. CASE Owned(w, cur[w])
    BY <1>7, <2>1 DEF ReadForFailure, Owned
  <2>2. CASE ~Owned(w, cur[w])
    BY <1>7, <2>2, NextRowTypes, ReleaseTypes DEF ReadForFailure
  <2> QED BY <2>1, <2>2
<1>8. ASSUME NEW w \in Worker, WriteFailure(w) PROVE TInv'
  <2> DEFINE dead == answer[w] = "refused" \/ seen[w] + 1 >= MaxAttempts
  <2>1. /\ pc[w] = "failing" /\ cur[w] \in Command
        /\ attempts' = [attempts EXCEPT ![cur[w]] = seen[w] + 1]
        /\ status'   = [status EXCEPT ![cur[w]] = IF dead THEN "DEAD" ELSE "FAILED"]
        /\ owner'    = [owner EXCEPT ![cur[w]] = NoWorker]
        /\ leased'   = [leased EXCEPT ![cur[w]] = FALSE]
        /\ due'      = [due EXCEPT ![cur[w]] = IF dead THEN @ ELSE FALSE]
        /\ NextRow(w) /\ Release(w) /\ UNCHANGED carrierVars
    BY <1>8 DEF WriteFailure, FailureWrite, RecordFailure
  <2>2. seen[w] + 1 \in 0 .. MaxAttempts /\ (~dead => seen[w] + 1 < MaxAttempts)
    OBVIOUS
  <2> HIDE DEF dead
  <2>3. WorkerPart' /\ lock' \in [Session -> Worker \cup {Free, Other}]
    BY <2>1, NextRowTypes, ReleaseTypes
  <2>4. /\ attempts' \in [Command -> 0 .. MaxAttempts]
        /\ status' \in [Command -> Status]
        /\ owner' \in [Command -> Worker \cup {NoWorker}]
        /\ leased' \in [Command -> BOOLEAN]
    BY <2>1, <2>2
  <2>5. due' \in [Command -> BOOLEAN]
    BY <2>1, Zenon
  <2>6. NoStrandedRow' /\ NewRowsAreFresh'
    BY <2>1, <2>2
  <2> QED BY <2>1, <2>3, <2>4, <2>5, <2>6
<1>9. ASSUME NEW w \in Worker, StubSend(w) PROVE TInv'
  <2>1. PICK c \in todo[w] :
          /\ cur'  = [cur EXCEPT ![w] = c]
          /\ todo' = [todo EXCEPT ![w] = @ \ {c}]
          /\ \/ /\ status' = [status EXCEPT ![c] = "SENT"]
                /\ pc'     = [pc EXCEPT ![w] = "sent"]
             \/ /\ pc' = [pc EXCEPT ![w] = "stubfail"]
                /\ UNCHANGED status
    BY <1>9 DEF StubSend
  <2> QED BY <1>9, <2>1 DEF StubSend
<1>10. ASSUME NEW w \in Worker, StubAck(w) PROVE TInv'
  <2>1. CASE /\ status' = [status EXCEPT ![cur[w]] = "ACKED"]
             /\ owner'  = [owner EXCEPT ![cur[w]] = NoWorker]
             /\ leased' = [leased EXCEPT ![cur[w]] = FALSE]
             /\ NextRow(w)
    <3>1. cur[w] \in Command /\ UNCHANGED <<attempts, due, lock, carrierVars>>
      BY <1>10 DEF StubAck
    <3>2. WorkerPart'
      BY <2>1, NextRowTypes
    <3> QED BY <2>1, <3>1, <3>2
  <2>2. CASE UNCHANGED <<status, owner, leased, todo, cur, answer, seen>>
    BY <1>10, <2>2 DEF StubAck
  <2> QED BY <1>10, <2>1, <2>2 DEF StubAck
<1>11. ASSUME NEW w \in Worker, StubReadForFailure(w) PROVE TInv'
  <2>1. CASE Owned(w, cur[w])
    BY <1>11, <2>1 DEF StubReadForFailure, Owned
  <2>2. CASE ~Owned(w, cur[w])
    BY <1>11, <2>2, NextRowTypes DEF StubReadForFailure
  <2> QED BY <2>1, <2>2
<1>12. ASSUME NEW w \in Worker, CompleteThrows(w) PROVE TInv'
  <2>1. CASE answer[w] = "done"
    BY <1>12, <2>1 DEF CompleteThrows
  <2>2. CASE answer[w] # "done"
    BY <1>12, <2>2, AbortBatchTypes, ReleaseTypes DEF CompleteThrows
  <2> QED BY <2>1, <2>2
<1>13. ASSUME NEW w \in Worker, StoreFails(w) PROVE TInv'
  BY <1>13, AbortBatchTypes, ReleaseTypes DEF StoreFails
<1>14. ASSUME NEW w \in Worker, StubStoreFails(w) PROVE TInv'
  BY <1>14, NextRowTypes DEF StubStoreFails
<1>15. ASSUME NEW w \in Worker, RenewLease(w) PROVE TInv'
  BY <1>15 DEF RenewLease
<1>16. ASSUME NEW w \in Worker, Crash(w) PROVE TInv'
  BY <1>16, AbortBatchTypes DEF Crash
<1>17. ASSUME NEW c \in Command, RowStep(c) PROVE TInv'
  <2>1. CASE Enqueue(c)
    BY <2>1 DEF Enqueue
  <2>2. CASE LeaseExpires(c)
    BY <2>2 DEF LeaseExpires
  <2>4. CASE BackoffElapses(c)
    <3>1. due' \in [Command -> BOOLEAN]
      BY <2>4, Zenon DEF BackoffElapses
    <3> QED BY <2>4, <3>1 DEF BackoffElapses
  <2>3. CASE Purge(c)
    BY <2>3 DEF Purge
  <2> QED BY <1>17, <2>1, <2>2, <2>3, <2>4 DEF RowStep
<1>18. ASSUME NEW s \in Session, LockStep(s) PROVE TInv'
  BY <1>18 DEF LockStep, LockExpires, OtherLocks
<1>19. CASE UNCHANGED vars
  BY <1>19 DEF vars
<1> QED
  BY <1>1, <1>2, <1>3, <1>4, <1>5, <1>6, <1>7, <1>8, <1>9, <1>10, <1>11, <1>12,
     <1>13, <1>14, <1>15, <1>16, <1>17, <1>18, <1>19
     DEF Next, WorkerStep, ExecutorStep, StubStep

\* The variables keep their types, for every number of workers, commands,
\* sessions and attempts.  All of Outbox/commandOutbox.js and the executor.
THEOREM TypeCorrect == Spec => []TypeOK
<1>1. Init => TInv
  BY InitTInv
<1>2. TInv /\ [Next]_vars => TInv'
  BY StepTInv
<1>3. TInv => TypeOK
  BY DEF TInv
<1> QED BY <1>1, <1>2, <1>3, PTL DEF Spec

\* No unsettled row is out of the reach of claimPendingCommands, however
\* reclaims and stale failure writes interleave.
THEOREM NoRowIsStranded == Spec => []NoStrandedRow
<1>1. TInv => NoStrandedRow
  BY DEF TInv
<1> QED BY <1>1, InitTInv, StepTInv, PTL DEF Spec

THEOREM TInvHolds == Spec => []TInv
BY InitTInv, StepTInv, PTL DEF Spec
-----------------------------------------------------------------------------
(***************************************************************************)
(* Session locks.                                                          *)
(***************************************************************************)
LockInv ==
  /\ LocksDoNotLeak
  /\ \A s \in Session, w \in Worker : lock[s] = w => ExecutorEnabled

LEMMA ReleaseFrees ==
  ASSUME TInv, NEW w \in Worker, Release(w),
         NEW s \in Session, NEW v \in Worker, lock'[s] = v
  PROVE  v # w /\ lock[s] = v
BY OutboxAssumption DEF Release, TInv, TypeOK

\* The worker that ends a row or a batch moves no other worker.
LEMMA OthersStay ==
  ASSUME TInv, NEW w \in Worker, NextRow(w) \/ AbortBatch(w),
         NEW v \in Worker, v # w
  PROVE  /\ pc'[v] = pc[v] /\ cur'[v] = cur[v] /\ answer'[v] = answer[v]
         /\ seen'[v] = seen[v] /\ todo'[v] = todo[v]
BY DEF NextRow, AbortBatch, TInv, TypeOK

LEMMA StepLockInv == TInv /\ LockInv /\ [Next]_vars => LockInv'
<1> SUFFICES ASSUME TInv, LockInv, [Next]_vars,
                    NEW s \in Session, NEW v \in Worker, lock'[s] = v
             PROVE  /\ pc'[v] \in Section /\ SessionOf[cur'[v]] = s
                    /\ ExecutorEnabled
  BY DEF LockInv, LocksDoNotLeak
<1> DEFINE Held == pc'[v] \in Section /\ SessionOf[cur'[v]] = s /\ ExecutorEnabled
<1> SUFFICES Held
  OBVIOUS
<1>a. lock[s] = v => pc[v] \in Section /\ SessionOf[cur[v]] = s /\ ExecutorEnabled
  BY DEF LockInv, LocksDoNotLeak
<1>b. pc \in [Worker -> Control] /\ cur \in [Worker -> Command \cup {NoCommand}]
  BY DEF TInv, TypeOK
<1>c. lock \in [Session -> Worker \cup {Free, Other}]
  BY DEF TInv, TypeOK
<1>d. ASSUME NEW w \in Worker, NextRow(w) \/ AbortBatch(w), Release(w) PROVE Held
  BY <1>a, <1>d, ReleaseFrees, OthersStay
<1>e. ASSUME NEW w \in Worker, NextRow(w) \/ AbortBatch(w), UNCHANGED lock,
             pc[w] \notin Section \/ ~ExecutorEnabled
      PROVE  Held
  BY <1>a, <1>e, OthersStay
<1>f. ASSUME NEW w \in Worker, UNCHANGED <<cur, lock>>,
             NEW x \in Section, pc' = [pc EXCEPT ![w] = x]
      PROVE  Held
  BY <1>a, <1>b, <1>f
<1>g. ASSUME UNCHANGED <<cur, lock, pc>> PROVE Held
  BY <1>a, <1>g
<1> HIDE DEF Held
<1>1. ASSUME NEW w \in Worker, Claim(w) PROVE Held
  BY <1>1, <1>a, <1>b DEF Claim, Section, Held
<1>2. ASSUME NEW w \in Worker, TakeLock(w) PROVE Held
  <2>1. PICK c \in NextRows(w) :
          /\ lock' = [lock EXCEPT ![SessionOf[c]] = w]
          /\ cur'  = [cur EXCEPT ![w] = c]
    BY <1>2 DEF TakeLock
  <2>2. ExecutorEnabled /\ pc[w] = "batch" /\ pc' = [pc EXCEPT ![w] = "locked"]
    BY <1>2 DEF TakeLock
  <2>3. CASE v = w
    <3>1. lock[s] # v
      BY <1>a, <2>2, <2>3 DEF Section
    <3>2. s = SessionOf[c]
      BY <1>c, <2>1, <3>1
    <3> QED BY <1>b, <2>1, <2>2, <2>3, <3>2 DEF Held, Section
  <2>4. CASE v # w
    BY <1>a, <1>b, <1>c, <2>1, <2>2, <2>4 DEF Held
  <2> QED BY <2>3, <2>4
<1>3. ASSUME NEW w \in Worker, LockTimeout(w) PROVE Held
  BY <1>3, <1>e DEF LockTimeout, Section
<1>4. ASSUME NEW w \in Worker, RecordStarted(w) PROVE Held
  BY <1>4, <1>d, <1>f DEF RecordStarted, Section
<1>5. ASSUME NEW w \in Worker, CallCarrier(w) PROVE Held
  BY <1>5, <1>f DEF CallCarrier, Section
<1>6. ASSUME NEW w \in Worker, Complete(w) PROVE Held
  BY <1>6, <1>d DEF Complete
<1>7. ASSUME NEW w \in Worker, ReadForFailure(w) PROVE Held
  BY <1>7, <1>d, <1>f DEF ReadForFailure, Section
<1>8. ASSUME NEW w \in Worker, WriteFailure(w) PROVE Held
  BY <1>8, <1>d DEF WriteFailure
<1>9. ASSUME NEW w \in Worker, StubSend(w) PROVE Held
  BY <1>9, <1>a, <1>b DEF StubSend
<1>10. ASSUME NEW w \in Worker, StubAck(w) PROVE Held
  <2>1. pc[w] = "sent" /\ UNCHANGED lock /\ ~ExecutorEnabled
    BY <1>10 DEF StubAck, TInv, RowKnown
  <2> QED BY <1>a, <2>1
<1>11. ASSUME NEW w \in Worker, StubReadForFailure(w) PROVE Held
  <2>1. UNCHANGED lock /\ ~ExecutorEnabled
    BY <1>11 DEF StubReadForFailure, TInv, RowKnown
  <2> QED BY <1>a, <2>1
<1>12. ASSUME NEW w \in Worker, CompleteThrows(w) PROVE Held
  BY <1>12, <1>d, <1>g DEF CompleteThrows
<1>13. ASSUME NEW w \in Worker, StoreFails(w) PROVE Held
  BY <1>13, <1>d DEF StoreFails
<1>14. ASSUME NEW w \in Worker, StubStoreFails(w) PROVE Held
  BY <1>14, <1>e DEF StubStoreFails
<1>15. ASSUME NEW w \in Worker, RenewLease(w) PROVE Held
  BY <1>15, <1>g DEF RenewLease, workerVars
<1>16. ASSUME NEW w \in Worker, Crash(w) PROVE Held
  <2>1. lock[s] = v /\ v # w
    BY <1>16, OutboxAssumption DEF Crash
  <2> QED BY <1>16, <1>a, <2>1, OthersStay DEF Crash, Held
<1>17. ASSUME NEW c \in Command, RowStep(c) PROVE Held
  BY <1>17, <1>g DEF RowStep, Enqueue, LeaseExpires, BackoffElapses, Purge, workerVars
<1>18. ASSUME NEW t \in Session, LockStep(t) PROVE Held
  BY <1>18, <1>a, <1>c, OutboxAssumption
     DEF LockStep, LockExpires, OtherLocks, workerVars, Held
<1>19. CASE UNCHANGED vars
  BY <1>19, <1>g DEF vars, workerVars
<1> QED
  BY <1>1, <1>2, <1>3, <1>4, <1>5, <1>6, <1>7, <1>8, <1>9, <1>10, <1>11, <1>12,
     <1>13, <1>14, <1>15, <1>16, <1>17, <1>18, <1>19
     DEF Next, WorkerStep, ExecutorStep, StubStep

\* A session lock in the name of a worker always belongs to the row the worker
\* is executing: withLock and every way out of executeOneCommand.
THEOREM NoLockLeaks == Spec => []LocksDoNotLeak
<1>1. Init => LockInv
  BY OutboxAssumption DEF Init, LockInv, LocksDoNotLeak
<1>2. LockInv => LocksDoNotLeak
  BY DEF LockInv
<1> QED BY <1>1, <1>2, TInvHolds, StepLockInv, PTL DEF Spec
-----------------------------------------------------------------------------
(***************************************************************************)
(* Acknowledgements and dead letters.  The count of attempts in a row      *)
(* never runs ahead of the calls really made: a worker that has its answer *)
(* and still owns the row has made a call the row does not count yet, and  *)
(* what it read before a failure write is smaller than the calls made.     *)
(***************************************************************************)
Counted ==
  /\ \A c \in Command : attempts[c] <= tries[c]
  /\ \A w \in Worker :
       /\ pc[w] = "answered" /\ Owned(w, cur[w]) => attempts[cur[w]] < tries[cur[w]]
       /\ pc[w] = "failing" => seen[w] < tries[cur[w]]

Answered ==
  \A w \in Worker :
    pc[w] \in {"answered", "failing"} => Final(answer[w]) \subseteq verdict[cur[w]]

OutcomeInv ==
  ExecutorEnabled => Counted /\ Answered /\ AckedWasConfirmed /\ DeadIsJustified

LEMMA InitOutcomeInv == Init => OutcomeInv
BY OutboxAssumption DEF Init, OutcomeInv, Counted, Answered, AckedWasConfirmed,
   DeadIsJustified

\* Steps that touch neither the carrier's history nor the attempts keep it,
\* if no row becomes ACKED, DEAD or the row of a worker with an answer.
LEMMA OutcomeFrame ==
  ASSUME TInv, OutcomeInv, ExecutorEnabled,
         UNCHANGED <<attempts, carrierVars>>,
         \A c \in Command : status'[c] \in {"ACKED", "DEAD"} => status'[c] = status[c],
         \A w \in Worker :
           pc'[w] \in {"answered", "failing"} =>
             /\ pc'[w] = pc[w] /\ cur'[w] = cur[w] /\ seen'[w] = seen[w]
             /\ Final(answer'[w]) \subseteq Final(answer[w])
             /\ Owned(w, cur[w])' => Owned(w, cur[w])
  PROVE  OutcomeInv'
<1> USE DEF OutcomeInv, carrierVars
<1>1. Counted'
  BY DEF Counted, Owned, TInv, RowKnown, Section
<1>2. Answered'
  BY DEF Answered
<1>3. AckedWasConfirmed' /\ DeadIsJustified'
  BY DEF AckedWasConfirmed, DeadIsJustified
<1> QED BY <1>1, <1>2, <1>3

LEMMA StepOutcomeInv == TInv /\ TInv' /\ OutcomeInv /\ [Next]_vars => OutcomeInv'
<1> SUFFICES ASSUME TInv, TInv', OutcomeInv, [Next]_vars, ExecutorEnabled
             PROVE  OutcomeInv'
  BY DEF OutcomeInv
<1> USE OutboxAssumption
<1>a. /\ status \in [Command -> Status] /\ owner \in [Command -> Worker \cup {NoWorker}]
      /\ attempts \in [Command -> 0 .. MaxAttempts] /\ tries \in [Command -> 0 .. MaxAttempts]
      /\ verdict \in [Command -> SUBSET {"ok", "refused"}]
      /\ pc \in [Worker -> Control] /\ cur \in [Worker -> Command \cup {NoCommand}]
      /\ answer \in [Worker -> Answer] /\ seen \in [Worker -> 0 .. (MaxAttempts - 1)]
      /\ todo \in [Worker -> SUBSET Command]
  BY DEF TInv, TypeOK
<1>b. \A w \in Worker : pc[w] \in Section \cup {"sent", "stubfail"} => cur[w] \in Command
  BY DEF TInv, RowKnown
<1>c. ASSUME NEW w \in Worker, NextRow(w) \/ AbortBatch(w)
      PROVE  \A v \in Worker :
               /\ v = w => pc'[v] \notin {"answered", "failing"}
               /\ v # w => /\ pc'[v] = pc[v] /\ cur'[v] = cur[v]
                           /\ answer'[v] = answer[v] /\ seen'[v] = seen[v]
  <2>1. pc'[w] \in {"idle", "batch"}
    BY <1>a, <1>c DEF NextRow, AbortBatch
  <2> QED BY <1>c, <2>1, OthersStay
<1>d. ASSUME NEW w \in Worker, NextRow(w) \/ AbortBatch(w),
             UNCHANGED <<status, owner, attempts, carrierVars>>
      PROVE  OutcomeInv'
  BY <1>c, <1>d, OutcomeFrame DEF Owned
<1>e. ASSUME UNCHANGED <<status, owner, attempts, carrierVars, pc, cur, answer, seen>>
      PROVE  OutcomeInv'
  BY <1>e, OutcomeFrame DEF Owned
<1>1. ASSUME NEW w \in Worker, Claim(w) PROVE OutcomeInv'
  <2>1. PICK S \in SUBSET Claimable :
          /\ status' = [c \in Command |-> IF c \in S THEN "PROCESSING" ELSE status[c]]
          /\ owner'  = [c \in Command |-> IF c \in S THEN w ELSE owner[c]]
    BY <1>1 DEF Claim
  <2>2. \A v \in Worker, c \in Command : pc[v] # "idle" /\ Owned(v, c)' => Owned(v, c)
    BY <1>1, <2>1 DEF Claim, Owned
  <2>3. /\ UNCHANGED <<attempts, carrierVars, cur, answer, seen>>
        /\ pc' = [pc EXCEPT ![w] = "batch"]
    BY <1>1 DEF Claim
  <2>4. \A v \in Worker : pc'[v] \in {"answered", "failing"} =>
          /\ pc'[v] = pc[v]
          /\ Owned(v, cur[v])' => Owned(v, cur[v])
    BY <1>a, <1>b, <2>2, <2>3 DEF Section, Owned
  <2>5. \A c \in Command : status'[c] \in {"ACKED", "DEAD"} => status'[c] = status[c]
    BY <2>1
  <2> QED BY <2>3, <2>4, <2>5, OutcomeFrame
<1>2. ASSUME NEW w \in Worker, TakeLock(w) PROVE OutcomeInv'
  <2>1. /\ pc' = [pc EXCEPT ![w] = "locked"]
        /\ UNCHANGED <<rowVars, answer, seen, carrierVars>>
        /\ \A v \in Worker : v # w => cur'[v] = cur[v]
    BY <1>2, <1>a DEF TakeLock
  <2> QED BY <1>a, <2>1, OutcomeFrame DEF rowVars, Owned
<1>3. ASSUME NEW w \in Worker, LockTimeout(w) PROVE OutcomeInv'
  BY <1>3, <1>d DEF LockTimeout, rowVars
<1>4. ASSUME NEW w \in Worker, RecordStarted(w) PROVE OutcomeInv'
  <2>1. CASE AbortBatch(w)
    BY <1>4, <1>d, <2>1 DEF RecordStarted, rowVars
  <2>2. CASE pc' = [pc EXCEPT ![w] = "calling"] /\ UNCHANGED <<cur, answer, seen>>
    BY <1>4, <1>a, <2>2, OutcomeFrame DEF RecordStarted, rowVars, Owned
  <2> QED BY <1>4, <2>1, <2>2 DEF RecordStarted
<1>5. ASSUME NEW w \in Worker, CallCarrier(w) PROVE OutcomeInv'
  <2>1. /\ pc[w] = "calling" /\ cur[w] \in Command
        /\ pc' = [pc EXCEPT ![w] = "answered"]
        /\ UNCHANGED <<status, owner, attempts, cur, seen>>
    BY <1>5, <1>b DEF CallCarrier, Section, rowVars
  <2>2. PICK a \in Answer :
          /\ answer'  = [answer EXCEPT ![w] = a]
          /\ tries'   = [tries EXCEPT ![cur[w]] = IF @ < MaxAttempts THEN @ + 1 ELSE @]
          /\ verdict' = [verdict EXCEPT ![cur[w]] = @ \cup Final(a)]
    BY <1>5 DEF CallCarrier
  <2>3. \A c \in Command : tries[c] <= tries'[c] /\ verdict[c] \subseteq verdict'[c]
    BY <1>a, <2>1, <2>2
  <2>4. Owned(w, cur[w]) => attempts[cur[w]] < tries'[cur[w]]
    <3>1. Owned(w, cur[w]) => attempts[cur[w]] < MaxAttempts
      BY <2>1 DEF TInv, NoStrandedRow, Owned
    <3>2. attempts[cur[w]] <= tries[cur[w]]
      BY <2>1 DEF OutcomeInv, Counted
    <3>3. /\ attempts[cur[w]] \in 0 .. MaxAttempts /\ tries[cur[w]] \in 0 .. MaxAttempts
          /\ tries'[cur[w]] = IF tries[cur[w]] < MaxAttempts THEN tries[cur[w]] + 1
                              ELSE tries[cur[w]]
      BY <1>a, <2>1, <2>2
    <3> QED BY <3>1, <3>2, <3>3
  <2>5. Counted'
    <3>1. \A c \in Command : attempts'[c] <= tries'[c]
      BY <1>a, <2>1, <2>3, TInv' DEF OutcomeInv, Counted, TInv, TypeOK
    <3>2. ASSUME NEW v \in Worker, v # w
          PROVE  /\ pc'[v] = "answered" /\ Owned(v, cur[v])' =>
                       attempts'[cur'[v]] < tries'[cur'[v]]
                 /\ pc'[v] = "failing" => seen'[v] < tries'[cur'[v]]
      <4>1. pc'[v] = pc[v]
        BY <1>a, <2>1, <3>2
      <4>2. CASE cur[v] \in Command
        <5>1. /\ attempts[cur[v]] \in Nat /\ seen[v] \in Nat
              /\ tries[cur[v]] \in Nat /\ tries'[cur[v]] \in Nat
          BY <1>a, <4>2, TInv' DEF TInv, TypeOK
        <5>2. tries[cur[v]] <= tries'[cur[v]]
          BY <2>3, <4>2
        <5>3. /\ pc[v] = "answered" /\ Owned(v, cur[v]) => attempts[cur[v]] < tries[cur[v]]
              /\ pc[v] = "failing" => seen[v] < tries[cur[v]]
          BY DEF OutcomeInv, Counted
        <5> QED BY <2>1, <4>1, <5>1, <5>2, <5>3 DEF Owned
      <4> QED BY <1>b, <4>1, <4>2 DEF Section
    <3>3. pc'[w] = "answered" /\ (Owned(w, cur[w])' => attempts'[cur'[w]] < tries'[cur'[w]])
      BY <1>a, <2>1, <2>4 DEF Owned
    <3> QED BY <3>1, <3>2, <3>3 DEF Counted
  <2>6. Answered'
    <3>1. Final(answer'[w]) \subseteq verdict'[cur'[w]]
      BY <1>a, <2>1, <2>2
    <3>2. ASSUME NEW v \in Worker, v # w, pc'[v] \in {"answered", "failing"}
          PROVE  Final(answer'[v]) \subseteq verdict'[cur'[v]]
      <4>1. pc'[v] = pc[v] /\ answer'[v] = answer[v] /\ cur'[v] = cur[v]
        BY <1>a, <2>1, <2>2, <3>2
      <4>2. cur[v] \in Command /\ Final(answer[v]) \subseteq verdict[cur[v]]
        BY <1>b, <3>2, <4>1 DEF OutcomeInv, Answered, Section
      <4> QED BY <2>3, <4>1, <4>2
    <3> QED BY <3>1, <3>2 DEF Answered
  <2>7. AckedWasConfirmed'
    BY <2>1, <2>3 DEF OutcomeInv, AckedWasConfirmed
  <2>8. DeadIsJustified'
    <3>1. \A c \in Command : tries[c] = MaxAttempts => tries'[c] = MaxAttempts
      BY <1>a, <2>1, <2>2
    <3> QED BY <2>1, <2>3, <3>1 DEF OutcomeInv, DeadIsJustified
  <2> QED BY <2>5, <2>6, <2>7, <2>8 DEF OutcomeInv
<1>6. ASSUME NEW w \in Worker, Complete(w) PROVE OutcomeInv'
  <2>1. /\ pc[w] = "answered" /\ answer[w] \in Positive /\ cur[w] \in Command
        /\ status' = [status EXCEPT ![cur[w]] = "ACKED"]
        /\ owner'  = [owner EXCEPT ![cur[w]] = NoWorker]
        /\ UNCHANGED <<attempts, carrierVars>> /\ NextRow(w)
    BY <1>6, <1>b DEF Complete, Section
  <2>2. "ok" \in verdict[cur[w]]
    BY <2>1 DEF OutcomeInv, Answered, Final
  <2>3. \A v \in Worker, c \in Command : Owned(v, c)' => Owned(v, c)
    BY <1>a, <2>1 DEF Owned
  <2>4. Counted' /\ Answered'
    BY <1>b, <1>c, <2>1, <2>3 DEF OutcomeInv, Counted, Answered, carrierVars, Section, Owned
  <2>5. AckedWasConfirmed' /\ DeadIsJustified'
    BY <1>a, <2>1, <2>2 DEF OutcomeInv, AckedWasConfirmed, DeadIsJustified, carrierVars
  <2> QED BY <2>4, <2>5 DEF OutcomeInv
<1>7. ASSUME NEW w \in Worker, ReadForFailure(w) PROVE OutcomeInv'
  <2>1. CASE NextRow(w)
    BY <1>7, <1>d, <2>1 DEF ReadForFailure, rowVars
  <2>2. CASE /\ Owned(w, cur[w])
             /\ seen' = [seen EXCEPT ![w] = attempts[cur[w]]]
             /\ pc' = [pc EXCEPT ![w] = "failing"]
             /\ UNCHANGED <<cur, answer>>
    <3>1. pc[w] = "answered" /\ UNCHANGED <<status, owner, attempts, carrierVars>>
      BY <1>7 DEF ReadForFailure, rowVars
    <3>2. attempts[cur[w]] < tries[cur[w]]
      BY <2>2, <3>1 DEF OutcomeInv, Counted
    <3>3. Counted'
      BY <1>a, <2>2, <3>1, <3>2 DEF OutcomeInv, Counted, carrierVars, Owned
    <3>4. Answered'
      BY <1>a, <2>2, <3>1 DEF OutcomeInv, Answered, carrierVars
    <3>5. AckedWasConfirmed' /\ DeadIsJustified'
      BY <3>1 DEF OutcomeInv, AckedWasConfirmed, DeadIsJustified, carrierVars
    <3> QED BY <3>3, <3>4, <3>5 DEF OutcomeInv
  <2> QED BY <1>7, <2>1, <2>2 DEF ReadForFailure
<1>8. ASSUME NEW w \in Worker, WriteFailure(w) PROVE OutcomeInv'
  <2> DEFINE dead == answer[w] = "refused" \/ seen[w] + 1 >= MaxAttempts
  <2>1. /\ pc[w] = "failing" /\ cur[w] \in Command
        /\ attempts' = [attempts EXCEPT ![cur[w]] = seen[w] + 1]
        /\ status'   = [status EXCEPT ![cur[w]] = IF dead THEN "DEAD" ELSE "FAILED"]
        /\ owner'    = [owner EXCEPT ![cur[w]] = NoWorker]
        /\ NextRow(w) /\ UNCHANGED carrierVars
    BY <1>8, <1>b DEF WriteFailure, FailureWrite, RecordFailure, Section
  <2>2. seen[w] < tries[cur[w]] /\ Final(answer[w]) \subseteq verdict[cur[w]]
    BY <2>1 DEF OutcomeInv, Counted, Answered
  <2>3. /\ seen[w] + 1 <= tries[cur[w]]
        /\ dead => "refused" \in verdict[cur[w]] \/ tries[cur[w]] = MaxAttempts
    <3>1. seen[w] \in 0 .. (MaxAttempts - 1) /\ tries[cur[w]] \in 0 .. MaxAttempts
      BY <1>a, <2>1
    <3>2. answer[w] = "refused" => "refused" \in verdict[cur[w]]
      BY <2>2 DEF Final, Positive
    <3> QED BY <2>2, <3>1, <3>2
  <2> HIDE DEF dead
  <2>4. \A v \in Worker, c \in Command : Owned(v, c)' => Owned(v, c) /\ c # cur[w]
    BY <1>a, <2>1 DEF Owned
  <2>5. Counted'
    <3>1. \A c \in Command : attempts'[c] <= tries'[c]
      BY <1>a, <2>1, <2>3 DEF OutcomeInv, Counted, carrierVars
    <3>2. ASSUME NEW v \in Worker, pc'[v] \in {"answered", "failing"}
          PROVE  /\ pc'[v] = "answered" /\ Owned(v, cur[v])' =>
                       attempts'[cur'[v]] < tries'[cur'[v]]
                 /\ pc'[v] = "failing" => seen'[v] < tries'[cur'[v]]
      <4>1. /\ pc'[v] = pc[v] /\ cur'[v] = cur[v] /\ seen'[v] = seen[v]
            /\ cur[v] \in Command
        BY <1>b, <1>c, <2>1, <3>2 DEF Section
      <4>2. Owned(v, cur[v])' => Owned(v, cur[v]) /\ attempts'[cur[v]] = attempts[cur[v]]
        BY <1>a, <2>1, <2>4, <4>1 DEF Owned
      <4> QED BY <2>1, <4>1, <4>2 DEF OutcomeInv, Counted, carrierVars
    <3> QED BY <3>1, <3>2 DEF Counted
  <2>6. Answered'
    BY <1>c, <2>1 DEF OutcomeInv, Answered, carrierVars
  <2>7. AckedWasConfirmed' /\ DeadIsJustified'
    BY <1>a, <2>1, <2>3 DEF OutcomeInv, AckedWasConfirmed, DeadIsJustified, carrierVars
  <2> QED BY <2>5, <2>6, <2>7 DEF OutcomeInv
<1>9. ASSUME NEW w \in Worker, StubStep(w) PROVE FALSE
  BY <1>9 DEF StubStep, StubSend, StubAck, StubReadForFailure, TInv, RowKnown
<1>12. ASSUME NEW w \in Worker, CompleteThrows(w) PROVE OutcomeInv'
  <2>1. CASE AbortBatch(w)
    BY <1>12, <1>d, <2>1 DEF CompleteThrows, rowVars
  <2>2. CASE answer' = [answer EXCEPT ![w] = "retryable"] /\ UNCHANGED <<pc, cur, seen>>
    <3>1. \A v \in Worker : Final(answer'[v]) \subseteq Final(answer[v])
      BY <1>a, <2>2 DEF Final, Positive
    <3> QED BY <1>12, <2>2, <3>1, OutcomeFrame DEF CompleteThrows, rowVars, Owned
  <2> QED BY <1>12, <2>1, <2>2 DEF CompleteThrows
<1>13. ASSUME NEW w \in Worker, StoreFails(w) \/ Crash(w) PROVE OutcomeInv'
  BY <1>13, <1>d DEF StoreFails, Crash, rowVars
<1>14. ASSUME NEW w \in Worker, StubStoreFails(w) PROVE FALSE
  BY <1>14 DEF StubStoreFails
<1>15. ASSUME NEW w \in Worker, RenewLease(w) PROVE OutcomeInv'
  BY <1>15, <1>e DEF RenewLease, workerVars
<1>17. ASSUME NEW c \in Command, RowStep(c) PROVE OutcomeInv'
  <2>1. /\ UNCHANGED <<attempts, carrierVars, owner, pc, cur, answer, seen>>
        /\ \/ UNCHANGED status
           \/ status' = [status EXCEPT ![c] = "PENDING"]
           \/ status' = [status EXCEPT ![c] = "PURGED"]
    BY <1>17 DEF RowStep, Enqueue, LeaseExpires, BackoffElapses, Purge, workerVars
  <2>2. \A v \in Worker, d \in Command : Owned(v, d)' => Owned(v, d)
    BY <1>a, <2>1 DEF Owned
  <2>3. \A d \in Command : status'[d] \in {"ACKED", "DEAD"} => status'[d] = status[d]
    BY <1>a, <2>1
  <2>4. \A v \in Worker : pc'[v] \in {"answered", "failing"} =>
          (Owned(v, cur[v])' => Owned(v, cur[v]))
    BY <1>b, <2>1, <2>2 DEF Section, Owned
  <2> QED BY <2>1, <2>3, <2>4, OutcomeFrame
<1>18. ASSUME NEW s \in Session, LockStep(s) PROVE OutcomeInv'
  BY <1>18, <1>e DEF LockStep, LockExpires, OtherLocks, rowVars, workerVars
<1>19. CASE UNCHANGED vars
  BY <1>19, <1>e DEF vars, rowVars, workerVars
<1> QED
  BY <1>1, <1>2, <1>3, <1>4, <1>5, <1>6, <1>7, <1>8, <1>9, <1>12, <1>13, <1>14,
     <1>15, <1>17, <1>18, <1>19 DEF Next, WorkerStep, ExecutorStep

THEOREM OutcomeInvHolds == Spec => []OutcomeInv
BY InitOutcomeInv, StepOutcomeInv, TInvHolds, PTL DEF Spec

\* An acknowledged command was confirmed by the carrier: completeCommand, with
\* any number of workers taking the row from each other.
THEOREM AcksAreConfirmed == Spec => []AckedWasConfirmed
<1>1. OutcomeInv => AckedWasConfirmed
  BY DEF OutcomeInv, AckedWasConfirmed
<1> QED BY <1>1, OutcomeInvHolds, PTL

\* A dead-lettered command was refused or tried maxAttempts times:
\* markCommandExecutionFailed, stale failure writes included.
THEOREM DeadLettersAreJustified == Spec => []DeadIsJustified
<1>1. OutcomeInv => DeadIsJustified
  BY DEF OutcomeInv, DeadIsJustified
<1> QED BY <1>1, OutcomeInvHolds, PTL
=============================================================================
