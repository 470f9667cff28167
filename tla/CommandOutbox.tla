---------------------------- MODULE CommandOutbox ----------------------------
(***************************************************************************)
(* The transactional command outbox of the V3 call engine and the workers  *)
(* that drain it (lib/telephony-v3/Outbox, Executor, Redis/locks, the      *)
(* outbox tick of Workers/ingressWorker).                                  *)
(*                                                                         *)
(* A row of V3CommandOutbox is a command for the carrier (dial, bridge,    *)
(* hangup, ...).  Worker processes claim batches of rows under a 30 s      *)
(* lease, take the Redis lock of the row's call session, call the carrier  *)
(* and write the outcome back.  Every database or Redis call of the code   *)
(* is a step of its own, so two workers, a lease or a lock that runs out,  *)
(* a failing database call and a crash may fall between any two of them.   *)
(*                                                                         *)
(* Time is abstracted: leased[c] says that claimedUntil is in the future,  *)
(* due[c] that nextAttemptAt is not.  Both change at any moment.           *)
(* The payload, and the execution metadata written into it, are left out.  *)
(***************************************************************************)
EXTENDS Naturals, FiniteSets

CONSTANTS
  Command,          \* rows, one per idempotency key
  Session,          \* call sessions
  SessionOf,        \* the sessionId column of each row
  Worker,           \* worker processes, one unique claim owner each
  MaxAttempts,      \* the maxAttempts column (default 5)
  PerformedCap,     \* where the history of carried out commands saturates
  PollBatch,        \* most rows one claim takes (OUTBOX.POLL_BATCH)
  ExecutorEnabled,  \* TELEPHONY_V3_EXECUTOR_ENABLED; FALSE runs the stub
  ClaimMidFailure,  \* may a claim fall between the two queries of a failure
                    \* write?  (FALSE: no worker stalls there for a lease)
  NoWorker, NoCommand,
  Free, Other       \* lock states: not held; held by something that is not
                    \* an outbox worker (event handler, crashed process)

ASSUME OutboxAssumption ==
  /\ SessionOf \in [Command -> Session]
  /\ MaxAttempts \in Nat \ {0}
  /\ PollBatch \in Nat \ {0}
  /\ PerformedCap \in Nat
  /\ ExecutorEnabled \in BOOLEAN
  /\ ClaimMidFailure \in BOOLEAN
  /\ NoWorker \notin Worker
  /\ NoCommand \notin Command
  /\ Free # Other
  /\ Free \notin Worker
  /\ Other \notin Worker

VARIABLES
  status,     \* the status column, or ABSENT / PURGED when there is no row
  owner,      \* claimOwner
  leased,     \* claimedUntil >= NOW()
  attempts,   \* the attempts column
  due,        \* nextAttemptAt <= NOW()
  pc,         \* where each worker is in its tick
  todo,       \* rows of the claimed batch the worker has not reached
  cur,        \* the row being executed
  answer,     \* how the worker classifies the carrier's answer for cur
  seen,       \* attempts as read by the first query of a failure write
  lock,       \* v3:lock:session:<id>
  tries,      \* history: times the carrier was tried, up to MaxAttempts
  performed,  \* history: times the carrier carried it out, up to PerformedCap
  verdict     \* history: which final answers ("ok", "refused") it gave

rowVars    == <<status, owner, leased, attempts, due>>
workerVars == <<pc, todo, cur, answer, seen>>
carrierVars == <<tries, performed, verdict>>
vars == <<rowVars, workerVars, lock, carrierVars>>

Status == {"ABSENT", "PENDING", "PROCESSING", "SENT", "ACKED", "FAILED",
           "DEAD", "PURGED"}
Settled == {"ACKED", "DEAD", "PURGED"}

(***************************************************************************)
(* What the carrier call can end in.  "done" includes a command type the   *)
(* adapter skips; "already" is a failure classified as idempotent;         *)
(* "retryable" is everything classifyFailure does not recognise as final,  *)
(* a lost answer included.                                                 *)
(***************************************************************************)
Positive == {"done", "already"}
Negative == {"retryable", "refused"}
Answer   == Positive \cup Negative

\* What an answer adds to the history of final answers.
Final(a) == IF a \in Positive THEN {"ok"}
            ELSE IF a = "refused" THEN {"refused"} ELSE {}

Section == {"locked", "calling", "answered", "failing"}
Control == Section \cup {"idle", "batch", "sent", "stubfail"}

Owned(w, c) == status[c] = "PROCESSING" /\ owner[c] = w
-----------------------------------------------------------------------------
Init ==
  /\ status    = [c \in Command |-> "ABSENT"]
  /\ owner     = [c \in Command |-> NoWorker]
  /\ leased    = [c \in Command |-> FALSE]
  /\ attempts  = [c \in Command |-> 0]
  /\ due       = [c \in Command |-> TRUE]
  /\ pc        = [w \in Worker |-> "idle"]
  /\ todo      = [w \in Worker |-> {}]
  /\ cur       = [w \in Worker |-> NoCommand]
  /\ answer    = [w \in Worker |-> "retryable"]
  /\ seen      = [w \in Worker |-> 0]
  /\ lock      = [s \in Session |-> Free]
  /\ tries     = [c \in Command |-> 0]
  /\ performed = [c \in Command |-> 0]
  /\ verdict   = [c \in Command |-> {}]

\* enqueueCommand, enqueueCommandInTransaction.  A second enqueue under the
\* same idempotency key finds the row and changes nothing.
Enqueue(c) ==
  /\ status[c] = "ABSENT"
  /\ status' = [status EXCEPT ![c] = "PENDING"]
  /\ UNCHANGED <<owner, leased, attempts, due, workerVars, lock, carrierVars>>

(* Mutants of Claimable: live leases are taken over; crashed workers' rows  *)
(* are not; any row without a live lease is taken.                         *)
ClaimableIgnoringLease ==
  {c \in Command :
     /\ status[c] \in {"PENDING", "FAILED", "PROCESSING"}
     /\ due[c]
     /\ attempts[c] < MaxAttempts}

ClaimableWithoutReclaim ==
  {c \in Command :
     status[c] \in {"PENDING", "FAILED"} /\ due[c] /\ attempts[c] < MaxAttempts}

ClaimableByLeaseAlone ==
  {c \in Command :
     /\ status[c] \notin {"ABSENT", "DEAD", "PURGED"}
     /\ ~leased[c]
     /\ due[c]
     /\ attempts[c] < MaxAttempts}

Claimable ==
  {c \in Command :
     /\ \/ status[c] \in {"PENDING", "FAILED"}
        \/ status[c] = "PROCESSING" /\ ~leased[c]
     /\ due[c]
     /\ attempts[c] < MaxAttempts
     /\ ClaimMidFailure \/ \A w \in Worker : ~(pc[w] = "failing" /\ cur[w] = c)}

\* claimPendingCommands: one UPDATE ... FOR UPDATE SKIP LOCKED.  An idle
\* worker takes every claimable row, or PollBatch of them.
Claim(w) ==
  /\ pc[w] = "idle"
  /\ \E S \in SUBSET Claimable :
       /\ S # {}
       /\ IF Cardinality(Claimable) <= PollBatch
          THEN S = Claimable
          ELSE Cardinality(S) = PollBatch
       /\ status' = [c \in Command |-> IF c \in S THEN "PROCESSING" ELSE status[c]]
       /\ owner'  = [c \in Command |-> IF c \in S THEN w ELSE owner[c]]
       /\ leased' = [c \in Command |-> IF c \in S THEN TRUE ELSE leased[c]]
       /\ todo'   = [todo EXCEPT ![w] = S]
  /\ pc' = [pc EXCEPT ![w] = "batch"]
  /\ UNCHANGED <<attempts, due, cur, answer, seen, lock, carrierVars>>
-----------------------------------------------------------------------------
\* The batch runs session by session, in no particular order otherwise.
NextRows(w) ==
  LET same == IF cur[w] = NoCommand THEN {}
              ELSE {c \in todo[w] : SessionOf[c] = SessionOf[cur[w]]}
  IN  IF same # {} THEN same ELSE todo[w]

\* Mutant: no release in the finally clause.
ReleaseForgotten(w) == UNCHANGED lock

\* The release script of withLock deletes the key only if it still holds the
\* token of this acquisition.
Release(w) ==
  lock' = [s \in Session |-> IF lock[s] = w THEN Free ELSE lock[s]]

\* The row is finished with (whatever the outcome): go on with the batch.
NextRow(w) ==
  /\ pc'  = [pc EXCEPT ![w] = IF todo[w] = {} THEN "idle" ELSE "batch"]
  /\ cur' = [cur EXCEPT ![w] = IF todo[w] = {} THEN NoCommand ELSE @]
  /\ answer' = [answer EXCEPT ![w] = "retryable"]
  /\ seen' = [seen EXCEPT ![w] = 0]
  /\ UNCHANGED todo

\* An exception that leaves processCommandBatch: the rest of the batch is
\* dropped by this worker and stays PROCESSING.
AbortBatch(w) ==
  /\ pc'   = [pc EXCEPT ![w] = "idle"]
  /\ todo' = [todo EXCEPT ![w] = {}]
  /\ cur'  = [cur EXCEPT ![w] = NoCommand]
  /\ answer' = [answer EXCEPT ![w] = "retryable"]
  /\ seen' = [seen EXCEPT ![w] = 0]

TakeLock(w) ==
  /\ ExecutorEnabled
  /\ pc[w] = "batch"
  /\ \E c \in NextRows(w) :
       /\ lock[SessionOf[c]] = Free
       /\ lock' = [lock EXCEPT ![SessionOf[c]] = w]
       /\ cur'  = [cur EXCEPT ![w] = c]
       /\ todo' = [todo EXCEPT ![w] = @ \ {c}]
  /\ pc' = [pc EXCEPT ![w] = "locked"]
  /\ UNCHANGED <<rowVars, answer, seen, carrierVars>>

\* withLock gives up after its retries: LOCK_TIMEOUT.
LockTimeout(w) ==
  /\ ExecutorEnabled
  /\ pc[w] = "batch"
  /\ \E c \in NextRows(w) : lock[SessionOf[c]] # Free
  /\ AbortBatch(w)
  /\ UNCHANGED <<rowVars, lock, carrierVars>>

\* recordCommandExecutionStarted, outside the try block: a conflict or a
\* database error aborts the batch.
RecordStarted(w) ==
  /\ pc[w] = "locked"
  /\ \/ /\ Owned(w, cur[w])
        /\ pc' = [pc EXCEPT ![w] = "calling"]
        /\ UNCHANGED <<todo, cur, answer, seen, lock>>
     \/ /\ ~Owned(w, cur[w])
        /\ AbortBatch(w)
        /\ Release(w)
  /\ UNCHANGED <<rowVars, carrierVars>>

\* provider.executeCommand.  A failed call may have been carried out all the
\* same (the answer timed out), so "retryable" comes with both.
CallCarrier(w) ==
  /\ pc[w] = "calling"
  /\ LET c == cur[w] IN
       \E a \in Answer, did \in BOOLEAN :
         /\ did => a \in {"done", "retryable"}
         /\ answer'    = [answer EXCEPT ![w] = a]
         /\ tries'     = [tries EXCEPT ![c] = IF @ < MaxAttempts THEN @ + 1 ELSE @]
         /\ performed' = [performed EXCEPT ![c] = IF did /\ @ < PerformedCap THEN @ + 1 ELSE @]
         /\ verdict'   = [verdict EXCEPT ![c] = @ \cup Final(a)]
  /\ pc' = [pc EXCEPT ![w] = "answered"]
  /\ UNCHANGED <<rowVars, todo, cur, seen, lock>>

(* Mutants of Complete: any answer is acknowledged; the update is by id.   *)
CompleteAnyAnswer(w) ==
  /\ pc[w] = "answered"
  /\ Owned(w, cur[w])
  /\ status' = [status EXCEPT ![cur[w]] = "ACKED"]
  /\ owner'  = [owner EXCEPT ![cur[w]] = NoWorker]
  /\ leased' = [leased EXCEPT ![cur[w]] = FALSE]
  /\ NextRow(w)
  /\ Release(w)
  /\ UNCHANGED <<attempts, due, carrierVars>>

CompleteById(w) ==
  /\ pc[w] = "answered"
  /\ answer[w] \in Positive
  /\ status' = [status EXCEPT ![cur[w]] = "ACKED"]
  /\ owner'  = [owner EXCEPT ![cur[w]] = NoWorker]
  /\ leased' = [leased EXCEPT ![cur[w]] = FALSE]
  /\ NextRow(w)
  /\ Release(w)
  /\ UNCHANGED <<attempts, due, carrierVars>>

\* completeCommand, guarded by owner and PROCESSING.
Complete(w) ==
  /\ pc[w] = "answered"
  /\ answer[w] \in Positive
  /\ Owned(w, cur[w])
  /\ status' = [status EXCEPT ![cur[w]] = "ACKED"]
  /\ owner'  = [owner EXCEPT ![cur[w]] = NoWorker]
  /\ leased' = [leased EXCEPT ![cur[w]] = FALSE]
  /\ NextRow(w)
  /\ Release(w)
  /\ UNCHANGED <<attempts, due, carrierVars>>

\* completeCommand throws: a conflict, or a failing database call.  In the
\* try block the error is classified as a retryable failure of the command;
\* in the catch block (an idempotent answer) it aborts the batch.
CompleteThrows(w) ==
  /\ pc[w] = "answered"
  /\ \/ /\ answer[w] = "done"
        /\ answer' = [answer EXCEPT ![w] = "retryable"]
        /\ UNCHANGED <<pc, todo, cur, seen, lock>>
     \/ /\ answer[w] = "already"
        /\ AbortBatch(w)
        /\ Release(w)
  /\ UNCHANGED <<rowVars, carrierVars>>

\* First query of markCommandExecutionFailed.
ReadForFailure(w) ==
  /\ pc[w] = "answered"
  /\ answer[w] \in Negative
  /\ \/ /\ Owned(w, cur[w])
        /\ seen' = [seen EXCEPT ![w] = attempts[cur[w]]]
        /\ pc'   = [pc EXCEPT ![w] = "failing"]
        /\ UNCHANGED <<todo, cur, answer, lock>>
     \/ /\ ~Owned(w, cur[w])
        /\ NextRow(w)
        /\ Release(w)
  /\ UNCHANGED <<rowVars, carrierVars>>

RecordFailure(c, count, dead) ==
  /\ attempts' = [attempts EXCEPT ![c] = count]
  /\ status'   = [status EXCEPT ![c] = IF dead THEN "DEAD" ELSE "FAILED"]
  /\ owner'    = [owner EXCEPT ![c] = NoWorker]
  /\ leased'   = [leased EXCEPT ![c] = FALSE]
  /\ due'      = [due EXCEPT ![c] = IF dead THEN @ ELSE FALSE]

(* Mutants of FailureWrite: one attempt too few, one too many, and the     *)
(* count incremented in place instead of written from the first query.     *)
FailureWriteTooSoon(w) ==
  RecordFailure(cur[w], seen[w] + 1,
                answer[w] = "refused" \/ seen[w] + 2 >= MaxAttempts)

FailureWriteTooLate(w) ==
  RecordFailure(cur[w], seen[w] + 1,
                answer[w] = "refused" \/ seen[w] >= MaxAttempts)

FailureWriteInPlace(w) ==
  RecordFailure(cur[w], attempts[cur[w]] + 1,
                answer[w] = "refused" \/ attempts[cur[w]] + 1 >= MaxAttempts)

\* Second query of a failure write: by id alone, whoever owns the row by now.
FailureWrite(w) ==
  RecordFailure(cur[w], seen[w] + 1,
                answer[w] = "refused" \/ seen[w] + 1 >= MaxAttempts)

WriteFailure(w) ==
  /\ pc[w] = "failing"
  /\ FailureWrite(w)
  /\ NextRow(w)
  /\ Release(w)
  /\ UNCHANGED carrierVars

\* Redis fails under withLock, or a database call of the locked section that
\* is not part of completeCommand fails: the exception leaves the batch.
StoreFails(w) ==
  /\ ExecutorEnabled
  /\ \/ pc[w] \in {"batch", "locked", "failing"}
     \/ pc[w] = "answered" /\ answer[w] \in Negative
  /\ AbortBatch(w)
  /\ Release(w)
  /\ UNCHANGED <<rowVars, carrierVars>>
-----------------------------------------------------------------------------
(***************************************************************************)
(* The tick without the executor: mark sent, acknowledge, no carrier.      *)
(***************************************************************************)

\* markCommandSent; when it throws, markCommandFailed is tried next.
StubSend(w) ==
  /\ ~ExecutorEnabled
  /\ pc[w] = "batch"
  /\ \E c \in todo[w] :
       /\ cur'  = [cur EXCEPT ![w] = c]
       /\ todo' = [todo EXCEPT ![w] = @ \ {c}]
       /\ \/ /\ Owned(w, c)
             /\ status' = [status EXCEPT ![c] = "SENT"]
             /\ pc'     = [pc EXCEPT ![w] = "sent"]
          \/ /\ pc' = [pc EXCEPT ![w] = "stubfail"]
             /\ UNCHANGED status
  /\ UNCHANGED <<owner, leased, attempts, due, answer, seen, lock, carrierVars>>

\* acknowledgeCommand.
StubAck(w) ==
  /\ pc[w] = "sent"
  /\ \/ /\ status[cur[w]] = "SENT"
        /\ owner[cur[w]] = w
        /\ status' = [status EXCEPT ![cur[w]] = "ACKED"]
        /\ owner'  = [owner EXCEPT ![cur[w]] = NoWorker]
        /\ leased' = [leased EXCEPT ![cur[w]] = FALSE]
        /\ NextRow(w)
     \/ /\ pc' = [pc EXCEPT ![w] = "stubfail"]
        /\ UNCHANGED <<status, owner, leased, todo, cur, answer, seen>>
  /\ UNCHANGED <<attempts, due, lock, carrierVars>>

\* First query of markCommandFailed.
StubReadForFailure(w) ==
  /\ pc[w] = "stubfail"
  /\ \/ /\ Owned(w, cur[w])
        /\ seen'   = [seen EXCEPT ![w] = attempts[cur[w]]]
        /\ pc'     = [pc EXCEPT ![w] = "failing"]
        /\ UNCHANGED <<todo, cur, answer>>
     \/ /\ ~Owned(w, cur[w])
        /\ NextRow(w)
  /\ UNCHANGED <<rowVars, lock, carrierVars>>

\* A failing query of markCommandFailed: the error is swallowed.
StubStoreFails(w) ==
  /\ ~ExecutorEnabled
  /\ pc[w] \in {"stubfail", "failing"}
  /\ NextRow(w)
  /\ UNCHANGED <<rowVars, lock, carrierVars>>
-----------------------------------------------------------------------------
\* The setInterval of executeOneCommandLocked; it also revives a lease that
\* ran out and that nobody has taken.
RenewLease(w) ==
  /\ ExecutorEnabled
  /\ pc[w] \in {"calling", "answered", "failing"}
  /\ Owned(w, cur[w])
  /\ leased' = [leased EXCEPT ![cur[w]] = TRUE]
  /\ UNCHANGED <<status, owner, attempts, due, workerVars, lock, carrierVars>>

\* claimedUntil passes.
LeaseExpires(c) ==
  /\ status[c] = "PROCESSING"
  /\ leased[c]
  /\ leased' = [leased EXCEPT ![c] = FALSE]
  /\ UNCHANGED <<status, owner, attempts, due, workerVars, lock, carrierVars>>

\* nextAttemptAt passes.
BackoffElapses(c) ==
  /\ ~due[c]
  /\ due' = [due EXCEPT ![c] = TRUE]
  /\ UNCHANGED <<status, owner, leased, attempts, workerVars, lock, carrierVars>>

\* The lock's 30 s TTL passes (never renewed), or Other releases it.
LockExpires(s) ==
  /\ lock[s] # Free
  /\ lock' = [lock EXCEPT ![s] = Free]
  /\ UNCHANGED <<rowVars, workerVars, carrierVars>>

\* A call event of the session is being handled somewhere.
OtherLocks(s) ==
  /\ ExecutorEnabled
  /\ lock[s] = Free
  /\ lock' = [lock EXCEPT ![s] = Other]
  /\ UNCHANGED <<rowVars, workerVars, carrierVars>>

\* The process dies and is started again with the same V3_WORKER_ID.  Its
\* rows and its lock stay as they are until they time out.
Crash(w) ==
  /\ pc[w] # "idle"
  /\ AbortBatch(w)
  /\ lock' = [s \in Session |-> IF lock[s] = w THEN Other ELSE lock[s]]
  /\ UNCHANGED <<rowVars, carrierVars>>

\* purgeOutboxRows, days after the row settled: no worker is still on it.
Purge(c) ==
  /\ status[c] \in {"ACKED", "DEAD"}
  /\ \A w \in Worker : cur[w] # c
  /\ status' = [status EXCEPT ![c] = "PURGED"]
  /\ UNCHANGED <<owner, leased, attempts, due, workerVars, lock, carrierVars>>
-----------------------------------------------------------------------------
ExecutorStep(w) ==
  \/ TakeLock(w) \/ LockTimeout(w) \/ RecordStarted(w) \/ CallCarrier(w)
  \/ Complete(w) \/ ReadForFailure(w) \/ WriteFailure(w)

StubStep(w) == StubSend(w) \/ StubAck(w) \/ StubReadForFailure(w)

WorkerStep(w) ==
  \/ Claim(w)
  \/ ExecutorStep(w)
  \/ StubStep(w)
  \/ CompleteThrows(w)
  \/ StoreFails(w)
  \/ StubStoreFails(w)
  \/ RenewLease(w)
  \/ Crash(w)

RowStep(c) == Enqueue(c) \/ LeaseExpires(c) \/ BackoffElapses(c) \/ Purge(c)

LockStep(s) == LockExpires(s) \/ OtherLocks(s)

Next ==
  \/ \E w \in Worker : WorkerStep(w)
  \/ \E c \in Command : RowStep(c)
  \/ \E s \in Session : LockStep(s)

Spec == Init /\ [][Next]_vars
-----------------------------------------------------------------------------
(***************************************************************************)
(* Fairness.  Every worker keeps ticking (the loop of the worker script,   *)
(* restarted when it dies), backoffs, orphaned leases and foreign locks    *)
(* run out, and disturbances are finite in number: a call has finitely     *)
(* many events, and a batch is small enough for its leases in the end.     *)
(***************************************************************************)
WorkedOn(c) ==
  \E w \in Worker :
    Owned(w, c) /\ (c \in todo[w] \/ (cur[w] = c /\ pc[w] \in Section))

Disturbance ==
  \/ \E w \in Worker : \/ Crash(w)
                       \/ StoreFails(w)
                       \/ StubStoreFails(w)
                       \/ CompleteThrows(w) /\ Owned(w, cur[w])
  \/ \E c \in Command : WorkedOn(c) /\ LeaseExpires(c)
  \/ \E s \in Session : OtherLocks(s) \/ (lock[s] \in Worker /\ LockExpires(s))

Fairness ==
  /\ \A w \in Worker :
       /\ WF_vars(Claim(w))
       /\ WF_vars(ExecutorStep(w))
       /\ WF_vars(StubStep(w))
       /\ WF_vars(CompleteThrows(w) /\ ~Owned(w, cur[w]))
  /\ \A c \in Command :
       /\ WF_vars(~WorkedOn(c) /\ LeaseExpires(c))
       /\ WF_vars(BackoffElapses(c))
  /\ \A s \in Session : WF_vars(lock[s] = Other /\ LockExpires(s))

LiveSpec == Spec /\ Fairness /\ <>[][~Disturbance]_vars
-----------------------------------------------------------------------------
TypeOK ==
  /\ status \in [Command -> Status]
  /\ owner \in [Command -> Worker \cup {NoWorker}]
  /\ leased \in [Command -> BOOLEAN]
  /\ attempts \in [Command -> 0 .. MaxAttempts]
  /\ due \in [Command -> BOOLEAN]
  /\ pc \in [Worker -> Control]
  /\ todo \in [Worker -> SUBSET Command]
  /\ cur \in [Worker -> Command \cup {NoCommand}]
  /\ answer \in [Worker -> Answer]
  /\ seen \in [Worker -> 0 .. (MaxAttempts - 1)]
  /\ lock \in [Session -> Worker \cup {Free, Other}]
  /\ tries \in [Command -> 0 .. MaxAttempts]
  /\ performed \in [Command -> 0 .. PerformedCap]
  /\ verdict \in [Command -> SUBSET {"ok", "refused"}]

\* An acknowledged command has been confirmed by the carrier (carried out,
\* already the case, or nothing to do), whichever worker wrote the ACK and
\* however often the row changed hands.  completeCommand after an answer.
AckedWasConfirmed ==
  ExecutorEnabled => \A c \in Command : status[c] = "ACKED" => "ok" \in verdict[c]

\* A command is dead-lettered only if the carrier refused it or was really
\* tried maxAttempts times: crashes, reclaims and stale failure writes never
\* use up an attempt.  markCommandExecutionFailed.
DeadIsJustified ==
  ExecutorEnabled =>
    \A c \in Command :
      status[c] = "DEAD" => "refused" \in verdict[c] \/ tries[c] = MaxAttempts

\* A row that is neither settled nor sent can be claimed again: its attempts
\* are below maxAttempts, the bound of claimPendingCommands, which would pass
\* it over for ever otherwise.
NoStrandedRow ==
  \A c \in Command :
    status[c] \in {"PENDING", "PROCESSING", "FAILED"} => attempts[c] < MaxAttempts

\* A session lock in the name of a worker belongs to a row of that session
\* it is executing: no path out of executeOneCommand, an exception or a crash
\* included, leaves the lock with a worker that went on to something else.
LocksDoNotLeak ==
  \A s \in Session, w \in Worker :
    lock[s] = w => pc[w] \in Section /\ SessionOf[cur[w]] = s

\* An acknowledged command is reopened by one thing only: a failure write
\* whose worker lost the row after its first query.
AckUndoneOnlyByStaleFailure ==
  [][\A c \in Command :
       status[c] = "ACKED" /\ status'[c] \notin {"ACKED", "PURGED"}
         => \E w \in Worker : pc[w] = "failing" /\ cur[w] = c /\ ~Owned(w, c)]_vars

\* A row marked SENT by the tick without the executor is moved on by the worker
\* that marked it, or by a failure write whose worker had lost it: when that
\* worker dies before the acknowledgement, nobody sends the command again.
\* runOutboxWorkerTick, claimPendingCommands.
SentRowIsSettledByItsSender ==
  [][\A c \in Command :
       status[c] = "SENT" /\ status'[c] # "SENT"
         => \E w \in Worker :
              /\ cur[w] = c
              /\ \/ pc[w] = "sent" /\ owner[c] = w /\ status'[c] = "ACKED"
                 \/ pc[w] = "failing" /\ ~Owned(w, c)]_vars

\* A lease that has not run out is ended by its owner only, at the end of
\* executing the row.  Holds while no claim falls into a failure write.
LeaseRespected ==
  [][\A c \in Command, w \in Worker :
       Owned(w, c) /\ leased[c] /\ ~Owned(w, c)'
         => cur[w] = c /\ pc'[w] # pc[w]]_vars

\* The outbox with its executor implements at-least-once delivery, while no
\* claim falls into a failure write.
DeliveryState(c) ==
  CASE status[c] = "ABSENT" -> "absent"
    [] status[c] \in {"PENDING", "PROCESSING", "SENT", "FAILED"} -> "open"
    [] status[c] = "ACKED"  -> "done"
    [] status[c] = "DEAD"   -> "dead"
    [] status[c] = "PURGED" -> "forgotten"

Delivery == INSTANCE CommandDelivery WITH
  state     <- [c \in Command |-> DeliveryState(c)],
  confirmed <- [c \in Command |-> "ok" \in verdict[c]],
  refused   <- [c \in Command |-> "refused" \in verdict[c]]

ImplementsDelivery == Delivery!Spec

\* Every command put into the outbox is settled in the end, and stays so.
EventuallySettled ==
  \A c \in Command : status[c] # "ABSENT" ~> [](status[c] \in Settled)

\* Crash recovery of a claimed command does not make the carrier carry it
\* out twice.
PerformedOnce == \A c \in Command : performed[c] <= 1
=============================================================================
