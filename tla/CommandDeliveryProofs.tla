------------------------ MODULE CommandDeliveryProofs ------------------------
(***************************************************************************)
(* While no claim falls between the two queries of a failure write, the    *)
(* outbox implements at-least-once delivery and a live lease is exclusive. *)
(***************************************************************************)
EXTENDS CommandOutboxProofs

\* A worker between the two queries of a failure write still owns its row.
FailingOwns == \A w \in Worker : pc[w] = "failing" => Owned(w, cur[w])

\* The rows a worker holds in its hands exist.
RowsExist ==
  \A w \in Worker :
    /\ cur[w] \in Command => status[cur[w]] # "ABSENT"
    /\ \A c \in todo[w] : status[c] # "ABSENT"

OwnInv == FailingOwns /\ RowsExist

LEMMA InitOwnInv == Init => OwnInv
BY OutboxAssumption DEF Init, OwnInv, FailingOwns, RowsExist

LEMMA StepOwnInv ==
  ASSUME ~ClaimMidFailure, TInv, OwnInv, [Next]_vars PROVE OwnInv'
<1> USE OutboxAssumption
<1>a. /\ status \in [Command -> Status] /\ owner \in [Command -> Worker \cup {NoWorker}]
      /\ pc \in [Worker -> Control] /\ cur \in [Worker -> Command \cup {NoCommand}]
      /\ todo \in [Worker -> SUBSET Command]
  BY DEF TInv, TypeOK
<1>b. \A w \in Worker : pc[w] \in Section \cup {"sent", "stubfail"} => cur[w] \in Command
  BY DEF TInv, RowKnown
\* A worker that ends its row or its batch, and at most ends its ownership.
<1>c. ASSUME NEW w \in Worker, NextRow(w) \/ AbortBatch(w),
             \A c \in Command : status'[c] = "ABSENT" => status[c] = "ABSENT",
             \A v \in Worker, c \in Command : v # w /\ Owned(v, c) => Owned(v, c)'
      PROVE  OwnInv'
  <2>1. pc'[w] # "failing" /\ cur'[w] \in {cur[w], NoCommand} /\ todo'[w] \subseteq todo[w]
    BY <1>a, <1>c DEF NextRow, AbortBatch
  <2>2. \A v \in Worker : v # w => pc'[v] = pc[v] /\ cur'[v] = cur[v] /\ todo'[v] = todo[v]
    BY <1>c, OthersStay
  <2>3. FailingOwns'
    <3> SUFFICES ASSUME NEW v \in Worker, pc'[v] = "failing" PROVE Owned(v, cur[v])'
      BY DEF FailingOwns, Owned
    <3>1. v # w /\ pc[v] = "failing" /\ cur'[v] = cur[v]
      BY <2>1, <2>2
    <3>2. cur[v] \in Command /\ Owned(v, cur[v])
      BY <1>b, <3>1 DEF OwnInv, FailingOwns, Section
    <3>3. status'[cur[v]] = "PROCESSING" /\ owner'[cur[v]] = v
      BY <1>c, <3>1, <3>2 DEF Owned
    <3> QED BY <3>1, <3>3 DEF Owned
  <2>4. RowsExist'
    <3>1. \A v \in Worker : cur'[v] \in {cur[v], NoCommand} /\ todo'[v] \subseteq todo[v]
      BY <2>1, <2>2
    <3>2. \A c \in Command : status[c] # "ABSENT" => status'[c] # "ABSENT"
      BY <1>c
    <3> QED BY <1>a, <3>1, <3>2 DEF OwnInv, RowsExist
  <2> QED BY <2>3, <2>4 DEF OwnInv
\* A worker that stays on its row, the rows unchanged.
<1>d. ASSUME NEW w \in Worker, NEW x, x # "failing", pc' = [pc EXCEPT ![w] = x],
             UNCHANGED <<status, owner, cur, todo>>
      PROVE  OwnInv'
  BY <1>a, <1>d DEF OwnInv, FailingOwns, RowsExist, Owned
<1>e. ASSUME UNCHANGED <<status, owner, pc, cur, todo>> PROVE OwnInv'
  BY <1>e DEF OwnInv, FailingOwns, RowsExist, Owned
<1>1. ASSUME NEW w \in Worker, Claim(w) PROVE OwnInv'
  <2>1. PICK S \in SUBSET Claimable :
          /\ status' = [c \in Command |-> IF c \in S THEN "PROCESSING" ELSE status[c]]
          /\ owner'  = [c \in Command |-> IF c \in S THEN w ELSE owner[c]]
          /\ todo'   = [todo EXCEPT ![w] = S]
    BY <1>1 DEF Claim
  <2>2. UNCHANGED cur /\ pc' = [pc EXCEPT ![w] = "batch"]
    BY <1>1 DEF Claim
  <2>3. \A v \in Worker : pc[v] = "failing" => cur[v] \notin S
    BY <2>1 DEF Claimable
  <2>4. FailingOwns'
    BY <1>a, <1>b, <2>1, <2>2, <2>3 DEF OwnInv, FailingOwns, Owned, Section
  <2>5. RowsExist'
    BY <1>a, <2>1, <2>2 DEF OwnInv, RowsExist, Claimable
  <2> QED BY <2>4, <2>5 DEF OwnInv
<1>2. ASSUME NEW w \in Worker, TakeLock(w) PROVE OwnInv'
  <2>1. PICK c \in NextRows(w) :
          cur' = [cur EXCEPT ![w] = c] /\ todo' = [todo EXCEPT ![w] = @ \ {c}]
    BY <1>2 DEF TakeLock
  <2>2. c \in todo[w] /\ UNCHANGED <<status, owner>> /\ pc' = [pc EXCEPT ![w] = "locked"]
    BY <1>2 DEF TakeLock, NextRows, rowVars
  <2> QED BY <1>a, <2>1, <2>2 DEF OwnInv, FailingOwns, RowsExist, Owned
<1>3. ASSUME NEW w \in Worker, LockTimeout(w) \/ Crash(w) \/ StoreFails(w) \/ StubStoreFails(w)
      PROVE  OwnInv'
  BY <1>3, <1>c DEF LockTimeout, Crash, StoreFails, StubStoreFails, rowVars, Owned
<1>4. ASSUME NEW w \in Worker, RecordStarted(w) PROVE OwnInv'
  <2>1. UNCHANGED <<status, owner>>
    BY <1>4 DEF RecordStarted, rowVars
  <2>2. \/ AbortBatch(w)
        \/ pc' = [pc EXCEPT ![w] = "calling"] /\ UNCHANGED <<cur, todo>>
    BY <1>4 DEF RecordStarted
  <2> QED BY <1>c, <1>d, <2>1, <2>2 DEF Owned
<1>5. ASSUME NEW w \in Worker, CallCarrier(w) PROVE OwnInv'
  BY <1>5, <1>d DEF CallCarrier, rowVars
<1>6. ASSUME NEW w \in Worker, Complete(w) PROVE OwnInv'
  <2>1. /\ Owned(w, cur[w]) /\ NextRow(w)
        /\ status' = [status EXCEPT ![cur[w]] = "ACKED"]
        /\ owner'  = [owner EXCEPT ![cur[w]] = NoWorker]
    BY <1>6 DEF Complete
  <2> QED BY <1>a, <1>c, <2>1 DEF Owned
<1>7. ASSUME NEW w \in Worker, ReadForFailure(w) \/ StubReadForFailure(w) PROVE OwnInv'
  <2>1. UNCHANGED <<status, owner>>
    BY <1>7 DEF ReadForFailure, StubReadForFailure, rowVars
  <2>2. CASE NextRow(w)
    BY <1>c, <2>1, <2>2 DEF Owned
  <2>3. CASE Owned(w, cur[w]) /\ pc' = [pc EXCEPT ![w] = "failing"] /\ UNCHANGED <<cur, todo>>
    BY <1>a, <2>1, <2>3 DEF OwnInv, FailingOwns, RowsExist, Owned
  <2> QED BY <1>7, <2>2, <2>3 DEF ReadForFailure, StubReadForFailure
<1>8. ASSUME NEW w \in Worker, WriteFailure(w) PROVE OwnInv'
  <2>1. PICK x \in {"DEAD", "FAILED"} : status' = [status EXCEPT ![cur[w]] = x]
    BY <1>8 DEF WriteFailure, FailureWrite, RecordFailure
  <2>2. NextRow(w) /\ owner' = [owner EXCEPT ![cur[w]] = NoWorker] /\ pc[w] = "failing"
    BY <1>8 DEF WriteFailure, FailureWrite, RecordFailure
  <2>3. Owned(w, cur[w])
    BY <2>2 DEF OwnInv, FailingOwns
  <2> QED BY <1>a, <1>c, <2>1, <2>2, <2>3 DEF Owned
<1>9. ASSUME NEW w \in Worker, StubSend(w) PROVE OwnInv'
  <2>1. PICK c \in todo[w] :
          /\ cur'  = [cur EXCEPT ![w] = c]
          /\ todo' = [todo EXCEPT ![w] = @ \ {c}]
          /\ \/ /\ Owned(w, c)
                /\ status' = [status EXCEPT ![c] = "SENT"]
                /\ pc'     = [pc EXCEPT ![w] = "sent"]
             \/ pc' = [pc EXCEPT ![w] = "stubfail"] /\ UNCHANGED status
    BY <1>9 DEF StubSend
  <2>2. UNCHANGED owner
    BY <1>9 DEF StubSend
  <2>3. FailingOwns'
    <3> SUFFICES ASSUME NEW v \in Worker, pc'[v] = "failing" PROVE Owned(v, cur[v])'
      BY DEF FailingOwns, Owned
    <3>1. v # w /\ pc[v] = "failing" /\ cur'[v] = cur[v]
      BY <1>a, <2>1
    <3>2. Owned(v, cur[v]) /\ cur[v] \in Command
      BY <1>b, <3>1 DEF OwnInv, FailingOwns, Section
    <3>3. status'[cur[v]] = status[cur[v]]
      <4>1. CASE Owned(w, c) /\ status' = [status EXCEPT ![c] = "SENT"]
        <5>1. cur[v] # c
          BY <3>1, <3>2, <4>1 DEF Owned
        <5> QED BY <1>a, <3>2, <4>1, <5>1
      <4>2. CASE UNCHANGED status
        BY <4>2
      <4> QED BY <2>1, <4>1, <4>2
    <3> QED BY <2>2, <3>1, <3>2, <3>3 DEF Owned
  <2>4. RowsExist'
    <3>1. \A d \in Command : status[d] # "ABSENT" => status'[d] # "ABSENT"
      BY <1>a, <2>1
    <3>2. \A v \in Worker : cur'[v] \in {cur[v]} \cup todo[v] /\ todo'[v] \subseteq todo[v]
      BY <1>a, <2>1
    <3> QED BY <1>a, <3>1, <3>2 DEF OwnInv, RowsExist
  <2> QED BY <2>3, <2>4 DEF OwnInv
<1>10. ASSUME NEW w \in Worker, StubAck(w) PROVE OwnInv'
  <2>1. CASE /\ status[cur[w]] = "SENT" /\ NextRow(w)
             /\ status' = [status EXCEPT ![cur[w]] = "ACKED"]
             /\ owner'  = [owner EXCEPT ![cur[w]] = NoWorker]
    BY <1>a, <1>c, <2>1 DEF Owned
  <2>2. CASE pc' = [pc EXCEPT ![w] = "stubfail"] /\ UNCHANGED <<status, owner, cur, todo>>
    BY <1>d, <2>2
  <2> QED BY <1>10, <2>1, <2>2 DEF StubAck
<1>12. ASSUME NEW w \in Worker, CompleteThrows(w) PROVE OwnInv'
  <2>1. UNCHANGED <<status, owner>> /\ (AbortBatch(w) \/ UNCHANGED <<pc, cur, todo>>)
    BY <1>12 DEF CompleteThrows, rowVars
  <2> QED BY <1>c, <1>e, <2>1 DEF Owned
<1>15. ASSUME NEW w \in Worker, RenewLease(w) PROVE OwnInv'
  BY <1>15, <1>e DEF RenewLease, workerVars
<1>17. ASSUME NEW c \in Command, RowStep(c) PROVE OwnInv'
  <2>1. /\ UNCHANGED <<owner, pc, cur, todo>>
        /\ \/ UNCHANGED status
           \/ status[c] # "PROCESSING" /\ status' = [status EXCEPT ![c] = "PENDING"]
           \/ status[c] # "PROCESSING" /\ status' = [status EXCEPT ![c] = "PURGED"]
    BY <1>17 DEF RowStep, Enqueue, LeaseExpires, BackoffElapses, Purge, workerVars
  <2>2. \A v \in Worker, d \in Command : Owned(v, d) => Owned(v, d)'
    BY <1>a, <2>1 DEF Owned
  <2>3. FailingOwns'
    BY <1>b, <2>1, <2>2 DEF OwnInv, FailingOwns, Section, Owned
  <2>4. RowsExist'
    BY <1>a, <2>1 DEF OwnInv, RowsExist
  <2> QED BY <2>3, <2>4 DEF OwnInv
<1>18. ASSUME NEW s \in Session, LockStep(s) PROVE OwnInv'
  BY <1>18, <1>e DEF LockStep, LockExpires, OtherLocks, rowVars, workerVars
<1>19. CASE UNCHANGED vars
  BY <1>19, <1>e DEF vars, rowVars, workerVars
<1> QED
  BY <1>1, <1>2, <1>3, <1>4, <1>5, <1>6, <1>7, <1>8, <1>9, <1>10, <1>12,
     <1>15, <1>17, <1>18, <1>19 DEF Next, WorkerStep, ExecutorStep, StubStep

THEOREM OwnInvHolds == ASSUME ~ClaimMidFailure PROVE Spec => []OwnInv
<1>1. TInv /\ OwnInv /\ [Next]_vars => OwnInv'
  BY StepOwnInv
<1> QED BY <1>1, InitOwnInv, TInvHolds, PTL DEF Spec
-----------------------------------------------------------------------------
(***************************************************************************)
(* Refinement of CommandDelivery.                                          *)
(***************************************************************************)
LEMMA States ==
  ASSUME NEW c \in Command
  PROVE  /\ status[c] = "ABSENT" => DeliveryState(c) = "absent"
         /\ status[c] \in {"PENDING", "PROCESSING", "SENT", "FAILED"} =>
              DeliveryState(c) = "open"
         /\ status[c] = "ACKED" => DeliveryState(c) = "done"
         /\ status[c] = "DEAD" => DeliveryState(c) = "dead"
         /\ status[c] = "PURGED" => DeliveryState(c) = "forgotten"
BY DEF DeliveryState

LEMMA NextStates ==
  ASSUME NEW c \in Command
  PROVE  /\ status'[c] = "ABSENT" => DeliveryState(c)' = "absent"
         /\ status'[c] \in {"PENDING", "PROCESSING", "SENT", "FAILED"} =>
              DeliveryState(c)' = "open"
         /\ status'[c] = "ACKED" => DeliveryState(c)' = "done"
         /\ status'[c] = "DEAD" => DeliveryState(c)' = "dead"
         /\ status'[c] = "PURGED" => DeliveryState(c)' = "forgotten"
         /\ status'[c] = status[c] => DeliveryState(c)' = DeliveryState(c)
BY DEF DeliveryState

LEMMA InitDelivery == Init => Delivery!Init
<1> SUFFICES ASSUME Init PROVE Delivery!Init
  OBVIOUS
<1>1. \A c \in Command : DeliveryState(c) = "absent"
  BY States DEF Init
<1>2. \A c \in Command, v \in {"ok", "refused"} : (v \in verdict[c]) = FALSE
  BY DEF Init
<1>3. [c \in Command |-> "ok" \in verdict[c]] = [c \in Command |-> FALSE]
  BY <1>2, Zenon
<1>4. [c \in Command |-> "refused" \in verdict[c]] = [c \in Command |-> FALSE]
  BY <1>2, Zenon
<1>5. tries = [c \in Command |-> 0]
  BY DEF Init
<1>6. [c \in Command |-> DeliveryState(c)] = [c \in Command |-> "absent"]
  BY <1>1
<1> QED BY <1>3, <1>4, <1>5, <1>6 DEF Delivery!Init

\* One row moves, the answers stay: a move of the abstract specification.
LEMMA OneRowMoves ==
  ASSUME TInv, NEW c \in Command, NEW x \in Status, UNCHANGED carrierVars,
         status' = [status EXCEPT ![c] = x]
  PROVE  Delivery!Move(c, DeliveryState(c), DeliveryState(c)')
<1>1. \A d \in Command : d # c => DeliveryState(d)' = DeliveryState(d)
  BY NextStates DEF TInv, TypeOK
<1>2. [d \in Command |-> DeliveryState(d)]' =
        [[d \in Command |-> DeliveryState(d)] EXCEPT ![c] = DeliveryState(c)']
  BY <1>1
<1> QED BY <1>2 DEF Delivery!Move, carrierVars

\* The answer of a call is one move of the abstract specification.
LEMMA AnswerIsATry ==
  ASSUME TInv, NEW c \in Command, DeliveryState(c) # "absent", UNCHANGED status,
         NEW a \in Answer,
         tries'   = [tries EXCEPT ![c] = IF @ < MaxAttempts THEN @ + 1 ELSE @],
         verdict' = [verdict EXCEPT ![c] = @ \cup Final(a)]
  PROVE  Delivery!Try(c)
<1> DEFINE has(v) == [d \in Command |-> v \in verdict[d]]
<1>1. verdict \in [Command -> SUBSET {"ok", "refused"}]
  BY DEF TInv, TypeOK
<1>2. \A d \in Command, v \in {"ok", "refused"} :
        v \in verdict'[d] <=> v \in verdict[d] \/ (d = c /\ v \in Final(a))
  BY <1>1
<1>3. ASSUME NEW v \in {"ok", "refused"}, v \notin Final(a) PROVE has(v)' = has(v)
  <2>1. \A d \in Command : (v \in verdict'[d]) = (v \in verdict[d])
    BY <1>2, <1>3
  <2> QED BY <2>1, Zenon
<1>4. ASSUME NEW v \in {"ok", "refused"}, v \in Final(a)
      PROVE  has(v)' = [has(v) EXCEPT ![c] = TRUE]
  <2>1. /\ \A d \in Command : d # c => (v \in verdict'[d]) = (v \in verdict[d])
        /\ (v \in verdict'[c]) = TRUE
    BY <1>2, <1>4
  <2>2. \A d \in Command : d # c => has(v)'[d] = has(v)[d]
    BY <2>1, Zenon
  <2>3. has(v)'[c] = TRUE
    BY <2>1, Zenon
  <2> QED BY <2>2, <2>3, Zenon
<1>5. \/ "ok" \in Final(a) /\ "refused" \notin Final(a)
      \/ "refused" \in Final(a) /\ "ok" \notin Final(a)
      \/ "ok" \notin Final(a) /\ "refused" \notin Final(a)
  BY DEF Final
<1>6. [d \in Command |-> DeliveryState(d)]' = [d \in Command |-> DeliveryState(d)]
  BY NextStates
<1>7. \/ has("ok")' = [has("ok") EXCEPT ![c] = TRUE] /\ has("refused")' = has("refused")
      \/ has("refused")' = [has("refused") EXCEPT ![c] = TRUE] /\ has("ok")' = has("ok")
      \/ has("ok")' = has("ok") /\ has("refused")' = has("refused")
  BY <1>3, <1>4, <1>5
<1> QED BY <1>6, <1>7 DEF Delivery!Try

\* Every step keeps the answers given, and moves no row or one row from one
\* state of delivery to the next.
LEMMA StepDelivery ==
  ASSUME ExecutorEnabled, ~ClaimMidFailure, TInv, OutcomeInv, OwnInv, [Next]_vars
  PROVE  [Delivery!Next]_(Delivery!vars)
<1> USE OutboxAssumption
<1>a. /\ status \in [Command -> Status]
      /\ tries \in [Command -> 0 .. MaxAttempts]
      /\ seen \in [Worker -> 0 .. (MaxAttempts - 1)]
  BY DEF TInv, TypeOK
<1>b. \A w \in Worker : pc[w] \in Section => cur[w] \in Command
  BY DEF TInv, RowKnown
<1>c. ASSUME UNCHANGED carrierVars, \A c \in Command : DeliveryState(c)' = DeliveryState(c)
      PROVE  UNCHANGED Delivery!vars
  BY <1>c DEF carrierVars, Delivery!vars
<1>d. ASSUME UNCHANGED carrierVars, UNCHANGED status PROVE UNCHANGED Delivery!vars
  BY <1>c, <1>d, NextStates
<1>1. ASSUME NEW w \in Worker, Claim(w) PROVE UNCHANGED Delivery!vars
  <2>1. PICK S \in SUBSET Claimable :
          status' = [c \in Command |-> IF c \in S THEN "PROCESSING" ELSE status[c]]
    BY <1>1 DEF Claim
  <2>2. ASSUME NEW c \in Command PROVE DeliveryState(c)' = DeliveryState(c)
    <3>1. CASE c \in S
      <4>1. status[c] \in {"PENDING", "FAILED", "PROCESSING"} /\ status'[c] = "PROCESSING"
        BY <2>1, <3>1 DEF Claimable
      <4> QED BY <4>1, States, NextStates
    <3>2. CASE c \notin S
      BY <2>1, <3>2, NextStates
    <3> QED BY <3>1, <3>2
  <2> QED BY <1>1, <1>c, <2>2 DEF Claim
<1>5. ASSUME NEW w \in Worker, CallCarrier(w) PROVE Delivery!Next
  <2>1. PICK c \in Command : c = cur[w]
    BY <1>5, <1>b DEF CallCarrier, Section
  <2>2. PICK a \in Answer :
          /\ tries'   = [tries EXCEPT ![c] = IF @ < MaxAttempts THEN @ + 1 ELSE @]
          /\ verdict' = [verdict EXCEPT ![c] = @ \cup Final(a)]
    BY <1>5, <2>1 DEF CallCarrier
  <2>3. status[c] \in Status \ {"ABSENT"} /\ UNCHANGED status
    BY <1>5, <1>a, <2>1 DEF OwnInv, RowsExist, CallCarrier, rowVars
  <2>4. DeliveryState(c) # "absent"
    BY <2>3, States DEF Status
  <2>5. Delivery!Try(c)
    BY <2>2, <2>3, <2>4, AnswerIsATry
  <2> QED BY <2>5 DEF Delivery!Next
<1>6. ASSUME NEW w \in Worker, Complete(w) PROVE Delivery!Next
  <2>1. PICK c \in Command : c = cur[w]
    BY <1>6, <1>b DEF Complete, Section
  <2>2. /\ status[c] = "PROCESSING" /\ UNCHANGED carrierVars
        /\ status' = [status EXCEPT ![c] = "ACKED"] /\ status'[c] = "ACKED"
    BY <1>6, <1>a, <2>1 DEF Complete, Owned
  <2>3. "ok" \in verdict[c]
    BY <1>6, <2>1 DEF Complete, OutcomeInv, Answered, Final
  <2>4. DeliveryState(c) = "open" /\ DeliveryState(c)' = "done"
    BY <2>2, States, NextStates
  <2>5. Delivery!Move(c, "open", "done")
    BY <2>2, <2>4, OneRowMoves DEF Status
  <2>6. Delivery!Finish(c)
    BY <2>3, <2>5 DEF Delivery!Finish
  <2> QED BY <2>6 DEF Delivery!Next
<1>8. ASSUME NEW w \in Worker, WriteFailure(w) PROVE [Delivery!Next]_(Delivery!vars)
  <2> DEFINE dead == answer[w] = "refused" \/ seen[w] + 1 >= MaxAttempts
  <2>1. PICK c \in Command : c = cur[w]
    BY <1>8, <1>b DEF WriteFailure, Section
  <2>2. /\ pc[w] = "failing" /\ UNCHANGED carrierVars
        /\ status' = [status EXCEPT ![c] = IF dead THEN "DEAD" ELSE "FAILED"]
    BY <1>8, <2>1 DEF WriteFailure, FailureWrite, RecordFailure
  <2>3. status[c] = "PROCESSING"
    BY <2>1, <2>2 DEF OwnInv, FailingOwns, Owned
  <2>4. dead => "refused" \in verdict[c] \/ tries[c] = MaxAttempts
    <3>1. seen[w] < tries[c] /\ Final(answer[w]) \subseteq verdict[c]
      BY <2>1, <2>2 DEF OutcomeInv, Counted, Answered
    <3>2. seen[w] \in 0 .. (MaxAttempts - 1) /\ tries[c] \in 0 .. MaxAttempts
      BY <1>a
    <3>3. answer[w] = "refused" => "refused" \in verdict[c]
      BY <3>1 DEF Final, Positive
    <3> QED BY <3>1, <3>2, <3>3
  <2> HIDE DEF dead
  <2>5. CASE dead
    <3>1. status' = [status EXCEPT ![c] = "DEAD"] /\ status'[c] = "DEAD"
      BY <1>a, <2>2, <2>5
    <3>2. DeliveryState(c) = "open" /\ DeliveryState(c)' = "dead"
      BY <2>3, <3>1, States, NextStates
    <3>3. Delivery!Move(c, "open", "dead")
      BY <2>2, <3>1, <3>2, OneRowMoves DEF Status
    <3>4. Delivery!GiveUp(c)
      BY <2>4, <2>5, <3>3 DEF Delivery!GiveUp
    <3> QED BY <3>4 DEF Delivery!Next
  <2>6. CASE ~dead
    <3>1. ASSUME NEW d \in Command PROVE DeliveryState(d)' = DeliveryState(d)
      <4>1. CASE d = c
        <5>1. status'[d] = "FAILED"
          BY <1>a, <2>2, <2>6, <4>1
        <5> QED BY <2>3, <4>1, <5>1, States, NextStates
      <4>2. CASE d # c
        BY <1>a, <2>2, <4>2, NextStates
      <4> QED BY <4>1, <4>2
    <3> QED BY <1>c, <2>2, <3>1
  <2> QED BY <2>5, <2>6
<1>9. ASSUME NEW w \in Worker, StubStep(w) \/ StubStoreFails(w) PROVE FALSE
  BY <1>9 DEF StubStep, StubSend, StubAck, StubReadForFailure, StubStoreFails,
     TInv, RowKnown
<1>10. ASSUME NEW w \in Worker,
              \/ TakeLock(w) \/ LockTimeout(w) \/ RecordStarted(w) \/ ReadForFailure(w)
              \/ CompleteThrows(w) \/ StoreFails(w) \/ RenewLease(w) \/ Crash(w)
       PROVE  UNCHANGED Delivery!vars
  BY <1>10, <1>d DEF TakeLock, LockTimeout, RecordStarted, ReadForFailure,
     CompleteThrows, StoreFails, RenewLease, Crash, rowVars
<1>17. ASSUME NEW c \in Command, RowStep(c) PROVE [Delivery!Next]_(Delivery!vars)
  <2>1. CASE Enqueue(c)
    <3>1. /\ status[c] = "ABSENT" /\ status' = [status EXCEPT ![c] = "PENDING"]
          /\ status'[c] = "PENDING" /\ UNCHANGED carrierVars
      BY <1>a, <2>1 DEF Enqueue
    <3>2. DeliveryState(c) = "absent" /\ DeliveryState(c)' = "open"
      BY <3>1, States, NextStates
    <3>3. Delivery!Submit(c)
      BY <3>1, <3>2, OneRowMoves DEF Delivery!Submit, Status
    <3> QED BY <3>3 DEF Delivery!Next
  <2>2. CASE LeaseExpires(c) \/ BackoffElapses(c)
    BY <1>d, <2>2 DEF LeaseExpires, BackoffElapses
  <2>3. CASE Purge(c)
    <3>1. /\ status[c] \in {"ACKED", "DEAD"} /\ status' = [status EXCEPT ![c] = "PURGED"]
          /\ status'[c] = "PURGED" /\ UNCHANGED carrierVars
      BY <1>a, <2>3 DEF Purge
    <3>2. DeliveryState(c) \in {"done", "dead"} /\ DeliveryState(c)' = "forgotten"
      BY <3>1, States, NextStates
    <3>3. Delivery!Forget(c)
      BY <3>1, <3>2, OneRowMoves DEF Delivery!Forget, Status
    <3> QED BY <3>3 DEF Delivery!Next
  <2> QED BY <1>17, <2>1, <2>2, <2>3 DEF RowStep
<1>18. ASSUME NEW s \in Session, LockStep(s) PROVE UNCHANGED Delivery!vars
  BY <1>18, <1>d DEF LockStep, LockExpires, OtherLocks, rowVars
<1>19. CASE UNCHANGED vars
  BY <1>19, <1>d DEF vars, rowVars
<1> QED
  BY <1>1, <1>5, <1>6, <1>8, <1>9, <1>10, <1>17, <1>18, <1>19
     DEF Next, WorkerStep, ExecutorStep

\* With the executor on, and no worker stalling for a lease inside a failure
\* write, the outbox delivers every command at least once, closes it for a
\* reason and never reopens it.  Outbox/commandOutbox.js, Executor/.
THEOREM DeliversAtLeastOnce ==
  ASSUME ExecutorEnabled, ~ClaimMidFailure PROVE Spec => ImplementsDelivery
<1>1. TInv /\ OutcomeInv /\ OwnInv /\ [Next]_vars => [Delivery!Next]_(Delivery!vars)
  BY StepDelivery
<1> QED
  BY <1>1, InitDelivery, TInvHolds, OutcomeInvHolds, OwnInvHolds, PTL
     DEF Spec, ImplementsDelivery, Delivery!Spec
-----------------------------------------------------------------------------
(***************************************************************************)
(* What a single step may not do.                                          *)
(***************************************************************************)
LEMMA StepKeepsAck ==
  ASSUME TInv, [Next]_vars, NEW c \in Command,
         status[c] = "ACKED", status'[c] \notin {"ACKED", "PURGED"}
  PROVE  \E w \in Worker : pc[w] = "failing" /\ cur[w] = c /\ ~Owned(w, c)
<1>a. status \in [Command -> Status]
  BY DEF TInv, TypeOK
<1>b. status'[c] # status[c]
  OBVIOUS
<1>1. ASSUME NEW w \in Worker, WriteFailure(w)
      PROVE  pc[w] = "failing" /\ cur[w] = c /\ ~Owned(w, c)
  <2>1. \E x \in Status : status' = [status EXCEPT ![cur[w]] = x]
    BY <1>1 DEF WriteFailure, FailureWrite, RecordFailure, Status
  <2>2. cur[w] = c
    BY <1>a, <1>b, <2>1
  <2> QED BY <1>1, <2>2 DEF WriteFailure, Owned
<1>2. ASSUME NEW w \in Worker, Claim(w) PROVE FALSE
  <2>1. PICK S \in SUBSET Claimable :
          status' = [d \in Command |-> IF d \in S THEN "PROCESSING" ELSE status[d]]
    BY <1>2 DEF Claim
  <2>2. c \notin S
    BY DEF Claimable
  <2> QED BY <1>b, <2>1, <2>2
<1>3. ASSUME NEW w \in Worker, Complete(w) PROVE FALSE
  BY <1>3, <1>a, <1>b DEF Complete, Owned
<1>4. ASSUME NEW w \in Worker, StubSend(w) PROVE FALSE
  <2>1. PICK d \in todo[w] :
          \/ Owned(w, d) /\ status' = [status EXCEPT ![d] = "SENT"]
          \/ UNCHANGED status
    BY <1>4 DEF StubSend
  <2> QED BY <1>a, <1>b, <2>1 DEF Owned
<1>5. ASSUME NEW w \in Worker, StubAck(w) PROVE FALSE
  BY <1>5, <1>a, <1>b DEF StubAck
<1>6. ASSUME NEW d \in Command, RowStep(d) PROVE FALSE
  BY <1>6, <1>a, <1>b DEF RowStep, Enqueue, LeaseExpires, BackoffElapses, Purge
<1>7. ASSUME NEW w \in Worker,
             \/ TakeLock(w) \/ LockTimeout(w) \/ RecordStarted(w) \/ CallCarrier(w)
             \/ ReadForFailure(w) \/ StubReadForFailure(w) \/ CompleteThrows(w)
             \/ StoreFails(w) \/ StubStoreFails(w) \/ RenewLease(w) \/ Crash(w)
      PROVE  FALSE
  BY <1>7, <1>b DEF TakeLock, LockTimeout, RecordStarted, CallCarrier,
     ReadForFailure, StubReadForFailure, CompleteThrows, StoreFails,
     StubStoreFails, RenewLease, Crash, rowVars
<1>8. ASSUME NEW s \in Session, LockStep(s) PROVE FALSE
  BY <1>8, <1>b DEF LockStep, LockExpires, OtherLocks, rowVars
<1>9. CASE UNCHANGED vars
  BY <1>9, <1>b DEF vars, rowVars
<1> QED
  BY <1>1, <1>2, <1>3, <1>4, <1>5, <1>6, <1>7, <1>8, <1>9
     DEF Next, WorkerStep, ExecutorStep, StubStep

\* Only a failure write whose worker lost the row can reopen an acknowledged
\* command, with or without the executor: markCommandExecutionFailed.
THEOREM AcksAreReopenedByStaleFailuresOnly == Spec => AckUndoneOnlyByStaleFailure
<1>1. TInv /\ [Next]_vars =>
        [\A c \in Command :
           status[c] = "ACKED" /\ status'[c] \notin {"ACKED", "PURGED"}
             => \E w \in Worker : pc[w] = "failing" /\ cur[w] = c /\ ~Owned(w, c)]_vars
  BY StepKeepsAck
<1> QED BY <1>1, TInvHolds, PTL DEF Spec, AckUndoneOnlyByStaleFailure

LEMMA StepKeepsSent ==
  ASSUME TInv, [Next]_vars, NEW c \in Command,
         status[c] = "SENT", status'[c] # "SENT"
  PROVE  \E w \in Worker :
           /\ cur[w] = c
           /\ \/ pc[w] = "sent" /\ owner[c] = w /\ status'[c] = "ACKED"
              \/ pc[w] = "failing" /\ ~Owned(w, c)
<1>a. status \in [Command -> Status]
  BY DEF TInv, TypeOK
<1>b. status'[c] # status[c]
  OBVIOUS
<1>1. ASSUME NEW w \in Worker, WriteFailure(w)
      PROVE  pc[w] = "failing" /\ cur[w] = c /\ ~Owned(w, c)
  <2>1. \E x \in Status : status' = [status EXCEPT ![cur[w]] = x]
    BY <1>1 DEF WriteFailure, FailureWrite, RecordFailure, Status
  <2>2. cur[w] = c
    BY <1>a, <1>b, <2>1
  <2> QED BY <1>1, <2>2 DEF WriteFailure, Owned
<1>2. ASSUME NEW w \in Worker, Claim(w) PROVE FALSE
  <2>1. PICK S \in SUBSET Claimable :
          status' = [d \in Command |-> IF d \in S THEN "PROCESSING" ELSE status[d]]
    BY <1>2 DEF Claim
  <2>2. c \notin S
    BY DEF Claimable
  <2> QED BY <1>b, <2>1, <2>2
<1>3. ASSUME NEW w \in Worker, Complete(w) PROVE FALSE
  BY <1>3, <1>a, <1>b DEF Complete, Owned
<1>4. ASSUME NEW w \in Worker, StubSend(w) PROVE FALSE
  <2>1. PICK d \in todo[w] :
          \/ Owned(w, d) /\ status' = [status EXCEPT ![d] = "SENT"]
          \/ UNCHANGED status
    BY <1>4 DEF StubSend
  <2> QED BY <1>a, <1>b, <2>1 DEF Owned
<1>5. ASSUME NEW w \in Worker, StubAck(w)
      PROVE  pc[w] = "sent" /\ cur[w] = c /\ owner[c] = w /\ status'[c] = "ACKED"
  BY <1>5, <1>a, <1>b DEF StubAck
<1>6. ASSUME NEW d \in Command, RowStep(d) PROVE FALSE
  BY <1>6, <1>a, <1>b DEF RowStep, Enqueue, LeaseExpires, BackoffElapses, Purge
<1>7. ASSUME NEW w \in Worker,
             \/ TakeLock(w) \/ LockTimeout(w) \/ RecordStarted(w) \/ CallCarrier(w)
             \/ ReadForFailure(w) \/ StubReadForFailure(w) \/ CompleteThrows(w)
             \/ StoreFails(w) \/ StubStoreFails(w) \/ RenewLease(w) \/ Crash(w)
      PROVE  FALSE
  BY <1>7, <1>b DEF TakeLock, LockTimeout, RecordStarted, CallCarrier,
     ReadForFailure, StubReadForFailure, CompleteThrows, StoreFails,
     StubStoreFails, RenewLease, Crash, rowVars
<1>8. ASSUME NEW s \in Session, LockStep(s) PROVE FALSE
  BY <1>8, <1>b DEF LockStep, LockExpires, OtherLocks, rowVars
<1>9. CASE UNCHANGED vars
  BY <1>9, <1>b DEF vars, rowVars
<1> QED
  BY <1>1, <1>2, <1>3, <1>4, <1>5, <1>6, <1>7, <1>8, <1>9
     DEF Next, WorkerStep, ExecutorStep, StubStep

\* A row marked SENT is moved on by its sender or by a stale failure write,
\* however its sender ends: runOutboxWorkerTick.
THEOREM SentRowsAreLeftAlone == Spec => SentRowIsSettledByItsSender
<1>1. TInv /\ [Next]_vars =>
        [\A c \in Command :
           status[c] = "SENT" /\ status'[c] # "SENT"
             => \E w \in Worker :
                  /\ cur[w] = c
                  /\ \/ pc[w] = "sent" /\ owner[c] = w /\ status'[c] = "ACKED"
                     \/ pc[w] = "failing" /\ ~Owned(w, c)]_vars
  BY StepKeepsSent
<1> QED BY <1>1, TInvHolds, PTL DEF Spec, SentRowIsSettledByItsSender

LEMMA StepRespectsLease ==
  ASSUME ExecutorEnabled, TInv, OwnInv, [Next]_vars,
         NEW c \in Command, NEW v \in Worker,
         Owned(v, c), leased[c], ~Owned(v, c)'
  PROVE  cur[v] = c /\ pc'[v] # pc[v]
<1>a. /\ status \in [Command -> Status] /\ owner \in [Command -> Worker \cup {NoWorker}]
      /\ pc \in [Worker -> Control]
  BY DEF TInv, TypeOK
<1>b. status'[c] # status[c] \/ owner'[c] # owner[c]
  BY DEF Owned
<1>1. ASSUME NEW w \in Worker, Claim(w) PROVE FALSE
  <2>1. PICK S \in SUBSET Claimable :
          /\ status' = [d \in Command |-> IF d \in S THEN "PROCESSING" ELSE status[d]]
          /\ owner'  = [d \in Command |-> IF d \in S THEN w ELSE owner[d]]
    BY <1>1 DEF Claim
  <2>2. c \notin S
    BY DEF Claimable, Owned
  <2> QED BY <1>b, <2>1, <2>2
<1>2. ASSUME NEW w \in Worker, Complete(w) \/ WriteFailure(w)
      PROVE  cur[v] = c /\ pc'[v] # pc[v]
  <2>1. /\ Owned(w, cur[w]) /\ NextRow(w) /\ pc[w] \in {"answered", "failing"}
        /\ \E x \in Status : status' = [status EXCEPT ![cur[w]] = x]
        /\ owner' = [owner EXCEPT ![cur[w]] = NoWorker]
    <3>1. CASE Complete(w)
      BY <3>1 DEF Complete, Status
    <3>2. CASE WriteFailure(w)
      BY <3>2 DEF WriteFailure, FailureWrite, RecordFailure, Status, OwnInv, FailingOwns
    <3> QED BY <1>2, <3>1, <3>2
  <2>2. cur[w] = c
    BY <1>a, <1>b, <2>1
  <2>3. w = v
    BY <2>1, <2>2 DEF Owned
  <2>4. pc'[w] \in {"idle", "batch"}
    BY <1>a, <2>1 DEF NextRow
  <2> QED BY <2>1, <2>2, <2>3, <2>4
<1>4. ASSUME NEW w \in Worker, StubStep(w) PROVE FALSE
  BY <1>4 DEF StubStep, StubSend, StubAck, StubReadForFailure, TInv, RowKnown
<1>6. ASSUME NEW d \in Command, RowStep(d) PROVE FALSE
  BY <1>6, <1>a, <1>b DEF RowStep, Enqueue, LeaseExpires, BackoffElapses, Purge, Owned
<1>7. ASSUME NEW w \in Worker,
             \/ TakeLock(w) \/ LockTimeout(w) \/ RecordStarted(w) \/ CallCarrier(w)
             \/ ReadForFailure(w) \/ CompleteThrows(w)
             \/ StoreFails(w) \/ StubStoreFails(w) \/ RenewLease(w) \/ Crash(w)
      PROVE  FALSE
  BY <1>7, <1>b DEF TakeLock, LockTimeout, RecordStarted, CallCarrier,
     ReadForFailure, CompleteThrows, StoreFails, StubStoreFails, RenewLease,
     Crash, rowVars
<1>8. ASSUME NEW s \in Session, LockStep(s) PROVE FALSE
  BY <1>8, <1>b DEF LockStep, LockExpires, OtherLocks, rowVars
<1>9. CASE UNCHANGED vars
  BY <1>9, <1>b DEF vars, rowVars
<1> QED
  BY <1>1, <1>2, <1>4, <1>6, <1>7, <1>8, <1>9
     DEF Next, WorkerStep, ExecutorStep

\* A lease that has not run out is ended by its owner alone, when it finishes
\* the row: claimPendingCommands and the owner guards of commandOutbox.js.
THEOREM LiveLeasesAreRespected ==
  ASSUME ExecutorEnabled, ~ClaimMidFailure PROVE Spec => LeaseRespected
<1>1. TInv /\ OwnInv /\ [Next]_vars =>
        [\A c \in Command, w \in Worker :
           Owned(w, c) /\ leased[c] /\ ~Owned(w, c)'
             => cur[w] = c /\ pc'[w] # pc[w]]_vars
  BY StepRespectsLease
<1> QED BY <1>1, TInvHolds, OwnInvHolds, PTL DEF Spec, LeaseRespected
=============================================================================
