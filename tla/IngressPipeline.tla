--------------------------- MODULE IngressPipeline ---------------------------
(***************************************************************************)
(* The way of a webhook event from the carrier's POST to the call manager  *)
(* (lib/telephony-v3/WebhookGateway, Redis/streams, the job loop of        *)
(* Workers/ingressWorker, Replay/replayService and Maintenance/retention). *)
(*                                                                         *)
(* A gateway handler looks the event up among the processed ones, stores   *)
(* its payload, adds an entry to the Redis stream and marks the event      *)
(* processed; only then is the POST answered 200, and until it is the      *)
(* carrier posts again.  Workers take batches of new and of stale pending  *)
(* entries, dispatch and acknowledge them one by one, and put an entry     *)
(* that keeps failing into the dead letter stream, from which an operator  *)
(* may replay it.  Every Redis or database call is a step.                 *)
(*                                                                         *)
(* Not modelled: events without an id, which are never duplicates; the     *)
(* trimming of the streams at 100 000 and 50 000 entries; two replays of   *)
(* one dead letter at once; what a dispatch does (module CallManager).     *)
(***************************************************************************)
EXTENDS Naturals, FiniteSets

CONSTANTS
  Event,
  Post, EventOf,   \* POSTs of the carrier; those of one event are retries
  Worker,
  Entry,           \* ids of the ingress stream; bound of the model: as many
                   \* entries are added, by handlers and replays
  Copy,            \* ids of the dead letter stream
  MaxDeliveries,   \* WORKER.MAX_DELIVERY_ATTEMPTS (5)
  BatchSize,       \* entries a worker takes at once
  MaxMishaps,      \* bound of the model: crashes, failing calls, lapses
  NoEvent, NoEntry

ASSUME IngressAssumption ==
  /\ Entry \subseteq Nat
  /\ Copy \subseteq Nat
  /\ MaxDeliveries \in Nat \ {0, 1}
  /\ BatchSize \in Nat \ {0}
  /\ EventOf \in [Post -> Event]
  /\ MaxMishaps \in Nat
  /\ NoEvent \notin Event
  /\ NoEntry \notin Entry

VARIABLES
  marked,      \* ProcessedTelnyxEvent rows
  payload,     \* v3:ingress:payload:<hash of the body>
  entry,       \* state of each id of the ingress stream
  about,       \* the event of an entry
  deliveries,  \* the delivery count of the group's pending list
  copy,        \* state of each id of the dead letter stream
  copied,      \* the event of a dead letter
  hpc,         \* where the handler of each POST is
  late,        \* history: the POST came after its event had been answered
  wpc, todo, job,        \* each worker: where it is, its batch, its entry
  mishaps,     \* counted up to its bound
  answered,    \* history: events answered 200
  processed,   \* history: events a dispatch has completed for
  excused,     \* history: events whose mark failed or was purged
  lapsed       \* history: events whose payload has outlived its TTL

streamVars  == <<entry, about, deliveries, copy, copied>>
handlerVars == <<hpc, late>>
workerVars  == <<wpc, todo, job>>
history     == <<answered, processed, excused, lapsed>>
vars == <<marked, payload, streamVars, handlerVars, workerVars,
          mishaps, history>>

Queued == {x \in Entry : entry[x] \in {"new", "pending"}}
-----------------------------------------------------------------------------
Init ==
  /\ marked     = {}
  /\ payload    = {}
  /\ entry      = [x \in Entry |-> "absent"]
  /\ about      = [x \in Entry |-> NoEvent]
  /\ deliveries = [x \in Entry |-> 0]
  /\ copy       = [c \in Copy |-> "absent"]
  /\ copied     = [c \in Copy |-> NoEvent]
  /\ hpc        = [p \in Post |-> "unsent"]
  /\ late       = [p \in Post |-> FALSE]
  /\ wpc        = [w \in Worker |-> "idle"]
  /\ todo       = [w \in Worker |-> {}]
  /\ job        = [w \in Worker |-> NoEntry]
  /\ mishaps    = 0
  /\ answered   = {}
  /\ processed  = {}
  /\ excused    = {}
  /\ lapsed     = {}

\* XADD: the next id of a stream, and the entry of the ingress stream.
NextId(stream, ids) ==
  {x \in ids : /\ stream[x] = "absent"
               /\ \A y \in ids : y < x => stream[y] # "absent"}

AddEntry(x, e) ==
  /\ entry' = [entry EXCEPT ![x] = "new"]
  /\ about' = [about EXCEPT ![x] = e]

Mishap == mishaps < MaxMishaps /\ mishaps' = mishaps + 1
-----------------------------------------------------------------------------
(***************************************************************************)
(* handleV3WebhookIngress, called by the handler of the POST               *)
(***************************************************************************)
At(p, step) == hpc' = [hpc EXCEPT ![p] = step]

\* The carrier posts an event: the first time, again for want of a 200, or
\* again although it was answered.  A POST that stops anywhere, because its
\* process died or a call threw, is answered with an error or not at all.
Send(p) ==
  /\ hpc[p] = "unsent"
  /\ At(p, "check")
  /\ late' = [late EXCEPT ![p] = EventOf[p] \in answered \ excused]
  /\ UNCHANGED <<marked, payload, streamVars, workerVars, mishaps, history>>

Answer(p) ==
  /\ answered' = answered \cup {EventOf[p]}
  /\ At(p, "answered")

(* Mutant: the event is claimed when it is looked up.                      *)
CheckAndClaim(p) ==
  /\ hpc[p] = "check"
  /\ marked' = marked \cup {EventOf[p]}
  /\ IF EventOf[p] \in marked
     THEN Answer(p)
     ELSE At(p, "store") /\ UNCHANGED answered
  /\ UNCHANGED <<payload, streamVars, late, workerVars, mishaps,
                 processed, excused, lapsed>>

\* isDurableDuplicate.
Check(p) ==
  /\ hpc[p] = "check"
  /\ IF EventOf[p] \in marked
     THEN Answer(p)
     ELSE At(p, "store") /\ UNCHANGED answered
  /\ UNCHANGED <<marked, payload, streamVars, late, workerVars, mishaps,
                 processed, excused, lapsed>>

(* Mutant: a payload that could not be stored does not stop the handler.   *)
StoreIfPossible(p) ==
  /\ hpc[p] = "store"
  /\ payload' \in {payload, payload \cup {EventOf[p]}}
  /\ At(p, "enqueue")
  /\ UNCHANGED <<marked, streamVars, late, workerVars, mishaps, history>>

\* storeIngressPayload.  Posts of the same body share the key.
Store(p) ==
  /\ hpc[p] = "store"
  /\ payload' = payload \cup {EventOf[p]}
  /\ At(p, "enqueue")
  /\ UNCHANGED <<marked, streamVars, late, workerVars, mishaps, history>>

\* enqueueIngressJob.
Enqueue(p) ==
  /\ hpc[p] = "enqueue"
  /\ \E x \in NextId(entry, Entry) : AddEntry(x, EventOf[p])
  /\ At(p, "mark")
  /\ UNCHANGED <<marked, payload, deliveries, copy, copied, late, workerVars,
                 mishaps, history>>

(* Mutant: the mark is left to a background call that may come to nothing. *)
MarkLater(p) ==
  /\ hpc[p] = "mark"
  /\ marked' \in {marked, marked \cup {EventOf[p]}}
  /\ Answer(p)
  /\ UNCHANGED <<payload, streamVars, late, workerVars, mishaps,
                 processed, excused, lapsed>>

\* markWebhookProcessed, whose unique row makes one of two concurrent
\* handlers answer "duplicate".  Both answer 200.
Mark(p) ==
  /\ hpc[p] = "mark"
  /\ marked' = marked \cup {EventOf[p]}
  /\ Answer(p)
  /\ UNCHANGED <<payload, streamVars, late, workerVars, mishaps,
                 processed, excused, lapsed>>

\* Any other failure of the mark is logged, and the answer is 200 as well.
MarkFails(p) ==
  /\ hpc[p] = "mark"
  /\ Mishap
  /\ excused' = excused \cup {EventOf[p]}
  /\ Answer(p)
  /\ UNCHANGED <<marked, payload, streamVars, late, workerVars,
                 processed, lapsed>>
-----------------------------------------------------------------------------
(***************************************************************************)
(* The job loop of startIngressWorker                                      *)
(***************************************************************************)
WorkerAt(w, p) == wpc' = [wpc EXCEPT ![w] = p]

(* Mutant: the worker goes on to its next batch with the entry it had.     *)
WorkerDoneKeepingJob(w) ==
  /\ WorkerAt(w, "idle")
  /\ todo' = [todo EXCEPT ![w] = {}]
  /\ UNCHANGED job

WorkerDone(w) ==
  /\ WorkerAt(w, "idle")
  /\ todo' = [todo EXCEPT ![w] = {}]
  /\ job'  = [job EXCEPT ![w] = NoEntry]

(* Mutant: no claim of entries that another worker has left pending.       *)
ReadNew(w) ==
  /\ wpc[w] = "idle"
  /\ \E S \in SUBSET {x \in Queued : entry[x] = "new"} \ {{}} :
       /\ Cardinality(S) <= BatchSize
       /\ todo' = [todo EXCEPT ![w] = S]
       /\ entry' = [x \in Entry |-> IF x \in S THEN "pending" ELSE entry[x]]
       /\ deliveries' = [x \in Entry |->
            IF x \in S /\ deliveries[x] < MaxDeliveries THEN deliveries[x] + 1
            ELSE deliveries[x]]
  /\ WorkerAt(w, "batch")
  /\ UNCHANGED <<marked, payload, about, copy, copied, handlerVars, job,
                 mishaps, history>>

\* claimStaleMessages and readIngressBatch.  An entry that has been pending
\* for STALE_CLAIM_MS is taken over even from a worker that is still on it.
Read(w) ==
  /\ wpc[w] = "idle"
  /\ \E S \in SUBSET Queued \ {{}} :
       /\ Cardinality(S) <= BatchSize
       /\ todo' = [todo EXCEPT ![w] = S]
       /\ entry' = [x \in Entry |-> IF x \in S THEN "pending" ELSE entry[x]]
       /\ deliveries' = [x \in Entry |->
            IF x \in S /\ deliveries[x] < MaxDeliveries THEN deliveries[x] + 1
            ELSE deliveries[x]]
  /\ WorkerAt(w, "batch")
  /\ UNCHANGED <<marked, payload, about, copy, copied, handlerVars, job,
                 mishaps, history>>

\* dispatchIngressJob: throws when the payload is gone, and whenever the call
\* manager does.
Dispatch(w) ==
  /\ wpc[w] = "batch"
  /\ \E x \in todo[w] :
       /\ job'  = [job EXCEPT ![w] = x]
       /\ todo' = [todo EXCEPT ![w] = @ \ {x}]
       /\ \/ /\ about[x] \in payload
             /\ processed' = processed \cup {about[x]}
             /\ WorkerAt(w, "ack")
          \/ /\ WorkerAt(w, "failed")
             /\ UNCHANGED processed
  /\ UNCHANGED <<marked, payload, streamVars, handlerVars, mishaps,
                 answered, excused, lapsed>>

EndBatch(w) ==
  /\ wpc[w] = "batch"
  /\ todo[w] = {}
  /\ WorkerDone(w)
  /\ UNCHANGED <<marked, payload, streamVars, handlerVars, mishaps, history>>

\* ackIngressJob, after a dispatch or at the end of moveToDlq.  XACK does not
\* ask which consumer the entry is pending with.
AckJob(w) ==
  /\ wpc[w] \in {"ack", "dlqack"}
  /\ entry' = [entry EXCEPT ![job[w]] = "acked"]
  /\ deliveries' = [deliveries EXCEPT ![job[w]] = 0]
  /\ job' = [job EXCEPT ![w] = NoEntry]
  /\ WorkerAt(w, "batch")
  /\ UNCHANGED <<marked, payload, about, copy, copied, handlerVars, todo,
                 mishaps, history>>

\* getMessageDeliveryCount: a low count when the entry is pending no more,
\* another worker having acknowledged it.
Count(w) ==
  /\ wpc[w] = "failed"
  /\ IF deliveries[job[w]] >= MaxDeliveries
     THEN WorkerAt(w, "dlq") /\ UNCHANGED job
     ELSE WorkerAt(w, "batch") /\ job' = [job EXCEPT ![w] = NoEntry]
  /\ UNCHANGED <<marked, payload, streamVars, handlerVars, todo,
                 mishaps, history>>

\* The XADD of moveToDlq.
MoveToDlq(w) ==
  /\ wpc[w] = "dlq"
  /\ \E c \in NextId(copy, Copy) :
       /\ copy'   = [copy EXCEPT ![c] = "dead"]
       /\ copied' = [copied EXCEPT ![c] = about[job[w]]]
  /\ WorkerAt(w, "dlqack")
  /\ UNCHANGED <<marked, payload, entry, about, deliveries, handlerVars, todo,
                 job, mishaps, history>>

\* The acknowledgement throws: the dispatch counts as failed.
AckFails(w) ==
  /\ wpc[w] = "ack"
  /\ Mishap
  /\ WorkerAt(w, "failed")
  /\ UNCHANGED <<marked, payload, streamVars, handlerVars, todo, job, history>>

\* The process dies; or a call of the failure path throws, which leaves the
\* loop over the batch.  Everything it had is pending.
WorkerFails(w) ==
  /\ wpc[w] # "idle"
  /\ Mishap
  /\ WorkerDone(w)
  /\ UNCHANGED <<marked, payload, streamVars, handlerVars, history>>
-----------------------------------------------------------------------------
(***************************************************************************)
(* replayDlqMessages                                                       *)
(***************************************************************************)
\* A dead letter that the replay has read goes back to the stream with the
\* fields of its entry; when an earlier replay of it was cut short before the
\* deletion, it does so again.
Requeue(c) ==
  /\ copy[c] \in {"dead", "requeued"}
  /\ \E x \in NextId(entry, Entry) : AddEntry(x, copied[c])
  /\ copy' = [copy EXCEPT ![c] = "requeued"]
  /\ UNCHANGED <<marked, payload, deliveries, copied, handlerVars, workerVars,
                 mishaps, history>>

(* Mutant: the dead letter is deleted first.                               *)
DeleteFirst(c) ==
  /\ copy[c] \in {"dead", "requeued"}
  /\ copy' = [copy EXCEPT ![c] = "deleted"]
  /\ UNCHANGED <<marked, payload, entry, about, deliveries, copied, handlerVars,
                 workerVars, mishaps, history>>

\* ackDlqMessage.
Delete(c) ==
  /\ copy[c] = "requeued"
  /\ copy' = [copy EXCEPT ![c] = "deleted"]
  /\ UNCHANGED <<marked, payload, entry, about, deliveries, copied, handlerVars,
                 workerVars, mishaps, history>>
-----------------------------------------------------------------------------
\* The payload's TTL of a day passes.
Lapse(e) ==
  /\ e \in payload
  /\ Mishap
  /\ payload' = payload \ {e}
  /\ lapsed'  = lapsed \cup {e}
  /\ UNCHANGED <<marked, streamVars, handlerVars, workerVars,
                 answered, processed, excused>>

\* purgeProcessedTelnyxEvents, after PROCESSED_EVENT_DAYS.
Purge(e) ==
  /\ e \in marked
  /\ Mishap
  /\ marked'  = marked \ {e}
  /\ excused' = excused \cup {e}
  /\ UNCHANGED <<payload, streamVars, handlerVars, workerVars,
                 answered, processed, lapsed>>

Handle(p) == Check(p) \/ Store(p) \/ Enqueue(p) \/ Mark(p) \/ MarkFails(p)

Work(w) == Dispatch(w) \/ EndBatch(w) \/ AckJob(w) \/ Count(w) \/ MoveToDlq(w)

Next ==
  \/ \E p \in Post : Send(p) \/ Handle(p)
  \/ \E w \in Worker : Read(w) \/ Work(w) \/ AckFails(w) \/ WorkerFails(w)
  \/ \E c \in Copy : Requeue(c) \/ Delete(c)
  \/ \E e \in Event : Lapse(e) \/ Purge(e)

Spec == Init /\ [][Next]_vars

(***************************************************************************)
(* Handlers and workers go on with what they have, and an entry that waits *)
(* is taken.  Nobody has to post, to replay or to fail.                    *)
(***************************************************************************)
Fairness ==
  /\ \A w \in Worker : WF_vars(Work(w))
  /\ \A x \in Entry : WF_vars(\E w \in Worker : Read(w) /\ x \in todo'[w])

LiveSpec == Spec /\ Fairness
-----------------------------------------------------------------------------
TypeOK ==
  /\ marked \subseteq Event
  /\ payload \subseteq Event
  /\ entry \in [Entry -> {"absent", "new", "pending", "acked"}]
  /\ about \in [Entry -> Event \cup {NoEvent}]
  /\ deliveries \in [Entry -> 0 .. MaxDeliveries]
  /\ copy \in [Copy -> {"absent", "dead", "requeued", "deleted"}]
  /\ copied \in [Copy -> Event \cup {NoEvent}]
  /\ hpc \in [Post -> {"unsent", "check", "store", "enqueue", "mark", "answered"}]
  /\ late \in [Post -> BOOLEAN]
  /\ wpc \in [Worker -> {"idle", "batch", "ack", "failed", "dlq", "dlqack"}]
  /\ todo \in [Worker -> SUBSET Entry]
  /\ job \in [Worker -> Entry \cup {NoEntry}]
  /\ mishaps \in 0 .. MaxMishaps
  /\ answered \subseteq Event
  /\ processed \subseteq Event
  /\ excused \subseteq Event
  /\ lapsed \subseteq Event
  \* A worker holds an entry exactly while it is about it.
  /\ \A w \in Worker : wpc[w] \in {"idle", "batch"} <=> job[w] = NoEntry

\* An event that the carrier will not post again, because it was answered 200
\* or would be, has been dispatched, waits in the stream, or lies in the dead
\* letter stream: no crash, failing call, takeover of an entry or replay loses
\* it.  handleV3WebhookIngress, moveToDlq, replayDlqMessages.
Kept(e) ==
  \/ e \in processed
  \/ \E x \in Queued : about[x] = e
  \/ \E c \in Copy : copy[c] \in {"dead", "requeued"} /\ copied[c] = e

NothingAcceptedIsLost == \A e \in answered \cup marked : Kept(e)

\* A worker that takes an entry finds its payload, unless the entry has waited
\* for a day.  handleV3WebhookIngress, storeIngressPayload.
QueuedHasPayload == \A x \in Queued : about[x] \in payload \cup lapsed

\* A POST that comes after its event was answered adds no entry, unless the
\* event's mark failed or was purged.  isDurableDuplicate, markWebhookProcessed.
AnsweredEventIsNotQueuedAgain ==
  \A p \in Post :
    hpc[p] \in {"store", "enqueue", "mark"} => ~late[p] \/ EventOf[p] \in excused

\* Every entry is acknowledged in the end, dispatched or moved to the dead
\* letter stream: takeovers, batches that are abandoned half way and entries
\* that always fail do not block it.  startIngressWorker.
EveryEntryIsSettled ==
  \A x \in Entry : entry[x] \in {"new", "pending"} ~> entry[x] = "acked"
=============================================================================
