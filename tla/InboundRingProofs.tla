-------------------------- MODULE InboundRingProofs --------------------------
(***************************************************************************)
(* Proofs about InboundRing, for any number of targets, handlers, app legs *)
(* and busy handlers.                                                      *)
(***************************************************************************)
EXTENDS InboundRing, TLAPS

----------------------------------------------------------------------------
(* The session operators.                                                   *)

LEMMA GoneIsASession ==
  /\ Gone \in Session
  /\ Gone.stage = "gone" /\ Gone.winner = NoLeg /\ \A l \in Leg : Gone.leg[l] = "unknown"
BY DEF Gone, Session, Stages, Statuses

LEMMA StageWrites ==
  ASSUME NEW s \in Session, NEW stage \in Stages
  PROVE  LET r == WithStage(s, stage)
         IN  /\ r \in Session /\ r.stage = stage /\ r.winner = s.winner
             /\ r.leg = s.leg
BY DEF Session, WithStage

LEMMA LegWrites ==
  ASSUME NEW s \in Session, NEW ls, NEW status \in Statuses
  PROVE  LET r == WithLegs(s, ls, status)
         IN  /\ r \in Session /\ r.stage = s.stage /\ r.winner = s.winner
             /\ \A l \in Leg : r.leg[l] = IF l \in ls THEN status ELSE s.leg[l]
BY DEF Session, WithLegs

LEMMA BridgeWrites ==
  ASSUME NEW s \in Session, NEW w \in Leg
  PROVE  LET r == BridgedBy(s, w)
         IN  r \in Session /\ r.stage = "bridged" /\ r.winner = w /\ r.leg = s.leg
BY DEF Session, BridgedBy, Stages

----------------------------------------------------------------------------
(* Where a handler can be, and what it then has.                            *)

DialerPlace == {"ring", "dialling", "register", "check", "registered", "recount", "resave"}
AnswerPlace == {"connecting", "reread", "picked", "claim", "mark", "cancel", "kept", "paired"}
EndPlace    == {"hangup", "ended", "noanswer", "loser"}
CarePlace   == {"route", "prompt", "record"}
\* The places at which a handler has no copy of the session.
NoCopy      == {"idle", "clear", "delete", "speak", "message"}
Place       == DialerPlace \cup AnswerPlace \cup EndPlace \cup CarePlace \cup NoCopy \cup {"accept"}

Being(p, kind, l, s, stale) ==
  [pc |-> p, kind |-> kind, leg |-> l, copy |-> s, stale |-> stale]
Activity == [pc : Place, kind : Kinds \cup {"dial"}, leg : Leg \cup {Caller},
           copy : Session, stale : BOOLEAN]

\* The dialer keeps to its places and the way to voicemail.  A handler past the
\* first step of an answer or a hangup has such an event in hand, of a leg.
Placed(t, r) ==
  /\ t # Dialer => r.pc \notin DialerPlace
  /\ t = Dialer => r.pc \in DialerPlace \cup {"idle", "route", "prompt", "speak"}
                   /\ r.kind = "dial"
  /\ r.pc \in {"ring", "dialling"} => r.leg = Caller
  /\ r.pc = "register" => r.leg < Targets
  /\ r.pc \in {"check", "registered"} => r.leg \in Leg
  /\ r.pc \in AnswerPlace => r.kind \in {"answered", "bridged"} /\ r.leg \in Leg
  /\ r.pc = "picked" => r.kind = "answered"
  /\ r.pc \in {"claim", "mark", "cancel", "kept", "paired"} => r.kind = "bridged"
  /\ r.pc \in EndPlace => r.kind = "hangup"
  /\ r.pc \in EndPlace \ {"hangup"} => r.leg \in Leg
  /\ r.pc \in NoCopy => r.copy = Gone
  /\ r.pc \notin NoCopy => r.copy.stage # "gone"

Whole ==
  /\ \A t \in Task : Placed(t, task[t])
  /\ \A e \in events : e[1] \in {"answered", "bridged"} => e[2] \in Leg
  /\ sess.stage = "gone" => sess = Gone

IInv == TypeOK /\ Whole

----------------------------------------------------------------------------
(* What a step does to its task and to the others.                          *)

Same(q, r) ==
  /\ q.pc = r.pc /\ q.kind = r.kind /\ q.leg = r.leg /\ q.copy = r.copy
  /\ ~q.stale => ~r.stale

\* Task t becomes r; to the others nothing happens but that a copy gets stale.
Turns(t, r) ==
  /\ r \in Activity /\ task' \in [Task -> Activity] /\ task'[t] = r
  /\ \A u \in Task \ {t} : Same(task'[u], task[u])

\* The step reads the session or leaves it alone.
Moves(t, r) == Turns(t, r) /\ sess' = sess

After(r, p, s) ==
  IF p = "idle" THEN Idle
  ELSE IF p \in {"speak", "message"} THEN Being(p, r.kind, Caller, Gone, FALSE)
  ELSE Being(p, r.kind, r.leg, s, FALSE)

\* The step writes the session.
Saves(t, s, p) ==
  /\ Turns(t, After(task[t], p, s))
  /\ s \in Session /\ sess' = s
  /\ \A u \in Task \ {t} : ~task'[u].stale => task[u].copy = Gone \/ sess' = sess
  /\ mishap' \subseteq mishap \cup {"overwritten", "revived"}
  /\ mishap' = {} => ~task[t].stale /\ sess # Gone
  /\ winner' = winner /\ events' = events
  /\ line' = line /\ caller' = caller /\ served' = served /\ astray' = astray

LEMMA Tasks == TypeOK => task \in [Task -> Activity]
BY DEF TypeOK, Activity, Place, DialerPlace, AnswerPlace, EndPlace, CarePlace, NoCopy

LEMMA ActivitiesAreTheirFields ==
  ASSUME NEW q \in Activity, NEW r \in Activity, Same(q, r), q.stale = r.stale
  PROVE  q = r
BY DEF Activity, Same

LEMMA ActivityWrites ==
  ASSUME NEW r \in Activity, NEW p \in Place, NEW l \in Leg \cup {Caller}, NEW s \in Session
  PROVE  /\ [r EXCEPT !.pc = p, !.copy = s, !.stale = FALSE] = Being(p, r.kind, r.leg, s, FALSE)
         /\ [r EXCEPT !.pc = p, !.leg = l, !.copy = s, !.stale = FALSE]
              = Being(p, r.kind, l, s, FALSE)
<1>1. /\ Being(p, r.kind, r.leg, s, FALSE) \in Activity
      /\ Being(p, r.kind, l, s, FALSE) \in Activity
  BY DEF Being, Activity
<1>2. LET q == [r EXCEPT !.pc = p, !.copy = s, !.stale = FALSE]
      IN  q \in Activity /\ Same(q, Being(p, r.kind, r.leg, s, FALSE)) /\ q.stale = FALSE
  BY DEF Being, Activity, Same
<1>3. LET q == [r EXCEPT !.pc = p, !.leg = l, !.copy = s, !.stale = FALSE]
      IN  q \in Activity /\ Same(q, Being(p, r.kind, l, s, FALSE)) /\ q.stale = FALSE
  BY DEF Being, Activity, Same
<1>4. \A k : Being(p, r.kind, k, s, FALSE).stale = FALSE
  BY DEF Being
<1> QED
  BY <1>1, <1>2, <1>3, <1>4, ActivitiesAreTheirFields

\* A load into the copy, and what the dialer does before it.
LEMMA LoadWrites ==
  ASSUME NEW r \in Activity, NEW p \in Place, NEW l \in Leg \cup {Caller}, NEW s \in Session
  PROVE  /\ [[r EXCEPT !.leg = l] EXCEPT !.pc = p] = Being(p, r.kind, l, r.copy, r.stale)
         /\ [[r EXCEPT !.copy = s, !.stale = FALSE] EXCEPT !.pc = p]
              = Being(p, r.kind, r.leg, s, FALSE)
         /\ [r EXCEPT !.pc = p] = Being(p, r.kind, r.leg, r.copy, r.stale)
         /\ {Being(p, r.kind, l, r.copy, r.stale),
             Being(p, r.kind, r.leg, s, FALSE), Being(p, r.kind, r.leg, r.copy, r.stale)}
              \subseteq Activity
<1>1. [[r EXCEPT !.leg = l] EXCEPT !.pc = p]
        = Being(p, r.kind, l, r.copy, r.stale)
  <2> DEFINE x == [[r EXCEPT !.leg = l] EXCEPT !.pc = p]
             y == Being(p, r.kind, l, r.copy, r.stale)
  <2>1. x \in Activity /\ y \in Activity /\ Same(x, y) /\ x.stale = y.stale
    BY DEF Being, Activity, Same
  <2> HIDE DEF x, y
  <2>2. x = y
    BY <2>1, ActivitiesAreTheirFields
  <2> QED
    BY <2>2 DEF x, y
<1>3. [[r EXCEPT !.copy = s, !.stale = FALSE] EXCEPT !.pc = p]
        = Being(p, r.kind, r.leg, s, FALSE)
  <2> DEFINE x == [[r EXCEPT !.copy = s, !.stale = FALSE] EXCEPT !.pc = p]
             y == Being(p, r.kind, r.leg, s, FALSE)
  <2>1. x \in Activity /\ y \in Activity /\ Same(x, y) /\ x.stale = y.stale
    BY DEF Being, Activity, Same
  <2> HIDE DEF x, y
  <2>2. x = y
    BY <2>1, ActivitiesAreTheirFields
  <2> QED
    BY <2>2 DEF x, y
<1>4. [r EXCEPT !.pc = p]
        = Being(p, r.kind, r.leg, r.copy, r.stale)
  <2> DEFINE x == [r EXCEPT !.pc = p]
             y == Being(p, r.kind, r.leg, r.copy, r.stale)
  <2>1. x \in Activity /\ y \in Activity /\ Same(x, y) /\ x.stale = y.stale
    BY DEF Being, Activity, Same
  <2> HIDE DEF x, y
  <2>2. x = y
    BY <2>1, ActivitiesAreTheirFields
  <2> QED
    BY <2>2 DEF x, y
<1>5. {Being(p, r.kind, l, r.copy, r.stale), Being(p, r.kind, r.leg, s, FALSE), Being(p, r.kind, r.leg, r.copy, r.stale)}
        \subseteq Activity
  BY DEF Being, Activity
<1> QED
  BY <1>1, <1>3, <1>4, <1>5

LEMMA IdleIsATask == Idle \in Activity /\ Idle.pc = "idle" /\ Idle.copy = Gone
BY GoneIsASession DEF Idle, Activity, Place, NoCopy

LEMMA HoldTurns ==
  ASSUME TypeOK, NEW t \in Task, NEW p \in Place, NEW s \in Session, Hold(t, p, s)
  PROVE  Turns(t, Being(p, task[t].kind, task[t].leg, s, task[t].stale))
BY Tasks DEF Hold, Turns, Being, Activity, Same

LEMMA GotoTurns ==
  ASSUME TypeOK, NEW t \in Task, NEW p \in Place, Goto(t, p)
  PROVE  Turns(t, Being(p, task[t].kind, task[t].leg, task[t].copy, task[t].stale))
<1>1. task[t].copy \in Session
  BY Tasks DEF Activity
<1> QED
  BY <1>1, HoldTurns DEF Goto

LEMMA FinishTurns ==
  ASSUME TypeOK, NEW t \in Task, Finish(t) PROVE Turns(t, Idle)
BY Tasks, IdleIsATask DEF Finish, Turns, Same

LEMMA LeaveTurns ==
  ASSUME TypeOK, NEW t \in Task, NEW p \in Place, Leave(t, p)
  PROVE  Turns(t, Being(p, task[t].kind, Caller, Gone, FALSE))
BY Tasks, GoneIsASession DEF Leave, Without, Turns, Being, Activity, Same

LEMMA TaskTurns ==
  ASSUME TypeOK, NEW t \in Task, NEW r \in Activity, task' = [task EXCEPT ![t] = r]
  PROVE  Turns(t, r)
BY Tasks DEF Turns, Same

LEMMA SaveSaves ==
  ASSUME TypeOK, NEW t \in Task, NEW s \in Session, NEW p \in Place, Save(t, s, p),
         winner' = winner, events' = events, UNCHANGED carrier
  PROVE  Saves(t, s, p)
<1> DEFINE r == After(task[t], p, s)
<1>0. task \in [Task -> Activity] /\ task[t] \in Activity
  BY Tasks
<1>1. r \in Activity
  BY <1>0, IdleIsATask, GoneIsASession DEF After, Being, Activity
<1>2. task' = Outdated(t, r, s)
  <2>1. /\ Without(task[t], p) = Being(p, task[t].kind, Caller, Gone, FALSE)
        /\ [task[t] EXCEPT !.pc = p, !.copy = s, !.stale = FALSE]
             = Being(p, task[t].kind, task[t].leg, s, FALSE)
    <3> DEFINE q == task[t]
    <3>1. q \in Activity /\ Gone \in Session /\ Caller \in Leg \cup {Caller}
      BY <1>0, GoneIsASession
    <3>2. Without(q, p) = [q EXCEPT !.pc = p, !.leg = Caller, !.copy = Gone, !.stale = FALSE]
      BY DEF Without
    <3> HIDE DEF q
    <3>3. [q EXCEPT !.pc = p, !.leg = Caller, !.copy = Gone, !.stale = FALSE]
             = Being(p, q.kind, Caller, Gone, FALSE)
      BY <3>1, ActivityWrites
    <3>4. [q EXCEPT !.pc = p, !.copy = s, !.stale = FALSE] = Being(p, q.kind, q.leg, s, FALSE)
      BY <3>1, ActivityWrites
    <3> QED
      BY <3>2, <3>3, <3>4 DEF q
  <2> QED
    BY <2>1 DEF Save, After
<1>3. ASSUME NEW u \in Task \ {t}
      PROVE  /\ task'[u] \in Activity /\ Same(task'[u], task[u])
             /\ ~task'[u].stale => task[u].copy = Gone \/ s = sess
  <2>1. task'[u] = [task[u] EXCEPT !.stale = @ \/ (task[u].copy # Gone /\ s # sess)]
    BY <1>2, <1>3 DEF Outdated
  <2>2. task[u] \in Activity
    BY <1>0
  <2> QED
    BY <2>1, <2>2 DEF Activity, Same
<1>4. task' \in [Task -> Activity] /\ task'[t] = r
  <2>1. task'[t] = r
    BY <1>2 DEF Outdated
  <2>2. task' = [u \in Task |-> task'[u]]
    BY <1>2 DEF Outdated
  <2> QED
    BY <1>1, <1>3, <2>1, <2>2
<1> QED
  BY <1>1, <1>3, <1>4 DEF Save, Saves, Turns, carrier

----------------------------------------------------------------------------
(* What each step writes, and where its task goes.                          *)

LEMMA Copies ==
  ASSUME TypeOK, NEW t \in Task
  PROVE  /\ task[t] \in Activity /\ task[t].copy \in Session
         /\ task[t].leg \in Leg \cup {Caller} /\ sess \in Session
         /\ task[t].kind \in Kinds \cup {"dial"} /\ task[t].stale \in BOOLEAN
         /\ "ringing" \in Statuses /\ "answered" \in Statuses /\ "cancelled" \in Statuses
         /\ "no-answer" \in Statuses /\ "dropped" \in Statuses /\ "failed" \in Statuses
         /\ "ringing" \in Stages /\ "connecting" \in Stages /\ "voicemail" \in Stages
BY Tasks DEF Activity, TypeOK, Statuses, Stages

\* The dialer's saves.
LEMMA DialerSaves ==
  ASSUME IInv
  PROVE  LET s == task[Dialer].copy IN
         /\ StartRinging => Saves(Dialer, WithStage(s, "ringing"), "dialling")
         /\ RegisterSave => Saves(Dialer, s, AfterResult(task[Dialer].leg))
         /\ RecountSave => Saves(Dialer, s, IF RingingIn(s) = {} THEN "route" ELSE "idle")
<1> USE DEF IInv
<1>0. Dialer \in Task /\ task[Dialer].copy \in Session
  BY Copies DEF Task
<1>1. ASSUME StartRinging
      PROVE  Saves(Dialer, WithStage(task[Dialer].copy, "ringing"), "dialling")
  <2>1. WithStage(task[Dialer].copy, "ringing") \in Session /\ "dialling" \in Place
    BY <1>0, StageWrites DEF Stages, Place, DialerPlace
  <2> QED
    BY <1>0, <1>1, <2>1, SaveSaves DEF StartRinging
<1>2. ASSUME RegisterSave
      PROVE  Saves(Dialer, task[Dialer].copy, AfterResult(task[Dialer].leg))
  <2>1. AfterResult(task[Dialer].leg) \in Place
    BY DEF AfterResult, Place, DialerPlace
  <2> QED
    BY <1>0, <1>2, <2>1, SaveSaves DEF RegisterSave
<1>3. ASSUME RecountSave
      PROVE  Saves(Dialer, task[Dialer].copy,
                   IF RingingIn(task[Dialer].copy) = {} THEN "route" ELSE "idle")
  <2>1. "route" \in Place /\ "idle" \in Place
    BY DEF Place, CarePlace, NoCopy
  <2> QED
    BY <1>0, <1>3, <2>1, SaveSaves DEF RecountSave
<1> QED
  BY <1>1, <1>2, <1>3

\* The handlers' saves.
LEMMA HandlerSaves ==
  ASSUME IInv, NEW t \in Task
  PROVE  LET s == task[t].copy
             l == task[t].leg
         IN
         /\ AcceptSave(t) => Saves(t, WithStage(s, "connecting"), "idle")
         /\ MarkConnecting(t) => Saves(t, WithStage(s, "connecting"), "reread")
         /\ MarkAnswered(t) => Saves(t, WithLegs(s, {l}, "answered"), "idle")
         /\ MarkPaired(t) => Saves(t, s, "idle")
         /\ MarkBridged(t) => Saves(t, BridgedBy(WithLegs(s, {l}, "answered"), l), "cancel")
         /\ SaveWon(t) => Saves(t, s, "idle")
         /\ LoserSave(t) => Saves(t, s, "idle")
         /\ NoAnswerSave(t) => Saves(t, s, IF Unanswered(s) THEN "route" ELSE "idle")
         /\ PromptSave(t) => Saves(t, WithStage(s, "voicemail"), "speak")
         /\ RecordSave(t) => Saves(t, WithStage(s, "voicemail"), "message")
<1> USE DEF IInv
<1> DEFINE s == task[t].copy
           l == task[t].leg
<1>s. s \in Session /\ {"connecting", "voicemail"} \subseteq Stages /\ "answered" \in Statuses
  BY Copies
<1>p. {"idle", "reread", "cancel", "route", "speak", "message"} \subseteq Place
  BY DEF Place, AnswerPlace, CarePlace, NoCopy
<1>w. /\ WithStage(s, "connecting") \in Session /\ WithStage(s, "voicemail") \in Session
      /\ WithLegs(s, {l}, "answered") \in Session
  BY <1>s, StageWrites, LegWrites
<1>0. /\ s \in Session
      /\ {"idle", "reread", "cancel", "route", "speak", "message"} \subseteq Place
      /\ WithStage(s, "connecting") \in Session /\ WithStage(s, "voicemail") \in Session
      /\ WithLegs(s, {l}, "answered") \in Session
  BY <1>s, <1>p, <1>w
<1>1. AcceptSave(t) => Saves(t, WithStage(s, "connecting"), "idle")
  BY <1>0, SaveSaves DEF AcceptSave
<1>2. MarkConnecting(t) => Saves(t, WithStage(s, "connecting"), "reread")
  BY <1>0, SaveSaves DEF MarkConnecting
<1>3. MarkAnswered(t) => Saves(t, WithLegs(s, {l}, "answered"), "idle")
  BY <1>0, SaveSaves DEF MarkAnswered
<1>4. MarkPaired(t) => Saves(t, s, "idle")
  BY <1>0, SaveSaves DEF MarkPaired
<1>5. ASSUME MarkBridged(t)
      PROVE  Saves(t, BridgedBy(WithLegs(s, {l}, "answered"), l), "cancel")
  <2>1. l \in Leg
    BY <1>5 DEF MarkBridged, At, Whole, Placed, AnswerPlace
  <2>2. BridgedBy(WithLegs(s, {l}, "answered"), l) \in Session
    BY <1>0, <2>1, BridgeWrites
  <2> QED
    BY <1>0, <1>5, <2>2, SaveSaves DEF MarkBridged
<1>6. SaveWon(t) => Saves(t, s, "idle")
  BY <1>0, SaveSaves DEF SaveWon
<1>7. LoserSave(t) => Saves(t, s, "idle")
  BY <1>0, SaveSaves DEF LoserSave
<1>8. NoAnswerSave(t) => Saves(t, s, IF Unanswered(s) THEN "route" ELSE "idle")
  BY <1>0, SaveSaves DEF NoAnswerSave
<1>9. PromptSave(t) => Saves(t, WithStage(s, "voicemail"), "speak")
  BY <1>0, SaveSaves DEF PromptSave
<1>10. RecordSave(t) => Saves(t, WithStage(s, "voicemail"), "message")
  BY <1>0, SaveSaves DEF RecordSave
<1> QED
  BY <1>1, <1>2, <1>3, <1>4, <1>5, <1>6, <1>7, <1>8, <1>9, <1>10

\* Task r goes on at p with the copy s it has.
Onward(r, p, s) == Being(p, r.kind, r.leg, s, r.stale)
\* What a load leaves in the copy.
Loaded(r) == IF sess = Gone THEN r.copy ELSE sess
Refreshed(r) == IF sess = Gone THEN r.stale ELSE FALSE

LEMMA DialerMoves ==
  ASSUME IInv
  PROVE  LET r == task[Dialer] IN
         /\ DialsReturn => Moves(Dialer, Onward(r, "register", r.copy))
         /\ RegisterLoad =>
              /\ r.leg + 1 \in Leg
              /\ sess = Gone => Moves(Dialer, Being(AfterResult(r.leg + 1), r.kind, r.leg + 1,
                                                    r.copy, r.stale))
              /\ sess # Gone => Moves(Dialer, Being("check", r.kind, r.leg + 1, sess, FALSE))
         /\ RegisterCheck =>
              LET x == Result(r.copy, r.leg, winner # NoLeg \/ HasWinner(r.copy))
              IN  x \in Session /\ Moves(Dialer, Onward(r, "registered", x))
         /\ Recount =>
              /\ sess = Gone => Moves(Dialer, Idle)
              /\ sess # Gone => Moves(Dialer, Being("resave", r.kind, r.leg, sess, FALSE))
<1> USE DEF IInv
<1> DEFINE r == task[Dialer]
<1>0. /\ Dialer \in Task /\ r \in Activity /\ r.copy \in Session /\ sess \in Session
      /\ r.leg \in Leg \cup {Caller} /\ DialerPlace \subseteq Place
      /\ task \in [Task -> Activity]
  BY Tasks, Copies DEF Task, Place
<1>1. DialsReturn => Moves(Dialer, Onward(r, "register", r.copy))
  BY <1>0, GotoTurns DEF DialsReturn, Moves, Onward, DialerPlace
<1>2. ASSUME RegisterLoad
      PROVE  /\ r.leg + 1 \in Leg
             /\ sess = Gone => Moves(Dialer, Being(AfterResult(r.leg + 1), r.kind, r.leg + 1,
                                                   r.copy, r.stale))
             /\ sess # Gone => Moves(Dialer, Being("check", r.kind, r.leg + 1, sess, FALSE))
  <2> DEFINE l == r.leg + 1
  <2>1. l \in Leg
    BY <1>0, <1>2, RingAssumption DEF RegisterLoad, At, Whole, Placed, Leg, Caller
  <2>2. AfterResult(l) \in Place
    BY <1>0 DEF AfterResult, DialerPlace
  <2>3. CASE sess = Gone
    <3>1. task' = [task EXCEPT ![Dialer] = [[r EXCEPT !.leg = l] EXCEPT !.pc = AfterResult(l)]]
      BY <1>2, <2>3 DEF RegisterLoad
    <3>2. /\ [[r EXCEPT !.leg = l] EXCEPT !.pc = AfterResult(l)]
               = Being(AfterResult(l), r.kind, l, r.copy, r.stale)
          /\ Being(AfterResult(l), r.kind, l, r.copy, r.stale) \in Activity
      <4> HIDE DEF r, l
      <4> QED
        BY <1>0, <2>1, <2>2, LoadWrites
    <3> QED
      BY <1>0, <1>2, <2>1, <2>3, <3>1, <3>2, TaskTurns DEF RegisterLoad, Moves
  <2>4. CASE sess # Gone
    <3>1. task' = [task EXCEPT ![Dialer] =
            [[[r EXCEPT !.leg = l] EXCEPT !.copy = sess, !.stale = FALSE] EXCEPT !.pc = "check"]]
      BY <1>2, <2>4 DEF RegisterLoad, Reloaded
    <3>2. /\ [[[r EXCEPT !.leg = l] EXCEPT !.copy = sess, !.stale = FALSE] EXCEPT !.pc = "check"]
               = Being("check", r.kind, l, sess, FALSE)
          /\ Being("check", r.kind, l, sess, FALSE) \in Activity
      <4> DEFINE q == [r EXCEPT !.leg = l]
      <4>1. /\ "check" \in Place
            /\ q \in Activity /\ q.kind = r.kind /\ q.leg = l
        BY <1>0, <2>1 DEF DialerPlace, Activity
      <4> HIDE DEF r, l, q
      <4>2. /\ [[q EXCEPT !.copy = sess, !.stale = FALSE] EXCEPT !.pc = "check"]
                 = Being("check", q.kind, q.leg, sess, FALSE)
            /\ Being("check", q.kind, q.leg, sess, FALSE) \in Activity
        BY <1>0, <4>1, LoadWrites
      <4> QED
        BY <4>1, <4>2 DEF q
    <3> QED
      BY <1>0, <1>2, <2>1, <2>4, <3>1, <3>2, TaskTurns DEF RegisterLoad, Moves
  <2> QED
    BY <2>1, <2>3, <2>4
<1>3. ASSUME RegisterCheck
      PROVE  LET x == Result(r.copy, r.leg, winner # NoLeg \/ HasWinner(r.copy))
             IN  x \in Session /\ Moves(Dialer, Onward(r, "registered", x))
  <2> DEFINE x == Result(r.copy, r.leg, winner # NoLeg \/ HasWinner(r.copy))
  <2>1. r.leg \in Leg
    BY <1>0, <1>3 DEF RegisterCheck, At, Whole, Placed
  <2>2. \A st \in {"failed", "ringing", "answered", "dropped"} : WithLegs(r.copy, {r.leg}, st) \in Session
    BY <1>0, LegWrites DEF Statuses
  <2>3. x \in Session
    BY <2>1, <2>2, BridgeWrites DEF Result
  <2>4. Hold(Dialer, "registered", x)
    BY <1>3 DEF RegisterCheck
  <2> QED
    BY <1>0, <1>3, <2>3, <2>4, HoldTurns DEF RegisterCheck, Moves, Onward, DialerPlace
<1>4. ASSUME Recount
      PROVE  /\ sess = Gone => Moves(Dialer, Idle)
             /\ sess # Gone => Moves(Dialer, Being("resave", r.kind, r.leg, sess, FALSE))
  <2>1. CASE sess = Gone
    BY <1>0, <1>4, <2>1, TaskTurns, IdleIsATask DEF Recount, Moves
  <2>2. CASE sess # Gone
    <3>1. task' = [task EXCEPT ![Dialer] =
            [[r EXCEPT !.copy = sess, !.stale = FALSE] EXCEPT !.pc = "resave"]]
      BY <1>4, <2>2 DEF Recount, Reloaded
    <3>2. /\ [[r EXCEPT !.copy = sess, !.stale = FALSE] EXCEPT !.pc = "resave"]
               = Being("resave", r.kind, r.leg, sess, FALSE)
          /\ Being("resave", r.kind, r.leg, sess, FALSE) \in Activity
      <4>1. "resave" \in Place
        BY <1>0 DEF DialerPlace
      <4> HIDE DEF r
      <4> QED
        BY <1>0, <4>1, LoadWrites
    <3> QED
      BY <1>0, <1>4, <2>2, <3>1, <3>2, TaskTurns DEF Recount, Moves
  <2> QED
    BY <2>1, <2>2
<1> QED
  BY <1>1, <1>2, <1>3, <1>4

LEMMA ReloadWrites ==
  ASSUME NEW r \in Activity, NEW p \in Place, sess \in Session
  PROVE  /\ Reloaded(r).copy = Loaded(r) /\ Reloaded(r).leg = r.leg /\ Reloaded(r).kind = r.kind
         /\ [Reloaded(r) EXCEPT !.pc = p] = Being(p, r.kind, r.leg, Loaded(r), Refreshed(r))
         /\ Being(p, r.kind, r.leg, Loaded(r), Refreshed(r)) \in Activity
<1>1. CASE sess = Gone
  BY <1>1, LoadWrites DEF Reloaded, Loaded, Refreshed
<1>2. CASE sess # Gone
  <2>1. Reloaded(r) = [r EXCEPT !.copy = sess, !.stale = FALSE]
    BY <1>2 DEF Reloaded
  <2>2. /\ [r EXCEPT !.copy = sess, !.stale = FALSE].copy = sess
        /\ [r EXCEPT !.copy = sess, !.stale = FALSE].leg = r.leg
        /\ [r EXCEPT !.copy = sess, !.stale = FALSE].kind = r.kind
    BY DEF Activity
  <2>3. /\ [[r EXCEPT !.copy = sess, !.stale = FALSE] EXCEPT !.pc = p]
              = Being(p, r.kind, r.leg, sess, FALSE)
        /\ Being(p, r.kind, r.leg, sess, FALSE) \in Activity
    BY LoadWrites
  <2> QED
    BY <1>2, <2>1, <2>2, <2>3 DEF Loaded, Refreshed
<1> QED
  BY <1>1, <1>2

\* Where an event of each kind starts, given the session.
StartOf(kind, s) ==
  IF kind \in {"answered", "bridged"}
    THEN IF s.stage \in {"bridged", "connecting"} THEN "reread" ELSE "connecting"
    ELSE IF kind = "spoken" THEN "record" ELSE kind

LEMMA BeginMoves ==
  ASSUME IInv, NEW t \in Task, NEW kind \in Kinds, NEW l \in Leg \cup {Caller}, Begin(t, kind, l)
  PROVE  \/ Moves(t, Idle) /\ (sess = Gone \/ kind = "answered")
         \/ /\ sess # Gone /\ (kind = "answered" => Registered(sess, l))
            /\ Moves(t, Being(StartOf(kind, sess), kind, l, sess, FALSE))
<1> USE DEF IInv
<1>1. CASE sess = Gone \/ (kind = "answered" /\ ~Registered(sess, l))
  BY <1>1, IdleIsATask, TaskTurns DEF Begin, Moves
<1>2. CASE ~(sess = Gone \/ (kind = "answered" /\ ~Registered(sess, l)))
  <2>1. StartOf(kind, sess) \in Place
    BY DEF StartOf, Kinds, Place, AnswerPlace, EndPlace, CarePlace
  <2>2. Being(StartOf(kind, sess), kind, l, sess, FALSE) \in Activity
    BY <2>1, Copies DEF Being, Activity
  <2>3. task' = [task EXCEPT ![t] =
          [pc |-> CASE kind \in {"answered", "bridged"} ->
                         IF sess.stage \in {"bridged", "connecting"} THEN "reread" ELSE "connecting"
                    [] kind = "spoken" -> "record"
                    [] OTHER -> kind,
           kind |-> kind, leg |-> l, copy |-> sess, stale |-> FALSE]]
    BY <1>2 DEF Begin
  <2>4. (CASE kind \in {"answered", "bridged"} ->
                IF sess.stage \in {"bridged", "connecting"} THEN "reread" ELSE "connecting"
           [] kind = "spoken" -> "record"
           [] OTHER -> kind) = StartOf(kind, sess)
    BY DEF StartOf, Kinds
  <2>5. task' = [task EXCEPT ![t] = Being(StartOf(kind, sess), kind, l, sess, FALSE)]
    BY <2>3, <2>4 DEF Being
  <2> QED
    BY <1>2, <2>2, <2>5, TaskTurns DEF Begin, Moves
<1> QED
  BY <1>1, <1>2

LEMMA AnswerMoves ==
  ASSUME IInv, NEW t \in Task
  PROVE  LET r == task[t]
             c == Loaded(r)
         IN
         /\ AnswerReload(t) =>
              \/ Moves(t, Idle)
              \/ /\ Registered(c, r.leg) /\ c.leg[r.leg] # "cancelled"
                 /\ ~(c.stage = "bridged" /\ c.winner = r.leg)
                 /\ Moves(t, Being(IF r.kind = "answered" THEN "picked" ELSE "claim",
                                   r.kind, r.leg, c, Refreshed(r)))
         /\ Claim(t) =>
              IF winner = NoLeg THEN Moves(t, Onward(r, "mark", r.copy))
              ELSE IF r.copy.stage = "bridged" THEN Moves(t, Idle)
              ELSE winner \in Leg /\ Moves(t, Onward(r, "paired", BridgedBy(r.copy, winner)))
         /\ CancelRemaining(t) =>
              Moves(t, Onward(r, "kept", WithLegs(r.copy, Losers(r.copy, r.leg), "cancelled")))
<1> USE DEF IInv
<1> DEFINE r == task[t]
           c == Loaded(r)
<1>0. /\ r \in Activity /\ r.copy \in Session /\ sess \in Session /\ AnswerPlace \subseteq Place
      /\ "cancelled" \in Statuses
  BY Copies DEF Place
<1>1. ASSUME AnswerReload(t)
      PROVE  \/ Moves(t, Idle)
             \/ /\ Registered(c, r.leg) /\ c.leg[r.leg] # "cancelled"
                /\ ~(c.stage = "bridged" /\ c.winner = r.leg)
                /\ Moves(t, Being(IF r.kind = "answered" THEN "picked" ELSE "claim",
                                  r.kind, r.leg, c, Refreshed(r)))
  <2> DEFINE p == IF r.kind = "answered" THEN "picked" ELSE "claim"
             gone == \/ c.stage = "bridged" /\ c.winner = r.leg
                     \/ ~Registered(c, r.leg)
                     \/ c.leg[r.leg] = "cancelled"
  <2>1. /\ Reloaded(r).copy = c /\ Reloaded(r).leg = r.leg /\ Reloaded(r).kind = r.kind
        /\ [Reloaded(r) EXCEPT !.pc = p] = Being(p, r.kind, r.leg, c, Refreshed(r))
        /\ Being(p, r.kind, r.leg, c, Refreshed(r)) \in Activity
    <3>1. p \in Place
      BY <1>0 DEF AnswerPlace
    <3> HIDE DEF r, p
    <3> QED
      BY <1>0, <3>1, ReloadWrites
  <2>2. task' = [task EXCEPT ![t] = IF gone THEN Idle ELSE Being(p, r.kind, r.leg, c, Refreshed(r))]
    BY <1>1, <2>1 DEF AnswerReload
  <2>3. CASE gone
    BY <1>1, <2>2, <2>3, IdleIsATask, TaskTurns DEF AnswerReload, Moves
  <2>4. CASE ~gone
    BY <1>1, <2>1, <2>2, <2>4, TaskTurns DEF AnswerReload, Moves
  <2> QED
    BY <2>3, <2>4
<1>2. ASSUME Claim(t)
      PROVE  IF winner = NoLeg THEN Moves(t, Onward(r, "mark", r.copy))
             ELSE IF r.copy.stage = "bridged" THEN Moves(t, Idle)
             ELSE winner \in Leg /\ Moves(t, Onward(r, "paired", BridgedBy(r.copy, winner)))
  <2>1. CASE winner = NoLeg
    BY <1>0, <1>2, <2>1, GotoTurns DEF Claim, Moves, Onward, AnswerPlace
  <2>2. CASE winner # NoLeg /\ r.copy.stage = "bridged"
    BY <1>2, <2>2, FinishTurns DEF Claim, Moves
  <2>3. CASE winner # NoLeg /\ r.copy.stage # "bridged"
    <3>1. winner \in Leg
      BY <2>3 DEF TypeOK
    <3>2. BridgedBy(r.copy, winner) \in Session
      BY <1>0, <3>1, BridgeWrites
    <3> QED
      BY <1>0, <1>2, <2>3, <3>1, <3>2, HoldTurns DEF Claim, Moves, Onward, AnswerPlace
  <2> QED
    BY <2>1, <2>2, <2>3
<1>3. ASSUME CancelRemaining(t)
      PROVE  Moves(t, Onward(r, "kept", WithLegs(r.copy, Losers(r.copy, r.leg), "cancelled")))
  <2>1. WithLegs(r.copy, Losers(r.copy, r.leg), "cancelled") \in Session
    BY <1>0, LegWrites
  <2> QED
    BY <1>0, <1>3, <2>1, HoldTurns DEF CancelRemaining, Moves, Onward, AnswerPlace
<1> QED
  BY <1>1, <1>2, <1>3

LEMMA EndMoves ==
  ASSUME IInv, NEW t \in Task
  PROVE  LET r == task[t] IN
         /\ IgnoreHangup(t) => Moves(t, Idle)
         /\ AbandonRing(t) \/ ClosingHangup(t) => Moves(t, Being("clear", r.kind, Caller, Gone, FALSE))
         /\ RingingLegHangup(t) => Moves(t, Onward(r, "ended", r.copy))
         /\ LoserHangup(t) => Moves(t, Onward(r, "loser", WithLegs(r.copy, {r.leg}, "cancelled")))
         /\ LegEnded(t) =>
              IF winner # NoLeg \/ r.copy.leg[r.leg] \in {"cancelled", "answered"} THEN Moves(t, Idle)
              ELSE Moves(t, Onward(r, "noanswer", WithLegs(r.copy, {r.leg}, "no-answer")))
         /\ ClearClaims(t) => Moves(t, Being("delete", r.kind, Caller, Gone, FALSE))
         /\ RouteToVoicemail(t) =>
              IF Blocked(r.copy) \/ Active(r.copy) THEN Moves(t, Idle)
              ELSE Moves(t, Onward(r, "prompt", r.copy))
         /\ SpeakPrompt(t) \/ RecordMessage(t) => Moves(t, Idle)
<1> USE DEF IInv
<1> DEFINE r == task[t]
<1>0. /\ r \in Activity /\ r.copy \in Session
      /\ {"clear", "delete", "ended", "loser", "noanswer", "prompt"} \subseteq Place
  BY Copies DEF Place, EndPlace, CarePlace, NoCopy
<1>1. /\ WithLegs(r.copy, {r.leg}, "cancelled") \in Session
      /\ WithLegs(r.copy, {r.leg}, "no-answer") \in Session
  BY <1>0, Copies, LegWrites
<1>2. IgnoreHangup(t) => Moves(t, Idle)
  BY FinishTurns DEF IgnoreHangup, Moves
<1>3. AbandonRing(t) \/ ClosingHangup(t) => Moves(t, Being("clear", r.kind, Caller, Gone, FALSE))
  BY <1>0, LeaveTurns DEF AbandonRing, ClosingHangup, Moves
<1>4. RingingLegHangup(t) => Moves(t, Onward(r, "ended", r.copy))
  BY <1>0, GotoTurns DEF RingingLegHangup, Moves, Onward
<1>5. LoserHangup(t) => Moves(t, Onward(r, "loser", WithLegs(r.copy, {r.leg}, "cancelled")))
  BY <1>0, <1>1, HoldTurns DEF LoserHangup, Moves, Onward
<1>6. LegEnded(t) =>
        IF winner # NoLeg \/ r.copy.leg[r.leg] \in {"cancelled", "answered"} THEN Moves(t, Idle)
        ELSE Moves(t, Onward(r, "noanswer", WithLegs(r.copy, {r.leg}, "no-answer")))
  BY <1>0, <1>1, HoldTurns, FinishTurns DEF LegEnded, Moves, Onward
<1>7. ClearClaims(t) => Moves(t, Being("delete", r.kind, Caller, Gone, FALSE))
  BY <1>0, LeaveTurns DEF ClearClaims, Moves
<1>8. RouteToVoicemail(t) =>
        IF Blocked(r.copy) \/ Active(r.copy) THEN Moves(t, Idle)
        ELSE Moves(t, Onward(r, "prompt", r.copy))
  BY <1>0, GotoTurns, FinishTurns DEF RouteToVoicemail, Moves, Onward
<1>9. SpeakPrompt(t) \/ RecordMessage(t) => Moves(t, Idle)
  BY FinishTurns DEF SpeakPrompt, RecordMessage, Moves
<1> QED
  BY <1>1, <1>2, <1>3, <1>4, <1>5, <1>6, <1>7, <1>8, <1>9

LEMMA DeleteTurns ==
  ASSUME IInv, NEW t \in Task, DeleteSession(t)
  PROVE  /\ Turns(t, Idle) /\ sess' = Gone
         /\ \A u \in Task \ {t} : ~task'[u].stale => task[u].copy = Gone \/ sess = Gone
<1> USE DEF IInv
<1>0. task \in [Task -> Activity]
  BY Tasks
<1>1. ASSUME NEW u \in Task \ {t}
      PROVE  /\ task'[u] \in Activity /\ Same(task'[u], task[u])
             /\ ~task'[u].stale => task[u].copy = Gone \/ sess = Gone
  <2>1. task'[u] = [task[u] EXCEPT !.stale = @ \/ (task[u].copy # Gone /\ Gone # sess)]
    BY <1>1 DEF DeleteSession, Outdated
  <2>2. task[u] \in Activity
    BY <1>0
  <2> QED
    BY <2>1, <2>2 DEF Activity, Same
<1>2. task'[t] = Idle /\ task' = [u \in Task |-> task'[u]]
  BY DEF DeleteSession, Outdated
<1>3. task' \in [Task -> Activity]
  BY <1>1, <1>2, IdleIsATask
<1> QED
  BY <1>1, <1>2, <1>3, IdleIsATask DEF DeleteSession, Turns

----------------------------------------------------------------------------
(* Types, and the places handlers are at.                                   *)

LineState == {"idle", "failed", "ringing", "answered", "bridged", "ended"}
Up        == {"ringing", "answered", "bridged"}

\* TypeOK and Whole of all that is neither session nor task.
Around ==
  /\ winner \in Leg \cup {NoLeg}
  /\ events \subseteq Kinds \X (Leg \cup {Caller})
  /\ \A e \in events : e[1] \in {"answered", "bridged"} => e[2] \in Leg
  /\ line \in [Leg -> LineState]
  /\ caller \in BOOLEAN /\ served \in BOOLEAN /\ astray \subseteq Leg
  /\ mishap \subseteq {"overwritten", "revived", "reclaimed", "untracked", "ignored"}

LEMMA IInvIsAround == IInv => Around
BY DEF IInv, TypeOK, Whole, Around, LineState

LEMMA KeepsIInv ==
  ASSUME IInv, NEW t \in Task, NEW r, Turns(t, r), Placed(t, r), Around',
         sess' \in Session, sess'.stage = "gone" => sess' = Gone
  PROVE  IInv'
<1>1. \A u \in Task : Placed(u, task'[u])
  BY DEF IInv, Whole, Turns, Same, Placed
<1>2. task' \in [Task -> Activity]
  BY DEF Turns
<1>3. TypeOK'
  BY <1>2 DEF Around, TypeOK, LineState, Activity, Place, DialerPlace, AnswerPlace, EndPlace,
     CarePlace, NoCopy
<1> QED
  BY <1>1, <1>3 DEF IInv, Whole, Around

LEMMA SavesKeepIInv ==
  ASSUME IInv, NEW t \in Task, NEW s, NEW p, Saves(t, s, p),
         Placed(t, After(task[t], p, s)), s.stage # "gone"
  PROVE  IInv'
<1>1. Around'
  BY IInvIsAround DEF Saves, Around
<1> QED
  BY <1>1, KeepsIInv DEF Saves

LEMMA MovesKeepIInv ==
  ASSUME IInv, NEW t \in Task, NEW r, Moves(t, r), Placed(t, r), Around'
  PROVE  IInv'
BY KeepsIInv DEF Moves, IInv, TypeOK, Whole

\* What a hangup, or the carrier ending a leg by itself, can do: some of the legs
\* ls that were up have ended, and the carrier says so.
BringsDown(ls) ==
  /\ \A l \in Leg : line'[l] # line[l] => l \in ls /\ line[l] \in Up /\ line'[l] = "ended"
                                       /\ <<"hangup", l>> \in events'
  /\ \A e \in events' \ events :
       \E l \in ls : e = <<"hangup", l>> /\ line[l] \in Up /\ line'[l] = "ended"
  /\ events \subseteq events' /\ astray \subseteq astray'
  /\ \A l \in astray' \ astray : l \in ls /\ line[l] \in Up
  /\ line' \in [Leg -> {line[l] : l \in Leg} \cup {"ended"}]

LEMMA DownBringsDown ==
  ASSUME NEW ls \in SUBSET Leg, Down(ls), \A l \in ls : line[l] \in Up, astray \subseteq astray',
         \A l \in astray' \ astray : l \in ls
  PROVE  BringsDown(ls)
BY DEF Down, BringsDown

\* A leg whose hangup failed is astray.
LEMMA HangUpBringsDown ==
  ASSUME NEW ls \in SUBSET Leg, HangUp(ls)
  PROVE  BringsDown(ls) /\ \A l \in ls : line'[l] \notin Up \/ l \in astray'
<1>1. PICK failed \in SUBSET UpIn(ls) :
        Down(UpIn(ls) \ failed) /\ astray' = astray \cup failed
  BY DEF HangUp
<1>2. UpIn(ls) = {l \in ls : line[l] \in Up}
  BY DEF UpIn, Up
<1>3. line' = [l \in Leg |-> IF l \in UpIn(ls) \ failed THEN "ended" ELSE line[l]]
  BY <1>1 DEF Down
<1>4. events' = events \cup ({"hangup"} \X (UpIn(ls) \ failed))
  BY <1>1 DEF Down
<1>5. BringsDown(ls)
  BY <1>1, <1>2, <1>3, <1>4 DEF BringsDown
<1>6. \A l \in ls : line'[l] \notin Up \/ l \in astray'
  BY <1>1, <1>2, <1>3 DEF Up
<1> QED
  BY <1>5, <1>6

LEMMA LegEndsBringsDown ==
  ASSUME NEW l \in Leg, LegEnds(l) PROVE BringsDown({l})
<1>1. line[l] \in Up
  BY DEF LegEnds, UpIn, Up
<1> QED
  BY <1>1, DownBringsDown DEF LegEnds

LEMMA DownKeepsAround ==
  ASSUME IInv, NEW ls \in SUBSET Leg, BringsDown(ls), winner' = winner, caller' = caller,
         served' = served, mishap' = mishap
  PROVE  Around'
<1>1. Around
  BY IInvIsAround
<1>2. line' \in [Leg -> LineState]
  BY <1>1 DEF BringsDown, Around, LineState
<1>3. events' \subseteq Kinds \X (Leg \cup {Caller})
  BY <1>1 DEF BringsDown, Around, Kinds
<1>4. \A e \in events' : e[1] \in {"answered", "bridged"} => e[2] \in Leg
  BY <1>1 DEF BringsDown, Around
<1>5. astray' \subseteq Leg
  BY <1>1 DEF BringsDown, Around
<1> QED
  BY <1>1, <1>2, <1>3, <1>4, <1>5 DEF Around

LEMMA IdleIsPlaced == \A t \in Task : Placed(t, Idle)
BY GoneIsASession DEF Placed, Idle, DialerPlace, AnswerPlace, EndPlace, NoCopy

LEMMA InitIInv == Init => IInv
<1> SUFFICES ASSUME Init PROVE IInv
  OBVIOUS
<1>1. /\ sess \in Session /\ sess.stage = "connect"
      /\ \A l \in Leg : sess.leg[l] = "unknown"
      /\ sess.winner = NoLeg
  BY DEF Init, Gone, Session, Stages, Statuses
<1>2. Idle \in Activity
  BY IdleIsATask
<1>i. [Idle EXCEPT !.pc = "ring", !.copy = sess] = Being("ring", "dial", Caller, sess, FALSE)
  <2> DEFINE x == [Idle EXCEPT !.pc = "ring", !.copy = sess]
             y == Being("ring", "dial", Caller, sess, FALSE)
  <2>1. x \in Activity /\ y \in Activity /\ Same(x, y) /\ x.stale = y.stale
    BY <1>1, GoneIsASession DEF Idle, Being, Activity, Same, Place, DialerPlace
  <2> HIDE DEF x, y
  <2>2. x = y
    BY <2>1, ActivitiesAreTheirFields
  <2> QED
    BY <2>2 DEF x, y
<1>j. Being("ring", "dial", Caller, sess, FALSE) \in Activity
  BY <1>1 DEF Being, Activity, Place, DialerPlace
<1>3. task = [t \in Task |-> IF t = Dialer THEN Being("ring", "dial", Caller, sess, FALSE) ELSE Idle]
  BY <1>i DEF Init
<1>4. task \in [Task -> Activity]
  BY <1>2, <1>3, <1>j
<1>5. Placed(Dialer, Being("ring", "dial", Caller, sess, FALSE))
  BY <1>1 DEF Placed, Being, DialerPlace, AnswerPlace, EndPlace, NoCopy
<1>6. \A t \in Task : Placed(t, task[t])
  BY <1>3, <1>5, IdleIsPlaced
<1>7. Around
  BY DEF Init, Around, LineState
<1>8. TypeOK
  BY <1>1, <1>4, <1>7 DEF Around, TypeOK, LineState, Activity, Place, DialerPlace, AnswerPlace, EndPlace,
     CarePlace, NoCopy
<1> QED
  BY <1>1, <1>6, <1>7, <1>8 DEF IInv, Whole, Around

LEMMA DialKeepsIInv == ASSUME IInv, Dial PROVE IInv'
<1> USE DEF At, Being, Onward, After
<1> DEFINE r == task[Dialer]
<1>0. /\ Dialer \in Task /\ r \in Activity /\ r.copy \in Session /\ sess \in Session
      /\ r.leg \in Leg \cup {Caller} /\ (sess.stage = "gone" => sess = Gone)
  BY Copies DEF Task, IInv, Whole
<1>a. Around /\ Placed(Dialer, r)
  BY <1>0, IInvIsAround DEF IInv, Whole
<1>1. CASE StartRinging
  <2>1. Saves(Dialer, WithStage(r.copy, "ringing"), "dialling")
    BY <1>1, DialerSaves
  <2>2. WithStage(r.copy, "ringing").stage = "ringing"
    BY <1>0, StageWrites DEF Stages
  <2>3. Placed(Dialer, After(r, "dialling", WithStage(r.copy, "ringing")))
    BY <1>1, <1>a, <2>2 DEF StartRinging, Placed, DialerPlace, AnswerPlace, EndPlace, NoCopy
  <2> QED
    BY <1>0, <2>1, <2>2, <2>3, SavesKeepIInv
<1>2. CASE DialsReturn
  <2>1. Moves(Dialer, Onward(r, "register", r.copy))
    BY <1>2, DialerMoves
  <2>2. Placed(Dialer, Onward(r, "register", r.copy))
    BY <1>a, <1>2, RingAssumption
       DEF DialsReturn, Placed, DialerPlace, AnswerPlace, EndPlace, NoCopy, Caller
  <2> QED
    BY <1>0, <1>2, <1>a, <2>1, <2>2, MovesKeepIInv DEF DialsReturn, Around, carrier
<1>3. CASE RegisterLoad
  <2>1. CASE sess = Gone
    <3>1. /\ r.leg + 1 \in Leg
          /\ Moves(Dialer, Being(AfterResult(r.leg + 1), r.kind, r.leg + 1, r.copy, r.stale))
      BY <1>3, <2>1, DialerMoves
    <3>2. Placed(Dialer, Being(AfterResult(r.leg + 1), r.kind, r.leg + 1, r.copy, r.stale))
      BY <1>a, <1>3, <3>1, RingAssumption
         DEF RegisterLoad, AfterResult, Placed, DialerPlace, AnswerPlace, EndPlace, NoCopy, Leg
    <3> QED
      BY <1>0, <1>3, <1>a, <3>1, <3>2, MovesKeepIInv DEF RegisterLoad, Around, carrier
  <2>2. CASE sess # Gone
    <3>1. /\ r.leg + 1 \in Leg
          /\ Moves(Dialer, Being("check", r.kind, r.leg + 1, sess, FALSE))
      BY <1>3, <2>2, DialerMoves
    <3>2. Placed(Dialer, Being("check", r.kind, r.leg + 1, sess, FALSE))
      BY <1>0, <1>a, <2>2, <3>1 DEF Placed, DialerPlace, AnswerPlace, EndPlace, NoCopy
    <3> QED
      BY <1>0, <1>3, <1>a, <3>1, <3>2, MovesKeepIInv DEF RegisterLoad, Around, carrier
  <2> QED
    BY <2>1, <2>2
<1>4. CASE RegisterCheck
  <2> DEFINE x == Result(r.copy, r.leg, winner # NoLeg \/ HasWinner(r.copy))
  <2>1. Moves(Dialer, Onward(r, "registered", x))
    BY <1>4, DialerMoves
  <2>2. r.leg \in Leg /\ r.copy.stage # "gone"
    BY <1>4, <1>a DEF RegisterCheck, Placed, NoCopy
  <2>3. x.stage # "gone"
    <3>1. \A st \in Statuses : LET y == WithLegs(r.copy, {r.leg}, st)
                               IN  y \in Session /\ y.stage = r.copy.stage
      BY <1>0, LegWrites
    <3>2. \A st \in Statuses : BridgedBy(WithLegs(r.copy, {r.leg}, st), r.leg).stage = "bridged"
      BY <2>2, <3>1, BridgeWrites
    <3> QED
      BY <2>2, <3>1, <3>2 DEF Result, Statuses
  <2>4. Placed(Dialer, Onward(r, "registered", x))
    BY <1>a, <2>2, <2>3 DEF Placed, DialerPlace, AnswerPlace, EndPlace, NoCopy
  <2>5. Around'
    <3> DEFINE ls == {r.leg} \cap {k \in Leg : x.leg[k] = "dropped"}
    <3>1. HangUp(ls) /\ ls \in SUBSET Leg
      BY <1>4 DEF RegisterCheck
    <3> QED
      BY <1>4, <3>1, HangUpBringsDown, DownKeepsAround DEF RegisterCheck
  <2> QED
    BY <1>0, <2>1, <2>4, <2>5, MovesKeepIInv
<1>5. CASE RegisterSave
  <2>1. Saves(Dialer, r.copy, AfterResult(r.leg))
    BY <1>5, DialerSaves
  <2>2. r.leg \in Leg /\ r.copy.stage # "gone"
    BY <1>5, <1>a DEF RegisterSave, Placed, NoCopy
  <2>3. Placed(Dialer, After(r, AfterResult(r.leg), r.copy))
    BY <1>a, <2>2, RingAssumption
       DEF AfterResult, Placed, DialerPlace, AnswerPlace, EndPlace, NoCopy, Leg
  <2> QED
    BY <1>0, <2>1, <2>2, <2>3, SavesKeepIInv
<1>6. CASE Recount
  <2>1. CASE sess = Gone
    <3>1. Moves(Dialer, Idle)
      BY <1>6, <2>1, DialerMoves
    <3> QED
      BY <1>0, <1>6, <1>a, <3>1, IdleIsPlaced, MovesKeepIInv DEF Recount, Around, carrier
  <2>2. CASE sess # Gone
    <3>1. Moves(Dialer, Being("resave", r.kind, r.leg, sess, FALSE))
      BY <1>6, <2>2, DialerMoves
    <3>2. Placed(Dialer, Being("resave", r.kind, r.leg, sess, FALSE))
      BY <1>0, <1>a, <2>2 DEF Placed, DialerPlace, AnswerPlace, EndPlace, NoCopy
    <3> QED
      BY <1>0, <1>6, <1>a, <3>1, <3>2, MovesKeepIInv DEF Recount, Around, carrier
  <2> QED
    BY <2>1, <2>2
<1>7. CASE RecountSave
  <2>1. Saves(Dialer, r.copy, IF RingingIn(r.copy) = {} THEN "route" ELSE "idle")
    BY <1>7, DialerSaves
  <2>2. r.copy.stage # "gone"
    BY <1>7, <1>a DEF RecountSave, Placed, NoCopy
  <2>3. Placed(Dialer, After(r, "route", r.copy)) /\ Placed(Dialer, After(r, "idle", r.copy))
    <3>1. Placed(Dialer, After(r, "idle", r.copy))
      BY <1>0, IdleIsPlaced
    <3>2. Placed(Dialer, After(r, "route", r.copy))
      BY <1>a, <2>2 DEF Placed, DialerPlace, AnswerPlace, EndPlace, NoCopy
    <3> QED
      BY <3>1, <3>2
  <2> QED
    BY <1>0, <2>1, <2>2, <2>3, SavesKeepIInv
<1>8. ASSUME NEW l \in Leg, DialLeg(l) PROVE IInv'
  <2>1. line' \in [Leg -> LineState]
    BY <1>8, <1>a DEF DialLeg, Around, LineState
  <2> QED
    BY <1>8, <2>1 DEF DialLeg, IInv, TypeOK, Whole, LineState
<1> QED
  BY <1>1, <1>2, <1>3, <1>4, <1>5, <1>6, <1>7, <1>8 DEF Dial

LEMMA AnswerKeepsIInv == ASSUME IInv, NEW t \in Task, Take(t) \/ Answer(t) PROVE IInv'
<1> USE DEF At, Being, Onward, After
<1> DEFINE r == task[t]
           s == r.copy
<1>0. /\ r \in Activity /\ s \in Session /\ sess \in Session
      /\ r.leg \in Leg \cup {Caller} /\ (sess.stage = "gone" => sess = Gone)
      /\ Dialer \in Task
  BY Copies DEF Task, IInv, Whole
<1>a. Around /\ Placed(t, r)
  BY IInvIsAround DEF IInv, Whole
<1>s. /\ WithStage(s, "connecting").stage = "connecting"
      /\ WithLegs(s, {r.leg}, "answered") \in Session
      /\ WithLegs(s, {r.leg}, "answered").stage = s.stage
      /\ \A ls : WithLegs(s, ls, "cancelled").stage = s.stage
  BY <1>0, StageWrites, LegWrites DEF Stages, Statuses
<1>1. ASSUME NEW kind \in Kinds, NEW l \in Leg \cup {Caller}, Begin(t, kind, l) PROVE IInv'
  <2>1. Around' /\ t # Dialer
    BY <1>1, <1>a DEF Begin, Around, carrier
  <2>2. kind \in {"answered", "bridged"} => l \in Leg
    BY <1>1, <1>a DEF Begin, Around
  <2>3. CASE Moves(t, Idle)
    BY <2>1, <2>3, IdleIsPlaced, MovesKeepIInv
  <2>4. CASE /\ sess # Gone
             /\ Moves(t, Being(StartOf(kind, sess), kind, l, sess, FALSE))
    <3>1. Placed(t, Being(StartOf(kind, sess), kind, l, sess, FALSE))
      BY <1>0, <2>1, <2>2, <2>4
         DEF StartOf, Kinds, Placed, DialerPlace, AnswerPlace, EndPlace, NoCopy
    <3> QED
      BY <2>1, <2>4, <3>1, MovesKeepIInv
  <2> QED
    BY <1>1, <2>3, <2>4, BeginMoves
<1>2. CASE AcceptSave(t)
  <2>1. Saves(t, WithStage(s, "connecting"), "idle")
    BY <1>2, HandlerSaves
  <2> QED
    BY <1>s, <2>1, IdleIsPlaced, SavesKeepIInv
<1>3. CASE MarkConnecting(t)
  <2>1. Saves(t, WithStage(s, "connecting"), "reread")
    BY <1>3, HandlerSaves
  <2>2. Placed(t, After(r, "reread", WithStage(s, "connecting")))
    BY <1>3, <1>a, <1>s
       DEF MarkConnecting, Placed, DialerPlace, AnswerPlace, EndPlace, NoCopy
  <2> QED
    BY <1>s, <2>1, <2>2, SavesKeepIInv
<1>4. CASE AnswerReload(t)
  <2>1. Around'
    BY <1>4, <1>a DEF AnswerReload, Around, carrier
  <2>2. CASE Moves(t, Idle)
    BY <2>1, <2>2, IdleIsPlaced, MovesKeepIInv
  <2> DEFINE q == Being(IF r.kind = "answered" THEN "picked" ELSE "claim",
                        r.kind, r.leg, Loaded(r), Refreshed(r))
  <2>3. CASE Moves(t, q)
    <3>1. Placed(t, q)
      BY <1>0, <1>4, <1>a
         DEF AnswerReload, Loaded, Placed, DialerPlace, AnswerPlace, EndPlace, NoCopy
    <3> QED
      BY <2>1, <2>3, <3>1, MovesKeepIInv
  <2> QED
    BY <1>4, <2>2, <2>3, AnswerMoves
<1>5. CASE MarkAnswered(t)
  <2>1. Saves(t, WithLegs(s, {r.leg}, "answered"), "idle")
    BY <1>5, HandlerSaves
  <2>2. s.stage # "gone"
    BY <1>5, <1>a DEF MarkAnswered, Placed, NoCopy
  <2> QED
    BY <1>s, <2>1, <2>2, IdleIsPlaced, SavesKeepIInv
<1>6. CASE Claim(t)
  <2>1. Around'
    <3>1. r.leg \in Leg
      BY <1>6, <1>a DEF Claim, Placed, AnswerPlace
    <3> QED
      BY <1>6, <1>a, <3>1 DEF Claim, Around, carrier
  <2>2. CASE winner = NoLeg
    <3>1. Moves(t, Onward(r, "mark", s))
      BY <1>6, <2>2, AnswerMoves
    <3>2. Placed(t, Onward(r, "mark", s))
      BY <1>6, <1>a DEF Claim, Placed, DialerPlace, AnswerPlace, EndPlace, NoCopy
    <3> QED
      BY <2>1, <3>1, <3>2, MovesKeepIInv
  <2>3. CASE winner # NoLeg /\ s.stage = "bridged"
    <3>1. Moves(t, Idle)
      BY <1>6, <2>3, AnswerMoves
    <3> QED
      BY <2>1, <3>1, IdleIsPlaced, MovesKeepIInv
  <2>4. CASE winner # NoLeg /\ s.stage # "bridged"
    <3>1. winner \in Leg /\ Moves(t, Onward(r, "paired", BridgedBy(s, winner)))
      BY <1>6, <2>4, AnswerMoves
    <3>2. BridgedBy(s, winner).stage = "bridged"
      BY <1>0, <3>1, BridgeWrites
    <3>3. Placed(t, Onward(r, "paired", BridgedBy(s, winner)))
      BY <1>6, <1>a, <3>2 DEF Claim, Placed, DialerPlace, AnswerPlace, EndPlace, NoCopy
    <3> QED
      BY <2>1, <3>1, <3>3, MovesKeepIInv
  <2> QED
    BY <2>2, <2>3, <2>4
<1>7. CASE MarkPaired(t)
  <2>1. Saves(t, s, "idle") /\ s.stage # "gone"
    BY <1>7, <1>a, HandlerSaves DEF MarkPaired, Placed, NoCopy
  <2> QED
    BY <2>1, IdleIsPlaced, SavesKeepIInv
<1>8. CASE MarkBridged(t)
  <2> DEFINE x == BridgedBy(WithLegs(s, {r.leg}, "answered"), r.leg)
  <2>1. Saves(t, x, "cancel") /\ r.leg \in Leg
    BY <1>8, <1>a, HandlerSaves DEF MarkBridged, Placed, AnswerPlace
  <2>2. x.stage = "bridged"
    BY <1>s, <2>1, BridgeWrites
  <2>3. Placed(t, After(r, "cancel", x))
    BY <1>8, <1>a, <2>2 DEF MarkBridged, Placed, DialerPlace, AnswerPlace, EndPlace, NoCopy
  <2> QED
    BY <2>1, <2>2, <2>3, SavesKeepIInv
<1>9. CASE CancelRemaining(t)
  <2> DEFINE ls == Losers(s, r.leg)
             q == Onward(r, "kept", WithLegs(s, ls, "cancelled"))
  <2>1. Moves(t, q)
    BY <1>9, AnswerMoves
  <2>2. Placed(t, q)
    BY <1>9, <1>a, <1>s DEF CancelRemaining, Placed, DialerPlace, AnswerPlace, EndPlace, NoCopy
  <2>3. HangUp(ls) /\ ls \in SUBSET Leg
    BY <1>9 DEF CancelRemaining, Losers, RingingIn
  <2>4. Around'
    BY <1>9, <2>3, HangUpBringsDown, DownKeepsAround DEF CancelRemaining
  <2> QED
    BY <2>1, <2>2, <2>4, MovesKeepIInv
<1>10. CASE SaveWon(t)
  <2>1. Saves(t, s, "idle") /\ s.stage # "gone"
    BY <1>10, <1>a, HandlerSaves DEF SaveWon, Placed, NoCopy
  <2> QED
    BY <2>1, IdleIsPlaced, SavesKeepIInv
<1> QED
  BY <1>1, <1>2, <1>3, <1>4, <1>5, <1>6, <1>7, <1>8, <1>9, <1>10 DEF Take, Answer

LEMMA EndKeepsIInv == ASSUME IInv, NEW t \in Task, End(t) \/ Voicemail(t) PROVE IInv'
<1> USE DEF At, Being, Onward, After
<1> DEFINE r == task[t]
           s == r.copy
<1>0. /\ r \in Activity /\ s \in Session /\ r.leg \in Leg \cup {Caller}
      /\ Gone \in Session /\ Gone.stage = "gone"
  BY Copies, GoneIsASession DEF IInv
<1>a. Around /\ Placed(t, r)
  BY IInvIsAround DEF IInv, Whole
<1>s. /\ WithStage(s, "voicemail").stage = "voicemail"
      /\ WithLegs(s, {r.leg}, "cancelled").stage = s.stage
      /\ WithLegs(s, {r.leg}, "no-answer").stage = s.stage
  BY <1>0, StageWrites, LegWrites DEF Stages, Statuses
<1>b. /\ Placed(t, Being("delete", r.kind, Caller, Gone, FALSE)) \/ t = Dialer
      /\ Placed(t, Being("clear", r.kind, Caller, Gone, FALSE)) \/ t = Dialer
  BY <1>0 DEF Placed, DialerPlace, AnswerPlace, EndPlace, NoCopy
<1>c. t = Dialer => r.pc \notin {"hangup", "ended", "clear", "loser", "noanswer"}
  BY <1>a DEF Placed, DialerPlace
<1>1. CASE IgnoreHangup(t)
  <2>1. Moves(t, Idle) /\ Around'
    BY <1>1, <1>a, EndMoves DEF IgnoreHangup, Around, carrier
  <2> QED
    BY <2>1, IdleIsPlaced, MovesKeepIInv
<1>2. CASE AbandonRing(t)
  <2>1. Moves(t, Being("clear", r.kind, Caller, Gone, FALSE))
    BY <1>2, EndMoves
  <2>2. HangUp(RingingIn(s)) /\ RingingIn(s) \in SUBSET Leg /\ t # Dialer
    BY <1>2, <1>c DEF AbandonRing, RingingIn
  <2>3. Around'
    BY <1>2, <2>2, HangUpBringsDown, DownKeepsAround DEF AbandonRing
  <2> QED
    BY <1>b, <2>1, <2>2, <2>3, MovesKeepIInv
<1>3. CASE RingingLegHangup(t)
  <2>1. Moves(t, Onward(r, "ended", s)) /\ Around'
    BY <1>3, <1>a, EndMoves DEF RingingLegHangup, Around, carrier
  <2>2. Placed(t, Onward(r, "ended", s))
    BY <1>3, <1>a, <1>c
       DEF RingingLegHangup, Registered, Placed, DialerPlace, AnswerPlace, EndPlace, NoCopy
  <2> QED
    BY <2>1, <2>2, MovesKeepIInv
<1>4. CASE LoserHangup(t)
  <2>1. Moves(t, Onward(r, "loser", WithLegs(s, {r.leg}, "cancelled"))) /\ Around'
    BY <1>4, <1>a, EndMoves DEF LoserHangup, Around, carrier
  <2>2. Placed(t, Onward(r, "loser", WithLegs(s, {r.leg}, "cancelled")))
    BY <1>4, <1>a, <1>c, <1>s
       DEF LoserHangup, Registered, Placed, DialerPlace, AnswerPlace, EndPlace, NoCopy
  <2> QED
    BY <2>1, <2>2, MovesKeepIInv
<1>5. CASE LoserSave(t)
  <2>1. Saves(t, s, "idle") /\ s.stage # "gone"
    BY <1>5, <1>a, HandlerSaves DEF LoserSave, Placed, NoCopy
  <2> QED
    BY <2>1, IdleIsPlaced, SavesKeepIInv
<1>6. CASE ClosingHangup(t)
  <2>1. Moves(t, Being("clear", r.kind, Caller, Gone, FALSE)) /\ Around' /\ t # Dialer
    BY <1>6, <1>a, <1>c, EndMoves DEF ClosingHangup, Around, carrier
  <2> QED
    BY <1>b, <2>1, MovesKeepIInv
<1>7. CASE LegEnded(t)
  <2>1. Around'
    BY <1>7, <1>a DEF LegEnded, Around, carrier
  <2>2. CASE Moves(t, Idle)
    BY <2>1, <2>2, IdleIsPlaced, MovesKeepIInv
  <2> DEFINE q == Onward(r, "noanswer", WithLegs(s, {r.leg}, "no-answer"))
  <2>3. CASE Moves(t, q)
    <3>1. Placed(t, q)
      BY <1>7, <1>a, <1>c, <1>s
         DEF LegEnded, Placed, DialerPlace, AnswerPlace, EndPlace, NoCopy
    <3> QED
      BY <2>1, <2>3, <3>1, MovesKeepIInv
  <2> QED
    BY <1>7, <2>2, <2>3, EndMoves
<1>8. CASE NoAnswerSave(t)
  <2> DEFINE p == IF Unanswered(s) THEN "route" ELSE "idle"
  <2>1. Saves(t, s, p) /\ s.stage # "gone" /\ t # Dialer
    BY <1>8, <1>a, <1>c, HandlerSaves DEF NoAnswerSave, Placed, NoCopy
  <2>2. Placed(t, After(r, p, s))
    BY <2>1, IdleIsPlaced DEF Placed, DialerPlace, AnswerPlace, EndPlace, NoCopy
  <2> QED
    BY <2>1, <2>2, SavesKeepIInv
<1>9. CASE ClearClaims(t)
  <2>1. Moves(t, Being("delete", r.kind, Caller, Gone, FALSE)) /\ Around' /\ t # Dialer
    BY <1>9, <1>a, <1>c, EndMoves DEF ClearClaims, Around, carrier
  <2> QED
    BY <1>b, <2>1, MovesKeepIInv
<1>10. CASE DeleteSession(t)
  <2>1. Turns(t, Idle) /\ sess' = Gone /\ Around'
    BY <1>10, <1>a, DeleteTurns DEF DeleteSession, Around, carrier
  <2> QED
    BY <1>0, <2>1, IdleIsPlaced, KeepsIInv
<1>11. CASE RouteToVoicemail(t)
  <2>1. Around'
    BY <1>11, <1>a DEF RouteToVoicemail, Around, carrier
  <2>2. CASE Moves(t, Idle)
    BY <2>1, <2>2, IdleIsPlaced, MovesKeepIInv
  <2>3. CASE Moves(t, Onward(r, "prompt", s))
    <3>1. Placed(t, Onward(r, "prompt", s))
      BY <1>11, <1>a DEF RouteToVoicemail, Placed, DialerPlace, AnswerPlace, EndPlace, NoCopy
    <3> QED
      BY <2>1, <2>3, <3>1, MovesKeepIInv
  <2> QED
    BY <1>11, <2>2, <2>3, EndMoves
<1>12. CASE PromptSave(t)
  <2>1. Saves(t, WithStage(s, "voicemail"), "speak")
    BY <1>12, HandlerSaves
  <2>2. Placed(t, After(r, "speak", WithStage(s, "voicemail")))
    BY <1>0, <1>a DEF Placed, DialerPlace, AnswerPlace, EndPlace, NoCopy
  <2> QED
    BY <1>s, <2>1, <2>2, SavesKeepIInv
<1>13. CASE SpeakPrompt(t)
  <2>1. Moves(t, Idle)
    BY <1>13, EndMoves
  <2>2. events' \subseteq events \cup {<<"spoken", Caller>>}
    BY <1>13 DEF SpeakPrompt
  <2>3. Around'
    BY <1>13, <1>a, <2>2 DEF SpeakPrompt, Around, carrier, Kinds
  <2> QED
    BY <2>1, <2>3, IdleIsPlaced, MovesKeepIInv
<1>14. CASE RecordSave(t)
  <2>1. Saves(t, WithStage(s, "voicemail"), "message") /\ t # Dialer
    BY <1>14, <1>a, HandlerSaves DEF RecordSave, Placed, DialerPlace
  <2>2. Placed(t, After(r, "message", WithStage(s, "voicemail")))
    BY <1>0, <2>1 DEF Placed, DialerPlace, AnswerPlace, EndPlace, NoCopy
  <2> QED
    BY <1>s, <2>1, <2>2, SavesKeepIInv
<1>15. CASE RecordMessage(t)
  <2>1. Moves(t, Idle)
    BY <1>15, EndMoves
  <2>2. served' \in BOOLEAN
    BY <1>15, <1>a DEF RecordMessage, Around
  <2>3. Around'
    BY <1>15, <1>a, <2>2 DEF RecordMessage, Around
  <2> QED
    BY <2>1, <2>3, IdleIsPlaced, MovesKeepIInv
<1> QED
  BY <1>1, <1>2, <1>3, <1>4, <1>5, <1>6, <1>7, <1>8, <1>9, <1>10, <1>11, <1>12, <1>13, <1>14, <1>15
     DEF End, Voicemail

LEMMA WorldKeepsIInv == ASSUME IInv, World PROVE IInv'
<1>0. Around
  BY IInvIsAround
<1>a. ASSUME Around', sess' = sess, task' = task PROVE IInv'
  BY <1>a DEF IInv, TypeOK, Whole, Around, LineState
<1>1. CASE CallerHangsUp
  <2>1. line' \in [Leg -> LineState]
    BY <1>0, <1>1 DEF CallerHangsUp, Around, LineState
  <2>2. events' \subseteq Kinds \X (Leg \cup {Caller})
    BY <1>0, <1>1 DEF CallerHangsUp, Around, Kinds
  <2>3. \A e \in events' : e[1] \in {"answered", "bridged"} => e[2] \in Leg
    BY <1>0, <1>1 DEF CallerHangsUp, Around
  <2> QED
    BY <1>0, <1>1, <1>a, <2>1, <2>2, <2>3 DEF CallerHangsUp, Around
<1>2. ASSUME NEW l \in Leg, PickUp(l) PROVE IInv'
  <2>1. line' \in [Leg -> LineState]
    BY <1>0, <1>2 DEF PickUp, Around, LineState
  <2>2. PICK posts \in SUBSET ({l} \cap AppLegs) :
          events' = events \cup {<<"answered", l>>} \cup ({"accept"} \X posts)
    BY <1>2 DEF PickUp
  <2>3. posts \subseteq Leg
    BY <2>2
  <2>4. events' \subseteq Kinds \X (Leg \cup {Caller})
    BY <1>0, <2>2, <2>3 DEF Around, Kinds
  <2>5. \A e \in events' : e[1] \in {"answered", "bridged"} => e[2] \in Leg
    BY <1>0, <2>2, <2>3 DEF Around
  <2> QED
    BY <1>0, <1>2, <1>a, <2>1, <2>4, <2>5 DEF PickUp, Around
<1>3. ASSUME NEW l \in Leg, Bridge(l) PROVE IInv'
  <2>1. line' \in [Leg -> LineState]
    BY <1>0, <1>3 DEF Bridge, Around, LineState
  <2> QED
    BY <1>0, <1>3, <1>a, <2>1 DEF Bridge, Around, Kinds
<1>4. ASSUME NEW l \in Leg, LegEnds(l) PROVE IInv'
  <2>1. Around'
    BY <1>4, LegEndsBringsDown, DownKeepsAround DEF LegEnds
  <2> QED
    BY <1>4, <1>a, <2>1 DEF LegEnds
<1> QED
  BY <1>1, <1>2, <1>3, <1>4 DEF World

LEMMA NextIInv == IInv /\ [Next]_vars => IInv'
<1>1. ASSUME IInv, UNCHANGED vars PROVE IInv'
  BY <1>1 DEF vars, carrier, IInv, TypeOK, Whole
<1>2. ASSUME IInv, Next PROVE IInv'
  BY <1>2, DialKeepsIInv, AnswerKeepsIInv, EndKeepsIInv, WorldKeepsIInv DEF Next
<1> QED
  BY <1>1, <1>2

\* Every variable keeps its type, and every handler is where it can be with
\* what it has in hand.
THEOREM RingTypes == Spec => []TypeOK
<1>1. IInv => TypeOK
  BY DEF IInv
<1> QED
  BY <1>1, InitIInv, NextIInv, PTL DEF Spec

----------------------------------------------------------------------------
(***************************************************************************)
(* What the session, the claim, the events and the handlers say of the     *)
(* lines is so.  A line only goes on: what was once true of it (answered,  *)
(* bridged, ended, failed) a stale copy may still say.                     *)
(***************************************************************************)
PickedUp == {"answered", "bridged", "ended"}
Talked   == {"bridged", "ended"}

\* ln: the lines, sv: the caller was served, as: the legs that are astray
Sound(s, ln, sv, as) ==
  /\ s.stage = "bridged" => s.winner # NoLeg
  /\ s.winner # NoLeg => sv
  /\ \A l \in Leg :
       /\ s.leg[l] = "no-answer" => ln[l] = "ended"
       /\ s.leg[l] \in {"cancelled", "dropped"} => sv /\ (ln[l] = "ended" \/ l \in as)
       /\ s.leg[l] = "failed" => ln[l] = "failed" \/ l \in as
       /\ s.leg[l] = "ringing" => ln[l] \notin {"idle", "failed"}
       /\ s.leg[l] = "answered" => ln[l] \in PickedUp
       /\ s.winner = l => ln[l] \in Talked

\* cl: the caller is on the line
Heard(kind, l, ln, cl, sv) ==
  /\ kind = "answered" => l \in Leg /\ ln[l] \in PickedUp
  /\ kind = "bridged"  => l \in Leg /\ ln[l] \in Talked /\ sv
  /\ kind = "hangup"   => IF l = Caller THEN ~cl ELSE ln[l] = "ended"

\* What is so of the carrier, the claim and the events.
OutsideOK ==
  /\ winner # NoLeg => line[winner] \in Talked /\ served
  /\ \A e \in events : Heard(e[1], e[2], line, caller, served)
  /\ \A l, k \in Leg : line[l] = "bridged" /\ line[k] = "bridged" => l = k
  /\ (\E l \in Leg : line[l] = "bridged") => served

Dialled == \A l \in Leg : line[l] # "idle"

LinesOK ==
  /\ OutsideOK
  /\ Sound(sess, line, served, astray)
  /\ \A t \in Task : Sound(task[t].copy, line, served, astray)
  /\ \A t \in Task : task[t].pc \notin NoCopy =>
       Heard(task[t].kind, task[t].leg, line, caller, served)
  /\ task[Dialer].pc \notin {"ring", "dialling"} => Dialled

\* Lines only go on.
Grows ==
  /\ \A l \in Leg :
       /\ line[l] \in PickedUp => line'[l] \in PickedUp
       /\ line[l] \in Talked => line'[l] \in Talked
       /\ line[l] = "ended" => line'[l] = "ended"
       /\ line[l] = "failed" => line'[l] = "failed"
       /\ line[l] \notin {"idle", "failed"} => line'[l] \notin {"idle", "failed"}
  /\ served => served'
  /\ caller' => caller
  /\ astray \subseteq astray' /\ \A l \in astray' \ astray : line[l] \in Up \cup {"idle"}

LEMMA DownGrows ==
  ASSUME NEW ls \in SUBSET Leg, BringsDown(ls), served' = served, caller' = caller
  PROVE  Grows
BY DEF BringsDown, Grows, PickedUp, Talked, Up

LEMMA NextGrows == ASSUME IInv, [Next]_vars PROVE Grows
<1>q. ASSUME UNCHANGED carrier PROVE Grows
  BY <1>q DEF carrier, Grows
<1>1. CASE Dial
  <2>1. CASE RegisterCheck
    <3> DEFINE ls == {task[Dialer].leg} \cap
                       {k \in Leg : Result(task[Dialer].copy, task[Dialer].leg,
                                           winner # NoLeg \/ HasWinner(task[Dialer].copy)).leg[k] = "dropped"}
    <3>1. HangUp(ls) /\ ls \in SUBSET Leg
      BY <2>1 DEF RegisterCheck
    <3> QED
      BY <2>1, <3>1, HangUpBringsDown, DownGrows DEF RegisterCheck
  <2>2. ASSUME NEW l \in Leg, DialLeg(l) PROVE Grows
    BY <2>2 DEF DialLeg, Grows, PickedUp, Talked, IInv, TypeOK
  <2>3. CASE \/ StartRinging \/ DialsReturn \/ RegisterLoad \/ RegisterSave \/ Recount \/ RecountSave
    BY <1>q, <2>3 DEF StartRinging, DialsReturn, RegisterLoad, RegisterSave, Recount, RecountSave
  <2> QED
    BY <1>1, <2>1, <2>2, <2>3 DEF Dial
<1>2. CASE World
  <2>1. CASE CallerHangsUp
    BY <2>1 DEF CallerHangsUp, Grows, PickedUp, Talked
  <2>2. ASSUME NEW l \in Leg, PickUp(l) PROVE Grows
    BY <2>2 DEF PickUp, Grows, PickedUp, Talked, IInv, TypeOK
  <2>3. ASSUME NEW l \in Leg, Bridge(l) PROVE Grows
    BY <2>3 DEF Bridge, Grows, PickedUp, Talked, IInv, TypeOK
  <2>4. ASSUME NEW l \in Leg, LegEnds(l) PROVE Grows
    BY <2>4, LegEndsBringsDown, DownGrows DEF LegEnds
  <2> QED
    BY <1>2, <2>1, <2>2, <2>3, <2>4 DEF World
<1>3. ASSUME NEW t \in Task, Take(t) \/ Answer(t) PROVE Grows
  <2>1. CASE CancelRemaining(t)
    <3>1. HangUp(Losers(task[t].copy, task[t].leg)) /\ Losers(task[t].copy, task[t].leg) \in SUBSET Leg
      BY <2>1 DEF CancelRemaining, Losers, RingingIn
    <3> QED
      BY <2>1, <3>1, HangUpBringsDown, DownGrows DEF CancelRemaining
  <2>2. CASE Take(t)
    BY <1>q, <2>2 DEF Take, Begin
  <2>3. CASE \/ AcceptSave(t) \/ MarkConnecting(t) \/ AnswerReload(t) \/ MarkAnswered(t)
             \/ Claim(t) \/ MarkPaired(t) \/ MarkBridged(t) \/ SaveWon(t)
    BY <1>q, <2>3
       DEF AcceptSave, MarkConnecting, AnswerReload, MarkAnswered, Claim, MarkPaired, MarkBridged, SaveWon
  <2> QED
    BY <1>3, <2>1, <2>2, <2>3 DEF Answer
<1>4. ASSUME NEW t \in Task, End(t) PROVE Grows
  <2>1. CASE AbandonRing(t)
    <3>1. HangUp(RingingIn(task[t].copy)) /\ RingingIn(task[t].copy) \in SUBSET Leg
      BY <2>1 DEF AbandonRing, RingingIn
    <3> QED
      BY <2>1, <3>1, HangUpBringsDown, DownGrows DEF AbandonRing
  <2>2. CASE \/ IgnoreHangup(t) \/ RingingLegHangup(t) \/ LoserHangup(t) \/ LoserSave(t)
             \/ ClosingHangup(t) \/ LegEnded(t) \/ NoAnswerSave(t) \/ ClearClaims(t) \/ DeleteSession(t)
    BY <1>q, <2>2
       DEF IgnoreHangup, RingingLegHangup, LoserHangup, LoserSave, ClosingHangup, LegEnded,
           NoAnswerSave, ClearClaims, DeleteSession
  <2> QED
    BY <1>4, <2>1, <2>2 DEF End
<1>5. ASSUME NEW t \in Task, Voicemail(t) PROVE Grows
  <2>1. CASE RecordMessage(t)
    BY <2>1 DEF RecordMessage, Grows
  <2>2. CASE RouteToVoicemail(t) \/ PromptSave(t) \/ SpeakPrompt(t) \/ RecordSave(t)
    BY <1>q, <2>2 DEF RouteToVoicemail, PromptSave, SpeakPrompt, RecordSave
  <2> QED
    BY <1>5, <2>1, <2>2 DEF Voicemail
<1>6. CASE UNCHANGED vars
  BY <1>q, <1>6 DEF vars, carrier
<1> QED
  BY <1>1, <1>2, <1>3, <1>4, <1>5, <1>6 DEF Next

LEMMA StillSo ==
  ASSUME Grows
  PROVE  /\ \A s : Sound(s, line, served, astray) => Sound(s, line', served', astray')
         /\ \A kind : \A l \in Leg \cup {Caller} :
              Heard(kind, l, line, caller, served) => Heard(kind, l, line', caller', served')
<1>1. ASSUME NEW s, Sound(s, line, served, astray) PROVE Sound(s, line', served', astray')
  BY <1>1 DEF Grows, Sound
<1>2. ASSUME NEW kind, NEW l \in Leg \cup {Caller},
             Heard(kind, l, line, caller, served)
      PROVE  Heard(kind, l, line', caller', served')
  <2>1. kind = "answered" => l \in Leg /\ line'[l] \in PickedUp
    BY <1>2 DEF Grows, Heard
  <2>2. kind = "bridged" => l \in Leg /\ line'[l] \in Talked /\ served'
    BY <1>2 DEF Grows, Heard
  <2>3. kind = "hangup" /\ l # Caller => line'[l] = "ended"
    BY <1>2 DEF Grows, Heard
  <2>4. kind = "hangup" /\ l = Caller => ~caller'
    BY <1>2 DEF Grows, Heard
  <2> QED
    BY <2>1, <2>2, <2>3, <2>4 DEF Heard
<1> QED
  BY <1>1, <1>2

LEMMA NoLegIsNoLeg == NoLeg \notin Leg /\ Caller \notin Leg /\ NoLeg = Caller
BY DEF NoLeg, Caller, Leg

LEMMA TurnKeepsLines ==
  ASSUME IInv, LinesOK, Grows, NEW t \in Task, NEW r, Turns(t, r), OutsideOK',
         Sound(sess', line', served', astray'), Sound(r.copy, line', served', astray'),
         r.pc \notin NoCopy => Heard(r.kind, r.leg, line', caller', served'),
         t = Dialer /\ r.pc \notin {"ring", "dialling"} => Dialled'
  PROVE  LinesOK'
<1>1. ASSUME NEW u \in Task \ {t}
      PROVE  /\ Sound(task'[u].copy, line', served', astray')
             /\ task'[u].pc \notin NoCopy =>
                  Heard(task'[u].kind, task'[u].leg, line', caller', served')
  <2>1. Same(task'[u], task[u]) /\ task[u].leg \in Leg \cup {Caller}
    BY <1>1, Copies DEF Turns, IInv
  <2>2. /\ Sound(task[u].copy, line, served, astray)
        /\ task[u].pc \notin NoCopy => Heard(task[u].kind, task[u].leg, line, caller, served)
    BY <1>1 DEF LinesOK
  <2>3. /\ Sound(task[u].copy, line', served', astray')
        /\ task[u].pc \notin NoCopy => Heard(task[u].kind, task[u].leg, line', caller', served')
    BY <2>1, <2>2, StillSo
  <2> QED
    BY <2>1, <2>3 DEF Same
<1>2. /\ Sound(task'[t].copy, line', served', astray')
      /\ task'[t].pc \notin NoCopy => Heard(task'[t].kind, task'[t].leg, line', caller', served')
  BY DEF Turns
<1>3. task'[Dialer].pc \notin {"ring", "dialling"} => Dialled'
  <2>1. CASE t = Dialer
    BY <2>1 DEF Turns
  <2>2. CASE t # Dialer
    <3>1. task'[Dialer].pc = task[Dialer].pc
      BY <2>2 DEF Turns, Same, Task
    <3>2. ASSUME task[Dialer].pc \notin {"ring", "dialling"}, NEW l \in Leg PROVE line'[l] # "idle"
      BY <3>2 DEF LinesOK, Grows, Dialled
    <3> QED
      BY <3>1, <3>2 DEF Dialled
  <2> QED
    BY <2>1, <2>2
<1> QED
  BY <1>1, <1>2, <1>3 DEF LinesOK

\* The carrier is left alone, and no event is added.
Calm == /\ line' = line /\ caller' = caller /\ served' = served /\ astray' = astray
        /\ winner' = winner /\ events' \subseteq events

LEMMA CalmKeepsOutside == ASSUME OutsideOK, Calm PROVE OutsideOK'
BY DEF OutsideOK, Calm

LEMMA DownKeepsOutside ==
  ASSUME IInv, OutsideOK, Grows, NEW ls \in SUBSET Leg, BringsDown(ls), winner' = winner,
         served' = served, caller' = caller
  PROVE  OutsideOK'
<1>1. \A l \in Leg : line'[l] # line[l] => line'[l] = "ended"
  BY DEF BringsDown
<1>2. ASSUME NEW e \in events' PROVE Heard(e[1], e[2], line', caller', served')
  <2>1. CASE e \in events
    <3>1. Heard(e[1], e[2], line, caller, served) /\ e[2] \in Leg \cup {Caller}
      BY <2>1 DEF OutsideOK, IInv, TypeOK
    <3> QED
      BY <3>1, StillSo
  <2>2. ASSUME NEW l \in ls, e = <<"hangup", l>>, line'[l] = "ended"
        PROVE  Heard(e[1], e[2], line', caller', served')
    BY <2>2, NoLegIsNoLeg DEF Heard
  <2> QED
    BY <1>2, <2>1, <2>2 DEF BringsDown
<1>3. \A l, k \in Leg : line'[l] = "bridged" /\ line'[k] = "bridged" => l = k
  BY <1>1 DEF OutsideOK
<1>4. (\E l \in Leg : line'[l] = "bridged") => served'
  BY <1>1 DEF OutsideOK
<1>5. winner' # NoLeg => line'[winner'] \in Talked /\ served'
  BY DEF OutsideOK, Grows, IInv, TypeOK
<1> QED
  BY <1>2, <1>3, <1>4, <1>5 DEF OutsideOK

LEMMA CalmMoves ==
  ASSUME IInv, LinesOK, Grows, Calm, NEW t \in Task, NEW r, Moves(t, r),
         Sound(r.copy, line, served, astray),
         r.pc \notin NoCopy => Heard(r.kind, r.leg, line, caller, served),
         t = Dialer /\ r.pc \notin {"ring", "dialling"} => Dialled
  PROVE  LinesOK'
<1>1. OutsideOK'
  BY CalmKeepsOutside DEF LinesOK
<1>2. Dialled => Dialled'
  BY DEF Calm, Dialled
<1> QED
  BY <1>1, <1>2, TurnKeepsLines DEF Moves, LinesOK, Calm

LEMMA GoneIsSound == Sound(Gone, line, served, astray) /\ Sound(Idle.copy, line, served, astray)
BY GoneIsASession, IdleIsATask, NoLegIsNoLeg DEF Sound

LEMMA CalmSaves ==
  ASSUME IInv, LinesOK, Grows, NEW t \in Task, NEW s, NEW p, Saves(t, s, p),
         Sound(s, line, served, astray), task[t].pc \notin NoCopy,
         t = Dialer /\ p \notin {"ring", "dialling"} => Dialled
  PROVE  LinesOK'
<1> DEFINE r == After(task[t], p, s)
<1>1. OutsideOK' /\ (Dialled => Dialled')
  BY CalmKeepsOutside DEF LinesOK, Saves, Calm, Dialled
<1>3. Sound(r.copy, line, served, astray)
  BY GoneIsSound DEF After, Being
<1>4. r.pc \notin NoCopy => Heard(r.kind, r.leg, line, caller, served)
  BY IdleIsATask DEF After, Being, LinesOK, NoCopy
<1>5. r.pc = p
  BY DEF After, Being, Idle
<1> QED
  BY <1>1, <1>3, <1>4, <1>5, TurnKeepsLines DEF Saves, LinesOK

LEMMA StageIsSound ==
  ASSUME NEW s \in Session, Sound(s, line, served, astray)
  PROVE  \A stage \in Stages \ {"bridged"} : Sound(WithStage(s, stage), line, served, astray)
<1>1. ASSUME NEW stage \in Stages \ {"bridged"}
      PROVE  LET r == WithStage(s, stage)
             IN  r.stage = stage /\ r.winner = s.winner /\ r.leg = s.leg
  BY StageWrites
<1> QED
  BY <1>1 DEF Sound

LEMMA LegIsSound ==
  ASSUME NEW s \in Session, NEW ls \in SUBSET Leg, NEW status \in Statuses, NEW ln, NEW sv, NEW as,
         Sound(s, ln, sv, as),
         \A l \in ls :
           /\ status = "no-answer" => ln[l] = "ended"
           /\ status \in {"cancelled", "dropped"} => sv /\ (ln[l] = "ended" \/ l \in as)
           /\ status = "failed" => ln[l] = "failed" \/ l \in as
           /\ status = "ringing" => ln[l] \notin {"idle", "failed"}
           /\ status = "answered" => ln[l] \in PickedUp
  PROVE  Sound(WithLegs(s, ls, status), ln, sv, as)
<1> DEFINE r == WithLegs(s, ls, status)
<1>1. /\ r.stage = s.stage /\ r.winner = s.winner
      /\ \A l \in Leg : r.leg[l] = IF l \in ls THEN status ELSE s.leg[l]
  BY LegWrites
<1> HIDE DEF r
<1>2. Sound(r, ln, sv, as)
  BY <1>1 DEF Sound
<1> QED
  BY <1>2 DEF r

LEMMA BridgeIsSound ==
  ASSUME NEW s \in Session, NEW w \in Leg, Sound(s, line, served, astray), line[w] \in Talked, served,
         NoLeg \notin Leg
  PROVE  Sound(BridgedBy(s, w), line, served, astray)
BY BridgeWrites DEF Sound

LEMMA InitLines == Init => LinesOK
<1> SUFFICES ASSUME Init PROVE LinesOK
  OBVIOUS
<1>1. /\ sess \in Session /\ sess.stage = "connect" /\ sess.winner = NoLeg
      /\ \A l \in Leg : sess.leg[l] = "unknown"
  BY DEF Init, Gone, Session, Stages, Statuses
<1>2. Sound(sess, line, served, astray)
  BY <1>1, NoLegIsNoLeg DEF Sound
<1>3. /\ task[Dialer] = [Idle EXCEPT !.pc = "ring", !.copy = sess]
      /\ \A t \in Task \ {Dialer} : task[t] = Idle
  BY DEF Init, Task
<1>4. /\ task[Dialer].pc = "ring" /\ task[Dialer].copy = sess /\ task[Dialer].kind = "dial"
      /\ \A t \in Task \ {Dialer} : task[t].pc = "idle" /\ task[t].copy = Gone
  BY <1>3, IdleIsATask DEF Idle
<1>5. \A t \in Task : Sound(task[t].copy, line, served, astray)
  BY <1>2, <1>4, GoneIsSound
<1>6. \A t \in Task : task[t].pc \notin NoCopy =>
        Heard(task[t].kind, task[t].leg, line, caller, served)
  BY <1>4 DEF Heard, NoCopy
<1>7. OutsideOK
  BY DEF Init, OutsideOK
<1> QED
  BY <1>2, <1>4, <1>5, <1>6, <1>7 DEF LinesOK

LEMMA DialKeepsLines == ASSUME IInv, LinesOK, Dial, Grows PROVE LinesOK'
<1> USE DEF At
<1> DEFINE r == task[Dialer]
           s == r.copy
<1>0. /\ Dialer \in Task /\ s \in Session /\ r.leg \in Leg \cup {Caller} /\ Placed(Dialer, r)
      /\ "failed" \in Statuses /\ "ringing" \in Statuses /\ "answered" \in Statuses
      /\ "dropped" \in Statuses
  BY Copies DEF Task, IInv, Whole
<1>a. /\ Sound(s, line, served, astray) /\ Sound(sess, line, served, astray) /\ OutsideOK
      /\ r.pc \notin {"ring", "dialling"} => Dialled
      /\ r.pc \notin NoCopy => Heard(r.kind, r.leg, line, caller, served)
  BY <1>0 DEF LinesOK
<1>1. CASE StartRinging
  <2>1. Saves(Dialer, WithStage(s, "ringing"), "dialling") /\ r.pc \notin NoCopy
    BY <1>1, DialerSaves DEF StartRinging, NoCopy
  <2>2. Sound(WithStage(s, "ringing"), line, served, astray)
    BY <1>0, <1>a, StageIsSound DEF Stages
  <2> QED
    BY <1>0, <2>1, <2>2, CalmSaves
<1>2. CASE DialsReturn
  <2>1. Moves(Dialer, Onward(r, "register", s)) /\ Calm
    BY <1>2, DialerMoves DEF DialsReturn, Calm, carrier
  <2>2. Dialled
    BY <1>2 DEF DialsReturn, Dialled
  <2>3. r.pc \notin NoCopy
    BY <1>2 DEF DialsReturn, NoCopy
  <2> QED
    BY <1>0, <1>a, <2>1, <2>2, <2>3, CalmMoves DEF Onward, Being
<1>3. CASE RegisterLoad
  <2>1. Calm /\ r.kind = "dial" /\ Dialled
    BY <1>0, <1>3, <1>a DEF RegisterLoad, Calm, carrier, Placed
  <2>2. \A l : Heard("dial", l, line, caller, served)
    BY DEF Heard
  <2>3. \/ Moves(Dialer, Being(AfterResult(r.leg + 1), r.kind, r.leg + 1, s, r.stale))
        \/ Moves(Dialer, Being("check", r.kind, r.leg + 1, sess, FALSE))
    BY <1>3, DialerMoves
  <2> QED
    BY <1>0, <1>a, <2>1, <2>2, <2>3, CalmMoves DEF Being
<1>4. CASE RegisterCheck
  <2> DEFINE taken == winner # NoLeg \/ HasWinner(s)
             x == Result(s, r.leg, taken)
             ls == {r.leg} \cap {k \in Leg : x.leg[k] = "dropped"}
  <2>1. /\ Moves(Dialer, Onward(r, "registered", x)) /\ x \in Session
        /\ r.leg \in Leg /\ Dialled /\ r.pc \notin NoCopy
        /\ HangUp(ls) /\ ls \in SUBSET Leg /\ caller' = caller /\ served' = served /\ winner' = winner
    BY <1>0, <1>4, <1>a, DialerMoves DEF RegisterCheck, Placed, NoCopy
  <2>2. taken => served
    BY <1>a DEF HasWinner, Sound, OutsideOK
  <2>3. /\ \A k \in Leg : line'[k] # line[k] => line'[k] = "ended"
        /\ r.leg \in ls => line'[r.leg] \notin Up \/ r.leg \in astray'
        /\ line \in [Leg -> LineState] /\ line[r.leg] # "idle"
    <3>1. BringsDown(ls) /\ \A l \in ls : line'[l] \notin Up \/ l \in astray'
      BY <2>1, HangUpBringsDown
    <3>2. line \in [Leg -> LineState] /\ line[r.leg] # "idle"
      BY <2>1 DEF IInv, TypeOK, LineState, Dialled
    <3> HIDE DEF ls
    <3> QED
      BY <3>1, <3>2 DEF BringsDown
  <2>4. Sound(x, line', served', astray')
    <3>1. Sound(s, line', served', astray')
      BY <1>a, StillSo
    <3>2. CASE DialFailed(r.leg)
      <4>1. /\ x = WithLegs(s, {r.leg}, "failed")
            /\ line'[r.leg] = "failed" \/ r.leg \in astray'
        <5> HIDE DEF taken
        <5>1. x = WithLegs(s, {r.leg}, "failed")
          BY <3>2 DEF Result
        <5>2. line'[r.leg] = "failed" \/ r.leg \in astray'
          BY <2>1, <3>2 DEF Grows, DialFailed
        <5> QED
          BY <5>1, <5>2
      <4> QED
        BY <1>0, <2>1, <3>1, <4>1, LegIsSound
    <3>3. CASE ~DialFailed(r.leg) /\ ~taken
      <4>1. x = WithLegs(s, {r.leg}, "ringing") /\ line'[r.leg] \notin {"idle", "failed"}
        <5> HIDE DEF taken
        <5>1. x = WithLegs(s, {r.leg}, "ringing")
          BY <3>3 DEF Result
        <5>2. line'[r.leg] \notin {"idle", "failed"}
          BY <2>1, <2>3, <3>3 DEF DialFailed
        <5> QED
          BY <5>1, <5>2
      <4> QED
        BY <1>0, <2>1, <3>1, <4>1, LegIsSound
    <3>4. CASE ~DialFailed(r.leg) /\ taken /\ r.leg \in {winner, s.winner}
      <4>1. x = BridgedBy(WithLegs(s, {r.leg}, "answered"), r.leg)
        BY <3>4 DEF Result
      <4>2. line'[r.leg] \in Talked
        BY <1>a, <2>1, <3>4, NoLegIsNoLeg DEF Sound, OutsideOK, Grows
      <4>3. Sound(WithLegs(s, {r.leg}, "answered"), line', served', astray')
        BY <1>0, <2>1, <3>1, <4>2, LegIsSound DEF Talked, PickedUp
      <4>4. WithLegs(s, {r.leg}, "answered") \in Session
        BY <1>0, LegWrites
      <4> QED
        <5> DEFINE y == WithLegs(s, {r.leg}, "answered")
        <5> HIDE DEF y, x
        <5>1. x.stage = "bridged" /\ x.winner = r.leg /\ x.leg = y.leg
          BY <2>1, <4>1, <4>4, BridgeWrites DEF y
        <5>2. served' /\ r.leg # NoLeg
          BY <2>1, <2>2, <3>4, NoLegIsNoLeg
        <5>3. Sound(y, line', served', astray')
          BY <4>3 DEF y
        <5> QED
          BY <4>2, <5>1, <5>2, <5>3 DEF Sound
    <3>5. CASE ~DialFailed(r.leg) /\ taken /\ r.leg \notin {winner, s.winner}
      <4>1. x = WithLegs(s, {r.leg}, "dropped")
        BY <3>5 DEF Result
      <4>2. x.leg[r.leg] = "dropped"
        BY <1>0, <2>1, <4>1, LegWrites
      <4>3. line'[r.leg] = "ended" \/ r.leg \in astray'
        BY <2>1, <2>3, <3>5, <4>2 DEF LineState, Up, DialFailed
      <4> QED
        BY <1>0, <2>1, <2>2, <3>1, <3>5, <4>1, <4>3, LegIsSound
    <3> QED
      BY <3>2, <3>3, <3>4, <3>5
  <2>5. OutsideOK'
    BY <1>a, <2>1, HangUpBringsDown, DownKeepsOutside
  <2>6. Heard(r.kind, r.leg, line', caller', served')
    BY <1>0, <1>a, <2>1, StillSo
  <2>7. Dialled' /\ Sound(sess', line', served', astray')
    BY <1>a, <2>1, <2>3, StillSo DEF Dialled, Moves
  <2> DEFINE q == Onward(r, "registered", x)
  <2>8. /\ q.copy = x /\ q.kind = r.kind /\ q.leg = r.leg
        /\ Turns(Dialer, q)
    BY <2>1 DEF Onward, Being, Moves
  <2> HIDE DEF q, x
  <2> QED
    BY <1>0, <2>4, <2>5, <2>6, <2>7, <2>8, TurnKeepsLines
<1>5. CASE RegisterSave
  <2>1. Saves(Dialer, s, AfterResult(r.leg)) /\ r.pc \notin NoCopy /\ Dialled
    BY <1>5, <1>a, DialerSaves DEF RegisterSave, NoCopy
  <2> QED
    BY <1>0, <1>a, <2>1, CalmSaves
<1>6. CASE Recount
  <2>1. Calm /\ Dialled /\ r.pc \notin NoCopy
    BY <1>6, <1>a DEF Recount, Calm, carrier, NoCopy
  <2>2. \/ Moves(Dialer, Idle)
        \/ Moves(Dialer, Being("resave", r.kind, r.leg, sess, FALSE))
    BY <1>6, DialerMoves
  <2>3. Idle.pc \in NoCopy
    BY IdleIsATask DEF NoCopy
  <2> QED
    BY <1>0, <1>a, <2>1, <2>2, <2>3, GoneIsSound, CalmMoves DEF Being
<1>7. CASE RecountSave
  <2>1. /\ Saves(Dialer, s, IF RingingIn(s) = {} THEN "route" ELSE "idle")
        /\ r.pc \notin NoCopy /\ Dialled
    BY <1>7, <1>a, DialerSaves DEF RecountSave, NoCopy
  <2> QED
    BY <1>0, <1>a, <2>1, CalmSaves
<1>8. ASSUME NEW l \in Leg, DialLeg(l) PROVE LinesOK'
  <2>1. UNCHANGED <<sess, winner, task, events, caller, served>>
    BY <1>8 DEF DialLeg
  <2>2. \A t \in Task : Sound(task[t].copy, line', served', astray')
    BY <2>1, StillSo DEF LinesOK
  <2>3. \A t \in Task : task[t].pc \notin NoCopy =>
          Heard(task[t].kind, task[t].leg, line', caller', served')
    BY <2>1, StillSo, Copies DEF LinesOK, IInv
  <2>4. OutsideOK'
    <3>1. \A e \in events : Heard(e[1], e[2], line', caller', served')
      BY StillSo DEF LinesOK, OutsideOK, IInv, TypeOK
    <3>2. \A k \in Leg : line'[k] = "bridged" => line[k] = "bridged"
      BY <1>8 DEF DialLeg, IInv, TypeOK
    <3> QED
      BY <1>a, <2>1, <3>1, <3>2 DEF OutsideOK, Grows, IInv, TypeOK
  <2>5. r.pc \in {"ring", "dialling"}
    BY <1>8 DEF DialLeg
  <2> QED
    BY <1>a, <2>1, <2>2, <2>3, <2>4, <2>5, StillSo DEF LinesOK
<1> QED
  BY <1>1, <1>2, <1>3, <1>4, <1>5, <1>6, <1>7, <1>8 DEF Dial

LEMMA AnswerKeepsLines ==
  ASSUME IInv, LinesOK, NEW t \in Task, Take(t) \/ Answer(t), Grows PROVE LinesOK'
<1> USE DEF At
<1> DEFINE r == task[t]
           s == r.copy
<1>0. /\ s \in Session /\ sess \in Session /\ r.leg \in Leg \cup {Caller} /\ Placed(t, r)
      /\ "answered" \in Statuses /\ "cancelled" \in Statuses
  BY Copies DEF IInv, Whole
<1>a. /\ Sound(s, line, served, astray) /\ Sound(sess, line, served, astray) /\ OutsideOK
      /\ t = Dialer /\ r.pc \notin {"ring", "dialling"} => Dialled
      /\ r.pc \notin NoCopy => Heard(r.kind, r.leg, line, caller, served)
  BY DEF LinesOK
<1>i. Idle.pc \in NoCopy
  BY IdleIsATask DEF NoCopy
<1>1. ASSUME NEW kind \in Kinds, NEW l \in Leg \cup {Caller}, Begin(t, kind, l) PROVE LinesOK'
  <2>1. Calm /\ t # Dialer
    BY <1>1 DEF Begin, Calm, carrier
  <2>2. Heard(kind, l, line, caller, served)
    BY <1>1, <1>a DEF Begin, OutsideOK
  <2>3. \/ Moves(t, Idle)
        \/ Moves(t, Being(StartOf(kind, sess), kind, l, sess, FALSE))
    BY <1>1, BeginMoves
  <2> QED
    BY <1>a, <1>i, <2>1, <2>2, <2>3, GoneIsSound, CalmMoves DEF Being
<1>2. CASE AcceptSave(t) \/ MarkConnecting(t)
  <2>1. \/ Saves(t, WithStage(s, "connecting"), "idle")
        \/ Saves(t, WithStage(s, "connecting"), "reread")
    BY <1>2, HandlerSaves
  <2>2. r.pc \notin NoCopy /\ r.pc \notin {"ring", "dialling"}
    BY <1>2 DEF AcceptSave, MarkConnecting, NoCopy
  <2>3. Sound(WithStage(s, "connecting"), line, served, astray)
    BY <1>0, <1>a, StageIsSound DEF Stages
  <2> QED
    BY <1>a, <2>1, <2>2, <2>3, CalmSaves
<1>3. CASE AnswerReload(t)
  <2>1. Calm /\ t # Dialer /\ r.pc \notin NoCopy
    BY <1>0, <1>3 DEF AnswerReload, Calm, carrier, NoCopy, Placed, DialerPlace
  <2>2. Sound(Loaded(r), line, served, astray)
    BY <1>a DEF Loaded
  <2>3. \/ Moves(t, Idle)
        \/ Moves(t, Being(IF r.kind = "answered" THEN "picked" ELSE "claim",
                          r.kind, r.leg, Loaded(r), Refreshed(r)))
    BY <1>3, AnswerMoves
  <2> QED
    BY <1>a, <1>i, <2>1, <2>2, <2>3, GoneIsSound, CalmMoves DEF Being
<1>4. CASE MarkAnswered(t)
  <2>1. /\ Saves(t, WithLegs(s, {r.leg}, "answered"), "idle") /\ r.pc \notin NoCopy
        /\ t # Dialer /\ r.leg \in Leg /\ r.kind = "answered"
    BY <1>0, <1>4, HandlerSaves DEF MarkAnswered, NoCopy, Placed, DialerPlace, AnswerPlace
  <2>2. Sound(WithLegs(s, {r.leg}, "answered"), line, served, astray)
    BY <1>0, <1>a, <2>1, LegIsSound DEF Heard
  <2> QED
    BY <2>1, <2>2, CalmSaves
<1>5. CASE Claim(t)
  <2>1. /\ line' = line /\ caller' = caller /\ served' = served /\ events' = events
        /\ astray' = astray
        /\ r.leg \in Leg /\ r.kind = "bridged" /\ t # Dialer /\ r.pc \notin NoCopy
    BY <1>0, <1>5 DEF Claim, carrier, Placed, NoCopy, AnswerPlace, DialerPlace
  <2>2. line[r.leg] \in Talked /\ served
    BY <1>a, <2>1 DEF Heard
  <2>3. OutsideOK'
    BY <1>5, <1>a, <2>1, <2>2 DEF Claim, OutsideOK
  <2>4. winner \in Leg => Sound(BridgedBy(s, winner), line, served, astray)
    BY <1>0, <1>a, BridgeIsSound, NoLegIsNoLeg DEF OutsideOK
  <2>5. PICK q : /\ Moves(t, q) /\ Sound(q.copy, line, served, astray)
                 /\ q.pc \notin NoCopy => q.kind = r.kind /\ q.leg = r.leg
    <3>1. CASE winner = NoLeg
      <4>1. Moves(t, Onward(r, "mark", s))
        BY <1>5, <3>1, AnswerMoves
      <4> QED
        BY <1>a, <4>1 DEF Onward, Being
    <3>2. CASE winner # NoLeg /\ s.stage = "bridged"
      BY <1>5, <1>i, <3>2, AnswerMoves, GoneIsSound
    <3>3. CASE winner # NoLeg /\ s.stage # "bridged"
      <4>1. winner \in Leg /\ Moves(t, Onward(r, "paired", BridgedBy(s, winner)))
        BY <1>5, <3>3, AnswerMoves
      <4> DEFINE x == BridgedBy(s, winner)
      <4> HIDE DEF x
      <4>2. Moves(t, Onward(r, "paired", x)) /\ Sound(x, line, served, astray)
        BY <2>4, <4>1 DEF x
      <4> QED
        BY <4>2 DEF Onward, Being
    <3> QED
      BY <3>1, <3>2, <3>3
  <2> QED
    BY <1>a, <2>1, <2>3, <2>5, TurnKeepsLines DEF Moves
<1>6. CASE MarkPaired(t) \/ SaveWon(t)
  <2>1. Saves(t, s, "idle") /\ r.pc \notin NoCopy /\ r.pc \notin {"ring", "dialling"}
    BY <1>6, HandlerSaves DEF MarkPaired, SaveWon, NoCopy
  <2> QED
    BY <1>a, <2>1, CalmSaves
<1>7. CASE MarkBridged(t)
  <2> DEFINE y == WithLegs(s, {r.leg}, "answered")
  <2>1. /\ Saves(t, BridgedBy(y, r.leg), "cancel") /\ r.pc \notin NoCopy
        /\ t # Dialer /\ r.leg \in Leg /\ r.kind = "bridged"
    BY <1>0, <1>7, HandlerSaves DEF MarkBridged, NoCopy, Placed, DialerPlace, AnswerPlace
  <2>2. line[r.leg] \in Talked /\ served
    BY <1>a, <2>1 DEF Heard
  <2>3. Sound(y, line, served, astray) /\ y \in Session
    <3>1. {r.leg} \in SUBSET Leg /\ line[r.leg] \in PickedUp
      BY <2>1, <2>2 DEF Talked, PickedUp
    <3>2. y \in Session
      BY <1>0, LegWrites
    <3> QED
      BY <1>0, <1>a, <3>1, <3>2, LegIsSound
  <2>4. Sound(BridgedBy(y, r.leg), line, served, astray)
    BY <2>1, <2>2, <2>3, BridgeIsSound, NoLegIsNoLeg
  <2> QED
    BY <2>1, <2>4, CalmSaves
<1>8. CASE CancelRemaining(t)
  <2> DEFINE ls == Losers(s, r.leg)
             x  == WithLegs(s, ls, "cancelled")
             q  == Onward(r, "kept", x)
  <2>1. /\ Moves(t, q) /\ HangUp(ls) /\ ls \in SUBSET Leg
        /\ winner' = winner /\ served' = served /\ caller' = caller
        /\ t # Dialer /\ r.kind = "bridged" /\ r.pc \notin NoCopy
    BY <1>0, <1>8, AnswerMoves
       DEF CancelRemaining, Losers, RingingIn, Placed, NoCopy, DialerPlace
  <2>2. \A l \in ls : line'[l] = "ended" \/ l \in astray'
    <3>1. \A l \in ls : l \in Leg /\ line[l] \notin {"idle", "failed"}
      BY <1>a DEF Losers, RingingIn, Sound
    <3>2. line \in [Leg -> LineState]
      BY DEF IInv, TypeOK, LineState
    <3>3. BringsDown(ls) /\ \A l \in ls : line'[l] \notin Up \/ l \in astray'
      BY <2>1, HangUpBringsDown
    <3> HIDE DEF ls
    <3> QED
      BY <3>1, <3>2, <3>3 DEF BringsDown, LineState, Up
  <2>3. served'
    BY <1>a, <2>1 DEF Heard
  <2>4. Sound(x, line', served', astray')
    <3>1. Sound(s, line', served', astray')
      BY <1>a, StillSo
    <3>2. /\ x.stage = s.stage /\ x.winner = s.winner
          /\ \A l \in Leg : x.leg[l] = IF l \in ls THEN "cancelled" ELSE s.leg[l]
      BY <1>0, LegWrites
    <3> HIDE DEF x, ls
    <3> QED
      BY <2>2, <2>3, <3>1, <3>2 DEF Sound
  <2>5. OutsideOK' /\ Sound(sess', line', served', astray') /\ Heard(r.kind, r.leg, line', caller', served')
    BY <1>0, <1>a, <2>1, StillSo, HangUpBringsDown, DownKeepsOutside DEF Moves
  <2>6. /\ q.copy = x /\ q.kind = r.kind /\ q.leg = r.leg /\ Turns(t, q)
    BY <2>1 DEF Onward, Being, Moves
  <2> HIDE DEF q, x
  <2> QED
    BY <2>1, <2>4, <2>5, <2>6, TurnKeepsLines
<1> QED
  BY <1>1, <1>2, <1>3, <1>4, <1>5, <1>6, <1>7, <1>8 DEF Take, Answer

LEMMA EndKeepsLines ==
  ASSUME IInv, LinesOK, NEW t \in Task, End(t) \/ Voicemail(t), Grows PROVE LinesOK'
<1> USE DEF At
<1> DEFINE r == task[t]
           s == r.copy
<1>0. /\ s \in Session /\ sess \in Session /\ r.leg \in Leg \cup {Caller} /\ Placed(t, r)
      /\ "cancelled" \in Statuses /\ "no-answer" \in Statuses
  BY Copies DEF IInv, Whole
<1>a. /\ Sound(s, line, served, astray) /\ Sound(sess, line, served, astray) /\ OutsideOK
      /\ t = Dialer /\ r.pc \notin {"ring", "dialling"} => Dialled
      /\ r.pc \notin NoCopy => Heard(r.kind, r.leg, line, caller, served)
  BY DEF LinesOK
<1>i. Idle.pc \in NoCopy /\ \A p \in {"clear", "delete"} : p \in NoCopy
  BY IdleIsATask DEF NoCopy
<1>1. CASE IgnoreHangup(t) \/ ClosingHangup(t)
  <2>1. Calm /\ t # Dialer
    BY <1>0, <1>1 DEF IgnoreHangup, ClosingHangup, Calm, carrier, Placed, DialerPlace
  <2>2. Moves(t, Idle) \/ Moves(t, Being("clear", r.kind, Caller, Gone, FALSE))
    BY <1>1, EndMoves
  <2> QED
    BY <1>a, <1>i, <2>1, <2>2, GoneIsSound, CalmMoves DEF Being
<1>2. CASE AbandonRing(t)
  <2> DEFINE ls == RingingIn(s)
             q  == Being("clear", r.kind, Caller, Gone, FALSE)
  <2>1. /\ Moves(t, q) /\ HangUp(ls) /\ ls \in SUBSET Leg
        /\ winner' = winner /\ served' = served /\ caller' = caller
        /\ t # Dialer
    BY <1>0, <1>2, EndMoves DEF AbandonRing, RingingIn, Placed, DialerPlace
  <2>2. OutsideOK' /\ Sound(sess', line', served', astray') /\ Sound(Gone, line', served', astray')
    BY <1>a, <2>1, GoneIsSound, StillSo, HangUpBringsDown, DownKeepsOutside DEF Moves
  <2>3. q.pc \in NoCopy /\ q.copy = Gone /\ Turns(t, q)
    BY <1>i, <2>1 DEF Being, Moves
  <2> HIDE DEF q
  <2> QED
    BY <2>1, <2>2, <2>3, TurnKeepsLines
<1>3. CASE RingingLegHangup(t)
  <2>1. Calm /\ t # Dialer /\ r.pc \notin NoCopy
    BY <1>0, <1>3 DEF RingingLegHangup, Calm, carrier, Placed, DialerPlace, NoCopy
  <2>2. Moves(t, Onward(r, "ended", s))
    BY <1>3, EndMoves
  <2> QED
    BY <1>a, <2>1, <2>2, CalmMoves DEF Onward, Being
<1>4. CASE LoserHangup(t)
  <2> DEFINE x == WithLegs(s, {r.leg}, "cancelled")
  <2>1. Calm /\ t # Dialer /\ r.pc \notin NoCopy /\ r.kind = "hangup" /\ r.leg \in Leg
    BY <1>0, <1>4
       DEF LoserHangup, Registered, Calm, carrier, Placed, DialerPlace, NoCopy, EndPlace
  <2>2. line[r.leg] = "ended"
    BY <1>a, <2>1, NoLegIsNoLeg DEF Heard
  <2>3. served
    BY <1>4, <1>a DEF LoserHangup, Active, HasWinner, Sound, OutsideOK
  <2>4. Sound(x, line, served, astray)
    <3>1. {r.leg} \in SUBSET Leg
      BY <2>1
    <3> QED
      BY <1>0, <1>a, <2>2, <2>3, <3>1, LegIsSound
  <2>5. Moves(t, Onward(r, "loser", x))
    BY <1>4, EndMoves
  <2> HIDE DEF x
  <2> QED
    BY <1>a, <2>1, <2>4, <2>5, CalmMoves DEF Onward, Being
<1>5. CASE LoserSave(t) \/ NoAnswerSave(t)
  <2>1. PICK p \in {"idle", "route"} : Saves(t, s, p)
    BY <1>5, HandlerSaves
  <2>2. r.pc \notin NoCopy /\ r.pc \notin {"ring", "dialling"}
    BY <1>5 DEF LoserSave, NoAnswerSave, NoCopy
  <2> QED
    BY <1>a, <2>1, <2>2, CalmSaves
<1>6. CASE LegEnded(t)
  <2> DEFINE x == WithLegs(s, {r.leg}, "no-answer")
  <2>1. Calm /\ t # Dialer /\ r.pc \notin NoCopy /\ r.kind = "hangup" /\ r.leg \in Leg
    BY <1>0, <1>6
       DEF LegEnded, Calm, carrier, Placed, DialerPlace, NoCopy, EndPlace
  <2>2. line[r.leg] = "ended"
    BY <1>a, <2>1, NoLegIsNoLeg DEF Heard
  <2>3. Sound(x, line, served, astray)
    <3>1. {r.leg} \in SUBSET Leg
      BY <2>1
    <3> QED
      BY <1>0, <1>a, <2>2, <3>1, LegIsSound
  <2>4. Moves(t, Idle) \/ Moves(t, Onward(r, "noanswer", x))
    BY <1>6, EndMoves
  <2> HIDE DEF x
  <2>5. CASE Moves(t, Idle)
    BY <1>i, <2>1, <2>5, GoneIsSound, CalmMoves
  <2>6. CASE Moves(t, Onward(r, "noanswer", x))
    BY <1>a, <2>1, <2>3, <2>6, CalmMoves DEF Onward, Being
  <2> QED
    BY <2>4, <2>5, <2>6
<1>7. CASE ClearClaims(t)
  <2>1. /\ line' = line /\ caller' = caller /\ served' = served /\ events' = events
        /\ astray' = astray
        /\ winner' = NoLeg /\ t # Dialer
    BY <1>0, <1>7 DEF ClearClaims, carrier, Placed, DialerPlace
  <2>2. OutsideOK'
    BY <1>a, <2>1 DEF OutsideOK
  <2>3. Moves(t, Being("delete", r.kind, Caller, Gone, FALSE))
    BY <1>7, EndMoves
  <2> QED
    BY <1>a, <1>i, <2>1, <2>2, <2>3, GoneIsSound, TurnKeepsLines DEF Being, Moves
<1>8. CASE DeleteSession(t)
  <2>1. Calm /\ t # Dialer
    BY <1>0, <1>8 DEF DeleteSession, Calm, carrier, Placed, DialerPlace
  <2>2. OutsideOK'
    BY <1>a, <2>1, CalmKeepsOutside
  <2>3. Turns(t, Idle) /\ sess' = Gone
    BY <1>8, DeleteTurns
  <2> QED
    BY <1>i, <2>1, <2>2, <2>3, GoneIsSound, TurnKeepsLines DEF Calm
<1>9. CASE RouteToVoicemail(t)
  <2>1. Calm /\ r.pc \notin NoCopy /\ r.pc \notin {"ring", "dialling"}
    BY <1>9 DEF RouteToVoicemail, Calm, carrier, NoCopy
  <2>2. Moves(t, Idle) \/ Moves(t, Onward(r, "prompt", s))
    BY <1>9, EndMoves
  <2> QED
    BY <1>a, <1>i, <2>1, <2>2, GoneIsSound, CalmMoves DEF Onward, Being
<1>10. CASE PromptSave(t) \/ RecordSave(t)
  <2>1. PICK p \in {"speak", "message"} : Saves(t, WithStage(s, "voicemail"), p)
    BY <1>10, HandlerSaves
  <2>2. r.pc \notin NoCopy /\ r.pc \notin {"ring", "dialling"}
    BY <1>10 DEF PromptSave, RecordSave, NoCopy
  <2>3. Sound(WithStage(s, "voicemail"), line, served, astray)
    BY <1>0, <1>a, StageIsSound DEF Stages
  <2> QED
    BY <1>a, <2>1, <2>2, <2>3, CalmSaves
<1>11. CASE SpeakPrompt(t)
  <2>1. /\ events' \subseteq events \cup {<<"spoken", Caller>>}
        /\ line' = line /\ caller' = caller /\ served' = served /\ winner' = winner
        /\ astray' = astray
        /\ r.pc \notin {"ring", "dialling"}
    BY <1>11 DEF SpeakPrompt, carrier
  <2>2. \A l : Heard("spoken", l, line, caller, served)
    BY DEF Heard
  <2>3. OutsideOK'
    BY <1>a, <2>1, <2>2 DEF OutsideOK
  <2>4. Moves(t, Idle) /\ (t = Dialer => Dialled')
    BY <1>11, <1>a, <2>1, EndMoves DEF Dialled
  <2> QED
    BY <1>a, <1>i, <2>1, <2>3, <2>4, GoneIsSound, TurnKeepsLines DEF Moves
<1>12. CASE RecordMessage(t)
  <2>1. /\ events' = events /\ line' = line /\ caller' = caller /\ winner' = winner
        /\ astray' = astray
        /\ r.pc \notin {"ring", "dialling"}
    BY <1>12 DEF RecordMessage
  <2>2. OutsideOK'
    <3>1. \A e \in events : Heard(e[1], e[2], line', caller', served')
      BY <1>a, StillSo DEF OutsideOK, IInv, TypeOK
    <3> QED
      BY <1>a, <2>1, <3>1 DEF OutsideOK, Grows
  <2>3. Moves(t, Idle) /\ (t = Dialer => Dialled') /\ Sound(Gone, line', served', astray')
        /\ Sound(sess, line', served', astray')
    BY <1>12, <1>a, <2>1, EndMoves, GoneIsSound, StillSo DEF Dialled
  <2> QED
    BY <1>i, <2>2, <2>3, IdleIsATask, TurnKeepsLines DEF Moves
<1> QED
  BY <1>1, <1>2, <1>3, <1>4, <1>5, <1>6, <1>7, <1>8, <1>9, <1>10, <1>11, <1>12 DEF End, Voicemail

LEMMA WorldKeepsLines == ASSUME IInv, LinesOK, World, Grows PROVE LinesOK'
<1>a. ASSUME OutsideOK', sess' = sess, task' = task PROVE LinesOK'
  <2>1. /\ Sound(sess, line', served', astray')
        /\ \A t \in Task : Sound(task[t].copy, line', served', astray')
        /\ \A t \in Task : task[t].pc \notin NoCopy =>
             Heard(task[t].kind, task[t].leg, line', caller', served')
    BY StillSo, Copies DEF LinesOK, IInv
  <2>2. Dialled => Dialled'
    BY DEF Grows, Dialled
  <2> QED
    BY <1>a, <2>1, <2>2 DEF LinesOK
<1>b. \A e \in events : Heard(e[1], e[2], line', caller', served')
  BY StillSo DEF LinesOK, OutsideOK, IInv, TypeOK
<1>c. /\ OutsideOK
      /\ line \in [Leg -> LineState] /\ winner \in Leg \cup {NoLeg}
  BY DEF LinesOK, IInv, TypeOK, LineState
<1>1. CASE CallerHangsUp
  <2> DEFINE with == {l \in Leg : line[l] = "bridged"}
  <2>1. /\ ~caller' /\ served' = served /\ winner' = winner /\ sess' = sess /\ task' = task
        /\ line' = [l \in Leg |-> IF l \in with THEN "ended" ELSE line[l]]
        /\ events' = events \cup ({"hangup"} \X (with \cup {Caller}))
    BY <1>1 DEF CallerHangsUp
  <2>2. ASSUME NEW e \in events' PROVE Heard(e[1], e[2], line', caller', served')
    <3>1. ASSUME NEW l \in with PROVE Heard("hangup", l, line', caller', served')
      BY <2>1, <3>1, NoLegIsNoLeg DEF Heard
    <3>2. Heard("hangup", Caller, line', caller', served')
      BY <2>1 DEF Heard
    <3> QED
      BY <1>b, <2>1, <2>2, <3>1, <3>2
  <2>3. OutsideOK'
    BY <1>c, <2>1, <2>2 DEF OutsideOK, Grows
  <2> QED
    BY <1>a, <2>1, <2>3
<1>2. ASSUME NEW l \in Leg, PickUp(l) PROVE LinesOK'
  <2>1. line' = [line EXCEPT ![l] = "answered"] /\ served' = served /\ winner' = winner
    BY <1>2 DEF PickUp
  <2>2. PICK posts \in SUBSET ({l} \cap AppLegs) :
          events' = events \cup {<<"answered", l>>} \cup ({"accept"} \X posts)
    BY <1>2 DEF PickUp
  <2>3. Heard("answered", l, line', caller', served')
    BY <1>c, <2>1 DEF Heard, PickedUp
  <2>4. \A k : Heard("accept", k, line', caller', served')
    BY DEF Heard
  <2>5. \A e \in events' : Heard(e[1], e[2], line', caller', served')
    BY <1>b, <2>2, <2>3, <2>4
  <2>6. OutsideOK'
    BY <1>c, <2>1, <2>5 DEF OutsideOK, Grows
  <2> QED
    BY <1>2, <1>a, <2>6 DEF PickUp
<1>3. ASSUME NEW l \in Leg, Bridge(l) PROVE LinesOK'
  <2>1. /\ line' = [line EXCEPT ![l] = "bridged"] /\ served' /\ winner' = winner
        /\ events' = events \cup {<<"bridged", l>>}
        /\ \A k \in Leg : line[k] # "bridged"
    BY <1>3 DEF Bridge
  <2>2. Heard("bridged", l, line', caller', served')
    <3>1. line'[l] \in Talked /\ served'
      BY <1>c, <2>1 DEF Talked
    <3> QED
      BY <3>1 DEF Heard
  <2>3. ASSUME NEW e \in events' PROVE Heard(e[1], e[2], line', caller', served')
    <3>1. CASE e \in events
      BY <1>b, <3>1
    <3>2. CASE e = <<"bridged", l>>
      <4>1. e[1] = "bridged" /\ e[2] = l
        BY <3>2
      <4> QED
        BY <2>2, <4>1
    <3> QED
      BY <2>1, <2>3, <3>1, <3>2
  <2>4. OutsideOK'
    BY <1>c, <2>1, <2>3 DEF OutsideOK, Grows
  <2> QED
    BY <1>3, <1>a, <2>4 DEF Bridge
<1>4. ASSUME NEW l \in Leg, LegEnds(l) PROVE LinesOK'
  <2>1. OutsideOK'
    BY <1>4, <1>c, LegEndsBringsDown, DownKeepsOutside DEF LegEnds
  <2> QED
    BY <1>4, <1>a, <2>1 DEF LegEnds
<1> QED
  BY <1>1, <1>2, <1>3, <1>4 DEF World

LEMMA NextLines == IInv /\ LinesOK /\ [Next]_vars => LinesOK'
<1>1. ASSUME IInv, LinesOK, UNCHANGED vars PROVE LinesOK'
  BY <1>1 DEF vars, carrier, LinesOK, OutsideOK, Dialled
<1>2. ASSUME IInv, LinesOK, Next PROVE LinesOK'
  <2>1. Grows
    BY <1>2, NextGrows
  <2> QED
    BY <1>2, <2>1, DialKeepsLines, AnswerKeepsLines, EndKeepsLines, WorldKeepsLines DEF Next
<1> QED
  BY <1>1, <1>2

----------------------------------------------------------------------------
(***************************************************************************)
(* Until its result is registered a leg is known to nobody: its entry is   *)
(* not in the session nor in any copy, and it cannot have the call.        *)
(***************************************************************************)
Dialing(d, l) ==
  \/ d.pc \in {"ring", "dialling"}
  \/ d.pc = "register" /\ d.leg < l
  \/ d.pc \in {"check", "registered"} /\ d.leg <= l

Fresh(s, l) == s.leg[l] = "unknown" /\ s.winner # l

\* A handler here found its leg in the session.
Chosen == {"picked", "claim", "mark", "cancel", "kept", "paired", "ended", "noanswer", "loser"}

Ignorant(t, r, l) ==
  /\ ~(t = Dialer /\ r.pc = "registered" /\ r.leg = l) => r.copy.leg[l] = "unknown"
  /\ r.copy.winner # l
  /\ r.pc \in Chosen => r.leg # l

DialOK ==
  \A l \in Leg : Dialing(task[Dialer], l) =>
    /\ Fresh(sess, l) /\ winner # l
    /\ \A t \in Task : Ignorant(t, task[t], l)

LEMMA GoneIsFresh == \A l \in Leg : Fresh(Gone, l) /\ \A t \in Task : Ignorant(t, Idle, l)
BY GoneIsASession, IdleIsATask, NoLegIsNoLeg DEF Fresh, Ignorant, Chosen

LEMMA TurnKeepsDial ==
  ASSUME IInv, DialOK, NEW t \in Task, NEW r, Turns(t, r),
         \A l \in Leg : Dialing(task'[Dialer], l) =>
           Dialing(task[Dialer], l) /\ Fresh(sess', l) /\ winner' # l /\ Ignorant(t, r, l)
  PROVE  DialOK'
<1>1. ASSUME NEW l \in Leg, Dialing(task'[Dialer], l), NEW u \in Task
      PROVE  Ignorant(u, task'[u], l)
  <2>1. CASE u = t
    BY <1>1, <2>1 DEF Turns
  <2>2. CASE u # t
    <3>1. Same(task'[u], task[u]) /\ Ignorant(u, task[u], l)
      BY <1>1, <2>2 DEF Turns, DialOK
    <3> QED
      BY <3>1 DEF Same, Ignorant
  <2> QED
    BY <2>1, <2>2
<1> QED
  BY <1>1 DEF DialOK

\* A handler, or the dialer on its way to voicemail.
LEMMA HandlerKeepsDial ==
  ASSUME IInv, DialOK, NEW t \in Task, NEW r, Turns(t, r),
         t = Dialer => r.pc \notin DialerPlace,
         \A l \in Leg : Dialing(task[Dialer], l) /\ t # Dialer =>
           /\ Fresh(sess', l) /\ winner' # l /\ Fresh(r.copy, l)
           /\ r.pc \in Chosen => r.leg # l
  PROVE  DialOK'
<1>1. CASE t = Dialer
  <2>1. \A l \in Leg : ~Dialing(task'[Dialer], l)
    BY <1>1 DEF Turns, Dialing, DialerPlace
  <2> QED
    BY <2>1, TurnKeepsDial
<1>2. CASE t # Dialer
  <2>1. \A l \in Leg : Dialing(task'[Dialer], l) => Dialing(task[Dialer], l)
    BY <1>2 DEF Turns, Same, Dialing, Task
  <2>2. \A l \in Leg : Fresh(r.copy, l) /\ (r.pc \in Chosen => r.leg # l) => Ignorant(t, r, l)
    BY DEF Fresh, Ignorant
  <2> QED
    BY <1>2, <2>1, <2>2, TurnKeepsDial
<1> QED
  BY <1>1, <1>2

LEMMA HandlerSavesKeepDial ==
  ASSUME IInv, DialOK, NEW t \in Task, NEW s, NEW p, Saves(t, s, p),
         t = Dialer => p \notin DialerPlace,
         \A l \in Leg : Dialing(task[Dialer], l) /\ t # Dialer =>
           /\ Fresh(s, l)
           /\ p \in Chosen => task[t].leg # l
  PROVE  DialOK'
<1> DEFINE r == After(task[t], p, s)
<1>1. r.pc = p /\ r.copy \in {s, Gone} /\ (p \in Chosen => r.leg = task[t].leg)
  BY IdleIsATask DEF After, Being, Chosen, Idle
<1>2. Turns(t, r) /\ sess' = s /\ winner' = winner
  BY DEF Saves
<1> HIDE DEF r
<1>3. \A l \in Leg : Dialing(task[Dialer], l) => winner # l
  BY DEF DialOK
<1> QED
  BY <1>1, <1>2, <1>3, GoneIsFresh, HandlerKeepsDial

LEMMA InitDial == Init => DialOK
<1> SUFFICES ASSUME Init PROVE DialOK
  OBVIOUS
<1>1. \A l \in Leg : Fresh(sess, l)
  BY NoLegIsNoLeg DEF Init, Gone, Fresh
<1>2. /\ task[Dialer] = [Idle EXCEPT !.pc = "ring", !.copy = sess]
      /\ \A t \in Task \ {Dialer} : task[t] = Idle
  BY DEF Init, Task
<1>3. task[Dialer].pc = "ring" /\ task[Dialer].copy = sess
  BY <1>2 DEF Idle
<1>4. \A l \in Leg : Ignorant(Dialer, task[Dialer], l)
  BY <1>1, <1>3 DEF Ignorant, Fresh, Chosen
<1> QED
  BY <1>1, <1>2, <1>4, GoneIsFresh, NoLegIsNoLeg DEF DialOK, Init

\* No leg that has the call is still being registered.
LEMMA ResultIsNew ==
  ASSUME IInv, DialOK, task[Dialer].pc = "check"
  PROVE  LET r == task[Dialer]
             taken == winner # NoLeg \/ HasWinner(r.copy)
         IN  Result(r.copy, r.leg, taken) =
               WithLegs(r.copy, {r.leg}, IF DialFailed(r.leg) THEN "failed"
                                         ELSE IF taken THEN "dropped" ELSE "ringing")
<1> DEFINE r == task[Dialer]
<1>1. Dialer \in Task /\ r.leg \in Leg
  BY DEF Task, IInv, Whole, Placed
<1>2. Dialing(r, r.leg)
  BY <1>1 DEF Dialing, Leg
<1>3. r.leg \notin {winner, r.copy.winner}
  BY <1>1, <1>2 DEF DialOK, Ignorant
<1> QED
  BY <1>3 DEF Result

LEMMA DialKeepsDial == ASSUME IInv, IInv', DialOK, Dial PROVE DialOK'
<1> USE DEF At
<1> DEFINE r == task[Dialer]
           s == r.copy
<1>0. /\ Dialer \in Task /\ s \in Session /\ sess \in Session /\ r.leg \in Leg \cup {Caller}
      /\ Placed(Dialer, r) /\ Leg \subseteq Nat /\ r.leg \in Nat
      /\ "failed" \in Statuses /\ "ringing" \in Statuses /\ "dropped" \in Statuses
  BY Copies DEF Task, IInv, Whole, Leg, Caller
<1>a. \A l \in Leg : Dialing(r, l) => Fresh(sess, l) /\ winner # l /\ Ignorant(Dialer, r, l)
  BY <1>0 DEF DialOK
<1>1. CASE StartRinging
  <2>1. Saves(Dialer, WithStage(s, "ringing"), "dialling") /\ r.pc = "ring"
    BY <1>1, DialerSaves DEF StartRinging
  <2>2. /\ WithStage(s, "ringing").leg = s.leg /\ WithStage(s, "ringing").winner = s.winner
    BY <1>0, StageWrites DEF Stages
  <2> DEFINE x == WithStage(s, "ringing")
             q == After(r, "dialling", x)
  <2>3. q.copy = x /\ q.pc = "dialling"
    BY DEF After, Being
  <2>4. Turns(Dialer, q) /\ sess' = x /\ winner' = winner
    BY <2>1 DEF Saves
  <2> HIDE DEF q, x
  <2>5. \A l \in Leg : Dialing(r, l) /\ Fresh(x, l) /\ Ignorant(Dialer, q, l)
    BY <1>a, <2>1, <2>2, <2>3 DEF Dialing, Fresh, Ignorant, Chosen, x
  <2> QED
    BY <1>0, <1>a, <2>4, <2>5, TurnKeepsDial
<1>2. CASE DialsReturn
  <2> DEFINE q == Onward(r, "register", s)
  <2>1. Moves(Dialer, q) /\ r.pc = "dialling" /\ winner' = winner
    BY <1>2, DialerMoves DEF DialsReturn
  <2>2. q.copy = s /\ q.pc = "register"
    BY DEF Onward, Being
  <2> HIDE DEF q
  <2>3. \A l \in Leg : Dialing(r, l) /\ (Ignorant(Dialer, r, l) => Ignorant(Dialer, q, l))
    BY <2>1, <2>2 DEF Dialing, Ignorant, Chosen
  <2> QED
    BY <1>0, <1>a, <2>1, <2>3, TurnKeepsDial DEF Moves
<1>3. CASE RegisterLoad
  <2>1. r.pc = "register" /\ winner' = winner /\ r.leg + 1 \in Leg
    BY <1>3, DialerMoves DEF RegisterLoad
  <2>2. PICK q : /\ Moves(Dialer, q) /\ q.leg = r.leg + 1 /\ q.copy \in {s, sess}
                 /\ q.pc \in {"register", "recount", "check"}
    <3>1. CASE sess = Gone
      <4>1. Moves(Dialer, Being(AfterResult(r.leg + 1), r.kind, r.leg + 1, s, r.stale))
        BY <1>3, <3>1, DialerMoves
      <4> QED
        BY <4>1 DEF Being, AfterResult
    <3>2. CASE sess # Gone
      <4>1. Moves(Dialer, Being("check", r.kind, r.leg + 1, sess, FALSE))
        BY <1>3, <3>2, DialerMoves
      <4> QED
        BY <4>1 DEF Being
    <3> QED
      BY <3>1, <3>2
  <2>3. ASSUME NEW l \in Leg, Dialing(q, l) PROVE Dialing(r, l)
    BY <1>0, <2>1, <2>2, <2>3 DEF Dialing
  <2>4. ASSUME NEW l \in Leg, Dialing(q, l) PROVE Ignorant(Dialer, q, l)
    BY <1>a, <2>1, <2>2, <2>3, <2>4 DEF Ignorant, Fresh, Chosen
  <2>5. task'[Dialer] = q /\ Turns(Dialer, q) /\ sess' = sess
    BY <2>2 DEF Moves, Turns
  <2> QED
    BY <1>0, <1>a, <2>1, <2>3, <2>4, <2>5, TurnKeepsDial
<1>4. CASE RegisterCheck
  <2> DEFINE x == Result(s, r.leg, winner # NoLeg \/ HasWinner(s))
             q == Onward(r, "registered", x)
  <2>1. /\ Moves(Dialer, q) /\ r.pc = "check" /\ winner' = winner /\ r.leg \in Leg
    BY <1>0, <1>4, DialerMoves DEF RegisterCheck, Placed
  <2>2. x.winner = s.winner /\ \A l \in Leg : l # r.leg => x.leg[l] = s.leg[l]
    <3> DEFINE st == IF DialFailed(r.leg) THEN "failed"
                     ELSE IF winner # NoLeg \/ HasWinner(s) THEN "dropped" ELSE "ringing"
    <3>1. x = WithLegs(s, {r.leg}, st)
      BY <2>1, ResultIsNew
    <3>2. st \in Statuses
      BY <1>0
    <3> HIDE DEF x, st
    <3>3. WithLegs(s, {r.leg}, st).winner = s.winner
          /\ \A l \in Leg : WithLegs(s, {r.leg}, st).leg[l] = IF l \in {r.leg} THEN st ELSE s.leg[l]
      BY <1>0, <3>2, LegWrites
    <3> QED
      BY <3>1, <3>3
  <2>3. q.copy = x /\ q.pc = "registered" /\ q.leg = r.leg
    BY DEF Onward, Being
  <2> HIDE DEF q, x
  <2>4. \A l \in Leg : Dialing(q, l) => Dialing(r, l)
    BY <2>1, <2>3 DEF Dialing
  <2>5. \A l \in Leg : Ignorant(Dialer, r, l) => Ignorant(Dialer, q, l)
    BY <2>1, <2>2, <2>3 DEF Ignorant, Chosen
  <2>6. task'[Dialer] = q /\ Turns(Dialer, q) /\ sess' = sess
    BY <2>1 DEF Moves, Turns
  <2> QED
    BY <1>0, <1>a, <2>1, <2>4, <2>5, <2>6, TurnKeepsDial
<1>5. CASE RegisterSave
  <2> DEFINE q == After(r, AfterResult(r.leg), s)
  <2>1. /\ Saves(Dialer, s, AfterResult(r.leg)) /\ r.pc = "registered" /\ r.leg \in Leg
    BY <1>0, <1>5, DialerSaves DEF RegisterSave, Placed
  <2>2. q.copy = s /\ q.pc = AfterResult(r.leg) /\ q.leg = r.leg
    BY DEF After, Being, AfterResult
  <2>3. Turns(Dialer, q) /\ task'[Dialer] = q /\ sess' = s /\ winner' = winner
    BY <2>1 DEF Saves, Turns
  <2> HIDE DEF q
  <2>4. ASSUME NEW l \in Leg, Dialing(q, l) PROVE Dialing(r, l) /\ r.leg < l
    BY <1>0, <2>1, <2>2, <2>4 DEF Dialing, AfterResult
  <2>5. ASSUME NEW l \in Leg, Dialing(q, l) PROVE Fresh(s, l) /\ Ignorant(Dialer, q, l)
    <3>1. l # r.leg /\ Ignorant(Dialer, r, l)
      BY <1>0, <1>a, <2>4, <2>5
    <3> QED
      BY <2>2, <3>1 DEF Fresh, Ignorant, Chosen, AfterResult
  <2> QED
    BY <1>0, <1>a, <2>3, <2>4, <2>5, TurnKeepsDial
<1>6. CASE Recount
  <2>1. PICK q : Moves(Dialer, q) /\ q.pc \in {"idle", "resave"}
    BY <1>6, DialerMoves, IdleIsATask DEF Being
  <2>2. task'[Dialer] = q /\ Turns(Dialer, q)
    BY <2>1 DEF Moves, Turns
  <2>3. \A l \in Leg : ~Dialing(task'[Dialer], l)
    BY <2>1, <2>2 DEF Dialing
  <2> QED
    BY <1>0, <2>2, <2>3, TurnKeepsDial
<1>7. CASE RecountSave
  <2>1. PICK p \in {"route", "idle"} : Saves(Dialer, s, p)
    BY <1>7, DialerSaves
  <2>2. r.pc = "resave"
    BY <1>7 DEF RecountSave
  <2> QED
    BY <1>0, <2>1, HandlerSavesKeepDial DEF DialerPlace
<1>8. ASSUME NEW l \in Leg, DialLeg(l) PROVE DialOK'
  BY <1>8 DEF DialLeg, DialOK
<1> QED
  BY <1>1, <1>2, <1>3, <1>4, <1>5, <1>6, <1>7, <1>8 DEF Dial

LEMMA AnswerKeepsDial ==
  ASSUME IInv, DialOK, NEW t \in Task, Take(t) \/ Answer(t) PROVE DialOK'
<1> USE DEF At
<1> DEFINE r == task[t]
           s == r.copy
           d == task[Dialer]
<1>0. /\ s \in Session /\ sess \in Session /\ r.leg \in Leg \cup {Caller} /\ Placed(t, r)
      /\ "answered" \in Statuses /\ "cancelled" \in Statuses
  BY Copies DEF IInv, Whole
<1>a. ASSUME NEW l \in Leg, Dialing(d, l)
      PROVE  /\ Fresh(sess, l) /\ winner # l /\ (r.pc \in Chosen => r.leg # l)
             /\ t # Dialer => Fresh(s, l)
  BY <1>a DEF DialOK, Ignorant, Fresh
<1>i. Idle.pc \notin DialerPlace \cup Chosen /\ Idle.copy = Gone
  BY IdleIsATask DEF DialerPlace, Chosen
<1>1. ASSUME NEW kind \in Kinds, NEW l \in Leg \cup {Caller}, Begin(t, kind, l) PROVE DialOK'
  <2>1. t # Dialer /\ winner' = winner
    BY <1>1 DEF Begin
  <2>2. PICK q : Moves(t, q) /\ q.copy \in {Gone, sess} /\ q.pc \notin Chosen
    <3>1. StartOf(kind, sess) \notin Chosen
      BY DEF StartOf, Chosen, Kinds
    <3> DEFINE b == Being(StartOf(kind, sess), kind, l, sess, FALSE)
    <3>2. b.copy = sess /\ b.pc \notin Chosen
      BY <3>1 DEF Being
    <3>3. Moves(t, Idle) \/ Moves(t, b)
      BY <1>1, BeginMoves
    <3> HIDE DEF b
    <3> QED
      BY <1>i, <3>2, <3>3
  <2> QED
    BY <1>a, <2>1, <2>2, GoneIsFresh, HandlerKeepsDial DEF Moves
<1>2. CASE AcceptSave(t) \/ MarkConnecting(t)
  <2>1. PICK p \in {"idle", "reread"} : Saves(t, WithStage(s, "connecting"), p)
    BY <1>2, HandlerSaves
  <2>2. WithStage(s, "connecting").leg = s.leg /\ WithStage(s, "connecting").winner = s.winner
    BY <1>0, StageWrites DEF Stages
  <2>3. \A l \in Leg : Fresh(s, l) => Fresh(WithStage(s, "connecting"), l)
    BY <2>2 DEF Fresh
  <2> QED
    BY <1>a, <2>1, <2>3, HandlerSavesKeepDial DEF DialerPlace, Chosen
<1>3. CASE AnswerReload(t)
  <2>1. t # Dialer /\ winner' = winner
    BY <1>0, <1>3 DEF AnswerReload, Placed, DialerPlace
  <2>2. CASE Moves(t, Idle)
    BY <1>a, <1>i, <2>1, <2>2, GoneIsFresh, HandlerKeepsDial DEF Moves
  <2> DEFINE q == Being(IF r.kind = "answered" THEN "picked" ELSE "claim",
                        r.kind, r.leg, Loaded(r), Refreshed(r))
  <2>3. CASE Registered(Loaded(r), r.leg) /\ Moves(t, q)
    <3>1. q.leg = r.leg /\ q.copy = Loaded(r) /\ q.pc \notin DialerPlace /\ Turns(t, q)
          /\ sess' = sess
      BY <2>3 DEF Being, Moves, DialerPlace
    <3>2. \A l \in Leg : Dialing(d, l) => Fresh(Loaded(r), l)
      BY <1>a, <2>1 DEF Loaded
    <3>3. Loaded(r).leg[r.leg] # "unknown"
      BY <2>3 DEF Registered
    <3> HIDE DEF q
    <3>4. \A l \in Leg : Dialing(d, l) => r.leg # l
      BY <3>2, <3>3 DEF Fresh
    <3> QED
      BY <1>a, <2>1, <3>1, <3>2, <3>4, HandlerKeepsDial
  <2> QED
    BY <1>3, <2>2, <2>3, AnswerMoves
<1>4. CASE MarkAnswered(t)
  <2>1. Saves(t, WithLegs(s, {r.leg}, "answered"), "idle") /\ r.pc \in Chosen
    BY <1>4, HandlerSaves DEF MarkAnswered, Chosen
  <2>2. \A l \in Leg : Fresh(s, l) /\ r.leg # l => Fresh(WithLegs(s, {r.leg}, "answered"), l)
    BY <1>0, LegWrites DEF Fresh
  <2> QED
    BY <1>a, <2>1, <2>2, HandlerSavesKeepDial DEF DialerPlace, Chosen
<1>5. CASE Claim(t)
  <2>1. t # Dialer /\ r.pc \in Chosen /\ winner' \in {winner, r.leg}
    BY <1>0, <1>5 DEF Claim, Placed, DialerPlace, Chosen
  <2>2. winner \in Leg =>
          /\ BridgedBy(s, winner).leg = s.leg /\ BridgedBy(s, winner).winner = winner
    BY <1>0, BridgeWrites
  <2>3. PICK q : /\ Moves(t, q) /\ q.pc \notin DialerPlace
                 /\ \/ q.pc = "idle" /\ q.copy = Gone
                    \/ q.leg = r.leg /\ q.copy = s
                    \/ q.leg = r.leg /\ winner \in Leg /\ q.copy = BridgedBy(s, winner)
    <3>1. CASE winner = NoLeg
      <4>1. Moves(t, Onward(r, "mark", s))
        BY <1>5, <3>1, AnswerMoves
      <4> QED
        BY <4>1 DEF Onward, Being, DialerPlace
    <3>2. CASE winner # NoLeg /\ s.stage = "bridged"
      BY <1>5, <1>i, <3>2, AnswerMoves, IdleIsATask
    <3>3. CASE winner # NoLeg /\ s.stage # "bridged"
      <4>1. winner \in Leg /\ Moves(t, Onward(r, "paired", BridgedBy(s, winner)))
        BY <1>5, <3>3, AnswerMoves
      <4> DEFINE x == BridgedBy(s, winner)
      <4> HIDE DEF x
      <4>2. Moves(t, Onward(r, "paired", x))
        BY <4>1 DEF x
      <4>3. \E q : /\ Moves(t, q) /\ q.pc \notin DialerPlace
                   /\ q.leg = r.leg /\ winner \in Leg /\ q.copy = x
        BY <4>1, <4>2 DEF Onward, Being, DialerPlace
      <4> QED
        BY <4>3 DEF x
    <3> QED
      BY <3>1, <3>2, <3>3
  <2>4. ASSUME NEW l \in Leg, Dialing(d, l)
        PROVE  Fresh(q.copy, l) /\ (q.pc \in Chosen => q.leg # l)
    <3>1. Fresh(s, l) /\ r.leg # l /\ winner # l
      BY <1>a, <2>1, <2>4
    <3> QED
      BY <2>2, <2>3, <3>1, <2>4, GoneIsFresh DEF Fresh, Chosen
  <2> QED
    BY <1>a, <2>1, <2>3, <2>4, HandlerKeepsDial DEF Moves
<1>6. CASE MarkPaired(t) \/ SaveWon(t)
  <2>1. Saves(t, s, "idle")
    BY <1>6, HandlerSaves
  <2> QED
    BY <1>a, <2>1, HandlerSavesKeepDial DEF DialerPlace, Chosen
<1>7. CASE MarkBridged(t)
  <2> DEFINE y == WithLegs(s, {r.leg}, "answered")
             x == BridgedBy(y, r.leg)
  <2>0. y \in Session
    BY <1>0, LegWrites
  <2>1. Saves(t, x, "cancel") /\ r.pc \in Chosen /\ r.leg \in Leg
    BY <1>0, <1>7, HandlerSaves DEF MarkBridged, Chosen, Placed, AnswerPlace
  <2>2. \A l \in Leg : y.leg[l] = IF l \in {r.leg} THEN "answered" ELSE s.leg[l]
    BY <1>0, LegWrites
  <2>3. x.leg = y.leg /\ x.winner = r.leg
    BY <2>0, <2>1, BridgeWrites
  <2> HIDE DEF x, y
  <2>4. \A l \in Leg : Fresh(s, l) /\ r.leg # l => Fresh(x, l)
    BY <2>2, <2>3 DEF Fresh
  <2> QED
    BY <1>a, <2>1, <2>4, HandlerSavesKeepDial DEF DialerPlace, Chosen
<1>8. CASE CancelRemaining(t)
  <2> DEFINE ls == Losers(s, r.leg)
             x  == WithLegs(s, ls, "cancelled")
             q  == Onward(r, "kept", x)
  <2>1. Moves(t, q) /\ winner' = winner /\ t # Dialer /\ r.pc \in Chosen
    BY <1>0, <1>8, AnswerMoves DEF CancelRemaining, Chosen, Placed, DialerPlace
  <2>2. x.winner = s.winner /\ \A l \in Leg : x.leg[l] = IF l \in ls THEN "cancelled" ELSE s.leg[l]
    BY <1>0, LegWrites
  <2>3. q.copy = x /\ q.leg = r.leg /\ q.pc \notin DialerPlace /\ Turns(t, q) /\ sess' = sess
    BY <2>1 DEF Onward, Being, DialerPlace, Moves
  <2>4. \A l \in ls : s.leg[l] = "ringing"
    BY DEF Losers, RingingIn
  <2> HIDE DEF q, x, ls
  <2>5. \A l \in Leg : Fresh(s, l) => Fresh(x, l)
    BY <2>2, <2>4 DEF Fresh
  <2> QED
    BY <1>a, <2>1, <2>3, <2>5, HandlerKeepsDial
<1> QED
  BY <1>1, <1>2, <1>3, <1>4, <1>5, <1>6, <1>7, <1>8 DEF Take, Answer

LEMMA EndKeepsDial ==
  ASSUME IInv, DialOK, NEW t \in Task, End(t) \/ Voicemail(t) PROVE DialOK'
<1> USE DEF At
<1> DEFINE r == task[t]
           s == r.copy
           d == task[Dialer]
<1>0. /\ s \in Session /\ r.leg \in Leg \cup {Caller} /\ Placed(t, r)
      /\ "no-answer" \in Statuses /\ "cancelled" \in Statuses
  BY Copies DEF IInv, Whole
<1>a. ASSUME NEW l \in Leg, Dialing(d, l)
      PROVE  /\ Fresh(sess, l) /\ winner # l /\ (r.pc \in Chosen => r.leg # l)
             /\ t # Dialer => Fresh(s, l)
  BY <1>a DEF DialOK, Ignorant, Fresh
<1>i. Idle.pc \notin DialerPlace \cup Chosen /\ Idle.copy = Gone
  BY IdleIsATask DEF DialerPlace, Chosen
<1>h. ASSUME t # Dialer, Registered(s, r.leg), NEW l \in Leg, Dialing(d, l) PROVE r.leg # l
  BY <1>a, <1>h DEF Registered, Fresh
<1>1. CASE \/ IgnoreHangup(t) \/ ClosingHangup(t) \/ AbandonRing(t) \/ ClearClaims(t)
           \/ SpeakPrompt(t) \/ RecordMessage(t)
  <2>1. PICK q : Moves(t, q) /\ q.copy = Gone /\ q.pc \notin DialerPlace \cup Chosen
    <3>1. \A p \in {"clear", "delete"} :
            LET b == Being(p, r.kind, Caller, Gone, FALSE)
            IN  b.copy = Gone /\ b.pc \notin DialerPlace \cup Chosen
      BY DEF Being, DialerPlace, Chosen
    <3>2. \/ Moves(t, Idle)
          \/ \E p \in {"clear", "delete"} : Moves(t, Being(p, r.kind, Caller, Gone, FALSE))
      BY <1>1, EndMoves
    <3> QED
      BY <1>i, <3>1, <3>2
  <2>2. winner' \in {winner, NoLeg}
    BY <1>1
       DEF IgnoreHangup, ClosingHangup, AbandonRing, ClearClaims, SpeakPrompt, RecordMessage
  <2> QED
    BY <1>a, <2>1, <2>2, GoneIsFresh, NoLegIsNoLeg, HandlerKeepsDial DEF Moves
<1>2. CASE RingingLegHangup(t)
  <2> DEFINE q == Onward(r, "ended", s)
  <2>1. Moves(t, q) /\ winner' = winner /\ t # Dialer /\ Registered(s, r.leg)
    BY <1>0, <1>2, EndMoves DEF RingingLegHangup, Placed, DialerPlace
  <2>2. q.copy = s /\ q.leg = r.leg /\ q.pc \notin DialerPlace /\ Turns(t, q) /\ sess' = sess
    BY <2>1 DEF Onward, Being, DialerPlace, Moves
  <2> HIDE DEF q
  <2> QED
    BY <1>a, <1>h, <2>1, <2>2, HandlerKeepsDial
<1>3. CASE LoserHangup(t)
  <2> DEFINE x == WithLegs(s, {r.leg}, "cancelled")
             q == Onward(r, "loser", x)
  <2>1. Moves(t, q) /\ winner' = winner /\ t # Dialer /\ Registered(s, r.leg)
    BY <1>0, <1>3, EndMoves DEF LoserHangup, Placed, DialerPlace
  <2>2. \A l \in Leg : Fresh(s, l) /\ r.leg # l => Fresh(x, l)
    BY <1>0, LegWrites DEF Fresh
  <2>3. q.copy = x /\ q.leg = r.leg /\ q.pc \notin DialerPlace /\ Turns(t, q) /\ sess' = sess
    BY <2>1 DEF Onward, Being, DialerPlace, Moves
  <2> HIDE DEF q, x
  <2> QED
    BY <1>a, <1>h, <2>1, <2>2, <2>3, HandlerKeepsDial
<1>4. CASE LoserSave(t) \/ NoAnswerSave(t)
  <2>1. PICK p \in {"idle", "route"} : Saves(t, s, p)
    BY <1>4, HandlerSaves
  <2> QED
    BY <1>a, <2>1, HandlerSavesKeepDial DEF DialerPlace, Chosen
<1>5. CASE LegEnded(t)
  <2> DEFINE x == WithLegs(s, {r.leg}, "no-answer")
             q == Onward(r, "noanswer", x)
  <2>1. winner' = winner /\ t # Dialer /\ r.pc \in Chosen
    BY <1>0, <1>5 DEF LegEnded, Placed, DialerPlace, Chosen
  <2>2. \A l \in Leg : Fresh(s, l) /\ r.leg # l => Fresh(x, l)
    BY <1>0, LegWrites DEF Fresh
  <2>3. q.copy = x /\ q.leg = r.leg /\ q.pc \notin DialerPlace
    BY DEF Onward, Being, DialerPlace
  <2>4. Moves(t, Idle) \/ Moves(t, q)
    BY <1>5, EndMoves
  <2> HIDE DEF q, x
  <2>5. CASE Moves(t, Idle)
    BY <1>a, <1>i, <2>1, <2>5, GoneIsFresh, HandlerKeepsDial DEF Moves
  <2>6. CASE Moves(t, q)
    BY <1>a, <2>1, <2>2, <2>3, <2>6, HandlerKeepsDial DEF Moves
  <2> QED
    BY <2>4, <2>5, <2>6
<1>6. CASE DeleteSession(t)
  <2>1. Turns(t, Idle) /\ sess' = Gone /\ winner' = winner
    BY <1>6, DeleteTurns DEF DeleteSession
  <2> QED
    BY <1>a, <1>i, <2>1, GoneIsFresh, HandlerKeepsDial
<1>7. CASE RouteToVoicemail(t)
  <2> DEFINE q == Onward(r, "prompt", s)
  <2>1. winner' = winner /\ (Moves(t, Idle) \/ Moves(t, q))
    BY <1>7, EndMoves DEF RouteToVoicemail
  <2>2. q.copy = s /\ q.pc \notin DialerPlace \cup Chosen
    BY DEF Onward, Being, DialerPlace, Chosen
  <2> HIDE DEF q
  <2>3. CASE Moves(t, Idle)
    BY <1>a, <1>i, <2>1, <2>3, GoneIsFresh, HandlerKeepsDial DEF Moves
  <2>4. CASE Moves(t, q)
    BY <1>a, <2>1, <2>2, <2>4, HandlerKeepsDial DEF Moves
  <2> QED
    BY <2>1, <2>3, <2>4
<1>8. CASE PromptSave(t) \/ RecordSave(t)
  <2>1. PICK p \in {"speak", "message"} : Saves(t, WithStage(s, "voicemail"), p)
    BY <1>8, HandlerSaves
  <2>2. WithStage(s, "voicemail").leg = s.leg /\ WithStage(s, "voicemail").winner = s.winner
    BY <1>0, StageWrites DEF Stages
  <2>3. \A l \in Leg : Fresh(s, l) => Fresh(WithStage(s, "voicemail"), l)
    BY <2>2 DEF Fresh
  <2> QED
    BY <1>a, <2>1, <2>3, HandlerSavesKeepDial DEF DialerPlace, Chosen
<1> QED
  BY <1>1, <1>2, <1>3, <1>4, <1>5, <1>6, <1>7, <1>8 DEF End, Voicemail

LEMMA NextDial == IInv /\ DialOK /\ [Next]_vars => DialOK'
<1>1. ASSUME DialOK, UNCHANGED vars PROVE DialOK'
  BY <1>1 DEF vars, DialOK
<1>2. ASSUME IInv, DialOK, Next PROVE DialOK'
  <2>1. IInv'
    BY <1>2, NextIInv
  <2>2. CASE World
    BY <1>2, <2>2 DEF World, CallerHangsUp, PickUp, Bridge, LegEnds, DialOK
  <2> QED
    BY <1>2, <2>1, <2>2, DialKeepsDial, AnswerKeepsDial, EndKeepsDial DEF Next
<1> QED
  BY <1>1, <1>2

----------------------------------------------------------------------------
(***************************************************************************)
(* A copy that is not stale is the session, or the session with the change *)
(* its handler is about to save.                                           *)
(***************************************************************************)
Changed == {"registered", "kept", "paired", "loser", "noanswer"}

Derived(r, s) ==
  /\ r.pc \notin Changed => r.copy = s
  /\ r.pc = "registered" =>
       \E st \in {"ringing", "failed", "dropped"} : r.copy = WithLegs(s, {r.leg}, st)
  /\ r.pc = "kept" => r.copy = WithLegs(s, Losers(s, r.leg), "cancelled")
  /\ r.pc = "paired" => s.stage # "bridged" /\ \E w \in Leg : r.copy = BridgedBy(s, w)
  /\ r.pc = "loser" => r.copy = WithLegs(s, {r.leg}, "cancelled")
  /\ r.pc = "noanswer" => r.copy = WithLegs(s, {r.leg}, "no-answer")

CopiesFresh ==
  \A t \in Task : task[t].pc \notin NoCopy /\ ~task[t].stale => Derived(task[t], sess)

LEMMA TurnKeepsFresh ==
  ASSUME IInv, CopiesFresh, NEW t \in Task, NEW r, Turns(t, r),
         \A u \in Task \ {t} : ~task'[u].stale => task[u].copy = Gone \/ sess' = sess,
         r.pc \notin NoCopy /\ ~r.stale => Derived(r, sess')
  PROVE  CopiesFresh'
<1>1. ASSUME NEW u \in Task, task'[u].pc \notin NoCopy, ~task'[u].stale
      PROVE  Derived(task'[u], sess')
  <2>1. CASE u = t
    BY <1>1, <2>1 DEF Turns
  <2>2. CASE u # t
    <3>1. /\ Same(task'[u], task[u]) /\ ~task[u].stale /\ task[u].pc \notin NoCopy
          /\ task[u].copy = Gone \/ sess' = sess
      BY <1>1, <2>2 DEF Turns, Same
    <3>2. task[u].copy # Gone
      BY <1>1, <3>1, GoneIsASession DEF IInv, Whole, Placed
    <3>3. Derived(task[u], sess)
      BY <1>1, <3>1 DEF CopiesFresh
    <3> QED
      BY <3>1, <3>2, <3>3 DEF Same, Derived
  <2> QED
    BY <2>1, <2>2
<1> QED
  BY <1>1 DEF CopiesFresh

LEMMA MovesKeepFresh ==
  ASSUME IInv, CopiesFresh, NEW t \in Task, NEW r, Moves(t, r),
         r.pc \notin NoCopy /\ ~r.stale => Derived(r, sess)
  PROVE  CopiesFresh'
BY TurnKeepsFresh DEF Moves

LEMMA SavesKeepFresh ==
  ASSUME IInv, CopiesFresh, NEW t \in Task, NEW s, NEW p, Saves(t, s, p), p \notin Changed
  PROVE  CopiesFresh'
<1> DEFINE r == After(task[t], p, s)
<1>1. r.pc = p /\ (p \notin NoCopy => r.copy = s)
  BY IdleIsATask DEF After, Being, NoCopy, Idle
<1>2. Turns(t, r) /\ sess' = s
  BY DEF Saves
<1> HIDE DEF r
<1>3. p \notin NoCopy => Derived(r, s)
  BY <1>1 DEF Derived, Changed
<1> QED
  BY <1>1, <1>2, <1>3, TurnKeepsFresh DEF Saves

LEMMA DialKeepsFresh == ASSUME IInv, DialOK, CopiesFresh, Dial PROVE CopiesFresh'
<1> USE DEF At
<1> DEFINE r == task[Dialer]
           s == r.copy
<1>0. Dialer \in Task /\ (r.pc \notin NoCopy /\ ~r.stale => Derived(r, sess))
  BY DEF Task, CopiesFresh
<1>1. CASE StartRinging \/ RegisterSave \/ RecountSave
  <2>1. ASSUME NEW x, NEW p \in {"dialling", "register", "recount", "route", "idle"},
               Saves(Dialer, x, p)
        PROVE  CopiesFresh'
    BY <1>0, <2>1, SavesKeepFresh DEF Changed
  <2>2. CASE StartRinging
    BY <2>1, <2>2, DialerSaves
  <2>3. CASE RegisterSave
    <3> DEFINE p == AfterResult(r.leg)
    <3>1. p \in {"register", "recount"}
      BY DEF AfterResult
    <3>2. Saves(Dialer, s, p)
      BY <2>3, DialerSaves
    <3> HIDE DEF p
    <3> QED
      BY <2>1, <3>1, <3>2
  <2>4. CASE RecountSave
    <3> DEFINE p == IF RingingIn(s) = {} THEN "route" ELSE "idle"
    <3>1. p \in {"route", "idle"}
      OBVIOUS
    <3>2. Saves(Dialer, s, p)
      BY <2>4, DialerSaves
    <3> HIDE DEF p
    <3> QED
      BY <2>1, <3>1, <3>2
  <2> QED
    BY <1>1, <2>2, <2>3, <2>4
<1>2. CASE DialsReturn
  <2> DEFINE q == Onward(r, "register", s)
  <2>1. Moves(Dialer, q) /\ r.pc = "dialling"
    BY <1>2, DialerMoves DEF DialsReturn
  <2>2. q.copy = s /\ q.pc = "register" /\ q.stale = r.stale
    BY DEF Onward, Being
  <2> HIDE DEF q
  <2>3. ~r.stale => Derived(q, sess)
    BY <1>0, <2>1, <2>2 DEF Derived, Changed, NoCopy
  <2> QED
    BY <1>0, <2>1, <2>2, <2>3, MovesKeepFresh
<1>3. CASE RegisterLoad
  <2>1. CASE sess = Gone
    <3> DEFINE q == Being(AfterResult(r.leg + 1), r.kind, r.leg + 1, s, r.stale)
    <3>1. Moves(Dialer, q) /\ r.pc = "register"
      BY <1>3, <2>1, DialerMoves DEF RegisterLoad
    <3>2. q.copy = s /\ q.pc \in {"register", "recount"} /\ q.stale = r.stale
      BY DEF AfterResult, Being
    <3> HIDE DEF q
    <3>3. ~r.stale => Derived(q, sess)
      BY <1>0, <3>1, <3>2 DEF Derived, Changed, NoCopy
    <3> QED
      BY <1>0, <3>1, <3>2, <3>3, MovesKeepFresh
  <2>2. CASE sess # Gone
    <3> DEFINE q == Being("check", r.kind, r.leg + 1, sess, FALSE)
    <3>1. Moves(Dialer, q)
      BY <1>3, <2>2, DialerMoves
    <3>2. Derived(q, sess)
      BY DEF Derived, Changed, Being
    <3> QED
      BY <1>0, <3>1, <3>2, MovesKeepFresh
  <2> QED
    BY <2>1, <2>2
<1>4. CASE RegisterCheck
  <2> DEFINE taken == winner # NoLeg \/ HasWinner(s)
             x == Result(s, r.leg, taken)
             q == Onward(r, "registered", x)
             st == IF DialFailed(r.leg) THEN "failed"
                   ELSE IF taken THEN "dropped" ELSE "ringing"
  <2>1. Moves(Dialer, q) /\ r.pc = "check" /\ x = WithLegs(s, {r.leg}, st)
    BY <1>4, DialerMoves, ResultIsNew DEF RegisterCheck
  <2>2. q.copy = x /\ q.pc = "registered" /\ q.leg = r.leg /\ q.stale = r.stale
    BY DEF Onward, Being
  <2>3. st \in {"ringing", "failed", "dropped"}
    OBVIOUS
  <2> HIDE DEF q, x, st
  <2>4. ~r.stale => s = sess
    BY <1>0, <2>1 DEF Derived, Changed, NoCopy
  <2>5. ~r.stale => Derived(q, sess)
    BY <2>1, <2>2, <2>3, <2>4 DEF Derived, Changed
  <2> QED
    BY <1>0, <2>1, <2>2, <2>5, MovesKeepFresh
<1>5. CASE Recount
  <2>1. Idle.pc \in NoCopy
    BY IdleIsATask DEF NoCopy
  <2>2. Derived(Being("resave", r.kind, r.leg, sess, FALSE), sess)
    BY DEF Derived, Changed, Being
  <2>3. \/ Moves(Dialer, Idle)
        \/ Moves(Dialer, Being("resave", r.kind, r.leg, sess, FALSE))
    BY <1>5, DialerMoves
  <2> QED
    BY <1>0, <2>1, <2>2, <2>3, MovesKeepFresh
<1>6. ASSUME NEW l \in Leg, DialLeg(l) PROVE CopiesFresh'
  BY <1>6 DEF DialLeg, CopiesFresh
<1> QED
  BY <1>1, <1>2, <1>3, <1>4, <1>5, <1>6 DEF Dial

\* A handler goes on with the copy it has, changed or not.
LEMMA OnwardKeepsFresh ==
  ASSUME IInv, CopiesFresh, NEW t \in Task, NEW p, NEW x, Moves(t, Onward(task[t], p, x)),
         task[t].pc \notin Changed, task[t].pc \notin NoCopy,
         task[t].copy = sess => Derived(Onward(task[t], p, x), sess)
  PROVE  CopiesFresh'
<1>1. Onward(task[t], p, x).stale = task[t].stale
  BY DEF Onward, Being
<1>2. ~task[t].stale => task[t].copy = sess
  BY DEF CopiesFresh, Derived
<1> QED
  BY <1>1, <1>2, MovesKeepFresh

LEMMA HandlersKeepFresh ==
  ASSUME IInv, CopiesFresh, NEW t \in Task, Take(t) \/ Answer(t) \/ End(t) \/ Voicemail(t)
  PROVE  CopiesFresh'
<1> USE DEF At
<1> DEFINE r == task[t]
           s == r.copy
<1>i. /\ Idle.pc \in NoCopy
      /\ \A p \in {"clear", "delete"} : \A k : Being(p, k, Caller, Gone, FALSE).pc \in NoCopy
  BY IdleIsATask DEF NoCopy, Being
<1>o. \A p, x : /\ Onward(r, p, x).pc = p /\ Onward(r, p, x).copy = x /\ Onward(r, p, x).leg = r.leg
                /\ Onward(r, p, x).stale = r.stale
  BY DEF Onward, Being
<1>1. CASE \/ AcceptSave(t) \/ MarkConnecting(t) \/ MarkAnswered(t) \/ MarkPaired(t)
           \/ MarkBridged(t) \/ SaveWon(t) \/ LoserSave(t) \/ NoAnswerSave(t)
           \/ PromptSave(t) \/ RecordSave(t)
  <2>1. ASSUME NEW x, NEW p \in {"idle", "reread", "cancel", "route", "speak", "message"},
               Saves(t, x, p)
        PROVE  CopiesFresh'
    BY <2>1, SavesKeepFresh DEF Changed
  <2>2. CASE NoAnswerSave(t)
    <3> DEFINE p == IF Unanswered(s) THEN "route" ELSE "idle"
    <3>1. p \in {"route", "idle"}
      OBVIOUS
    <3>2. Saves(t, s, p)
      BY <2>2, HandlerSaves
    <3> HIDE DEF p
    <3> QED
      BY <2>1, <3>1, <3>2
  <2> QED
    BY <1>1, <2>1, <2>2, HandlerSaves
<1>2. CASE \/ IgnoreHangup(t) \/ AbandonRing(t) \/ ClosingHangup(t) \/ ClearClaims(t)
           \/ SpeakPrompt(t) \/ RecordMessage(t)
  <2>1. \/ Moves(t, Idle)
        \/ \E p \in {"clear", "delete"} : Moves(t, Being(p, r.kind, Caller, Gone, FALSE))
    BY <1>2, EndMoves
  <2> QED
    BY <1>i, <2>1, MovesKeepFresh
<1>3. ASSUME NEW kind \in Kinds, NEW l \in Leg \cup {Caller}, Begin(t, kind, l)
      PROVE  CopiesFresh'
  <2> DEFINE q == Being(StartOf(kind, sess), kind, l, sess, FALSE)
  <2>1. Moves(t, Idle) \/ Moves(t, q)
    BY <1>3, BeginMoves
  <2>2. q.copy = sess /\ q.pc \notin Changed
    BY DEF Being, StartOf, Changed, Kinds
  <2> HIDE DEF q
  <2>3. Derived(q, sess)
    BY <2>2 DEF Derived, Changed
  <2> QED
    BY <1>i, <2>1, <2>3, MovesKeepFresh
<1>4. CASE AnswerReload(t)
  <2> DEFINE q == Being(IF r.kind = "answered" THEN "picked" ELSE "claim",
                        r.kind, r.leg, Loaded(r), Refreshed(r))
  <2>1. (Moves(t, Idle) \/ Moves(t, q)) /\ r.pc = "reread"
    BY <1>4, AnswerMoves DEF AnswerReload
  <2>2. q.copy = Loaded(r) /\ q.pc \notin Changed /\ q.stale = Refreshed(r)
    BY DEF Being, Changed
  <2>3. ~Refreshed(r) => Loaded(r) = sess
    BY <2>1 DEF Refreshed, Loaded, CopiesFresh, Derived, Changed, NoCopy
  <2> HIDE DEF q
  <2>4. ~q.stale => Derived(q, sess)
    BY <2>2, <2>3 DEF Derived, Changed
  <2> QED
    BY <1>i, <2>1, <2>4, MovesKeepFresh
<1>5. CASE Claim(t)
  <2>1. r.pc = "claim"
    BY <1>5 DEF Claim
  <2>2. CASE winner = NoLeg
    <3>1. Moves(t, Onward(r, "mark", s))
      BY <1>5, <2>2, AnswerMoves
    <3>2. s = sess => Derived(Onward(r, "mark", s), sess)
      BY <1>o DEF Derived, Changed
    <3> QED
      BY <2>1, <3>1, <3>2, OnwardKeepsFresh DEF Changed, NoCopy
  <2>3. CASE winner # NoLeg /\ s.stage = "bridged"
    BY <1>5, <1>i, <2>3, AnswerMoves, MovesKeepFresh
  <2>4. CASE winner # NoLeg /\ s.stage # "bridged"
    <3> DEFINE x == BridgedBy(s, winner)
    <3>1. Moves(t, Onward(r, "paired", x)) /\ winner \in Leg
      BY <1>5, <2>4, AnswerMoves
    <3>2. s = sess => x = BridgedBy(sess, winner)
      OBVIOUS
    <3> HIDE DEF x
    <3>3. s = sess => Derived(Onward(r, "paired", x), sess)
      BY <1>o, <2>4, <3>1, <3>2 DEF Derived, Changed
    <3> QED
      BY <2>1, <3>1, <3>3, OnwardKeepsFresh DEF Changed, NoCopy
  <2> QED
    BY <2>2, <2>3, <2>4
<1>6. CASE CancelRemaining(t)
  <2> DEFINE x == WithLegs(s, Losers(s, r.leg), "cancelled")
  <2>1. Moves(t, Onward(r, "kept", x)) /\ r.pc = "cancel"
    BY <1>6, AnswerMoves DEF CancelRemaining
  <2>2. s = sess => x = WithLegs(sess, Losers(sess, r.leg), "cancelled")
    OBVIOUS
  <2> HIDE DEF x
  <2>3. s = sess => Derived(Onward(r, "kept", x), sess)
    BY <1>o, <2>2 DEF Derived, Changed
  <2> QED
    BY <2>1, <2>3, OnwardKeepsFresh DEF Changed, NoCopy
<1>7. CASE RingingLegHangup(t)
  <2>1. Moves(t, Onward(r, "ended", s)) /\ r.pc = "hangup"
    BY <1>7, EndMoves DEF RingingLegHangup
  <2>2. s = sess => Derived(Onward(r, "ended", s), sess)
    BY <1>o DEF Derived, Changed
  <2> QED
    BY <2>1, <2>2, OnwardKeepsFresh DEF Changed, NoCopy
<1>8. CASE LoserHangup(t)
  <2> DEFINE x == WithLegs(s, {r.leg}, "cancelled")
  <2>1. Moves(t, Onward(r, "loser", x)) /\ r.pc = "hangup"
    BY <1>8, EndMoves DEF LoserHangup
  <2>2. s = sess => x = WithLegs(sess, {r.leg}, "cancelled")
    OBVIOUS
  <2> HIDE DEF x
  <2> DEFINE q == Onward(r, "loser", x)
  <2>4. q.pc = "loser" /\ q.copy = x /\ q.leg = r.leg
    BY <1>o
  <2> HIDE DEF q
  <2>5. s = sess => Derived(q, sess)
    BY <2>2, <2>4 DEF Derived, Changed
  <2>3. s = sess => Derived(Onward(r, "loser", x), sess)
    BY <2>5 DEF q
  <2> QED
    BY <2>1, <2>3, OnwardKeepsFresh DEF Changed, NoCopy
<1>9. CASE LegEnded(t)
  <2> DEFINE x == WithLegs(s, {r.leg}, "no-answer")
  <2>1. (Moves(t, Idle) \/ Moves(t, Onward(r, "noanswer", x))) /\ r.pc = "ended"
    BY <1>9, EndMoves DEF LegEnded
  <2>2. s = sess => x = WithLegs(sess, {r.leg}, "no-answer")
    OBVIOUS
  <2> HIDE DEF x
  <2>3. s = sess => Derived(Onward(r, "noanswer", x), sess)
    BY <1>o, <2>2 DEF Derived, Changed
  <2> QED
    BY <1>i, <2>1, <2>3, MovesKeepFresh, OnwardKeepsFresh DEF Changed, NoCopy
<1>10. CASE DeleteSession(t)
  <2>1. /\ Turns(t, Idle) /\ sess' = Gone
        /\ \A u \in Task \ {t} : ~task'[u].stale => task[u].copy = Gone \/ sess = Gone
    BY <1>10, DeleteTurns
  <2> QED
    BY <1>i, <2>1, TurnKeepsFresh
<1>11. CASE RouteToVoicemail(t)
  <2>1. (Moves(t, Idle) \/ Moves(t, Onward(r, "prompt", s))) /\ r.pc = "route"
    BY <1>11, EndMoves DEF RouteToVoicemail
  <2>2. s = sess => Derived(Onward(r, "prompt", s), sess)
    BY <1>o DEF Derived, Changed
  <2> QED
    BY <1>i, <2>1, <2>2, MovesKeepFresh, OnwardKeepsFresh DEF Changed, NoCopy
<1> QED
  BY <1>1, <1>2, <1>3, <1>4, <1>5, <1>6, <1>7, <1>8, <1>9, <1>10, <1>11
     DEF Take, Answer, End, Voicemail

LEMMA InitFresh == Init => CopiesFresh
<1> SUFFICES ASSUME Init PROVE CopiesFresh
  OBVIOUS
<1>1. /\ task[Dialer] = [Idle EXCEPT !.pc = "ring", !.copy = sess]
      /\ \A t \in Task \ {Dialer} : task[t] = Idle
  BY DEF Init, Task
<1>2. /\ task[Dialer].pc = "ring" /\ task[Dialer].copy = sess
      /\ \A t \in Task \ {Dialer} : task[t].pc \in NoCopy
  BY <1>1 DEF Idle, NoCopy
<1> QED
  BY <1>2 DEF CopiesFresh, Derived, Changed

LEMMA NextFresh == IInv /\ DialOK /\ CopiesFresh /\ [Next]_vars => CopiesFresh'
<1>1. ASSUME CopiesFresh, UNCHANGED vars PROVE CopiesFresh'
  BY <1>1 DEF vars, CopiesFresh
<1>2. ASSUME IInv, DialOK, CopiesFresh, Next PROVE CopiesFresh'
  <2>1. CASE World
    BY <1>2, <2>1 DEF World, CallerHangsUp, PickUp, Bridge, LegEnds, CopiesFresh
  <2> QED
    BY <1>2, <2>1, DialKeepsFresh, HandlersKeepFresh DEF Next
<1> QED
  BY <1>1, <1>2

----------------------------------------------------------------------------
(* What holds whatever happens.                                             *)

Basis == IInv /\ LinesOK /\ DialOK /\ CopiesFresh

LEMMA BasisHolds == Spec => []Basis
<1>1. Init => Basis
  BY InitIInv, InitLines, InitDial, InitFresh DEF Basis
<1>2. Basis /\ [Next]_vars => Basis'
  BY NextIInv, NextLines, NextDial, NextFresh DEF Basis
<1> QED
  BY <1>1, <1>2, PTL DEF Spec

----------------------------------------------------------------------------
(***************************************************************************)
(* Up to the first mishap every save is made over the session it was       *)
(* loaded from, so what it writes can be told from the session.            *)
(***************************************************************************)
Wrote(stage, w, ls, status) ==
  /\ sess' \in Session /\ sess'.stage = stage /\ sess'.winner = w
  /\ \A l \in Leg : sess'.leg[l] = IF l \in ls THEN status ELSE sess.leg[l]

\* t saved what is now the session and is at p.
Saved(t, p) ==
  /\ Turns(t, task'[t]) /\ task'[t].pc = p
  /\ p \notin NoCopy => /\ task'[t].copy = sess' /\ task'[t].leg = task[t].leg
                        /\ task'[t].kind = task[t].kind
  /\ p \in NoCopy => task'[t].copy = Gone
  /\ sess # Gone /\ sess.stage # "gone" /\ sess'.stage # "gone"
  /\ UNCHANGED <<winner, events, line, caller, served, astray>>

LEMMA BeingIs ==
  \A p, k, l, s, st : LET r == Being(p, k, l, s, st)
                      IN  r.pc = p /\ r.kind = k /\ r.leg = l /\ r.copy = s /\ r.stale = st
BY DEF Being

LEMMA FreshSave ==
  ASSUME IInv, IInv', CopiesFresh, mishap' = {}, NEW t \in Task, task[t].pc \notin NoCopy,
         NEW s, NEW p, Saves(t, s, p), s.stage # "gone",
         p \in NoCopy => p \in {"idle", "speak", "message"}
  PROVE  /\ Saved(t, p) /\ sess' = s /\ Derived(task[t], sess)
<1> DEFINE r == After(task[t], p, s)
<1>1. Turns(t, r) /\ sess' = s /\ sess # Gone /\ ~task[t].stale
      /\ UNCHANGED <<winner, events, line, caller, served, astray>>
  BY DEF Saves
<1>2. Derived(task[t], sess)
  BY <1>1 DEF CopiesFresh
<1>3. r.pc = p
      /\ (p \notin NoCopy => r.copy = s /\ r.leg = task[t].leg /\ r.kind = task[t].kind)
      /\ (p \in NoCopy => r.copy = Gone)
  <2>1. CASE p = "idle"
    BY <2>1, IdleIsATask DEF After, NoCopy
  <2>2. CASE p \in {"speak", "message"}
    <3>1. r = Being(p, task[t].kind, Caller, Gone, FALSE)
      BY <2>2 DEF After
    <3> HIDE DEF r
    <3> QED
      BY <2>2, <3>1 DEF Being, NoCopy
  <2>3. CASE p \notin {"idle", "speak", "message"}
    <3>1. r = Being(p, task[t].kind, task[t].leg, s, FALSE)
      BY <2>3 DEF After
    <3> HIDE DEF r
    <3> QED
      BY <2>3, <3>1 DEF Being, NoCopy
  <2> QED
    BY <2>1, <2>2, <2>3
<1> HIDE DEF r
<1>4. r = task'[t] /\ sess.stage # "gone"
  BY <1>1 DEF Turns, IInv, Whole
<1> QED
  BY <1>1, <1>2, <1>3, <1>4 DEF Saved

\* What the dialer's saves write.
LEMMA DialerWrites ==
  ASSUME IInv, IInv', DialOK, CopiesFresh, mishap' = {}
  PROVE  LET r == task[Dialer] IN
         /\ StartRinging => /\ Saved(Dialer, "dialling") /\ r.copy = sess
                            /\ Wrote("ringing", sess.winner, {}, "ringing")
         /\ RegisterSave =>
              /\ Saved(Dialer, AfterResult(r.leg)) /\ r.copy = sess'
              /\ \E st \in {"ringing", "failed", "dropped"} :
                   Wrote(sess.stage, sess.winner, {r.leg}, st)
         /\ RecountSave =>
              /\ Saved(Dialer, IF RingingIn(r.copy) = {} THEN "route" ELSE "idle")
              /\ r.copy = sess /\ sess' = sess
<1> DEFINE r == task[Dialer]
           s == r.copy
<1>0. /\ Dialer \in Task /\ s \in Session /\ sess \in Session
      /\ "ringing" \in Stages /\ (r.pc \notin NoCopy => s.stage # "gone")
      /\ {"ringing", "failed", "dropped"} \subseteq Statuses
  BY Copies DEF Task, IInv, Whole, Placed
<1>1. ASSUME StartRinging
      PROVE  /\ Saved(Dialer, "dialling") /\ s = sess
             /\ Wrote("ringing", sess.winner, {}, "ringing")
  <2> DEFINE x == WithStage(s, "ringing")
  <2>1. Saves(Dialer, x, "dialling") /\ r.pc = "ring" /\ r.pc \notin NoCopy
    BY <1>1, DialerSaves DEF StartRinging, At, NoCopy
  <2>2. x \in Session /\ x.stage = "ringing" /\ x.winner = s.winner /\ x.leg = s.leg
    BY <1>0, StageWrites
  <2> HIDE DEF x
  <2>3. Saved(Dialer, "dialling") /\ sess' = x /\ Derived(r, sess)
    BY <1>0, <2>1, <2>2, FreshSave DEF NoCopy
  <2>4. s = sess
    BY <2>1, <2>3 DEF Derived, Changed
  <2> QED
    BY <2>2, <2>3, <2>4 DEF Wrote
<1>2. ASSUME RegisterSave
      PROVE  /\ Saved(Dialer, AfterResult(r.leg)) /\ s = sess'
             /\ \E st \in {"ringing", "failed", "dropped"} :
                  Wrote(sess.stage, sess.winner, {r.leg}, st)
  <2> DEFINE p == AfterResult(r.leg)
  <2>1. Saves(Dialer, s, p) /\ r.pc = "registered" /\ r.pc \notin NoCopy
    BY <1>2, DialerSaves DEF RegisterSave, At, NoCopy
  <2>2. p \notin NoCopy
    BY DEF AfterResult, NoCopy
  <2> HIDE DEF p
  <2>3. Saved(Dialer, p) /\ sess' = s /\ Derived(r, sess)
    BY <1>0, <2>1, <2>2, FreshSave
  <2>4. PICK st \in {"ringing", "failed", "dropped"} : s = WithLegs(sess, {r.leg}, st)
    BY <2>1, <2>3 DEF Derived
  <2>5. Wrote(sess.stage, sess.winner, {r.leg}, st)
    BY <1>0, <2>3, <2>4, LegWrites DEF Wrote
  <2> QED
    BY <2>3, <2>5 DEF p
<1>3. ASSUME RecountSave
      PROVE  /\ Saved(Dialer, IF RingingIn(s) = {} THEN "route" ELSE "idle")
             /\ s = sess /\ sess' = sess
  <2> DEFINE p == IF RingingIn(s) = {} THEN "route" ELSE "idle"
  <2>1. Saves(Dialer, s, p) /\ r.pc = "resave" /\ r.pc \notin NoCopy
    BY <1>3, DialerSaves DEF RecountSave, At, NoCopy
  <2>2. p \in {"route", "idle"}
    OBVIOUS
  <2> HIDE DEF p
  <2>3. Saved(Dialer, p) /\ sess' = s /\ Derived(r, sess)
    BY <1>0, <2>1, <2>2, FreshSave DEF NoCopy
  <2>4. s = sess
    BY <2>1, <2>3 DEF Derived, Changed
  <2> QED
    BY <2>3, <2>4 DEF p
<1> QED
  BY <1>1, <1>2, <1>3

\* What the handlers' saves write.
LEMMA HandlerWrites ==
  ASSUME IInv, IInv', CopiesFresh, mishap' = {}, NEW t \in Task
  PROVE  LET r == task[t] IN
         /\ AcceptSave(t) => /\ Saved(t, "idle") /\ r.copy = sess
                             /\ Wrote("connecting", sess.winner, {}, "ringing")
         /\ MarkConnecting(t) => /\ Saved(t, "reread") /\ r.copy = sess
                                 /\ Wrote("connecting", sess.winner, {}, "ringing")
         /\ MarkAnswered(t) => /\ Saved(t, "idle") /\ r.copy = sess
                               /\ Wrote(sess.stage, sess.winner, {r.leg}, "answered")
         /\ MarkPaired(t) =>
              /\ Saved(t, "idle") /\ r.copy = sess' /\ sess.stage # "bridged"
              /\ \E w \in Leg : Wrote("bridged", w, {}, "ringing")
         /\ MarkBridged(t) => /\ Saved(t, "cancel") /\ r.copy = sess /\ r.leg \in Leg
                              /\ Wrote("bridged", r.leg, {r.leg}, "answered")
         /\ SaveWon(t) =>
              /\ Saved(t, "idle") /\ r.copy = sess'
              /\ Wrote(sess.stage, sess.winner, Losers(sess, r.leg), "cancelled")
         /\ LoserSave(t) => /\ Saved(t, "idle") /\ r.copy = sess'
                            /\ Wrote(sess.stage, sess.winner, {r.leg}, "cancelled")
         /\ NoAnswerSave(t) =>
              /\ Saved(t, IF Unanswered(r.copy) THEN "route" ELSE "idle") /\ r.copy = sess'
              /\ Wrote(sess.stage, sess.winner, {r.leg}, "no-answer")
         /\ PromptSave(t) => /\ Saved(t, "speak") /\ r.copy = sess
                             /\ Wrote("voicemail", sess.winner, {}, "ringing")
         /\ RecordSave(t) => /\ Saved(t, "message") /\ r.copy = sess
                             /\ Wrote("voicemail", sess.winner, {}, "ringing")
<1> USE DEF At
<1> DEFINE r == task[t]
           s == r.copy
<1>0. /\ s \in Session /\ sess \in Session
      /\ "connecting" \in Stages /\ "voicemail" \in Stages
      /\ "answered" \in Statuses /\ "cancelled" \in Statuses /\ "no-answer" \in Statuses
      /\ Placed(t, r) /\ (r.pc \notin NoCopy => s.stage # "gone")
  BY Copies DEF IInv, Whole, Placed
<1>s. ASSUME NEW stage \in {"connecting", "voicemail"}, NEW p \in {"idle", "reread", "speak", "message"},
             Saves(t, WithStage(s, stage), p), r.pc \notin NoCopy, r.pc \notin Changed
      PROVE  Saved(t, p) /\ s = sess /\ Wrote(stage, sess.winner, {}, "ringing")
  <2> DEFINE x == WithStage(s, stage)
  <2>1. x \in Session /\ x.stage = stage /\ x.winner = s.winner /\ x.leg = s.leg
    BY <1>0, StageWrites
  <2>2. Saves(t, x, p) /\ x.stage # "gone"
    BY <1>s, <2>1
  <2> HIDE DEF x
  <2>3. Saved(t, p) /\ sess' = x /\ Derived(r, sess)
    BY <1>s, <2>2, FreshSave DEF NoCopy
  <2>4. s = sess
    BY <1>s, <2>3 DEF Derived
  <2> QED
    BY <2>1, <2>3, <2>4 DEF Wrote
<1>c. ASSUME NEW p \in {"idle", "route"}, Saves(t, s, p), r.pc \in Changed
      PROVE  Saved(t, p) /\ s = sess' /\ Derived(r, sess)
  BY <1>0, <1>c, FreshSave DEF NoCopy, Changed
<1>1. AcceptSave(t) => /\ Saved(t, "idle") /\ s = sess
                       /\ Wrote("connecting", sess.winner, {}, "ringing")
  BY <1>s, HandlerSaves DEF AcceptSave, NoCopy, Changed
<1>2. MarkConnecting(t) => /\ Saved(t, "reread") /\ s = sess
                           /\ Wrote("connecting", sess.winner, {}, "ringing")
  BY <1>s, HandlerSaves DEF MarkConnecting, NoCopy, Changed
<1>3. PromptSave(t) => /\ Saved(t, "speak") /\ s = sess
                       /\ Wrote("voicemail", sess.winner, {}, "ringing")
  BY <1>s, HandlerSaves DEF PromptSave, NoCopy, Changed
<1>4. RecordSave(t) => /\ Saved(t, "message") /\ s = sess
                       /\ Wrote("voicemail", sess.winner, {}, "ringing")
  BY <1>s, HandlerSaves DEF RecordSave, NoCopy, Changed
<1>5. ASSUME MarkAnswered(t)
      PROVE  Saved(t, "idle") /\ s = sess /\ Wrote(sess.stage, sess.winner, {r.leg}, "answered")
  <2> DEFINE x == WithLegs(s, {r.leg}, "answered")
  <2>1. Saves(t, x, "idle") /\ r.pc = "picked" /\ r.pc \notin NoCopy /\ s.stage # "gone"
    BY <1>0, <1>5, HandlerSaves DEF MarkAnswered, NoCopy
  <2>2. /\ x \in Session /\ x.stage = s.stage /\ x.winner = s.winner
        /\ \A l \in Leg : x.leg[l] = IF l \in {r.leg} THEN "answered" ELSE s.leg[l]
    BY <1>0, LegWrites
  <2> HIDE DEF x
  <2>3. Saved(t, "idle") /\ sess' = x /\ Derived(r, sess)
    BY <2>1, <2>2, FreshSave
  <2>4. s = sess
    BY <2>1, <2>3 DEF Derived, Changed
  <2> QED
    BY <2>2, <2>3, <2>4 DEF Wrote
<1>6. ASSUME MarkPaired(t)
      PROVE  /\ Saved(t, "idle") /\ s = sess' /\ sess.stage # "bridged"
             /\ \E w \in Leg : Wrote("bridged", w, {}, "ringing")
  <2>1. Saved(t, "idle") /\ s = sess' /\ Derived(r, sess) /\ r.pc = "paired"
    BY <1>6, <1>c, HandlerSaves DEF MarkPaired, Changed
  <2>2. PICK w \in Leg : s = BridgedBy(sess, w)
    BY <2>1 DEF Derived
  <2>3. Wrote("bridged", w, {}, "ringing")
    BY <1>0, <2>1, <2>2, BridgeWrites DEF Wrote
  <2> QED
    BY <2>1, <2>3 DEF Derived
<1>7. ASSUME MarkBridged(t)
      PROVE  /\ Saved(t, "cancel") /\ s = sess /\ r.leg \in Leg
             /\ Wrote("bridged", r.leg, {r.leg}, "answered")
  <2> DEFINE y == WithLegs(s, {r.leg}, "answered")
             x == BridgedBy(y, r.leg)
  <2>0. r.pc = "mark" /\ r.pc \notin NoCopy /\ r.leg \in Leg
    BY <1>0, <1>7 DEF MarkBridged, Placed, AnswerPlace, NoCopy
  <2>1. Saves(t, x, "cancel")
    BY <1>7, HandlerSaves
  <2>2. /\ y \in Session
        /\ \A l \in Leg : y.leg[l] = IF l \in {r.leg} THEN "answered" ELSE s.leg[l]
    BY <1>0, LegWrites
  <2>3. x \in Session /\ x.stage = "bridged" /\ x.winner = r.leg /\ x.leg = y.leg
    BY <2>0, <2>2, BridgeWrites
  <2> HIDE DEF x, y
  <2>4. Saved(t, "cancel") /\ sess' = x /\ Derived(r, sess)
    BY <2>0, <2>1, <2>3, FreshSave DEF NoCopy
  <2>5. s = sess
    BY <2>0, <2>4 DEF Derived, Changed
  <2> QED
    BY <2>0, <2>2, <2>3, <2>4, <2>5 DEF Wrote
<1>8. ASSUME SaveWon(t)
      PROVE  /\ Saved(t, "idle") /\ s = sess'
             /\ Wrote(sess.stage, sess.winner, Losers(sess, r.leg), "cancelled")
  <2>1. Saved(t, "idle") /\ s = sess' /\ Derived(r, sess) /\ r.pc = "kept"
    BY <1>8, <1>c, HandlerSaves DEF SaveWon, Changed
  <2> DEFINE ls == Losers(sess, r.leg)
  <2>2. s = WithLegs(sess, ls, "cancelled")
    BY <2>1 DEF Derived
  <2> HIDE DEF ls
  <2>3. Wrote(sess.stage, sess.winner, ls, "cancelled")
    BY <1>0, <2>1, <2>2, LegWrites DEF Wrote
  <2> QED
    BY <2>1, <2>3 DEF ls
<1>9. ASSUME LoserSave(t)
      PROVE  /\ Saved(t, "idle") /\ s = sess'
             /\ Wrote(sess.stage, sess.winner, {r.leg}, "cancelled")
  <2>1. Saved(t, "idle") /\ s = sess' /\ Derived(r, sess) /\ r.pc = "loser"
    BY <1>9, <1>c, HandlerSaves DEF LoserSave, Changed
  <2>2. s = WithLegs(sess, {r.leg}, "cancelled")
    BY <2>1 DEF Derived
  <2> QED
    BY <1>0, <2>1, <2>2, LegWrites DEF Wrote
<1>10. ASSUME NoAnswerSave(t)
       PROVE  /\ Saved(t, IF Unanswered(s) THEN "route" ELSE "idle") /\ s = sess'
              /\ Wrote(sess.stage, sess.winner, {r.leg}, "no-answer")
  <2> DEFINE p == IF Unanswered(s) THEN "route" ELSE "idle"
  <2>0. Saves(t, s, p) /\ p \in {"idle", "route"} /\ r.pc = "noanswer"
    BY <1>10, HandlerSaves DEF NoAnswerSave
  <2> HIDE DEF p
  <2>1. Saved(t, p) /\ s = sess' /\ Derived(r, sess)
    BY <1>c, <2>0 DEF Changed
  <2>2. s = WithLegs(sess, {r.leg}, "no-answer")
    BY <2>0, <2>1 DEF Derived
  <2>3. Wrote(sess.stage, sess.winner, {r.leg}, "no-answer")
    BY <1>0, <2>1, <2>2, LegWrites DEF Wrote
  <2> QED
    BY <2>1, <2>3 DEF p
<1> QED
  BY <1>1, <1>2, <1>3, <1>4, <1>5, <1>6, <1>7, <1>8, <1>9, <1>10

\* t is at p now with copy s, and the session is what it was.
Went(t, p, s, l) ==
  /\ Moves(t, task'[t])
  /\ task'[t].pc = p /\ task'[t].copy = s /\ task'[t].leg = l
  /\ p # "idle" => task'[t].kind = task[t].kind

\* x is s but for the status of legs ls.
Relegged(x, s, ls, status) ==
  /\ x \in Session /\ x.stage = s.stage /\ x.winner = s.winner
  /\ \A l \in Leg : x.leg[l] = IF l \in ls THEN status ELSE s.leg[l]

LEMMA MovesWent ==
  ASSUME NEW t \in Task
  PROVE  /\ \A p, l, s, st : Moves(t, Being(p, task[t].kind, l, s, st)) => Went(t, p, s, l)
         /\ Moves(t, Idle) => Went(t, "idle", Gone, Caller)
<1>1. ASSUME NEW p, NEW l, NEW s, NEW st, Moves(t, Being(p, task[t].kind, l, s, st))
      PROVE  Went(t, p, s, l)
  <2>1. task'[t] = Being(p, task[t].kind, l, s, st)
    BY <1>1 DEF Moves, Turns
  <2> QED
    BY <1>1, <2>1 DEF Went, Being
<1>2. ASSUME Moves(t, Idle) PROVE Went(t, "idle", Gone, Caller)
  <2>1. task'[t] = Idle
    BY <1>2 DEF Moves, Turns
  <2> QED
    BY <1>2, <2>1 DEF Went, Idle
<1> QED
  BY <1>1, <1>2

LEMMA DialerGoes ==
  ASSUME IInv, DialOK
  PROVE  LET r == task[Dialer] IN
         /\ DialsReturn => Went(Dialer, "register", r.copy, r.leg)
         /\ RegisterLoad =>
              /\ r.leg + 1 \in Leg
              /\ sess = Gone => Went(Dialer, AfterResult(r.leg + 1), r.copy, r.leg + 1)
              /\ sess # Gone => Went(Dialer, "check", sess, r.leg + 1)
         /\ RegisterCheck =>
              /\ Went(Dialer, "registered", task'[Dialer].copy, r.leg)
              /\ Relegged(task'[Dialer].copy, r.copy, {r.leg},
                          IF DialFailed(r.leg) THEN "failed"
                          ELSE IF winner # NoLeg \/ HasWinner(r.copy) THEN "dropped" ELSE "ringing")
         /\ Recount => IF sess = Gone THEN Went(Dialer, "idle", Gone, Caller)
                       ELSE Went(Dialer, "resave", sess, r.leg)
<1> DEFINE r == task[Dialer]
<1>0. Dialer \in Task /\ r.copy \in Session /\ sess \in Session
  BY Copies DEF Task, IInv
<1>1. DialsReturn => Went(Dialer, "register", r.copy, r.leg)
  BY <1>0, DialerMoves, MovesWent DEF Onward
<1>2. RegisterLoad =>
        /\ r.leg + 1 \in Leg
        /\ sess = Gone => Went(Dialer, AfterResult(r.leg + 1), r.copy, r.leg + 1)
        /\ sess # Gone => Went(Dialer, "check", sess, r.leg + 1)
  BY <1>0, DialerMoves, MovesWent
<1>3. ASSUME RegisterCheck
      PROVE  /\ Went(Dialer, "registered", task'[Dialer].copy, r.leg)
             /\ Relegged(task'[Dialer].copy, r.copy, {r.leg},
                         IF DialFailed(r.leg) THEN "failed"
                         ELSE IF winner # NoLeg \/ HasWinner(r.copy) THEN "dropped" ELSE "ringing")
  <2> DEFINE st == IF DialFailed(r.leg) THEN "failed"
                   ELSE IF winner # NoLeg \/ HasWinner(r.copy) THEN "dropped" ELSE "ringing"
             x == Result(r.copy, r.leg, winner # NoLeg \/ HasWinner(r.copy))
  <2>1. Moves(Dialer, Onward(r, "registered", x)) /\ x = WithLegs(r.copy, {r.leg}, st)
    BY <1>3, DialerMoves, ResultIsNew DEF RegisterCheck, At
  <2>2. st \in Statuses
    BY <1>0, Copies DEF IInv
  <2> HIDE DEF st, x
  <2>3. Went(Dialer, "registered", x, r.leg)
    BY <1>0, <2>1, MovesWent DEF Onward
  <2>4. task'[Dialer].copy = x
    BY <2>3 DEF Went
  <2>5. Relegged(x, r.copy, {r.leg}, st)
    BY <1>0, <2>1, <2>2, LegWrites DEF Relegged
  <2> QED
    BY <2>3, <2>4, <2>5 DEF st
<1>4. Recount => IF sess = Gone THEN Went(Dialer, "idle", Gone, Caller)
                 ELSE Went(Dialer, "resave", sess, r.leg)
  BY <1>0, DialerMoves, MovesWent
<1> QED
  BY <1>1, <1>2, <1>3, <1>4

LEMMA HandlerGoes ==
  ASSUME IInv, NEW t \in Task
  PROVE  LET r == task[t]
             c == Loaded(r)
             x == task'[t].copy
         IN
         /\ AnswerReload(t) =>
              \/ Went(t, "idle", Gone, Caller)
              \/ /\ Registered(c, r.leg) /\ c.leg[r.leg] # "cancelled"
                 /\ ~(c.stage = "bridged" /\ c.winner = r.leg)
                 /\ Went(t, IF r.kind = "answered" THEN "picked" ELSE "claim", c, r.leg)
         /\ Claim(t) =>
              IF winner = NoLeg THEN Went(t, "mark", r.copy, r.leg)
              ELSE IF r.copy.stage = "bridged" THEN Went(t, "idle", Gone, Caller)
              ELSE winner \in Leg /\ Went(t, "paired", BridgedBy(r.copy, winner), r.leg)
         /\ CancelRemaining(t) => /\ Went(t, "kept", x, r.leg)
                                  /\ Relegged(x, r.copy, Losers(r.copy, r.leg), "cancelled")
         /\ IgnoreHangup(t) => Went(t, "idle", Gone, Caller)
         /\ AbandonRing(t) \/ ClosingHangup(t) => Went(t, "clear", Gone, Caller)
         /\ RingingLegHangup(t) => Went(t, "ended", r.copy, r.leg)
         /\ LoserHangup(t) => /\ Went(t, "loser", x, r.leg)
                              /\ Relegged(x, r.copy, {r.leg}, "cancelled")
         /\ LegEnded(t) =>
              IF winner # NoLeg \/ r.copy.leg[r.leg] \in {"cancelled", "answered"}
              THEN Went(t, "idle", Gone, Caller)
              ELSE Went(t, "noanswer", x, r.leg) /\ Relegged(x, r.copy, {r.leg}, "no-answer")
         /\ ClearClaims(t) => Went(t, "delete", Gone, Caller)
         /\ RouteToVoicemail(t) =>
              IF Blocked(r.copy) \/ Active(r.copy) THEN Went(t, "idle", Gone, Caller)
              ELSE Went(t, "prompt", r.copy, r.leg)
         /\ SpeakPrompt(t) \/ RecordMessage(t) => Went(t, "idle", Gone, Caller)
<1> DEFINE r == task[t]
           c == Loaded(r)
<1>0. /\ r.copy \in Session /\ "cancelled" \in Statuses /\ "no-answer" \in Statuses
  BY Copies DEF IInv
<1>1. ASSUME AnswerReload(t)
      PROVE  \/ Went(t, "idle", Gone, Caller)
             \/ /\ Registered(c, r.leg) /\ c.leg[r.leg] # "cancelled"
                /\ ~(c.stage = "bridged" /\ c.winner = r.leg)
                /\ Went(t, IF r.kind = "answered" THEN "picked" ELSE "claim", c, r.leg)
  <2> DEFINE p == IF r.kind = "answered" THEN "picked" ELSE "claim"
  <2>1. \/ Moves(t, Idle)
        \/ /\ Registered(c, r.leg) /\ c.leg[r.leg] # "cancelled"
           /\ ~(c.stage = "bridged" /\ c.winner = r.leg)
           /\ Moves(t, Being(p, r.kind, r.leg, c, Refreshed(r)))
    BY <1>1, AnswerMoves
  <2> HIDE DEF p, c
  <2>2. \/ Went(t, "idle", Gone, Caller)
        \/ /\ Registered(c, r.leg) /\ c.leg[r.leg] # "cancelled"
           /\ ~(c.stage = "bridged" /\ c.winner = r.leg)
           /\ Went(t, p, c, r.leg)
    BY <2>1, MovesWent
  <2> QED
    BY <2>2 DEF p
<1>2. Claim(t) =>
        IF winner = NoLeg THEN Went(t, "mark", r.copy, r.leg)
        ELSE IF r.copy.stage = "bridged" THEN Went(t, "idle", Gone, Caller)
        ELSE winner \in Leg /\ Went(t, "paired", BridgedBy(r.copy, winner), r.leg)
  BY AnswerMoves, MovesWent DEF Onward
<1>l. ASSUME NEW p, NEW ls, NEW st \in Statuses, Moves(t, Onward(r, p, WithLegs(r.copy, ls, st)))
      PROVE  Went(t, p, task'[t].copy, r.leg) /\ Relegged(task'[t].copy, r.copy, ls, st)
  <2> DEFINE x == WithLegs(r.copy, ls, st)
  <2>1. Relegged(x, r.copy, ls, st)
    BY <1>0, LegWrites DEF Relegged
  <2>2. Moves(t, Onward(r, p, x))
    BY <1>l
  <2> HIDE DEF x
  <2>3. Went(t, p, x, r.leg)
    BY <2>2, MovesWent DEF Onward
  <2> QED
    BY <2>1, <2>3 DEF Went
<1>3. CancelRemaining(t) => /\ Went(t, "kept", task'[t].copy, r.leg)
                            /\ Relegged(task'[t].copy, r.copy, Losers(r.copy, r.leg), "cancelled")
  BY <1>0, <1>l, AnswerMoves
<1>4. /\ IgnoreHangup(t) => Went(t, "idle", Gone, Caller)
      /\ AbandonRing(t) \/ ClosingHangup(t) => Went(t, "clear", Gone, Caller)
      /\ RingingLegHangup(t) => Went(t, "ended", r.copy, r.leg)
  BY EndMoves, MovesWent DEF Onward
<1>5. LoserHangup(t) => /\ Went(t, "loser", task'[t].copy, r.leg)
                        /\ Relegged(task'[t].copy, r.copy, {r.leg}, "cancelled")
  BY <1>0, <1>l, EndMoves
<1>6. LegEnded(t) =>
        IF winner # NoLeg \/ r.copy.leg[r.leg] \in {"cancelled", "answered"}
        THEN Went(t, "idle", Gone, Caller)
        ELSE /\ Went(t, "noanswer", task'[t].copy, r.leg)
             /\ Relegged(task'[t].copy, r.copy, {r.leg}, "no-answer")
  BY <1>0, <1>l, EndMoves, MovesWent
<1>7. /\ ClearClaims(t) => Went(t, "delete", Gone, Caller)
      /\ RouteToVoicemail(t) =>
           IF Blocked(r.copy) \/ Active(r.copy) THEN Went(t, "idle", Gone, Caller)
           ELSE Went(t, "prompt", r.copy, r.leg)
      /\ SpeakPrompt(t) \/ RecordMessage(t) => Went(t, "idle", Gone, Caller)
  BY EndMoves, MovesWent DEF Onward
<1> QED
  BY <1>1, <1>2, <1>3, <1>4, <1>5, <1>6, <1>7

\* t has taken event <<kind, l>> with a copy of the session.
Took(t, kind, l) ==
  /\ Moves(t, task'[t]) /\ sess # Gone
  /\ task'[t].pc = StartOf(kind, sess) /\ task'[t].copy = sess
  /\ task'[t].leg = l /\ task'[t].kind = kind

LEMMA BeginGoes ==
  ASSUME IInv, NEW t \in Task, NEW kind \in Kinds, NEW l \in Leg \cup {Caller}, Begin(t, kind, l)
  PROVE  /\ t # Dialer /\ task[t].pc = "idle" /\ <<kind, l>> \in events
         /\ events' = events \ {<<kind, l>>} /\ UNCHANGED <<winner, line, caller, served, astray>>
         /\ \/ Went(t, "idle", Gone, Caller) /\ (sess = Gone \/ kind = "answered")
            \/ (Took(t, kind, l) /\ (kind = "answered" => Registered(sess, l)))
<1>1. ASSUME Moves(t, Being(StartOf(kind, sess), kind, l, sess, FALSE)), sess # Gone
      PROVE  Took(t, kind, l)
  <2>1. task'[t] = Being(StartOf(kind, sess), kind, l, sess, FALSE)
    BY <1>1 DEF Moves, Turns
  <2> QED
    BY <1>1, <2>1 DEF Took, Being
<1> QED
  BY <1>1, BeginMoves, MovesWent DEF Begin, At, carrier

----------------------------------------------------------------------------
(***************************************************************************)
(* Up to the first mishap the stage of a call only goes on: it is left at  *)
(* "connect" by the dialer before any leg is registered, and a handler of  *)
(* an answer works on a session that is at "connecting" or beyond.         *)
(***************************************************************************)
Late == {"connecting", "bridged", "voicemail"}

Staged(s) ==
  /\ s.stage = "connect" => \A l \in Leg : s.leg[l] = "unknown"
  /\ \A l \in Leg : s.leg[l] = "answered" => s.stage \in Late

\* Every leg is registered, and none was hung up by the dialer.
Tracked(s) == \A l \in Leg : s.leg[l] \notin {"unknown", "dropped"}

\* s: the session
StagedAt(r, s) ==
  /\ Staged(r.copy)
  /\ r.pc = "ring" => r.copy.stage = "connect"
  /\ r.pc \in {"check", "registered", "resave"} => r.copy.stage # "connect"
  /\ r.pc \in AnswerPlace \ {"connecting"} => r.copy.stage \in Late
  /\ r.pc = "reread" => s.stage \in Late \cup {"gone"}
  /\ r.pc \in {"ended", "noanswer"} => r.copy.stage = "ringing" /\ Tracked(r.copy)

Registering(d, s) ==
  /\ s.stage = "connect" => d.pc = "ring"
  /\ s # Gone => \A l \in Leg : Dialing(d, l) \/ s.leg[l] # "unknown"

StagesOK ==
  /\ Staged(sess) /\ \A t \in Task : StagedAt(task[t], sess)
  /\ Registering(task[Dialer], sess)

LEMMA GoneIsStaged == Staged(Gone)
BY GoneIsASession DEF Staged

LEMMA TurnKeepsStages ==
  ASSUME IInv, StagesOK, NEW t \in Task, Turns(t, task'[t]), StagedAt(task'[t], sess'), Staged(sess'),
         sess.stage \in Late \cup {"gone"} => sess'.stage \in Late \cup {"gone"},
         Registering(task'[Dialer], sess')
  PROVE  StagesOK'
<1>1. ASSUME NEW u \in Task \ {t} PROVE StagedAt(task'[u], sess')
  <2>1. Same(task'[u], task[u]) /\ StagedAt(task[u], sess)
    BY DEF Turns, StagesOK
  <2> QED
    BY <2>1 DEF Same, StagedAt
<1> QED
  BY <1>1 DEF StagesOK

\* A handler, or the dialer on its way to voicemail.
LEMMA HandlerKeepsStages ==
  ASSUME IInv, StagesOK, NEW t \in Task, Turns(t, task'[t]), StagedAt(task'[t], sess'),
         task[t].pc \notin DialerPlace, Staged(sess'),
         sess.stage \in Late \cup {"gone"} => sess'.stage \in Late \cup {"gone"},
         sess'.stage = "connect" => sess.stage = "connect",
         sess' # Gone => sess # Gone /\ \A l \in Leg : sess.leg[l] # "unknown" => sess'.leg[l] # "unknown"
  PROVE  StagesOK'
<1>1. Registering(task'[Dialer], sess')
  <2>1. Registering(task[Dialer], sess)
    BY DEF StagesOK
  <2>2. CASE t = Dialer
    BY <2>1, <2>2 DEF Registering, Dialing, DialerPlace
  <2>3. CASE t # Dialer
    <3>1. Same(task'[Dialer], task[Dialer])
      BY <2>3 DEF Turns, Task
    <3> QED
      BY <2>1, <3>1 DEF Registering, Dialing, Same
  <2> QED
    BY <2>2, <2>3
<1> QED
  BY <1>1, TurnKeepsStages

LEMMA MoveKeepsStages ==
  ASSUME IInv, StagesOK, NEW t \in Task, Moves(t, task'[t]), StagedAt(task'[t], sess),
         task[t].pc \notin DialerPlace
  PROVE  StagesOK'
<1>1. Turns(t, task'[t]) /\ sess' = sess /\ Staged(sess)
  BY DEF Moves, StagesOK
<1> QED
  BY <1>1, HandlerKeepsStages

\* Where t has no copy nothing is asked of it.
LEMMA NothingIsStaged ==
  ASSUME NEW t \in Task, task'[t].pc \in NoCopy \cup {"accept", "hangup", "loser", "record", "route",
                                                     "prompt", "connecting", "dialling",
                                                     "register", "recount"},
         Staged(task'[t].copy)
  PROVE  \A s : StagedAt(task'[t], s)
BY DEF StagedAt, NoCopy, AnswerPlace

LEMMA LeaveKeepsStages ==
  ASSUME IInv, StagesOK, NEW t \in Task, NEW p \in NoCopy, NEW l, Went(t, p, Gone, l),
         task[t].pc \notin DialerPlace
  PROVE  StagesOK'
BY GoneIsStaged, NothingIsStaged, MoveKeepsStages DEF Went

LEMMA SaveKeepsStages ==
  ASSUME IInv, IInv', StagesOK, NEW t \in Task, task[t].pc \notin DialerPlace,
         NEW p \in {"idle", "reread", "cancel", "route", "speak", "message"}, Saved(t, p),
         NEW stage, NEW w, NEW ls, NEW status \in Statuses \ {"unknown"},
         Wrote(stage, w, ls, status), Staged(sess'),
         stage \in Late \/ (stage = sess.stage /\ p \in {"idle", "route"})
  PROVE  StagesOK'
<1>1. /\ sess'.stage = stage /\ sess # Gone /\ Turns(t, task'[t]) /\ task'[t].pc = p
      /\ (p \notin NoCopy => task'[t].copy = sess') /\ (p \in NoCopy => task'[t].copy = Gone)
      /\ \A l \in Leg : sess.leg[l] # "unknown" => sess'.leg[l] # "unknown"
  BY DEF Wrote, Saved
<1>2. StagedAt(task'[t], sess')
  BY <1>1, GoneIsStaged DEF StagedAt, NoCopy, AnswerPlace
<1>3. sess'.stage = "connect" => sess.stage = "connect"
  BY <1>1 DEF Late
<1> QED
  BY <1>1, <1>2, <1>3, HandlerKeepsStages DEF Late

LEMMA DialKeepsStages ==
  ASSUME IInv, IInv', DialOK, CopiesFresh, StagesOK, mishap' = {}, Dial PROVE StagesOK'
<1> USE DEF At
<1> DEFINE r == task[Dialer]
           q == task'[Dialer]
<1>0. /\ Dialer \in Task /\ StagedAt(r, sess) /\ Staged(sess) /\ Registering(r, sess)
      /\ r.leg \in Nat /\ Leg \subseteq Nat /\ Placed(Dialer, r)
  BY Copies DEF Task, StagesOK, IInv, Whole, Leg, Caller
<1>1. CASE StartRinging
  <2>1. /\ Saved(Dialer, "dialling") /\ r.copy = sess /\ r.pc = "ring"
        /\ Wrote("ringing", sess.winner, {}, "ringing")
    BY <1>1, DialerWrites DEF StartRinging
  <2>2. /\ Turns(Dialer, q) /\ q.pc = "dialling" /\ q.copy = sess' /\ sess'.stage = "ringing"
        /\ \A l \in Leg : sess'.leg[l] = sess.leg[l]
    BY <2>1 DEF Saved, Wrote, NoCopy
  <2>3. sess.stage = "connect" /\ \A l \in Leg : sess.leg[l] = "unknown"
    BY <1>0, <2>1 DEF StagedAt, Staged
  <2>4. Staged(sess')
    BY <2>2, <2>3 DEF Staged
  <2>5. StagedAt(q, sess') /\ Registering(q, sess')
    BY <1>0, <2>2, <2>4, NothingIsStaged DEF Registering, Dialing
  <2> QED
    BY <1>0, <2>2, <2>3, <2>4, <2>5, TurnKeepsStages DEF Late
<1>2. CASE DialsReturn
  <2>1. Moves(Dialer, q) /\ q.pc = "register" /\ q.copy = r.copy /\ q.leg = r.leg /\ r.pc = "dialling"
    BY <1>2, DialerGoes DEF DialsReturn, Went
  <2>2. Turns(Dialer, q) /\ sess' = sess /\ r.leg = 0 /\ \A l \in Leg : 0 < l
    BY <1>0, <2>1 DEF Moves, Placed, Caller, Leg
  <2>3. StagedAt(q, sess) /\ Registering(q, sess)
    BY <1>0, <2>1, <2>2, NothingIsStaged DEF StagedAt, Registering, Dialing
  <2> QED
    BY <1>0, <2>2, <2>3, TurnKeepsStages
<1>3. CASE RegisterLoad
  <2>1. r.pc = "register" /\ r.leg + 1 \in Leg
    BY <1>3, DialerGoes DEF RegisterLoad
  <2>2. CASE sess = Gone
    <3>1. Moves(Dialer, q) /\ q.pc \in {"register", "recount"} /\ q.copy = r.copy
      BY <1>3, <2>2, DialerGoes DEF Went, AfterResult
    <3>2. Turns(Dialer, q) /\ sess' = sess
      BY <3>1 DEF Moves
    <3>3. StagedAt(q, sess) /\ Registering(q, sess)
      BY <1>0, <2>2, <3>1, NothingIsStaged, GoneIsASession DEF StagedAt, Registering
    <3> QED
      BY <1>0, <3>2, <3>3, TurnKeepsStages
  <2>3. CASE sess # Gone
    <3>1. Moves(Dialer, q) /\ q.pc = "check" /\ q.copy = sess /\ q.leg = r.leg + 1
      BY <1>3, <2>3, DialerGoes DEF Went
    <3>2. Turns(Dialer, q) /\ sess' = sess
      BY <3>1 DEF Moves
    <3>3. sess.stage # "connect"
      BY <1>0, <2>1 DEF Registering
    <3>4. \A l \in Leg : Dialing(r, l) => Dialing(q, l)
      BY <1>0, <2>1, <3>1 DEF Dialing
    <3>5. StagedAt(q, sess)
      BY <1>0, <3>1, <3>3 DEF StagedAt, AnswerPlace
    <3>6. Registering(q, sess)
      BY <1>0, <3>3, <3>4 DEF Registering
    <3> QED
      BY <1>0, <3>2, <3>5, <3>6, TurnKeepsStages
  <2> QED
    BY <2>2, <2>3
<1>4. CASE RegisterCheck
  <2> DEFINE st == IF DialFailed(r.leg) THEN "failed"
                   ELSE IF winner # NoLeg \/ HasWinner(r.copy) THEN "dropped" ELSE "ringing"
  <2>1. /\ Moves(Dialer, q) /\ q.pc = "registered" /\ q.leg = r.leg /\ r.pc = "check"
        /\ Relegged(q.copy, r.copy, {r.leg}, st)
    BY <1>4, DialerGoes DEF RegisterCheck, Went
  <2>2. st \in {"failed", "dropped", "ringing"}
    OBVIOUS
  <2> HIDE DEF st
  <2>3. Turns(Dialer, q) /\ sess' = sess
    BY <2>1 DEF Moves
  <2>4. StagedAt(q, sess)
    BY <1>0, <2>1, <2>2 DEF StagedAt, Staged, Relegged, AnswerPlace
  <2>5. Registering(q, sess)
    BY <1>0, <2>1 DEF Registering, Dialing
  <2> QED
    BY <1>0, <2>3, <2>4, <2>5, TurnKeepsStages
<1>5. CASE RegisterSave
  <2> DEFINE p == AfterResult(r.leg)
  <2>1. PICK st \in {"ringing", "failed", "dropped"} :
          /\ Saved(Dialer, p) /\ r.copy = sess' /\ r.pc = "registered"
          /\ Wrote(sess.stage, sess.winner, {r.leg}, st)
    BY <1>5, DialerWrites DEF RegisterSave
  <2>2. /\ Turns(Dialer, q) /\ q.pc = p /\ p \in {"register", "recount"} /\ q.leg = r.leg
        /\ q.copy = sess' /\ sess # Gone /\ sess'.stage = sess.stage
        /\ \A l \in Leg : sess'.leg[l] = IF l = r.leg THEN st ELSE sess.leg[l]
    BY <2>1 DEF Saved, Wrote, NoCopy, AfterResult
  <2>3. sess.stage # "connect"
    BY <1>0, <2>1 DEF Registering
  <2>4. Staged(sess')
    BY <1>0, <2>2, <2>3 DEF Staged
  <2>5. StagedAt(q, sess')
    BY <1>0, <2>2, <2>4, NothingIsStaged
  <2>6. ASSUME NEW l \in Leg PROVE Dialing(q, l) \/ sess'.leg[l] # "unknown"
    <3>1. Dialing(r, l) \/ sess.leg[l] # "unknown"
      BY <1>0, <2>2 DEF Registering
    <3>2. Dialing(r, l) /\ l # r.leg => r.leg < l
      BY <1>0, <2>1 DEF Dialing
    <3>3. r.leg < l => p = "register"
      BY <1>0, RingAssumption DEF AfterResult, Leg
    <3> QED
      BY <2>2, <3>1, <3>2, <3>3 DEF Dialing
  <2>7. Registering(q, sess')
    BY <2>2, <2>3, <2>6 DEF Registering
  <2> QED
    BY <1>0, <2>2, <2>4, <2>5, <2>7, TurnKeepsStages
<1>6. CASE Recount
  <2>0. r.pc = "recount"
    BY <1>6 DEF Recount
  <2>1. /\ Moves(Dialer, q) /\ \/ sess = Gone /\ q.pc = "idle" /\ q.copy = Gone
                               \/ sess # Gone /\ q.pc = "resave" /\ q.copy = sess
    BY <1>6, DialerGoes DEF Went
  <2>2. Turns(Dialer, q) /\ sess' = sess /\ sess.stage # "connect"
    BY <1>0, <2>0, <2>1 DEF Moves, Registering
  <2>3. StagedAt(q, sess)
    BY <1>0, <2>1, <2>2, GoneIsStaged DEF StagedAt, AnswerPlace
  <2>4. Registering(q, sess)
    BY <1>0, <2>0, <2>2 DEF Registering, Dialing
  <2> QED
    BY <1>0, <2>2, <2>3, <2>4, TurnKeepsStages
<1>7. CASE RecountSave
  <2> DEFINE p == IF RingingIn(r.copy) = {} THEN "route" ELSE "idle"
  <2>1. Saved(Dialer, p) /\ r.copy = sess /\ sess' = sess /\ r.pc = "resave"
    BY <1>7, DialerWrites DEF RecountSave
  <2>2. p \in {"route", "idle"}
    OBVIOUS
  <2> HIDE DEF p
  <2>3. Turns(Dialer, q) /\ q.pc \in {"route", "idle"} /\ q.copy \in {sess, Gone}
    BY <2>1, <2>2 DEF Saved
  <2>4. StagedAt(q, sess)
    BY <1>0, <2>3, GoneIsStaged, NothingIsStaged DEF NoCopy
  <2>5. Registering(q, sess)
    BY <1>0, <2>1 DEF Registering, Dialing
  <2> QED
    BY <1>0, <2>1, <2>3, <2>4, <2>5, TurnKeepsStages
<1>8. ASSUME NEW l \in Leg, DialLeg(l) PROVE StagesOK'
  BY <1>8 DEF DialLeg, StagesOK
<1> QED
  BY <1>1, <1>2, <1>3, <1>4, <1>5, <1>6, <1>7, <1>8 DEF Dial

LEMMA AnswerKeepsStages ==
  ASSUME IInv, IInv', DialOK, CopiesFresh, StagesOK, mishap' = {}, NEW t \in Task,
         Take(t) \/ Answer(t)
  PROVE  StagesOK'
<1> USE DEF At
<1> DEFINE r == task[t]
           q == task'[t]
<1>0. /\ StagedAt(r, sess) /\ Staged(r.copy) /\ Staged(sess) /\ Placed(t, r)
      /\ "ringing" \in Statuses \ {"unknown"} /\ "answered" \in Statuses \ {"unknown"}
      /\ "cancelled" \in Statuses \ {"unknown"}
  BY Copies DEF StagesOK, StagedAt, IInv, Whole
<1>p. r.pc \in AnswerPlace \cup {"accept", "idle"} => r.pc \notin DialerPlace
  BY DEF AnswerPlace, DialerPlace
<1>1. ASSUME NEW kind \in Kinds, NEW l \in Leg \cup {Caller}, Begin(t, kind, l) PROVE StagesOK'
  <2>1. r.pc = "idle"
    BY <1>1, BeginGoes
  <2>2. CASE Went(t, "idle", Gone, Caller)
    BY <1>p, <2>1, <2>2, LeaveKeepsStages DEF NoCopy
  <2>3. CASE Took(t, kind, l)
    <3>1. Moves(t, q) /\ q.pc = StartOf(kind, sess) /\ q.copy = sess
      BY <2>3 DEF Took
    <3>2. \/ q.pc \in {"accept", "hangup", "record", "connecting"}
          \/ q.pc = "reread" /\ sess.stage \in Late
      BY <3>1 DEF StartOf, Kinds, Late
    <3>3. StagedAt(q, sess)
      BY <1>0, <3>1, <3>2 DEF StagedAt, AnswerPlace
    <3> QED
      BY <1>p, <2>1, <3>1, <3>3, MoveKeepsStages
  <2> QED
    BY <1>1, <2>2, <2>3, BeginGoes
<1>2. CASE AcceptSave(t) \/ MarkConnecting(t)
  <2>1. PICK p \in {"idle", "reread"} : Saved(t, p) /\ Wrote("connecting", sess.winner, {}, "ringing")
    BY <1>2, HandlerWrites
  <2>2. Staged(sess')
    BY <2>1 DEF Wrote, Staged, Late
  <2> QED
    BY <1>0, <1>2, <1>p, <2>1, <2>2, SaveKeepsStages
       DEF AcceptSave, MarkConnecting, AnswerPlace, Late
<1>3. CASE AnswerReload(t)
  <2> DEFINE c == Loaded(r)
             p == IF r.kind = "answered" THEN "picked" ELSE "claim"
  <2>1. r.pc = "reread" /\ (Went(t, "idle", Gone, Caller) \/ Went(t, p, c, r.leg))
    BY <1>3, HandlerGoes DEF AnswerReload
  <2>2. p \in {"picked", "claim"}
    OBVIOUS
  <2>3. Staged(c) /\ c.stage \in Late
    <3>1. CASE sess = Gone
      BY <1>0, <2>1, <3>1 DEF Loaded, StagedAt, AnswerPlace
    <3>2. CASE sess # Gone
      <4>1. sess.stage # "gone"
        BY <3>2 DEF IInv, Whole
      <4> QED
        BY <1>0, <2>1, <3>2, <4>1 DEF Loaded, StagedAt
    <3> QED
      BY <3>1, <3>2
  <2> HIDE DEF p, c
  <2>4. CASE Went(t, "idle", Gone, Caller)
    BY <1>p, <2>1, <2>4, LeaveKeepsStages DEF NoCopy, AnswerPlace
  <2>5. CASE Went(t, p, c, r.leg)
    <3>1. Moves(t, q) /\ q.pc = p /\ q.copy = c
      BY <2>5 DEF Went
    <3>2. StagedAt(q, sess)
      BY <2>2, <2>3, <3>1 DEF StagedAt
    <3> QED
      BY <1>p, <2>1, <3>1, <3>2, MoveKeepsStages DEF AnswerPlace
  <2> QED
    BY <2>1, <2>4, <2>5
<1>4. CASE MarkAnswered(t)
  <2>1. /\ Saved(t, "idle") /\ r.copy = sess /\ r.pc = "picked"
        /\ Wrote(sess.stage, sess.winner, {r.leg}, "answered")
    BY <1>4, HandlerWrites DEF MarkAnswered
  <2>2. sess.stage \in Late
    BY <1>0, <2>1 DEF StagedAt, AnswerPlace
  <2>3. Staged(sess')
    BY <2>1, <2>2 DEF Staged, Wrote, Late
  <2> QED
    BY <1>0, <1>p, <2>1, <2>2, <2>3, SaveKeepsStages DEF AnswerPlace
<1>5. CASE Claim(t)
  <2>1. r.pc = "claim" /\ r.copy.stage \in Late
    BY <1>0, <1>5 DEF Claim, StagedAt, AnswerPlace
  <2>2. CASE Went(t, "idle", Gone, Caller)
    BY <1>p, <2>1, <2>2, LeaveKeepsStages DEF NoCopy, AnswerPlace
  <2>3. CASE Went(t, "mark", r.copy, r.leg)
    <3>1. Moves(t, q) /\ q.pc = "mark" /\ q.copy = r.copy
      BY <2>3 DEF Went
    <3>2. StagedAt(q, sess)
      BY <1>0, <2>1, <3>1 DEF StagedAt
    <3> QED
      BY <1>p, <2>1, <3>1, <3>2, MoveKeepsStages DEF AnswerPlace
  <2>4. CASE winner \in Leg /\ Went(t, "paired", BridgedBy(r.copy, winner), r.leg)
    <3>1. Moves(t, q) /\ q.pc = "paired" /\ q.copy = BridgedBy(r.copy, winner)
      BY <2>4 DEF Went
    <3>2. q.copy.stage = "bridged"
      BY <2>4, <3>1, BridgeWrites, Copies DEF IInv
    <3>3. StagedAt(q, sess)
      BY <3>1, <3>2 DEF StagedAt, Staged, Late
    <3> QED
      BY <1>p, <2>1, <3>1, <3>3, MoveKeepsStages DEF AnswerPlace
  <2> QED
    BY <1>5, <2>2, <2>3, <2>4, HandlerGoes
<1>6. CASE MarkPaired(t)
  <2>1. PICK w \in Leg : /\ Saved(t, "idle") /\ r.pc = "paired"
                         /\ Wrote("bridged", w, {}, "ringing")
    BY <1>6, HandlerWrites DEF MarkPaired
  <2>2. Staged(sess')
    BY <2>1 DEF Staged, Wrote, Late
  <2> QED
    BY <1>0, <1>p, <2>1, <2>2, SaveKeepsStages DEF AnswerPlace, Late
<1>7. CASE MarkBridged(t)
  <2>1. Saved(t, "cancel") /\ r.pc = "mark" /\ Wrote("bridged", r.leg, {r.leg}, "answered")
    BY <1>7, HandlerWrites DEF MarkBridged
  <2>2. Staged(sess')
    BY <2>1 DEF Staged, Wrote, Late
  <2> QED
    BY <1>0, <1>p, <2>1, <2>2, SaveKeepsStages DEF AnswerPlace, Late
<1>8. CASE CancelRemaining(t)
  <2>1. /\ Moves(t, q) /\ q.pc = "kept" /\ r.pc = "cancel"
        /\ q.copy.stage = r.copy.stage
    BY <1>8, HandlerGoes DEF CancelRemaining, Went, Relegged
  <2>2. r.copy.stage \in Late
    BY <1>0, <2>1 DEF StagedAt, AnswerPlace
  <2>3. StagedAt(q, sess)
    BY <2>1, <2>2 DEF StagedAt, Staged, Late
  <2> QED
    BY <1>p, <2>1, <2>3, MoveKeepsStages DEF AnswerPlace
<1>9. CASE SaveWon(t)
  <2>1. /\ Saved(t, "idle") /\ r.copy = sess' /\ r.pc = "kept"
        /\ Wrote(sess.stage, sess.winner, Losers(sess, r.leg), "cancelled")
    BY <1>9, HandlerWrites DEF SaveWon
  <2> QED
    BY <1>0, <1>p, <2>1, SaveKeepsStages DEF AnswerPlace
<1> QED
  BY <1>1, <1>2, <1>3, <1>4, <1>5, <1>6, <1>7, <1>8, <1>9 DEF Take, Answer

LEMMA EndKeepsStages ==
  ASSUME IInv, IInv', DialOK, CopiesFresh, StagesOK, mishap' = {}, NEW t \in Task,
         End(t) \/ Voicemail(t)
  PROVE  StagesOK'
<1> USE DEF At
<1> DEFINE r == task[t]
           q == task'[t]
<1>0. /\ StagedAt(r, sess) /\ Staged(r.copy) /\ Staged(sess)
      /\ "ringing" \in Statuses \ {"unknown"} /\ "no-answer" \in Statuses \ {"unknown"}
      /\ "cancelled" \in Statuses \ {"unknown"}
  BY Copies DEF StagesOK, StagedAt, IInv
<1>p. r.pc \in EndPlace \cup CarePlace \cup NoCopy => r.pc \notin DialerPlace
  BY DEF EndPlace, CarePlace, NoCopy, DialerPlace
<1>1. CASE \/ IgnoreHangup(t) \/ AbandonRing(t) \/ ClosingHangup(t) \/ ClearClaims(t)
           \/ SpeakPrompt(t) \/ RecordMessage(t)
  <2>1. r.pc \in {"hangup", "clear", "speak", "message"}
    BY <1>1
       DEF IgnoreHangup, AbandonRing, ClosingHangup, ClearClaims, SpeakPrompt, RecordMessage
  <2>2. PICK p \in {"idle", "clear", "delete"} : Went(t, p, Gone, Caller)
    BY <1>1, HandlerGoes
  <2> QED
    BY <1>p, <2>1, <2>2, LeaveKeepsStages DEF NoCopy, EndPlace
<1>2. CASE RingingLegHangup(t)
  <2>1. /\ Moves(t, q) /\ q.pc = "ended" /\ q.copy = r.copy /\ r.pc = "hangup"
        /\ r.copy.stage = "ringing"
    BY <1>2, HandlerGoes DEF RingingLegHangup, Went
  <2>2. Tracked(r.copy)
    BY <1>2 DEF RingingLegHangup, Tracked
  <2>3. StagedAt(q, sess)
    BY <1>0, <2>1, <2>2 DEF StagedAt, AnswerPlace
  <2> QED
    BY <1>p, <2>1, <2>3, MoveKeepsStages DEF EndPlace
<1>3. CASE LoserHangup(t)
  <2>1. /\ Moves(t, q) /\ q.pc = "loser" /\ Relegged(q.copy, r.copy, {r.leg}, "cancelled")
        /\ r.pc = "hangup" /\ Registered(r.copy, r.leg)
    BY <1>3, HandlerGoes DEF LoserHangup, Went
  <2>2. Staged(q.copy)
    BY <1>0, <2>1 DEF Staged, Relegged, Registered
  <2> QED
    BY <1>p, <2>1, <2>2, NothingIsStaged, MoveKeepsStages DEF EndPlace
<1>4. CASE LoserSave(t)
  <2>1. /\ Saved(t, "idle") /\ r.copy = sess' /\ r.pc = "loser"
        /\ Wrote(sess.stage, sess.winner, {r.leg}, "cancelled")
    BY <1>4, HandlerWrites DEF LoserSave
  <2> QED
    BY <1>0, <1>p, <2>1, SaveKeepsStages DEF EndPlace
<1>5. CASE LegEnded(t)
  <2>1. r.pc = "ended"
    BY <1>5 DEF LegEnded
  <2>2. CASE Went(t, "idle", Gone, Caller)
    BY <1>p, <2>1, <2>2, LeaveKeepsStages DEF NoCopy, EndPlace
  <2>3. CASE Went(t, "noanswer", q.copy, r.leg) /\ Relegged(q.copy, r.copy, {r.leg}, "no-answer")
    <3>1. Moves(t, q) /\ q.pc = "noanswer"
      BY <2>3 DEF Went
    <3>2. r.copy.stage = "ringing" /\ Tracked(r.copy)
      BY <1>0, <2>1 DEF StagedAt
    <3>3. StagedAt(q, sess)
      BY <1>0, <2>3, <3>1, <3>2 DEF StagedAt, Staged, Tracked, Relegged, AnswerPlace
    <3> QED
      BY <1>p, <2>1, <3>1, <3>3, MoveKeepsStages DEF EndPlace
  <2> QED
    BY <1>5, <2>2, <2>3, HandlerGoes
<1>6. CASE NoAnswerSave(t)
  <2> DEFINE p == IF Unanswered(r.copy) THEN "route" ELSE "idle"
  <2>1. /\ Saved(t, p) /\ r.copy = sess' /\ r.pc = "noanswer"
        /\ Wrote(sess.stage, sess.winner, {r.leg}, "no-answer")
    BY <1>6, HandlerWrites DEF NoAnswerSave
  <2>2. p \in {"route", "idle"}
    OBVIOUS
  <2> HIDE DEF p
  <2> QED
    BY <1>0, <1>p, <2>1, <2>2, SaveKeepsStages DEF EndPlace
<1>7. CASE DeleteSession(t)
  <2>1. Turns(t, Idle) /\ sess' = Gone /\ r.pc = "delete"
    BY <1>7, DeleteTurns DEF DeleteSession
  <2>2. q = Idle
    BY <2>1 DEF Turns
  <2>3. StagedAt(q, sess')
    BY <2>2, GoneIsStaged, NothingIsStaged, IdleIsATask DEF NoCopy
  <2> QED
    BY <1>p, <2>1, <2>2, <2>3, GoneIsStaged, GoneIsASession, HandlerKeepsStages DEF NoCopy
<1>8. CASE RouteToVoicemail(t)
  <2>1. r.pc = "route"
    BY <1>8 DEF RouteToVoicemail
  <2>2. CASE Went(t, "idle", Gone, Caller)
    BY <1>p, <2>1, <2>2, LeaveKeepsStages DEF NoCopy, CarePlace
  <2>3. CASE Went(t, "prompt", r.copy, r.leg)
    <3>1. Moves(t, q) /\ q.pc = "prompt" /\ q.copy = r.copy
      BY <2>3 DEF Went
    <3> QED
      BY <1>0, <1>p, <2>1, <3>1, NothingIsStaged, MoveKeepsStages DEF CarePlace
  <2> QED
    BY <1>8, <2>2, <2>3, HandlerGoes
<1>9. CASE PromptSave(t) \/ RecordSave(t)
  <2>1. PICK p \in {"speak", "message"} :
          Saved(t, p) /\ Wrote("voicemail", sess.winner, {}, "ringing")
    BY <1>9, HandlerWrites
  <2>2. Staged(sess') /\ r.pc \in {"prompt", "record"}
    BY <1>9, <2>1 DEF Staged, Wrote, Late, PromptSave, RecordSave
  <2> QED
    BY <1>0, <1>p, <2>1, <2>2, SaveKeepsStages DEF CarePlace, Late
<1> QED
  BY <1>1, <1>2, <1>3, <1>4, <1>5, <1>6, <1>7, <1>8, <1>9 DEF End, Voicemail

LEMMA NextStages ==
  IInv /\ IInv' /\ DialOK /\ CopiesFresh /\ StagesOK /\ mishap' = {} /\ [Next]_vars => StagesOK'
<1>1. ASSUME StagesOK, UNCHANGED vars PROVE StagesOK'
  BY <1>1 DEF vars, StagesOK
<1>2. CASE World
  BY <1>2 DEF World, CallerHangsUp, PickUp, Bridge, LegEnds, StagesOK
<1> QED
  BY <1>1, <1>2, DialKeepsStages, AnswerKeepsStages, EndKeepsStages DEF Next

LEMMA InitStages == Init => StagesOK
<1> SUFFICES ASSUME Init PROVE StagesOK
  OBVIOUS
<1>1. sess.stage = "connect" /\ \A l \in Leg : sess.leg[l] = "unknown"
  BY DEF Init, Gone
<1>2. /\ task[Dialer] = [Idle EXCEPT !.pc = "ring", !.copy = sess]
      /\ \A t \in Task \ {Dialer} : task[t] = Idle
  BY DEF Init, Task
<1>3. task[Dialer].pc = "ring" /\ task[Dialer].copy = sess
  BY <1>2 DEF Idle
<1>4. Staged(sess) /\ StagedAt(task[Dialer], sess)
  BY <1>1, <1>3 DEF Staged, StagedAt, AnswerPlace
<1>5. StagedAt(Idle, sess)
  BY IdleIsATask, GoneIsStaged DEF StagedAt, AnswerPlace
<1> QED
  BY <1>1, <1>2, <1>3, <1>4, <1>5 DEF StagesOK, Registering, Dialing

----------------------------------------------------------------------------
(***************************************************************************)
(* Up to the first mishap the end of a leg is handled once: it waits as an *)
(* event, or one handler has it, and the leg is "no-answer" only after.    *)
(***************************************************************************)
Handling(r, l) == r.pc \in {"hangup", "ended", "noanswer"} /\ r.leg = l

HangupsOK ==
  \A l \in Leg :
    /\ <<"hangup", l>> \in events => sess.leg[l] # "no-answer"
    /\ \A t \in Task : Handling(task[t], l) =>
         /\ sess.leg[l] # "no-answer" /\ <<"hangup", l>> \notin events
         /\ \A u \in Task : Handling(task[u], l) => u = t

\* Only a leg that is up gets a new hangup.
Tells == \A l \in Leg : <<"hangup", l>> \in events' => <<"hangup", l>> \in events \/ line[l] \in Up

LEMMA DownTells == ASSUME NEW ls \in SUBSET Leg, BringsDown(ls) PROVE Tells
BY DEF BringsDown, Tells

LEMMA NextTells == ASSUME [Next]_vars PROVE Tells
<1>q. ASSUME events' = events PROVE Tells
  BY <1>q DEF Tells
<1>1. CASE Dial
  <2>1. CASE RegisterCheck
    <3> DEFINE ls == {task[Dialer].leg} \cap
                       {k \in Leg : Result(task[Dialer].copy, task[Dialer].leg,
                                           winner # NoLeg \/ HasWinner(task[Dialer].copy)).leg[k] = "dropped"}
    <3>1. HangUp(ls) /\ ls \in SUBSET Leg
      BY <2>1 DEF RegisterCheck
    <3> QED
      BY <3>1, HangUpBringsDown, DownTells
  <2> QED
    BY <1>1, <1>q, <2>1
       DEF Dial, StartRinging, DialsReturn, RegisterLoad, RegisterSave, Recount, RecountSave, DialLeg
<1>2. CASE World
  <2>1. ASSUME NEW l \in Leg, LegEnds(l) PROVE Tells
    BY <2>1, LegEndsBringsDown, DownTells
  <2>2. CASE CallerHangsUp
    BY <2>2, NoLegIsNoLeg DEF CallerHangsUp, Tells, Up
  <2> QED
    BY <1>2, <2>1, <2>2 DEF World, PickUp, Bridge, Tells
<1>3. ASSUME NEW t \in Task, Take(t) \/ Answer(t) PROVE Tells
  <2>1. CASE CancelRemaining(t)
    <3>1. HangUp(Losers(task[t].copy, task[t].leg)) /\ Losers(task[t].copy, task[t].leg) \in SUBSET Leg
      BY <2>1 DEF CancelRemaining, Losers, RingingIn
    <3> QED
      BY <3>1, HangUpBringsDown, DownTells
  <2>2. CASE Take(t)
    BY <2>2 DEF Take, Begin, Tells
  <2> QED
    BY <1>3, <1>q, <2>1, <2>2
       DEF Answer, AcceptSave, MarkConnecting, AnswerReload, MarkAnswered, Claim, MarkPaired, MarkBridged, SaveWon
<1>4. ASSUME NEW t \in Task, End(t) PROVE Tells
  <2>1. CASE AbandonRing(t)
    <3>1. HangUp(RingingIn(task[t].copy)) /\ RingingIn(task[t].copy) \in SUBSET Leg
      BY <2>1 DEF AbandonRing, RingingIn
    <3> QED
      BY <3>1, HangUpBringsDown, DownTells
  <2> QED
    BY <1>4, <1>q, <2>1
       DEF End, IgnoreHangup, RingingLegHangup, LoserHangup, LoserSave, ClosingHangup, LegEnded,
           NoAnswerSave, ClearClaims, DeleteSession
<1>5. ASSUME NEW t \in Task, Voicemail(t) PROVE Tells
  <2>1. CASE SpeakPrompt(t)
    BY <2>1 DEF SpeakPrompt, Tells
  <2> QED
    BY <1>5, <1>q, <2>1 DEF Voicemail, RouteToVoicemail, PromptSave, RecordSave, RecordMessage
<1> QED
  BY <1>1, <1>2, <1>3, <1>4, <1>5, <1>q DEF Next, vars

\* Whoever has the end of a leg in hand, the leg has ended.
LEMMA HandledHasEnded ==
  ASSUME LinesOK, NEW t \in Task, NEW l \in Leg, Handling(task[t], l), IInv
  PROVE  line[l] = "ended"
<1>1. task[t].pc \notin NoCopy /\ task[t].kind = "hangup" /\ task[t].leg = l
  BY DEF Handling, NoCopy, IInv, Whole, Placed, EndPlace
<1> QED
  BY <1>1, NoLegIsNoLeg DEF LinesOK, Heard

LEMMA TurnKeepsHangups ==
  ASSUME IInv, LinesOK, HangupsOK, Tells, NEW t \in Task, Turns(t, task'[t]),
         \A l \in Leg : sess'.leg[l] = "no-answer" =>
           sess.leg[l] = "no-answer" \/ (Handling(task[t], l) /\ ~Handling(task'[t], l)),
         \A l \in Leg : Handling(task'[t], l) =>
           Handling(task[t], l) \/ (<<"hangup", l>> \in events /\ <<"hangup", l>> \notin events')
  PROVE  HangupsOK'
<1> SUFFICES ASSUME NEW l \in Leg
             PROVE  /\ <<"hangup", l>> \in events' => sess'.leg[l] # "no-answer"
                    /\ \A v \in Task : Handling(task'[v], l) =>
                         /\ sess'.leg[l] # "no-answer" /\ <<"hangup", l>> \notin events'
                         /\ \A u \in Task : Handling(task'[u], l) => u = v
  BY DEF HangupsOK
<1>1. \A u \in Task \ {t} : Handling(task'[u], l) => Handling(task[u], l)
  BY DEF Turns, Same, Handling
<1>2. /\ <<"hangup", l>> \in events => sess.leg[l] # "no-answer"
      /\ \A v \in Task : Handling(task[v], l) =>
           /\ sess.leg[l] # "no-answer" /\ <<"hangup", l>> \notin events /\ line[l] \notin Up
           /\ \A u \in Task : Handling(task[u], l) => u = v
  BY HandledHasEnded DEF HangupsOK, Up
<1>3. line[l] \in Up => sess.leg[l] # "no-answer"
  BY DEF LinesOK, Sound, Up
<1>4. <<"hangup", l>> \in events' => <<"hangup", l>> \in events \/ line[l] \in Up
  BY DEF Tells
<1>5. <<"hangup", l>> \in events' => sess'.leg[l] # "no-answer"
  BY <1>2, <1>3, <1>4
<1>6. ASSUME NEW v \in Task, Handling(task'[v], l)
      PROVE  /\ sess'.leg[l] # "no-answer" /\ <<"hangup", l>> \notin events'
             /\ \A u \in Task : Handling(task'[u], l) => u = v
  BY <1>1, <1>2, <1>3, <1>4, <1>6
<1> QED
  BY <1>5, <1>6

\* What a step does to the ends of legs that are being handled.
Handles(t) ==
  /\ Turns(t, task'[t])
  /\ \A l \in Leg : sess'.leg[l] = "no-answer" =>
       sess.leg[l] = "no-answer" \/ (Handling(task[t], l) /\ ~Handling(task'[t], l))
  /\ \A l \in Leg : Handling(task'[t], l) =>
       Handling(task[t], l) \/ (<<"hangup", l>> \in events /\ <<"hangup", l>> \notin events')

HandlesOnce == (task' = task /\ sess' = sess) \/ \E t \in Task : Handles(t)

\* A step that takes up no hangup and leaves no leg at "no-answer".
LEMMA PassHandles ==
  ASSUME NEW t \in Task, Turns(t, task'[t]),
         \A l \in Leg : sess'.leg[l] = "no-answer" => sess.leg[l] = "no-answer",
         task'[t].pc \notin {"hangup", "ended", "noanswer"}
  PROVE  HandlesOnce
BY DEF Handling, Handles, HandlesOnce

LEMMA NextHandles ==
  IInv /\ IInv' /\ DialOK /\ CopiesFresh /\ mishap' = {} /\ [Next]_vars => HandlesOnce
<1> USE DEF At
<1> SUFFICES ASSUME IInv, IInv', DialOK, CopiesFresh, mishap' = {}, [Next]_vars PROVE HandlesOnce
  OBVIOUS
<1>w. ASSUME task' = task, sess' = sess PROVE HandlesOnce
  BY <1>w DEF HandlesOnce
\* A step of this kind passes.
<1>m. ASSUME NEW t \in Task, NEW p, NEW s, NEW l, Went(t, p, s, l), p \notin {"hangup", "ended", "noanswer"}
      PROVE  HandlesOnce
  BY <1>m, PassHandles DEF Went, Moves
<1>s. ASSUME NEW t \in Task, NEW p, Saved(t, p), p \notin {"hangup", "ended", "noanswer"},
             NEW stage, NEW w, NEW ls, NEW status, Wrote(stage, w, ls, status), status # "no-answer"
      PROVE  HandlesOnce
  BY <1>s, PassHandles DEF Saved, Wrote
<1>1. CASE Dial
  <2>0. Dialer \in Task
    BY DEF Task
  <2>1. CASE StartRinging
    BY <2>0, <2>1, <1>s, DialerWrites
  <2>2. CASE DialsReturn
    BY <2>0, <2>2, <1>m, DialerGoes
  <2>3. CASE RegisterLoad
    <3>1. AfterResult(task[Dialer].leg + 1) \in {"register", "recount"}
      BY DEF AfterResult
    <3> QED
      BY <2>0, <2>3, <3>1, <1>m, DialerGoes
  <2>4. CASE RegisterCheck
    BY <2>0, <2>4, <1>m, DialerGoes
  <2>5. CASE RegisterSave
    <3>1. AfterResult(task[Dialer].leg) \in {"register", "recount"}
      BY DEF AfterResult
    <3> DEFINE p == AfterResult(task[Dialer].leg)
    <3>2. PICK st \in {"ringing", "failed", "dropped"} :
            Saved(Dialer, p) /\ Wrote(sess.stage, sess.winner, {task[Dialer].leg}, st)
      BY <2>5, DialerWrites
    <3> HIDE DEF p
    <3> QED
      BY <2>0, <3>1, <3>2, <1>s DEF p
  <2>6. CASE Recount
    BY <2>0, <2>6, <1>m, DialerGoes
  <2>7. CASE RecountSave
    <3> DEFINE p == IF RingingIn(task[Dialer].copy) = {} THEN "route" ELSE "idle"
    <3>1. p \in {"route", "idle"}
      OBVIOUS
    <3>2. Saved(Dialer, p) /\ sess' = sess
      BY <2>7, DialerWrites
    <3> HIDE DEF p
    <3> QED
      BY <2>0, <3>1, <3>2, PassHandles DEF Saved
  <2>8. ASSUME NEW l \in Leg, DialLeg(l) PROVE HandlesOnce
    BY <1>w, <2>8 DEF DialLeg
  <2> QED
    BY <1>1, <2>1, <2>2, <2>3, <2>4, <2>5, <2>6, <2>7, <2>8 DEF Dial
<1>2. CASE World
  BY <1>2, <1>w DEF World, CallerHangsUp, PickUp, Bridge, LegEnds
<1>3. ASSUME NEW t \in Task, NEW kind \in Kinds, NEW l \in Leg \cup {Caller}, Begin(t, kind, l)
      PROVE  HandlesOnce
  <2>1. CASE Went(t, "idle", Gone, Caller)
    BY <2>1, <1>m
  <2>2. CASE Took(t, kind, l)
    <3>1. /\ Turns(t, task'[t]) /\ sess' = sess /\ task'[t].pc = StartOf(kind, sess)
          /\ task'[t].leg = l /\ <<kind, l>> \in events /\ events' = events \ {<<kind, l>>}
      BY <1>3, <2>2, BeginGoes DEF Took, Moves
    <3>2. Handling(task'[t], l) => kind = "hangup"
      BY <3>1 DEF Handling, StartOf, Kinds
    <3>3. \A k \in Leg : Handling(task'[t], k) => k = l
      BY <3>1 DEF Handling
    <3> QED
      BY <3>1, <3>2, <3>3 DEF Handles, HandlesOnce
  <2> QED
    BY <1>3, <2>1, <2>2, BeginGoes
<1>4. ASSUME NEW t \in Task, Answer(t) PROVE HandlesOnce
  <2> DEFINE p == IF task[t].kind = "answered" THEN "picked" ELSE "claim"
  <2>0. p \in {"picked", "claim"}
    OBVIOUS
  <2>1. CASE AcceptSave(t) \/ MarkConnecting(t) \/ MarkAnswered(t) \/ MarkPaired(t)
             \/ MarkBridged(t) \/ SaveWon(t)
    BY <2>1, <1>s, HandlerWrites
  <2>2. CASE AnswerReload(t)
    <3>1. Went(t, "idle", Gone, Caller) \/ Went(t, p, Loaded(task[t]), task[t].leg)
      BY <2>2, HandlerGoes
    <3> HIDE DEF p
    <3> QED
      BY <2>0, <3>1, <1>m
  <2>3. CASE Claim(t)
    <3> DEFINE x == BridgedBy(task[t].copy, winner)
    <3>1. \/ Went(t, "mark", task[t].copy, task[t].leg) \/ Went(t, "idle", Gone, Caller)
          \/ Went(t, "paired", x, task[t].leg)
      BY <2>3, HandlerGoes
    <3> HIDE DEF x
    <3>2. CASE Went(t, "paired", x, task[t].leg)
      BY <3>2, <1>m
    <3>3. CASE Went(t, "mark", task[t].copy, task[t].leg)
      BY <3>3, <1>m
    <3>4. CASE Went(t, "idle", Gone, Caller)
      BY <3>4, <1>m
    <3> QED
      BY <3>1, <3>2, <3>3, <3>4
  <2>4. CASE CancelRemaining(t)
    <3>1. Went(t, "kept", task'[t].copy, task[t].leg)
      BY <2>4, HandlerGoes
    <3> QED
      BY <3>1, <1>m
  <2> QED
    BY <1>4, <2>1, <2>2, <2>3, <2>4 DEF Answer
<1>5. ASSUME NEW t \in Task, End(t) \/ Voicemail(t) PROVE HandlesOnce
  <2> DEFINE r == task[t]
             q == task'[t]
  <2>1. CASE \/ IgnoreHangup(t) \/ AbandonRing(t) \/ ClosingHangup(t) \/ ClearClaims(t)
             \/ RouteToVoicemail(t) \/ SpeakPrompt(t) \/ RecordMessage(t)
    <3>1. \/ \E p \in {"idle", "clear", "delete"} : Went(t, p, Gone, Caller)
          \/ Went(t, "prompt", r.copy, r.leg)
      BY <2>1, HandlerGoes
    <3> QED
      BY <3>1, <1>m
  <2>7. CASE LoserHangup(t)
    <3>1. Went(t, "loser", q.copy, r.leg)
      BY <2>7, HandlerGoes
    <3> QED
      BY <3>1, <1>m
  <2>2. CASE LoserSave(t) \/ PromptSave(t) \/ RecordSave(t)
    BY <2>2, <1>s, HandlerWrites
  <2>3. CASE RingingLegHangup(t)
    <3>1. Turns(t, q) /\ sess' = sess /\ q.leg = r.leg /\ r.pc = "hangup"
      BY <2>3, HandlerGoes DEF RingingLegHangup, Went, Moves
    <3> QED
      BY <3>1 DEF Handling, Handles, HandlesOnce
  <2>4. CASE LegEnded(t)
    <3>1. CASE Went(t, "idle", Gone, Caller)
      BY <3>1, <1>m
    <3>2. CASE Went(t, "noanswer", q.copy, r.leg)
      <4>1. Turns(t, q) /\ sess' = sess /\ q.leg = r.leg /\ r.pc = "ended"
        BY <2>4, <3>2 DEF LegEnded, Went, Moves
      <4> QED
        BY <4>1 DEF Handling, Handles, HandlesOnce
    <3> QED
      BY <2>4, <3>1, <3>2, HandlerGoes
  <2>5. CASE NoAnswerSave(t)
    <3> DEFINE p == IF Unanswered(r.copy) THEN "route" ELSE "idle"
    <3>1. p \in {"route", "idle"}
      OBVIOUS
    <3>2. /\ Saved(t, p) /\ r.pc = "noanswer"
          /\ Wrote(sess.stage, sess.winner, {r.leg}, "no-answer")
      BY <2>5, HandlerWrites DEF NoAnswerSave
    <3> HIDE DEF p
    <3>3. /\ Turns(t, q) /\ q.pc \in {"route", "idle"}
          /\ \A l \in Leg : sess'.leg[l] = "no-answer" => l = r.leg \/ sess.leg[l] = "no-answer"
      BY <3>1, <3>2 DEF Saved, Wrote
    <3> QED
      BY <3>2, <3>3 DEF Handling, Handles, HandlesOnce
  <2>6. CASE DeleteSession(t)
    <3>1. Turns(t, Idle) /\ sess' = Gone
      BY <2>6, DeleteTurns
    <3>2. Turns(t, task'[t]) /\ task'[t].pc = "idle"
      BY <3>1, IdleIsATask DEF Turns
    <3> QED
      BY <3>1, <3>2, GoneIsASession, PassHandles
  <2> QED
    BY <1>5, <2>1, <2>2, <2>3, <2>4, <2>5, <2>6, <2>7 DEF End, Voicemail
<1>6. CASE UNCHANGED vars
  BY <1>6, <1>w DEF vars
<1> QED
  BY <1>1, <1>2, <1>3, <1>4, <1>5, <1>6 DEF Next, Take

LEMMA NextHangups ==
  IInv /\ LinesOK /\ HangupsOK /\ HandlesOnce /\ Tells => HangupsOK'
<1> SUFFICES ASSUME IInv, LinesOK, HangupsOK, HandlesOnce, Tells PROVE HangupsOK'
  OBVIOUS
<1>1. CASE task' = task /\ sess' = sess
  <2> SUFFICES ASSUME NEW l \in Leg, <<"hangup", l>> \in events'
               PROVE  sess.leg[l] # "no-answer" /\ \A t \in Task : ~Handling(task[t], l)
    BY <1>1 DEF HangupsOK
  <2>1. CASE <<"hangup", l>> \in events
    BY <2>1 DEF HangupsOK
  <2>2. CASE line[l] \in Up
    BY <2>2, HandledHasEnded DEF LinesOK, Sound, Up
  <2> QED
    BY <2>1, <2>2 DEF Tells
<1>2. ASSUME NEW t \in Task, Handles(t) PROVE HangupsOK'
  BY <1>2, TurnKeepsHangups DEF Handles
<1> QED
  BY <1>1, <1>2 DEF HandlesOnce

LEMMA InitHangups == Init => HangupsOK
<1> SUFFICES ASSUME Init PROVE HangupsOK
  OBVIOUS
<1>1. /\ task[Dialer] = [Idle EXCEPT !.pc = "ring", !.copy = sess] /\ events = {}
      /\ \A t \in Task \ {Dialer} : task[t] = Idle
  BY DEF Init, Task
<1>2. task[Dialer].pc = "ring" /\ \A t \in Task \ {Dialer} : task[t].pc = "idle"
  BY <1>1 DEF Idle
<1> QED
  BY <1>1, <1>2 DEF HangupsOK, Handling

----------------------------------------------------------------------------
(***************************************************************************)
(* Up to the first mishap a leg goes astray in its dial, and then nobody   *)
(* registers it, or in a hangup of a call that is won or has no caller.    *)
(***************************************************************************)
WonOrGone == sess = Gone \/ sess.winner # NoLeg

Lost == {"unknown", "failed", "dropped"}

Aside(r, l) == r.copy.leg[l] \in Lost /\ (r.pc \in Chosen => r.leg # l)

Stranger(l) == sess.leg[l] \in Lost /\ \A t \in Task : Aside(task[t], l)

OrphanOK ==
  /\ \A t \in Task : task[t].pc = "cancel" => WonOrGone
  /\ caller => WonOrGone \/ \A l \in astray : Stranger(l)

\* The step of t keeps strangers out.
Apart(t) ==
  /\ Turns(t, task'[t])
  /\ WonOrGone => WonOrGone'
  /\ task'[t].pc = "cancel" => WonOrGone'
  /\ \A l \in astray : Stranger(l) => sess'.leg[l] \in Lost /\ Aside(task'[t], l)

LEMMA WentApart ==
  ASSUME NEW t \in Task, NEW p, NEW s, NEW k, Went(t, p, s, k), p # "cancel",
         \A l \in astray : Stranger(l) => s.leg[l] \in Lost /\ (p \in Chosen => k # l)
  PROVE  Apart(t)
BY DEF Went, Moves, Apart, Stranger, Aside, WonOrGone

LEMMA LeftApart ==
  ASSUME IInv, NEW t \in Task, NEW p, NEW k, Went(t, p, Gone, k), p \in NoCopy PROVE Apart(t)
<1>1. \A l \in astray : Gone.leg[l] \in Lost
  BY GoneIsASession DEF IInv, TypeOK, Lost
<1> QED
  BY <1>1, WentApart DEF NoCopy, Chosen

LEMMA SavedApart ==
  ASSUME IInv, NEW t \in Task, NEW p, Saved(t, p), NEW stage, NEW w, NEW ls, NEW status,
         Wrote(stage, w, ls, status), sess.winner # NoLeg \/ p = "cancel" => w # NoLeg,
         \A l \in astray : Stranger(l) =>
           (l \notin ls \/ sess'.leg[l] \in Lost) /\ (p \in Chosen => task[t].leg # l)
  PROVE  Apart(t)
<1>1. \A l \in astray : Gone.leg[l] \in Lost /\ l \in Leg
  BY GoneIsASession DEF IInv, TypeOK, Lost
<1>2. \A l \in astray : Stranger(l) => sess'.leg[l] \in Lost
  BY <1>1 DEF Wrote, Stranger
<1>3. /\ Turns(t, task'[t]) /\ task'[t].pc = p /\ sess # Gone /\ sess'.winner = w
      /\ task'[t].copy \in {Gone, sess'} /\ (p \in Chosen => task'[t].leg = task[t].leg)
  BY DEF Saved, Wrote, NoCopy, Chosen
<1>4. \A l \in astray : Stranger(l) => Aside(task'[t], l)
  BY <1>1, <1>2, <1>3 DEF Aside
<1> QED
  BY <1>2, <1>3, <1>4 DEF Apart, WonOrGone

LEMMA NextApart ==
  IInv /\ IInv' /\ DialOK /\ CopiesFresh /\ mishap' = {} /\ [Next]_vars
    => (task' = task /\ sess' = sess) \/ \E t \in Task : Apart(t)
<1> USE DEF At
<1> DEFINE G == (task' = task /\ sess' = sess) \/ \E t \in Task : Apart(t)
<1> SUFFICES ASSUME IInv, IInv', DialOK, CopiesFresh, mishap' = {}, [Next]_vars PROVE G
  OBVIOUS
<1>a. ASSUME NEW t \in Task, Apart(t) PROVE G
  BY <1>a
<1>w. ASSUME task' = task, sess' = sess PROVE G
  BY <1>w
<1> HIDE DEF G
<1>0. astray \subseteq Leg
  BY DEF IInv, TypeOK
<1>l. ASSUME NEW l \in astray, Stranger(l), NEW t \in Task
      PROVE  /\ l \in Leg /\ task[t].copy.leg[l] \in Lost /\ sess.leg[l] \in Lost
             /\ Loaded(task[t]).leg[l] \in Lost /\ (task[t].pc \in Chosen => task[t].leg # l)
  BY <1>0, <1>l DEF Stranger, Aside, Loaded
<1>1. CASE Dial
  <2> DEFINE r == task[Dialer]
             q == task'[Dialer]
  <2>0. Dialer \in Task
    BY DEF Task
  <2>1. CASE StartRinging
    <3>1. Saved(Dialer, "dialling") /\ Wrote("ringing", sess.winner, {}, "ringing")
      BY <2>1, DialerWrites
    <3> QED
      BY <1>a, <2>0, <3>1, SavedApart DEF Chosen
  <2>2. CASE DialsReturn
    BY <1>a, <1>l, <2>0, <2>2, DialerGoes, WentApart DEF Chosen
  <2>3. CASE RegisterLoad
    <3> DEFINE p == AfterResult(r.leg + 1)
    <3>1. p \in {"register", "recount"}
      BY DEF AfterResult
    <3>2. Went(Dialer, p, r.copy, r.leg + 1) \/ Went(Dialer, "check", sess, r.leg + 1)
      BY <2>3, DialerGoes
    <3> HIDE DEF p
    <3>3. CASE Went(Dialer, p, r.copy, r.leg + 1)
      BY <1>a, <1>l, <2>0, <3>1, <3>3, WentApart DEF Chosen
    <3>4. CASE Went(Dialer, "check", sess, r.leg + 1)
      BY <1>a, <1>l, <2>0, <3>4, WentApart DEF Chosen
    <3> QED
      BY <3>2, <3>3, <3>4
  <2>4. CASE RegisterCheck
    <3> DEFINE st == IF DialFailed(r.leg) THEN "failed"
                     ELSE IF winner # NoLeg \/ HasWinner(r.copy) THEN "dropped" ELSE "ringing"
    <3>1. Went(Dialer, "registered", q.copy, r.leg) /\ Relegged(q.copy, r.copy, {r.leg}, st)
      BY <2>4, DialerGoes
    <3>2. r.leg \in astray => st = "failed"
      BY DEF DialFailed
    <3> HIDE DEF st
    <3>3. \A l \in astray : Stranger(l) => q.copy.leg[l] \in Lost
      BY <1>l, <2>0, <3>1, <3>2 DEF Relegged, Lost
    <3> QED
      BY <1>a, <2>0, <3>1, <3>3, WentApart DEF Chosen
  <2>5. CASE RegisterSave
    <3> DEFINE p == AfterResult(r.leg)
    <3>1. p \in {"register", "recount"}
      BY DEF AfterResult
    <3>2. PICK st \in {"ringing", "failed", "dropped"} :
            Saved(Dialer, p) /\ r.copy = sess' /\ Wrote(sess.stage, sess.winner, {r.leg}, st)
      BY <2>5, DialerWrites
    <3> HIDE DEF p
    <3>3. \A l \in astray : Stranger(l) => sess'.leg[l] \in Lost
      BY <1>l, <2>0, <3>2
    <3> QED
      BY <1>a, <2>0, <3>1, <3>2, <3>3, SavedApart DEF Chosen
  <2>6. CASE Recount
    <3>1. Went(Dialer, "idle", Gone, Caller) \/ Went(Dialer, "resave", sess, r.leg)
      BY <2>6, DialerGoes
    <3>2. CASE Went(Dialer, "resave", sess, r.leg)
      BY <1>a, <1>l, <2>0, <3>2, WentApart DEF Chosen
    <3> QED
      BY <1>a, <2>0, <3>1, <3>2, LeftApart DEF NoCopy
  <2>7. CASE RecountSave
    <3> DEFINE p == IF RingingIn(r.copy) = {} THEN "route" ELSE "idle"
    <3>1. Saved(Dialer, p) /\ sess' = sess
      BY <2>7, DialerWrites
    <3>2. p \in {"route", "idle"}
      OBVIOUS
    <3> HIDE DEF p
    <3>3. Wrote(sess.stage, sess.winner, {}, "ringing")
      BY <2>0, <3>1, Copies DEF Wrote, IInv
    <3> QED
      BY <1>a, <2>0, <3>1, <3>2, <3>3, SavedApart DEF Chosen
  <2>8. ASSUME NEW l \in Leg, DialLeg(l) PROVE G
    BY <1>w, <2>8 DEF DialLeg
  <2> QED
    BY <1>1, <2>1, <2>2, <2>3, <2>4, <2>5, <2>6, <2>7, <2>8 DEF Dial
<1>2. CASE World
  BY <1>2, <1>w DEF World, CallerHangsUp, PickUp, Bridge, LegEnds
<1>3. ASSUME NEW t \in Task, NEW kind \in Kinds, NEW l \in Leg \cup {Caller}, Begin(t, kind, l)
      PROVE  G
  <2>1. CASE Went(t, "idle", Gone, Caller)
    BY <1>a, <2>1, LeftApart DEF NoCopy
  <2>2. CASE Took(t, kind, l)
    <3>1. StartOf(kind, sess) \notin Chosen /\ StartOf(kind, sess) # "cancel"
      BY DEF StartOf, Chosen, Kinds
    <3>2. Turns(t, task'[t]) /\ sess' = sess /\ task'[t].copy = sess /\ task'[t].pc \notin Chosen
      BY <2>2, <3>1 DEF Took, Moves
    <3> QED
      BY <1>a, <1>l, <3>2 DEF Apart, Aside, Chosen, WonOrGone
  <2> QED
    BY <1>3, <2>1, <2>2, BeginGoes
<1>4. ASSUME NEW t \in Task, Answer(t) PROVE G
  <2> DEFINE r == task[t]
             q == task'[t]
  <2>1. CASE AcceptSave(t) \/ MarkConnecting(t)
    <3>1. PICK p \in {"idle", "reread"} :
            Saved(t, p) /\ Wrote("connecting", sess.winner, {}, "ringing")
      BY <2>1, HandlerWrites
    <3> QED
      BY <1>a, <3>1, SavedApart DEF Chosen
  <2>2. CASE AnswerReload(t)
    <3> DEFINE p == IF r.kind = "answered" THEN "picked" ELSE "claim"
               c == Loaded(r)
    <3>0. p \in {"picked", "claim"}
      OBVIOUS
    <3>1. \/ Went(t, "idle", Gone, Caller)
          \/ Registered(c, r.leg) /\ Went(t, p, c, r.leg)
      BY <2>2, HandlerGoes
    <3>2. \A l \in astray : Stranger(l) => c.leg[l] \in Lost
      BY <1>l
    <3> HIDE DEF p, c
    <3>3. CASE Registered(c, r.leg) /\ Went(t, p, c, r.leg)
      <4>1. \A l \in astray : Stranger(l) => r.leg # l
        BY <3>2, <3>3 DEF Registered, Lost
      <4> QED
        BY <1>a, <3>0, <3>2, <3>3, <4>1, WentApart
    <3> QED
      BY <1>a, <3>1, <3>3, LeftApart DEF NoCopy
  <2>3. CASE MarkAnswered(t)
    <3>1. /\ Saved(t, "idle") /\ Wrote(sess.stage, sess.winner, {r.leg}, "answered")
          /\ r.pc \in Chosen
      BY <2>3, HandlerWrites DEF MarkAnswered, Chosen
    <3> QED
      BY <1>a, <1>l, <3>1, SavedApart DEF Chosen
  <2>4. CASE Claim(t)
    <3> DEFINE x == BridgedBy(r.copy, winner)
    <3>0. r.pc = "claim" /\ r.pc \in Chosen /\ r.copy \in Session
      BY <2>4, Copies DEF Claim, Chosen, IInv
    <3>1. \/ Went(t, "mark", r.copy, r.leg) \/ Went(t, "idle", Gone, Caller)
          \/ winner \in Leg /\ Went(t, "paired", x, r.leg)
      BY <2>4, HandlerGoes
    <3>2. winner \in Leg => x.leg = r.copy.leg
      BY <3>0, BridgeWrites
    <3> HIDE DEF x
    <3>3. CASE Went(t, "mark", r.copy, r.leg)
      BY <1>a, <1>l, <3>0, <3>3, WentApart
    <3>4. CASE Went(t, "idle", Gone, Caller)
      BY <1>a, <3>4, LeftApart DEF NoCopy
    <3>5. CASE winner \in Leg /\ Went(t, "paired", x, r.leg)
      BY <1>a, <1>l, <3>0, <3>2, <3>5, WentApart
    <3> QED
      BY <3>1, <3>3, <3>4, <3>5
  <2>5. CASE MarkPaired(t)
    <3>1. PICK w \in Leg : Saved(t, "idle") /\ Wrote("bridged", w, {}, "ringing")
      BY <2>5, HandlerWrites
    <3> QED
      BY <1>a, <3>1, NoLegIsNoLeg, SavedApart DEF Chosen
  <2>6. CASE MarkBridged(t)
    <3>1. /\ Saved(t, "cancel") /\ Wrote("bridged", r.leg, {r.leg}, "answered")
          /\ r.leg \in Leg /\ r.pc \in Chosen
      BY <2>6, HandlerWrites DEF MarkBridged, Chosen
    <3> QED
      BY <1>a, <1>l, <3>1, NoLegIsNoLeg, SavedApart
  <2>7. CASE CancelRemaining(t)
    <3>1. /\ Went(t, "kept", q.copy, r.leg) /\ r.pc \in Chosen
          /\ Relegged(q.copy, r.copy, Losers(r.copy, r.leg), "cancelled")
      BY <2>7, HandlerGoes DEF CancelRemaining, Chosen
    <3>2. \A l \in Losers(r.copy, r.leg) : r.copy.leg[l] \notin Lost
      BY DEF Losers, RingingIn, Lost
    <3>3. \A l \in astray : Stranger(l) => q.copy.leg[l] \in Lost
      BY <1>l, <3>1, <3>2 DEF Relegged
    <3> QED
      BY <1>a, <1>l, <3>1, <3>3, WentApart
  <2>8. CASE SaveWon(t)
    <3>1. /\ Saved(t, "idle") /\ r.copy = sess'
          /\ Wrote(sess.stage, sess.winner, Losers(sess, r.leg), "cancelled")
      BY <2>8, HandlerWrites
    <3> QED
      BY <1>a, <1>l, <3>1, SavedApart DEF Chosen
  <2> QED
    BY <1>4, <2>1, <2>2, <2>3, <2>4, <2>5, <2>6, <2>7, <2>8 DEF Answer
<1>5. ASSUME NEW t \in Task, End(t) \/ Voicemail(t) PROVE G
  <2> DEFINE r == task[t]
             q == task'[t]
  <2>1. CASE \/ IgnoreHangup(t) \/ AbandonRing(t) \/ ClosingHangup(t) \/ ClearClaims(t)
             \/ SpeakPrompt(t) \/ RecordMessage(t)
    <3>1. PICK p \in {"idle", "clear", "delete"} : Went(t, p, Gone, Caller)
      BY <2>1, HandlerGoes
    <3> QED
      BY <1>a, <3>1, LeftApart DEF NoCopy
  <2>2. CASE RingingLegHangup(t)
    <3>1. Went(t, "ended", r.copy, r.leg) /\ Registered(r.copy, r.leg)
      BY <2>2, HandlerGoes DEF RingingLegHangup
    <3>2. \A l \in astray : Stranger(l) => r.leg # l
      BY <1>l, <3>1 DEF Registered, Lost
    <3> QED
      BY <1>a, <1>l, <3>1, <3>2, WentApart
  <2>3. CASE LoserHangup(t)
    <3>1. /\ Went(t, "loser", q.copy, r.leg) /\ Registered(r.copy, r.leg)
          /\ Relegged(q.copy, r.copy, {r.leg}, "cancelled")
      BY <2>3, HandlerGoes DEF LoserHangup
    <3>2. \A l \in astray : Stranger(l) => r.leg # l
      BY <1>l, <3>1 DEF Registered, Lost
    <3>3. \A l \in astray : Stranger(l) => q.copy.leg[l] \in Lost
      BY <1>l, <3>1, <3>2 DEF Relegged
    <3> QED
      BY <1>a, <3>1, <3>2, <3>3, WentApart
  <2>4. CASE LoserSave(t)
    <3>1. /\ Saved(t, "idle") /\ r.copy = sess'
          /\ Wrote(sess.stage, sess.winner, {r.leg}, "cancelled")
      BY <2>4, HandlerWrites
    <3> QED
      BY <1>a, <1>l, <3>1, SavedApart DEF Chosen
  <2>5. CASE LegEnded(t)
    <3>1. \/ Went(t, "idle", Gone, Caller)
          \/ Went(t, "noanswer", q.copy, r.leg) /\ Relegged(q.copy, r.copy, {r.leg}, "no-answer")
      BY <2>5, HandlerGoes
    <3>2. r.pc \in Chosen
      BY <2>5 DEF LegEnded, Chosen
    <3>3. CASE Went(t, "noanswer", q.copy, r.leg) /\ Relegged(q.copy, r.copy, {r.leg}, "no-answer")
      <4>1. \A l \in astray : Stranger(l) => q.copy.leg[l] \in Lost
        BY <1>l, <3>2, <3>3 DEF Relegged
      <4> QED
        BY <1>a, <1>l, <3>2, <3>3, <4>1, WentApart
    <3> QED
      BY <1>a, <3>1, <3>3, LeftApart DEF NoCopy
  <2>6. CASE NoAnswerSave(t)
    <3> DEFINE p == IF Unanswered(r.copy) THEN "route" ELSE "idle"
    <3>1. /\ Saved(t, p) /\ r.copy = sess'
          /\ Wrote(sess.stage, sess.winner, {r.leg}, "no-answer")
      BY <2>6, HandlerWrites
    <3>2. p \in {"route", "idle"}
      OBVIOUS
    <3> HIDE DEF p
    <3> QED
      BY <1>a, <1>l, <3>1, <3>2, SavedApart DEF Chosen
  <2>7. CASE DeleteSession(t)
    <3>1. Turns(t, Idle) /\ sess' = Gone
      BY <2>7, DeleteTurns
    <3>2. Turns(t, q) /\ q.pc = "idle" /\ q.copy = Gone
      BY <3>1, IdleIsATask DEF Turns
    <3>3. \A l \in astray : Gone.leg[l] \in Lost
      BY <1>0, GoneIsASession DEF Lost
    <3> QED
      BY <1>a, <3>1, <3>2, <3>3 DEF Apart, Aside, Chosen, WonOrGone
  <2>8. CASE RouteToVoicemail(t)
    <3>1. Went(t, "idle", Gone, Caller) \/ Went(t, "prompt", r.copy, r.leg)
      BY <2>8, HandlerGoes
    <3>2. CASE Went(t, "prompt", r.copy, r.leg)
      BY <1>a, <1>l, <3>2, WentApart DEF Chosen
    <3> QED
      BY <1>a, <3>1, <3>2, LeftApart DEF NoCopy
  <2>9. CASE PromptSave(t) \/ RecordSave(t)
    <3>1. PICK p \in {"speak", "message"} :
            Saved(t, p) /\ Wrote("voicemail", sess.winner, {}, "ringing")
      BY <2>9, HandlerWrites
    <3> QED
      BY <1>a, <3>1, SavedApart DEF Chosen
  <2> QED
    BY <1>5, <2>1, <2>2, <2>3, <2>4, <2>5, <2>6, <2>7, <2>8, <2>9 DEF End, Voicemail
<1>6. CASE UNCHANGED vars
  BY <1>6, <1>w DEF vars
<1> QED
  BY <1>1, <1>2, <1>3, <1>4, <1>5, <1>6 DEF Next, Take

\* Whom nobody has registered nobody registers.
LEMMA StrangersStay ==
  ASSUME IInv, NEW t \in Task, Apart(t), NEW l \in astray, Stranger(l) PROVE Stranger(l)'
<1>1. ASSUME NEW u \in Task \ {t} PROVE Aside(task'[u], l)
  BY DEF Apart, Turns, Same, Stranger, Aside
<1> QED
  BY <1>1 DEF Apart, Stranger

\* While its result is to come a leg is a stranger.
LEMMA DialledIsStranger ==
  ASSUME IInv, DialOK, NEW l \in Leg, Dialing(task[Dialer], l), task[Dialer].pc # "registered"
  PROVE  Stranger(l)
BY DEF DialOK, Fresh, Ignorant, Stranger, Aside, Lost

\* How a leg goes astray.
LEMMA NextStrays ==
  ASSUME IInv, LinesOK, DialOK, OrphanOK, [Next]_vars, NEW l \in astray', l \notin astray
  PROVE  caller => WonOrGone \/ Stranger(l)'
<1> USE DEF At
<1>1. CASE Dial
  <2>1. CASE RegisterCheck
    <3> DEFINE r == task[Dialer]
               q == task'[Dialer]
               taken == winner # NoLeg \/ HasWinner(r.copy)
               st == IF DialFailed(r.leg) THEN "failed" ELSE IF taken THEN "dropped" ELSE "ringing"
               ls == {r.leg} \cap {k \in Leg : Result(r.copy, r.leg, taken).leg[k] = "dropped"}
    <3>0. Dialer \in Task
      BY DEF Task
    <3>1. /\ Went(Dialer, "registered", q.copy, r.leg) /\ Relegged(q.copy, r.copy, {r.leg}, st)
          /\ HangUp(ls) /\ r.pc = "check"
          /\ task' = [task EXCEPT ![Dialer].pc = "registered", ![Dialer].copy = Result(r.copy, r.leg, taken)]
      BY <2>1, DialerGoes DEF RegisterCheck, Hold
    <3>2. q.copy = Result(r.copy, r.leg, taken)
      BY <3>0, <3>1 DEF IInv, TypeOK
    <3>3. ls \in SUBSET Leg /\ \A k \in ls : k = r.leg /\ q.copy.leg[k] = "dropped"
      BY <3>2
    <3> HIDE DEF ls, st, taken
    <3>4. l \in ls
      BY <3>1, <3>3, HangUpBringsDown DEF BringsDown
    <3>5. l = r.leg /\ l \in Leg /\ q.copy.leg[l] = "dropped"
      BY <3>3, <3>4
    <3>6. Stranger(l)
      BY <3>0, <3>1, <3>5, DialledIsStranger DEF Dialing, Leg
    <3>7. Turns(Dialer, q) /\ sess' = sess /\ q.pc = "registered"
      BY <3>1 DEF Went, Moves
    <3>8. \A u \in Task : Aside(task'[u], l)
      BY <3>0, <3>5, <3>6, <3>7 DEF Turns, Same, Stranger, Aside, Chosen, Lost
    <3> QED
      BY <3>6, <3>7, <3>8 DEF Stranger
  <2>2. ASSUME NEW k \in Leg, DialLeg(k) PROVE Stranger(l)'
    <3>1. l = k /\ task' = task /\ sess' = sess /\ task[Dialer].pc = "dialling"
      BY <2>2 DEF DialLeg
    <3>2. Stranger(l)
      BY <3>1, DialledIsStranger DEF Dialing
    <3> QED
      BY <3>1, <3>2 DEF Stranger
  <2> QED
    BY <1>1, <2>1, <2>2
       DEF Dial, StartRinging, DialsReturn, RegisterLoad, RegisterSave, Recount, RecountSave, carrier
<1>2. ASSUME NEW t \in Task, Answer(t) PROVE WonOrGone
  <2>1. CASE CancelRemaining(t)
    BY <2>1 DEF CancelRemaining, OrphanOK
  <2> QED
    BY <1>2, <2>1
       DEF Answer, AcceptSave, MarkConnecting, AnswerReload, MarkAnswered, Claim, MarkPaired,
           MarkBridged, SaveWon, carrier
<1>3. ASSUME NEW t \in Task, End(t) PROVE ~caller
  <2>1. CASE AbandonRing(t)
    <3>1. task[t].pc \notin NoCopy /\ task[t].kind = "hangup" /\ task[t].leg = Caller
      BY <2>1 DEF AbandonRing, NoCopy, IInv, Whole, Placed, EndPlace
    <3> QED
      BY <3>1 DEF LinesOK, Heard
  <2> QED
    BY <1>3, <2>1
       DEF End, IgnoreHangup, RingingLegHangup, LoserHangup, LoserSave, ClosingHangup, LegEnded,
           NoAnswerSave, ClearClaims, DeleteSession, carrier
<1>4. ASSUME World \/ UNCHANGED vars \/ \E t \in Task : Take(t) \/ Voicemail(t) PROVE FALSE
  BY <1>4
     DEF World, CallerHangsUp, PickUp, Bridge, LegEnds, Take, Begin, Voicemail, RouteToVoicemail,
         PromptSave, SpeakPrompt, RecordSave, RecordMessage, carrier, vars
<1> QED
  BY <1>1, <1>2, <1>3, <1>4 DEF Next

LEMMA NextOrphan ==
  IInv /\ IInv' /\ LinesOK /\ DialOK /\ CopiesFresh /\ OrphanOK /\ Grows /\ mishap' = {} /\ [Next]_vars
    => OrphanOK'
<1> SUFFICES ASSUME IInv, IInv', LinesOK, DialOK, CopiesFresh, OrphanOK, Grows, mishap' = {},
                    [Next]_vars
             PROVE  OrphanOK'
  OBVIOUS
<1>1. \A l \in astray' \ astray : caller => WonOrGone \/ Stranger(l)'
  BY NextStrays
<1>2. caller' => caller
  BY DEF Grows
<1>3. CASE task' = task /\ sess' = sess
  <2>1. WonOrGone' <=> WonOrGone
    BY <1>3 DEF WonOrGone
  <2>2. \A l \in astray : Stranger(l)' <=> Stranger(l)
    BY <1>3 DEF Stranger
  <2> QED
    BY <1>1, <1>2, <1>3, <2>1, <2>2 DEF OrphanOK
<1>4. ASSUME NEW t \in Task, Apart(t) PROVE OrphanOK'
  <2>1. WonOrGone => WonOrGone'
    BY <1>4 DEF Apart
  <2>2. \A l \in astray : Stranger(l) => Stranger(l)'
    BY <1>4, StrangersStay
  <2>3. \A u \in Task : task'[u].pc = "cancel" => WonOrGone'
    BY <1>4, <2>1 DEF OrphanOK, Apart, Turns, Same
  <2> QED
    BY <1>1, <1>2, <2>1, <2>2, <2>3 DEF OrphanOK
<1> QED
  BY <1>3, <1>4, NextApart

LEMMA InitOrphan == Init => OrphanOK
<1> SUFFICES ASSUME Init PROVE OrphanOK
  OBVIOUS
<1>1. /\ task[Dialer] = [Idle EXCEPT !.pc = "ring", !.copy = sess] /\ astray = {}
      /\ \A t \in Task \ {Dialer} : task[t] = Idle
  BY DEF Init, Task
<1>2. task[Dialer].pc = "ring" /\ \A t \in Task \ {Dialer} : task[t].pc = "idle"
  BY <1>1 DEF Idle
<1> QED
  BY <1>1, <1>2 DEF OrphanOK

\* Every leg is down but those that strayed in their dial.
AllDown == \A l \in Leg \ astray : line[l] \in {"failed", "ended"}
Quiet   == AllDown /\ (caller => \A l \in astray : Stranger(l))

Hush == Quiet => Quiet'

LEMMA NextHush ==
  ASSUME IInv, IInv', DialOK, CopiesFresh, Grows, mishap' = {}, [Next]_vars PROVE Hush
<1> SUFFICES ASSUME Quiet PROVE Quiet'
  BY DEF Hush
<1>1. AllDown' /\ astray' = astray /\ (caller' => caller)
  BY DEF Quiet, AllDown, Grows, IInv, TypeOK, Up
<1>2. CASE task' = task /\ sess' = sess
  BY <1>1, <1>2 DEF Quiet, Stranger
<1>3. ASSUME NEW t \in Task, Apart(t) PROVE Quiet'
  BY <1>1, <1>3, StrangersStay DEF Quiet
<1> QED
  BY <1>2, <1>3, NextApart

----------------------------------------------------------------------------
(***************************************************************************)
(* Up to the first mishap a call goes to voicemail after all its legs: the *)
(* lines are down, and nobody was served unless no end of a leg is still   *)
(* to be handled.                                                          *)
(***************************************************************************)
LegsOver == \A l \in Leg \ astray : <<"hangup", l>> \notin events /\ \A t \in Task : ~Handling(task[t], l)
Ended    == Quiet /\ (served \/ LegsOver)

\* The handler takes the call to voicemail, or has a session that went there.
Capturing(r) ==
  \/ r.copy.stage = "voicemail"
  \/ r.pc \in {"prompt", "speak", "record", "message"}
  \/ r.pc = "route" /\ ~Blocked(r.copy) /\ ~HasWinner(r.copy)

Capture == \/ sess.stage = "voicemail" \/ \E t \in Task : Capturing(task[t])
           \/ \E e \in events : e[1] = "spoken"

CaptureOK == Capture => Ended

LEMMA NextEnded == IInv /\ Grows /\ Hush /\ Tells /\ HandlesOnce /\ Ended => Ended'
<1> SUFFICES ASSUME IInv, Grows, Hush, Tells, HandlesOnce, Ended PROVE Ended'
  OBVIOUS
<1>1. Quiet'
  BY DEF Ended, Hush
<1>2. ASSUME LegsOver, NEW l \in Leg, l \notin astray'
      PROVE  <<"hangup", l>> \notin events' /\ \A t \in Task : ~Handling(task'[t], l)
  <2>0. l \in Leg \ astray
    BY <1>2 DEF Grows
  <2>1. <<"hangup", l>> \notin events'
    BY <1>2, <2>0 DEF LegsOver, Tells, Ended, Quiet, AllDown, Up
  <2>2. ASSUME NEW u \in Task, Handling(task'[u], l) PROVE FALSE
    <3>1. ~Handling(task[u], l) /\ <<"hangup", l>> \notin events
      BY <1>2, <2>0 DEF LegsOver
    <3>2. PICK t \in Task : Handles(t)
      BY <2>2, <3>1 DEF HandlesOnce
    <3>3. u # t
      BY <2>2, <3>1, <3>2 DEF Handles
    <3>4. Same(task'[u], task[u])
      BY <3>2, <3>3 DEF Handles, Turns
    <3> QED
      BY <2>2, <3>1, <3>4 DEF Same, Handling
  <2> QED
    BY <2>1, <2>2
<1>3. served => served'
  BY DEF Grows
<1>4. ASSUME LegsOver PROVE LegsOver'
  <2> SUFFICES ASSUME NEW l \in Leg, l \notin astray'
               PROVE  <<"hangup", l>> \notin events' /\ \A t \in Task : ~Handling(task'[t], l)
    BY DEF LegsOver
  <2> QED
    BY <1>2, <1>4
<1> QED
  BY <1>1, <1>3, <1>4 DEF Ended

\* Only the handler of the prompt brings the event of its end.
Says == \A e \in events' : e[1] = "spoken" => e \in events \/ \E t \in Task : task[t].pc = "speak"

LEMMA HangUpSays == ASSUME NEW ls, HangUp(ls) \/ Down(ls) PROVE Says
BY DEF HangUp, Down, Says

LEMMA NextSays == ASSUME [Next]_vars PROVE Says
<1>q. ASSUME events' = events PROVE Says
  BY <1>q DEF Says
<1>1. CASE Dial
  <2>1. CASE RegisterCheck
    BY <2>1, HangUpSays DEF RegisterCheck
  <2> QED
    BY <1>1, <1>q, <2>1
       DEF Dial, StartRinging, DialsReturn, RegisterLoad, RegisterSave, Recount, RecountSave, DialLeg
<1>2. CASE World
  <2>1. ASSUME NEW l \in Leg, LegEnds(l) PROVE Says
    BY <2>1, HangUpSays DEF LegEnds
  <2> QED
    BY <1>2, <2>1 DEF World, PickUp, Bridge, CallerHangsUp, Says
<1>3. ASSUME NEW t \in Task, Take(t) \/ Answer(t) PROVE Says
  <2>1. CASE CancelRemaining(t)
    BY <2>1, HangUpSays DEF CancelRemaining
  <2>2. CASE Take(t)
    BY <2>2 DEF Take, Begin, Says
  <2> QED
    BY <1>3, <1>q, <2>1, <2>2
       DEF Answer, AcceptSave, MarkConnecting, AnswerReload, MarkAnswered, Claim, MarkPaired, MarkBridged, SaveWon
<1>4. ASSUME NEW t \in Task, End(t) PROVE Says
  <2>1. CASE AbandonRing(t)
    BY <2>1, HangUpSays DEF AbandonRing
  <2> QED
    BY <1>4, <1>q, <2>1
       DEF End, IgnoreHangup, RingingLegHangup, LoserHangup, LoserSave, ClosingHangup, LegEnded,
           NoAnswerSave, ClearClaims, DeleteSession
<1>5. ASSUME NEW t \in Task, Voicemail(t) PROVE Says
  <2>1. CASE SpeakPrompt(t)
    BY <2>1 DEF SpeakPrompt, Says, At
  <2> QED
    BY <1>5, <1>q, <2>1 DEF Voicemail, RouteToVoicemail, PromptSave, RecordSave, RecordMessage
<1> QED
  BY <1>1, <1>2, <1>3, <1>4, <1>5, <1>q DEF Next, vars

\* Every leg is settled, and none answered.
LEMMA SettledIsEnded ==
  ASSUME IInv', LinesOK', HangupsOK', OrphanOK', ~WonOrGone',
         \A l \in Leg : sess'.leg[l] \in {"no-answer", "cancelled", "dropped", "failed"}
  PROVE  Ended'
<1>0. AllDown'
  BY DEF LinesOK, Sound, AllDown
<1>1. Quiet'
  BY <1>0 DEF Quiet, OrphanOK
<1>2. CASE \E l \in Leg : sess'.leg[l] \in {"cancelled", "dropped"}
  BY <1>1, <1>2 DEF LinesOK, Sound, Ended
<1>3. CASE \A l \in Leg : sess'.leg[l] \in {"no-answer", "failed"}
  <2> SUFFICES ASSUME NEW l \in Leg, l \notin astray'
               PROVE  <<"hangup", l>> \notin events' /\ \A t \in Task : ~Handling(task'[t], l)
    BY <1>1 DEF Ended, LegsOver
  <2>1. CASE sess'.leg[l] = "no-answer"
    BY <2>1 DEF HangupsOK
  <2>2. CASE sess'.leg[l] = "failed"
    <3>1. line'[l] = "failed" /\ l # Caller
      BY <2>2, NoLegIsNoLeg DEF LinesOK, Sound
    <3>2. ~Heard("hangup", l, line', caller', served')
      BY <3>1 DEF Heard
    <3>3. <<"hangup", l>> \notin events'
      <4>1. ASSUME <<"hangup", l>> \in events' PROVE FALSE
        <5>1. Heard(<<"hangup", l>>[1], <<"hangup", l>>[2], line', caller', served')
          BY <4>1 DEF LinesOK, OutsideOK
        <5> QED
          BY <3>2, <5>1
      <4> QED
        BY <4>1
    <3>4. ASSUME NEW t \in Task, Handling(task'[t], l) PROVE FALSE
      <4>1. task'[t].pc \notin NoCopy /\ task'[t].kind = "hangup" /\ task'[t].leg = l
        BY <3>4 DEF Handling, NoCopy, IInv, Whole, Placed, EndPlace
      <4> QED
        BY <3>2, <4>1 DEF LinesOK
    <3> QED
      BY <3>3, <3>4
  <2> QED
    BY <1>3, <2>1, <2>2
<1> QED
  BY <1>2, <1>3

\* Neither the step nor what was before it takes the call to voicemail.
LEMMA TurnKeepsCapture ==
  ASSUME ~Capture, Says, NEW t \in Task, Turns(t, task'[t]), ~Capturing(task'[t]),
         sess'.stage # "voicemail"
  PROVE  CaptureOK'
<1>1. \A u \in Task : ~Capturing(task[u]) /\ task[u].pc # "speak"
  BY DEF Capture, Capturing
<1>2. \A u \in Task : ~Capturing(task'[u])
  BY <1>1 DEF Turns, Same, Capturing
<1>3. \A e \in events' : e[1] # "spoken"
  BY <1>1 DEF Says, Capture
<1> QED
  BY <1>2, <1>3 DEF CaptureOK, Capture

LEMMA GoneIsNotCaptured ==
  ASSUME NEW r, r.copy.stage # "voicemail", r.pc \notin {"route", "prompt", "speak", "record", "message"}
  PROVE  ~Capturing(r)
BY DEF Capturing

LEMMA NextCapture ==
  IInv /\ LinesOK /\ DialOK /\ CopiesFresh /\ StagesOK /\ HangupsOK /\ CaptureOK
  /\ IInv' /\ LinesOK' /\ HangupsOK' /\ OrphanOK' /\ Grows /\ mishap' = {} /\ [Next]_vars
    => CaptureOK'
<1> USE DEF At
<1> SUFFICES ASSUME IInv, LinesOK, DialOK, CopiesFresh, StagesOK, HangupsOK, CaptureOK,
                    IInv', LinesOK', HangupsOK', OrphanOK', Grows, mishap' = {}, [Next]_vars
             PROVE  CaptureOK'
  OBVIOUS
<1>0. Tells /\ HandlesOnce /\ Says /\ Hush
  BY NextTells, NextHandles, NextSays, NextHush
<1>e. ASSUME Ended' PROVE CaptureOK'
  BY <1>e DEF CaptureOK
<1>f. CASE Ended
  BY <1>0, <1>e, <1>f, NextEnded
<1> SUFFICES ASSUME ~Capture PROVE CaptureOK'
  BY <1>f DEF CaptureOK
<1>a. /\ sess.stage # "voicemail" /\ \A e \in events : e[1] # "spoken"
      /\ \A t \in Task : /\ ~Capturing(task[t]) /\ task[t].copy.stage # "voicemail"
                         /\ task[t].pc \notin {"prompt", "speak", "record", "message"}
                         /\ task[t].pc = "route" => Blocked(task[t].copy) \/ HasWinner(task[t].copy)
  BY DEF Capture, Capturing
<1>g. Gone.stage # "voicemail"
  BY GoneIsASession
<1>m. ASSUME NEW t \in Task, NEW p, NEW s, NEW l, Went(t, p, s, l), s.stage # "voicemail",
             p \notin {"route", "prompt", "speak", "record", "message"}
      PROVE  CaptureOK'
  BY <1>0, <1>a, <1>m, GoneIsNotCaptured, TurnKeepsCapture DEF Went, Moves
<1>s. ASSUME NEW t \in Task, NEW p, Saved(t, p), p \notin {"route", "prompt", "speak", "record", "message"},
             sess'.stage # "voicemail"
      PROVE  CaptureOK'
  <2>1. Turns(t, task'[t]) /\ task'[t].pc = p /\ task'[t].copy \in {sess', Gone}
    BY <1>s DEF Saved
  <2> QED
    BY <1>0, <1>g, <1>s, <2>1, GoneIsNotCaptured, TurnKeepsCapture
<1>1. CASE Dial
  <2> DEFINE r == task[Dialer]
             q == task'[Dialer]
  <2>0. Dialer \in Task /\ r.copy.stage # "voicemail"
    BY <1>a DEF Task
  <2>1. CASE StartRinging
    <3>1. Saved(Dialer, "dialling") /\ sess'.stage = "ringing"
      BY <2>1, DialerWrites DEF Wrote
    <3> QED
      BY <1>s, <2>0, <3>1
  <2>2. CASE DialsReturn
    BY <1>m, <2>0, <2>2, DialerGoes
  <2>3. CASE RegisterLoad
    <3>1. AfterResult(r.leg + 1) \in {"register", "recount"}
      BY DEF AfterResult
    <3> QED
      BY <1>a, <1>m, <2>0, <2>3, <3>1, DialerGoes
  <2>4. CASE RegisterCheck
    <3>1. Went(Dialer, "registered", q.copy, r.leg) /\ q.copy.stage = r.copy.stage
      BY <2>4, DialerGoes DEF Relegged
    <3> QED
      BY <1>m, <2>0, <3>1
  <2>5. CASE RegisterSave
    <3> DEFINE p == AfterResult(r.leg)
    <3>1. p \in {"register", "recount"}
      BY DEF AfterResult
    <3>2. Saved(Dialer, p) /\ sess'.stage = sess.stage
      BY <2>5, DialerWrites DEF Wrote
    <3> HIDE DEF p
    <3> QED
      BY <1>a, <1>s, <2>0, <3>1, <3>2
  <2>6. CASE Recount
    BY <1>a, <1>g, <1>m, <2>0, <2>6, DialerGoes
  <2>7. CASE RecountSave
    <3> DEFINE p == IF RingingIn(r.copy) = {} THEN "route" ELSE "idle"
    <3>1. Saved(Dialer, p) /\ r.copy = sess /\ sess' = sess /\ r.pc = "resave"
      BY <2>7, DialerWrites DEF RecountSave
    <3>2. p = "idle" \/ (p = "route" /\ RingingIn(sess) = {})
      BY <3>1
    <3> HIDE DEF p
    <3>3. CASE p = "idle"
      BY <1>a, <1>s, <2>0, <3>1, <3>3
    <3>4. CASE p = "route" /\ RingingIn(sess) = {}
      <4>1. Turns(Dialer, q) /\ q.pc = "route" /\ q.copy = sess /\ sess.stage # "gone" /\ sess # Gone
        BY <3>1, <3>4 DEF Saved, NoCopy
      <4>2. CASE Capturing(q)
        <5>1. sess.stage \notin {"connecting", "bridged", "voicemail"}
          BY <1>a, <4>1, <4>2 DEF Capturing, Blocked, HasWinner
        <5>2. \A l \in Leg : sess.leg[l] \notin {"answered", "unknown", "ringing"}
          BY <2>0, <3>1, <3>4, <4>1, <5>1 DEF StagesOK, Staged, Late, Registering, Dialing, RingingIn
        <5>3. \A l \in Leg : sess'.leg[l] \in {"no-answer", "cancelled", "dropped", "failed"}
          BY <3>1, <5>2, Copies, <2>0 DEF IInv, Session, Statuses
        <5>4. ~WonOrGone'
          BY <3>1, <4>1, <4>2, <1>a DEF Capturing, HasWinner, WonOrGone
        <5> QED
          BY <1>e, <5>3, <5>4, SettledIsEnded
      <4>3. CASE ~Capturing(q)
        BY <1>0, <1>a, <2>0, <3>1, <4>1, <4>3, TurnKeepsCapture
      <4> QED
        BY <4>2, <4>3
    <3> QED
      BY <3>2, <3>3, <3>4
  <2>8. ASSUME NEW l \in Leg, DialLeg(l) PROVE CaptureOK'
    BY <1>a, <2>8 DEF DialLeg, CaptureOK, Capture
  <2> QED
    BY <1>1, <2>1, <2>2, <2>3, <2>4, <2>5, <2>6, <2>7, <2>8 DEF Dial
<1>2. CASE World
  <2>1. sess' = sess /\ task' = task
    BY <1>2 DEF World, CallerHangsUp, PickUp, Bridge, LegEnds
  <2> QED
    BY <1>0, <1>a, <2>1 DEF CaptureOK, Capture, Says
<1>3. ASSUME NEW t \in Task, NEW kind \in Kinds, NEW l \in Leg \cup {Caller}, Begin(t, kind, l)
      PROVE  CaptureOK'
  <2>1. CASE Went(t, "idle", Gone, Caller)
    BY <1>g, <1>m, <2>1
  <2>2. CASE Took(t, kind, l)
    <3>1. /\ Turns(t, task'[t]) /\ sess' = sess /\ task'[t].pc = StartOf(kind, sess)
          /\ task'[t].copy = sess /\ <<kind, l>> \in events
      BY <1>3, <2>2, BeginGoes DEF Took, Moves
    <3>2. <<kind, l>>[1] # "spoken"
      BY <1>a, <3>1
    <3>3. task'[t].pc \notin {"route", "prompt", "speak", "record", "message"}
      BY <3>1, <3>2 DEF StartOf, Kinds
    <3>4. ~Capturing(task'[t])
      BY <1>a, <3>1, <3>3, GoneIsNotCaptured
    <3> QED
      BY <1>0, <1>a, <3>1, <3>4, TurnKeepsCapture
  <2> QED
    BY <1>3, <2>1, <2>2, BeginGoes
<1>4. ASSUME NEW t \in Task, Answer(t) PROVE CaptureOK'
  <2> DEFINE r == task[t]
             q == task'[t]
  <2>0. r.copy.stage # "voicemail" /\ Loaded(r).stage # "voicemail" /\ r.copy \in Session
    BY <1>a, Copies DEF Loaded, IInv
  <2>1. CASE AcceptSave(t) \/ MarkConnecting(t) \/ MarkAnswered(t) \/ MarkPaired(t)
             \/ MarkBridged(t) \/ SaveWon(t)
    <3>1. PICK p \in {"idle", "reread", "cancel"} : Saved(t, p)
      BY <2>1, HandlerWrites
    <3>2. sess'.stage \in {"connecting", "bridged", sess.stage}
      BY <2>1, HandlerWrites DEF Wrote
    <3> QED
      BY <1>a, <1>s, <3>1, <3>2
  <2>2. CASE AnswerReload(t)
    <3> DEFINE p == IF task[t].kind = "answered" THEN "picked" ELSE "claim"
    <3>0. p \in {"picked", "claim"}
      OBVIOUS
    <3>1. Went(t, "idle", Gone, Caller) \/ Went(t, p, Loaded(task[t]), task[t].leg)
      BY <2>2, HandlerGoes
    <3> HIDE DEF p
    <3> QED
      BY <1>g, <1>m, <2>0, <3>0, <3>1
  <2>3. CASE Claim(t)
    <3> DEFINE x == BridgedBy(task[t].copy, winner)
    <3>1. \/ Went(t, "mark", r.copy, r.leg) \/ Went(t, "idle", Gone, Caller)
          \/ winner \in Leg /\ Went(t, "paired", x, r.leg)
      BY <2>3, HandlerGoes
    <3>2. winner \in Leg => x.stage = "bridged"
      BY <2>0, BridgeWrites
    <3> HIDE DEF x
    <3>3. CASE Went(t, "mark", r.copy, r.leg)
      BY <1>m, <2>0, <3>3
    <3>4. CASE Went(t, "idle", Gone, Caller)
      BY <1>g, <1>m, <3>4
    <3>5. CASE winner \in Leg /\ Went(t, "paired", x, r.leg)
      BY <1>m, <3>2, <3>5
    <3> QED
      BY <3>1, <3>3, <3>4, <3>5
  <2>4. CASE CancelRemaining(t)
    <3>1. Went(t, "kept", q.copy, r.leg) /\ q.copy.stage = r.copy.stage
      BY <2>4, HandlerGoes DEF Relegged
    <3> QED
      BY <1>m, <2>0, <3>1
  <2> QED
    BY <1>4, <2>1, <2>2, <2>3, <2>4 DEF Answer
<1>5. ASSUME NEW t \in Task, End(t) \/ Voicemail(t) PROVE CaptureOK'
  <2> DEFINE r == task[t]
             q == task'[t]
  <2>0. r.copy.stage # "voicemail" /\ r.copy \in Session
    BY <1>a, Copies DEF IInv
  <2>1. CASE \/ IgnoreHangup(t) \/ AbandonRing(t) \/ ClosingHangup(t) \/ ClearClaims(t)
             \/ SpeakPrompt(t) \/ RecordMessage(t)
    <3>1. PICK p \in {"idle", "clear", "delete"} : Went(t, p, Gone, Caller)
      BY <2>1, HandlerGoes
    <3> QED
      BY <1>g, <1>m, <3>1
  <2>2. CASE RingingLegHangup(t)
    <3>1. Went(t, "ended", r.copy, r.leg)
      BY <2>2, HandlerGoes
    <3> QED
      BY <1>m, <2>0, <3>1
  <2>3. CASE LoserHangup(t)
    <3>1. Went(t, "loser", q.copy, r.leg) /\ q.copy.stage = r.copy.stage
      BY <2>3, HandlerGoes DEF Relegged
    <3> QED
      BY <1>m, <2>0, <3>1
  <2>4. CASE LoserSave(t)
    <3>1. Saved(t, "idle") /\ sess'.stage = sess.stage
      BY <2>4, HandlerWrites DEF Wrote
    <3> QED
      BY <1>a, <1>s, <3>1
  <2>5. CASE LegEnded(t)
    <3>1. \/ Went(t, "idle", Gone, Caller)
          \/ Went(t, "noanswer", q.copy, r.leg) /\ q.copy.stage = r.copy.stage
      BY <2>5, HandlerGoes DEF Relegged
    <3> QED
      BY <1>g, <1>m, <2>0, <3>1
  <2>6. CASE NoAnswerSave(t)
    <3> DEFINE p == IF Unanswered(r.copy) THEN "route" ELSE "idle"
    <3>1. Saved(t, p) /\ r.copy = sess' /\ sess'.stage = sess.stage /\ r.pc = "noanswer"
      BY <2>6, HandlerWrites DEF NoAnswerSave, Wrote
    <3>2. p = "idle" \/ (p = "route" /\ Unanswered(sess'))
      BY <3>1
    <3> HIDE DEF p
    <3>3. CASE p = "idle"
      BY <1>a, <1>s, <3>1, <3>3
    <3>4. CASE p = "route" /\ Unanswered(sess')
      <4>1. \A l \in Leg : sess'.leg[l] \notin {"unknown", "dropped"}
        BY <3>1 DEF StagesOK, StagedAt, Tracked
      <4>2. \A l \in Leg : sess'.leg[l] \notin {"answered", "ringing"}
        BY <3>4 DEF Unanswered, AnyAnswered, Settled, RingingIn
      <4>3. \A l \in Leg : sess'.leg[l] \in {"no-answer", "cancelled", "dropped", "failed"}
        BY <2>0, <3>1, <4>1, <4>2 DEF Session, Statuses
      <4>4. ~WonOrGone'
        BY <3>1, <3>4, GoneIsASession DEF Unanswered, AnyAnswered, WonOrGone, Saved
      <4> QED
        BY <1>e, <4>3, <4>4, SettledIsEnded
    <3> QED
      BY <3>2, <3>3, <3>4
  <2>7. CASE DeleteSession(t)
    <3>1. Turns(t, Idle) /\ sess' = Gone
      BY <2>7, DeleteTurns
    <3>2. Turns(t, q) /\ q.pc = "idle" /\ q.copy = Gone
      BY <3>1, IdleIsATask DEF Turns
    <3> QED
      BY <1>0, <1>g, <3>1, <3>2, GoneIsNotCaptured, TurnKeepsCapture
  <2>8. CASE RouteToVoicemail(t)
    <3>1. Blocked(r.copy) \/ Active(r.copy)
      BY <1>a, <2>8 DEF RouteToVoicemail, Active
    <3>2. Went(t, "idle", Gone, Caller)
      BY <2>8, <3>1, HandlerGoes
    <3> QED
      BY <1>g, <1>m, <3>2
  <2>9. ~PromptSave(t) /\ ~RecordSave(t)
    BY <1>a DEF PromptSave, RecordSave
  <2> QED
    BY <1>5, <2>1, <2>2, <2>3, <2>4, <2>5, <2>6, <2>7, <2>8, <2>9 DEF End, Voicemail
<1>6. CASE UNCHANGED vars
  BY <1>6, <1>a DEF vars, CaptureOK, Capture
<1> QED
  BY <1>1, <1>2, <1>3, <1>4, <1>5, <1>6 DEF Next, Take

LEMMA InitCapture == Init => CaptureOK
<1> SUFFICES ASSUME Init PROVE ~Capture
  BY DEF CaptureOK
<1>1. /\ task[Dialer] = [Idle EXCEPT !.pc = "ring", !.copy = sess] /\ events = {}
      /\ \A t \in Task \ {Dialer} : task[t] = Idle
      /\ sess.stage = "connect"
  BY DEF Init, Task, Gone
<1>2. task[Dialer].pc = "ring" /\ task[Dialer].copy = sess
  BY <1>1 DEF Idle
<1> QED
  BY <1>1, <1>2, IdleIsATask, GoneIsASession DEF Capture, Capturing

----------------------------------------------------------------------------
(***************************************************************************)
(* Up to the first mishap the claim belongs to the leg whose handler marks *)
(* it, or it was dropped for a call that is over; a call that is taken     *)
(* rings on only until that handler has cancelled the others.              *)
(***************************************************************************)
ClaimAt(t) ==
  LET r == task[t] IN
  /\ r.pc = "hangup" /\ r.copy.winner # NoLeg => WonOrGone
  /\ r.pc \in {"clear", "delete"} /\ caller => WonOrGone \/ Quiet
  /\ r.pc \in {"mark", "cancel"} /\ caller =>
       winner = r.leg \/ (winner = NoLeg /\ WonOrGone) \/ Quiet

ClaimsOK == \A t \in Task : ClaimAt(t)

\* Its handler is to mark the call as taken, or to hang up l.
Cancelling(l) ==
  \E t \in Task : \/ task[t].pc = "mark"
                  \/ task[t].pc = "cancel" /\ l \in Losers(task[t].copy, task[t].leg)

\* A leg that is registered as ringing found no winner.
RingsFor(r) == r.pc = "registered" /\ r.copy.leg[r.leg] = "ringing" => r.copy.winner = NoLeg

TakenOK ==
  /\ (winner # NoLeg \/ \E t \in Task : task[t].pc = "paired") =>
       WonOrGone \/ \E t \in Task : task[t].pc = "mark"
  /\ RingsFor(task[Dialer])
  /\ sess.winner # NoLeg => \A l \in Leg \ astray : line[l] \in {"idle", "ringing"} =>
       Dialing(task[Dialer], l) \/ Cancelling(l)

StillDialling ==
  \A l \in Leg : Dialing(task[Dialer], l) =>
    Dialing(task'[Dialer], l) \/ sess'.winner = NoLeg \/ line'[l] \notin {"idle", "ringing"}
                              \/ l \in astray'

LEMMA HandlerStillDials ==
  ASSUME NEW t \in Task, Turns(t, task'[t]), task[t].pc \notin DialerPlace
  PROVE  StillDialling
<1>1. CASE t = Dialer
  BY <1>1 DEF StillDialling, Dialing, DialerPlace
<1>2. CASE t # Dialer
  <2>1. Same(task'[Dialer], task[Dialer])
    BY <1>2 DEF Turns, Task
  <2> QED
    BY <2>1 DEF StillDialling, Dialing, Same
<1> QED
  BY <1>1, <1>2

LEMMA TurnKeepsClaims ==
  ASSUME IInv, ClaimsOK, Grows, Hush, NEW t \in Task, Turns(t, task'[t]), ClaimAt(t)',
         WonOrGone => WonOrGone',
         \/ winner' = winner
         \/ winner' = NoLeg /\ (caller => WonOrGone \/ Quiet)
         \/ winner = NoLeg /\ ~WonOrGone
  PROVE  ClaimsOK'
<1> SUFFICES ASSUME NEW u \in Task, u # t PROVE ClaimAt(u)'
  BY DEF ClaimsOK
<1>1. /\ task'[u].pc = task[u].pc /\ task'[u].leg = task[u].leg /\ task'[u].copy = task[u].copy
      /\ ClaimAt(u)
  BY DEF Turns, Same, ClaimsOK
<1>2. /\ caller' => caller
      /\ Quiet => Quiet'
  BY DEF Hush, Grows
<1>3. task[u].pc \in {"mark", "cancel"} => task[u].leg # NoLeg
  BY NoLegIsNoLeg DEF IInv, Whole, Placed, AnswerPlace
<1>4. task'[u].pc = "hangup" /\ task'[u].copy.winner # NoLeg => WonOrGone'
  BY <1>1 DEF ClaimAt
<1>5. task'[u].pc \in {"clear", "delete"} /\ caller' => WonOrGone' \/ Quiet'
  BY <1>1, <1>2 DEF ClaimAt
<1>6. ASSUME task'[u].pc \in {"mark", "cancel"}, caller'
      PROVE  winner' = task'[u].leg \/ (winner' = NoLeg /\ WonOrGone') \/ Quiet'
  <2>1. winner = task[u].leg \/ (winner = NoLeg /\ WonOrGone) \/ Quiet
    BY <1>1, <1>2, <1>6 DEF ClaimAt
  <2> QED
    BY <1>1, <1>2, <1>3, <1>6, <2>1
<1> QED
  BY <1>4, <1>5, <1>6 DEF ClaimAt

LEMMA TurnKeepsTaken ==
  ASSUME IInv, TakenOK, Grows, NEW t \in Task, Turns(t, task'[t]), StillDialling,
         task[t].pc \notin {"mark", "cancel"},
         t = Dialer => RingsFor(task'[Dialer]),
         WonOrGone => WonOrGone',
         winner' # NoLeg => winner # NoLeg \/ task'[t].pc = "mark",
         task'[t].pc = "paired" => winner # NoLeg \/ task[t].pc = "paired",
         sess'.winner # NoLeg => sess.winner # NoLeg \/ \E u \in Task : task[u].pc = "mark"
  PROVE  TakenOK'
<1>1. \A u \in Task \ {t} : /\ task'[u].pc = task[u].pc /\ task'[u].leg = task[u].leg
                            /\ task'[u].copy = task[u].copy
  BY DEF Turns, Same
<1>2. ASSUME winner' # NoLeg \/ \E u \in Task : task'[u].pc = "paired"
      PROVE  WonOrGone' \/ \E u \in Task : task'[u].pc = "mark"
  <2>1. CASE task'[t].pc = "mark"
    BY <2>1
  <2>2. CASE winner # NoLeg \/ \E u \in Task : task[u].pc = "paired"
    <3>1. WonOrGone \/ \E u \in Task : task[u].pc = "mark"
      BY <2>2 DEF TakenOK
    <3> QED
      BY <1>1, <3>1
  <2> QED
    BY <1>1, <1>2, <2>1, <2>2
<1>3. RingsFor(task'[Dialer])
  <2>1. CASE t # Dialer
    BY <1>1, <2>1 DEF TakenOK, RingsFor, Task
  <2> QED
    BY <2>1
<1>4. ASSUME sess'.winner # NoLeg, NEW l \in Leg, l \notin astray', line'[l] \in {"idle", "ringing"}
      PROVE  Dialing(task'[Dialer], l) \/ Cancelling(l)'
  <2>1. line[l] \in {"idle", "ringing"} /\ l \notin astray
    BY <1>4 DEF Grows, IInv, TypeOK, PickedUp
  <2>2. Cancelling(l) => Cancelling(l)'
    BY <1>1 DEF Cancelling
  <2>3. CASE \E u \in Task : task[u].pc = "mark"
    BY <2>2, <2>3 DEF Cancelling
  <2>4. CASE sess.winner # NoLeg
    <3>1. Dialing(task[Dialer], l) \/ Cancelling(l)
      BY <2>1, <2>4 DEF TakenOK
    <3> QED
      BY <1>4, <2>2, <3>1 DEF StillDialling
  <2> QED
    BY <1>4, <2>3, <2>4
<1> QED
  BY <1>2, <1>3, <1>4 DEF TakenOK

WinOK == ClaimsOK /\ TakenOK

\* A step that starts or ends no claim.
LEMMA PassKeepsWin ==
  ASSUME IInv, WinOK, Grows, Hush, NEW t \in Task, Turns(t, task'[t]), StillDialling,
         task[t].pc \notin {"mark", "cancel"}, winner' = winner,
         task'[t].pc \notin {"hangup", "clear", "delete", "mark", "cancel", "paired"},
         t = Dialer => RingsFor(task'[Dialer]),
         WonOrGone => WonOrGone', sess'.winner # NoLeg => sess.winner # NoLeg
  PROVE  WinOK'
<1>1. ClaimAt(t)'
  BY DEF ClaimAt
<1> QED
  BY <1>1, TurnKeepsClaims, TurnKeepsTaken DEF WinOK

LEMMA WroteWon ==
  ASSUME NEW t, NEW p, Saved(t, p), NEW stage, NEW ls, NEW st, Wrote(stage, sess.winner, ls, st)
  PROVE  /\ sess'.winner = sess.winner /\ winner' = winner /\ Turns(t, task'[t])
         /\ WonOrGone => WonOrGone'
BY DEF Saved, Wrote, WonOrGone

LEMMA DialKeepsWin ==
  ASSUME IInv, IInv', LinesOK, LinesOK', DialOK, CopiesFresh, WinOK, Grows, Hush, mishap' = {}, Dial
  PROVE  WinOK'
<1> USE DEF At
<1> DEFINE r == task[Dialer]
           q == task'[Dialer]
<1>0. /\ Dialer \in Task /\ r.leg \in Nat /\ Leg \subseteq Nat /\ Placed(Dialer, r)
      /\ r.pc \notin {"mark", "cancel"} /\ RingsFor(r)
  BY Copies DEF Task, IInv, Whole, Leg, Caller, Placed, DialerPlace, WinOK, TakenOK
<1>m. ASSUME Moves(Dialer, q), winner' = winner, q.pc \in DialerPlace \cup {"idle"},
             q.pc # "registered", StillDialling
      PROVE  WinOK'
  <2>1. RingsFor(q) /\ Turns(Dialer, q) /\ sess' = sess
    BY <1>m DEF RingsFor, Moves
  <2> QED
    BY <1>0, <1>m, <2>1, PassKeepsWin DEF DialerPlace, WonOrGone
<1>1. CASE StartRinging
  <2>1. Saved(Dialer, "dialling") /\ Wrote("ringing", sess.winner, {}, "ringing")
    BY <1>1, DialerWrites
  <2>2. q.pc = "dialling"
    BY <2>1 DEF Saved
  <2>3. StillDialling /\ RingsFor(q)
    BY <2>2 DEF StillDialling, Dialing, RingsFor
  <2> QED
    BY <1>0, <2>1, <2>2, <2>3, WroteWon, PassKeepsWin
<1>2. CASE DialsReturn
  <2>1. Moves(Dialer, q) /\ q.pc = "register" /\ q.leg = r.leg /\ r.pc = "dialling" /\ winner' = winner
    BY <1>2, DialerGoes DEF DialsReturn, Went
  <2>2. r.leg = 0 /\ \A l \in Leg : 0 < l
    BY <1>0, <2>1 DEF Placed, Caller, Leg
  <2>3. StillDialling
    BY <2>1, <2>2 DEF StillDialling, Dialing
  <2> QED
    BY <1>m, <2>1, <2>3 DEF DialerPlace
<1>3. CASE RegisterLoad
  <2>0. winner' = winner /\ r.pc = "register"
    BY <1>3 DEF RegisterLoad
  <2>1. CASE sess = Gone
    <3>1. Moves(Dialer, q) /\ q.pc \in {"register", "recount"} /\ sess' = Gone
      BY <1>3, <2>1, DialerGoes DEF Went, AfterResult, Moves
    <3>2. StillDialling
      BY <3>1, GoneIsASession DEF StillDialling
    <3> QED
      BY <1>m, <2>0, <3>1, <3>2 DEF DialerPlace
  <2>2. CASE sess # Gone
    <3>1. Moves(Dialer, q) /\ q.pc = "check" /\ q.leg = r.leg + 1
      BY <1>3, <2>2, DialerGoes DEF Went
    <3>2. \A l \in Leg : r.leg < l => r.leg + 1 <= l
      BY <1>0
    <3>3. StillDialling
      BY <2>0, <3>1, <3>2 DEF StillDialling, Dialing
    <3> QED
      BY <1>m, <2>0, <3>1, <3>3 DEF DialerPlace
  <2> QED
    BY <2>1, <2>2
<1>4. CASE RegisterCheck
  <2> DEFINE st == IF DialFailed(r.leg) THEN "failed"
                   ELSE IF winner # NoLeg \/ HasWinner(r.copy) THEN "dropped" ELSE "ringing"
  <2>1. /\ Moves(Dialer, q) /\ q.pc = "registered" /\ q.leg = r.leg /\ r.pc = "check"
        /\ Relegged(q.copy, r.copy, {r.leg}, st) /\ winner' = winner /\ r.leg \in Leg
    BY <1>0, <1>4, DialerGoes DEF RegisterCheck, Went, Placed
  <2>2. RingsFor(q)
    BY <2>1 DEF RingsFor, Relegged, HasWinner
  <2>3. StillDialling /\ Turns(Dialer, q) /\ sess' = sess
    BY <2>1 DEF StillDialling, Dialing, Moves
  <2> QED
    BY <1>0, <2>1, <2>2, <2>3, PassKeepsWin DEF WonOrGone
<1>5. CASE RegisterSave
  <2> DEFINE p == AfterResult(r.leg)
  <2>1. PICK st \in {"ringing", "failed", "dropped"} :
          /\ Saved(Dialer, p) /\ r.copy = sess' /\ r.pc = "registered"
          /\ Wrote(sess.stage, sess.winner, {r.leg}, st)
    BY <1>5, DialerWrites DEF RegisterSave
  <2>2. q.pc = p /\ p \in {"register", "recount"} /\ q.leg = r.leg /\ r.leg \in Leg
    BY <1>0, <2>1 DEF Saved, NoCopy, AfterResult, Placed
  <2>3. sess'.leg[r.leg] = "ringing" => sess'.winner = NoLeg
    BY <1>0, <2>1 DEF RingsFor
  <2>4. sess'.leg[r.leg] \in {"failed", "dropped"} =>
          line'[r.leg] \in {"failed", "ended"} \/ r.leg \in astray'
    BY <2>2 DEF LinesOK, Sound
  <2>5. sess'.leg[r.leg] = st
    BY <2>1, <2>2 DEF Wrote
  <2>6. ASSUME NEW l \in Leg, Dialing(r, l), l # r.leg PROVE Dialing(q, l)
    <3>1. r.leg < l
      BY <1>0, <2>1, <2>6 DEF Dialing
    <3>2. p = "register"
      BY <1>0, <3>1, RingAssumption DEF AfterResult, Leg
    <3> QED
      BY <2>2, <3>1, <3>2 DEF Dialing
  <2>7. StillDialling
    BY <2>3, <2>4, <2>5, <2>6 DEF StillDialling
  <2>8. RingsFor(q)
    BY <2>2 DEF RingsFor
  <2> HIDE DEF p
  <2> QED
    BY <1>0, <2>1, <2>2, <2>7, <2>8, WroteWon, PassKeepsWin
<1>6. CASE Recount
  <2>1. /\ Moves(Dialer, q) /\ q.pc \in {"idle", "resave"} /\ r.pc = "recount" /\ winner' = winner
    BY <1>6, DialerGoes DEF Went, Recount
  <2>2. StillDialling
    BY <2>1 DEF StillDialling, Dialing
  <2> QED
    BY <1>m, <2>1, <2>2 DEF DialerPlace
<1>7. CASE RecountSave
  <2> DEFINE p == IF RingingIn(r.copy) = {} THEN "route" ELSE "idle"
  <2>1. Saved(Dialer, p) /\ sess' = sess /\ r.pc = "resave"
    BY <1>7, DialerWrites DEF RecountSave
  <2>2. p \in {"route", "idle"}
    OBVIOUS
  <2> HIDE DEF p
  <2>3. Turns(Dialer, q) /\ q.pc \in {"route", "idle"} /\ winner' = winner
    BY <2>1, <2>2 DEF Saved
  <2>4. StillDialling /\ RingsFor(q)
    BY <2>1, <2>3 DEF StillDialling, Dialing, RingsFor
  <2> QED
    BY <1>0, <2>1, <2>3, <2>4, PassKeepsWin DEF WonOrGone
<1>8. ASSUME NEW l \in Leg, DialLeg(l) PROVE WinOK'
  <2>1. Moves(Dialer, q) /\ q = r /\ winner' = winner /\ sess' = sess /\ r.pc = "dialling"
    BY <1>0, <1>8, Tasks DEF DialLeg, Moves, Turns, Same, IInv
  <2>2. StillDialling
    BY <2>1 DEF StillDialling, Dialing
  <2> QED
    BY <1>m, <2>1, <2>2 DEF DialerPlace
<1> QED
  BY <1>1, <1>2, <1>3, <1>4, <1>5, <1>6, <1>7, <1>8 DEF Dial

LEMMA WorldKeepsWin ==
  ASSUME IInv, WinOK, Grows, Hush, task' = task, sess' = sess, winner' = winner PROVE WinOK'
<1> DEFINE r == task[Dialer]
<1>0. /\ Dialer \in Task /\ Turns(Dialer, task'[Dialer])
  BY Tasks DEF Task, IInv, Turns, Same
<1>1. /\ r.pc \notin {"hangup", "clear", "delete", "mark", "cancel", "paired"}
      /\ RingsFor(r) /\ StillDialling
  BY <1>0 DEF IInv, Whole, Placed, DialerPlace, WinOK, TakenOK, StillDialling
<1> QED
  BY <1>0, <1>1, PassKeepsWin DEF WonOrGone

LEMMA AnswerKeepsWin ==
  ASSUME IInv, IInv', LinesOK, DialOK, CopiesFresh, StagesOK, WinOK, Grows, Hush, mishap' = {},
         NEW t \in Task, Take(t) \/ Answer(t)
  PROVE  WinOK'
<1> USE DEF At
<1> DEFINE r == task[t]
           q == task'[t]
<1>0. /\ Placed(t, r) /\ r.copy \in Session
      /\ r.pc \in AnswerPlace \cup {"accept", "idle"} => r.pc \notin DialerPlace
  BY Copies DEF IInv, Whole, AnswerPlace, DialerPlace
<1>d. ASSUME r.pc \notin DialerPlace, Turns(t, q), t # Dialer \/ q.pc # "registered"
      PROVE  StillDialling /\ (t = Dialer => RingsFor(task'[Dialer]))
  BY <1>d, HandlerStillDials DEF RingsFor
<1>m. ASSUME NEW p, NEW s, NEW l, Went(t, p, s, l), winner' = winner,
             r.pc \in AnswerPlace \cup {"accept", "idle"}, r.pc \notin {"mark", "cancel"},
             p \notin {"hangup", "clear", "delete", "mark", "cancel", "registered", "paired"}
      PROVE  WinOK'
  <2>1. Turns(t, q) /\ sess' = sess /\ q.pc = p
    BY <1>m DEF Went, Moves
  <2> QED
    BY <1>0, <1>d, <1>m, <2>1, PassKeepsWin DEF WonOrGone
<1>s. ASSUME NEW p \in {"idle", "reread"}, Saved(t, p), r.pc \in AnswerPlace \cup {"accept"},
             r.pc \notin {"mark", "cancel"},
             NEW stage, NEW ls, NEW st, Wrote(stage, sess.winner, ls, st)
      PROVE  WinOK'
  <2>1. Turns(t, q) /\ q.pc = p
    BY <1>s DEF Saved
  <2>2. sess'.winner = sess.winner /\ winner' = winner /\ (WonOrGone => WonOrGone')
    BY <1>s, WroteWon
  <2> QED
    BY <1>0, <1>d, <1>s, <2>1, <2>2, PassKeepsWin
<1>1. ASSUME NEW kind \in Kinds, NEW l \in Leg \cup {Caller}, Begin(t, kind, l) PROVE WinOK'
  <2>1. r.pc = "idle" /\ winner' = winner
    BY <1>1, BeginGoes
  <2>2. CASE Went(t, "idle", Gone, Caller)
    BY <1>m, <2>1, <2>2
  <2>3. CASE Took(t, kind, l)
    <3>1. /\ Turns(t, q) /\ sess' = sess /\ q.pc = StartOf(kind, sess) /\ q.copy = sess
      BY <2>3 DEF Took, Moves
    <3>2. q.pc \in {"accept", "hangup", "record", "connecting", "reread"}
      BY <3>1 DEF StartOf, Kinds
    <3>3. ClaimAt(t)' /\ (WonOrGone => WonOrGone')
      BY <3>1, <3>2 DEF ClaimAt, WonOrGone
    <3>4. StillDialling /\ (t = Dialer => RingsFor(task'[Dialer]))
      BY <1>0, <1>d, <2>1, <3>1, <3>2
    <3>5. ClaimsOK'
      BY <2>1, <3>1, <3>3, TurnKeepsClaims DEF WinOK
    <3>6. TakenOK'
      BY <2>1, <3>1, <3>2, <3>3, <3>4, TurnKeepsTaken DEF WinOK
    <3> QED
      BY <3>5, <3>6 DEF WinOK
  <2> QED
    BY <1>1, <2>2, <2>3, BeginGoes
<1>2. CASE AcceptSave(t) \/ MarkConnecting(t) \/ MarkAnswered(t)
  <2>1. \/ \E p \in {"idle", "reread"} : Saved(t, p) /\ Wrote("connecting", sess.winner, {}, "ringing")
        \/ Saved(t, "idle") /\ Wrote(sess.stage, sess.winner, {r.leg}, "answered")
    BY <1>2, HandlerWrites
  <2>2. r.pc \in AnswerPlace \cup {"accept"} /\ r.pc \notin {"mark", "cancel"}
    BY <1>2 DEF AcceptSave, MarkConnecting, MarkAnswered, AnswerPlace
  <2> QED
    BY <1>s, <2>1, <2>2
<1>3. CASE AnswerReload(t)
  <2> DEFINE p == IF task[t].kind = "answered" THEN "picked" ELSE "claim"
  <2>0. p \in {"picked", "claim"} /\ r.pc = "reread" /\ winner' = winner
    BY <1>3 DEF AnswerReload
  <2>1. Went(t, "idle", Gone, Caller) \/ Went(t, p, Loaded(r), r.leg)
    BY <1>3, HandlerGoes
  <2> HIDE DEF p
  <2> QED
    BY <1>m, <2>0, <2>1 DEF AnswerPlace
<1>4. CASE Claim(t)
  <2>0. r.pc = "claim" /\ r.leg \in Leg /\ sess' = sess /\ r.leg # NoLeg
    BY <1>0, <1>4, NoLegIsNoLeg DEF Claim, Placed, AnswerPlace
  <2>1. CASE winner = NoLeg
    <3>1. Turns(t, q) /\ q.pc = "mark" /\ q.leg = r.leg
      BY <1>4, <2>1, HandlerGoes DEF Went, Moves
    <3>2. winner' = r.leg /\ ~WonOrGone
      BY <1>4, <2>1 DEF Claim, WonOrGone
    <3>3. ClaimAt(t)'
      BY <3>1, <3>2 DEF ClaimAt
    <3>4. StillDialling /\ (t = Dialer => RingsFor(task'[Dialer]))
      BY <1>0, <1>d, <2>0, <3>1 DEF AnswerPlace
    <3>5. ClaimsOK'
      BY <2>1, <3>1, <3>2, <3>3, TurnKeepsClaims DEF WinOK
    <3>6. TakenOK'
      BY <2>0, <3>1, <3>2, <3>4, TurnKeepsTaken DEF WinOK
    <3> QED
      BY <3>5, <3>6 DEF WinOK
  <2>2. CASE winner # NoLeg
    <3>0. winner' = winner
      BY <1>4, <2>2 DEF Claim
    <3> DEFINE x == BridgedBy(r.copy, winner)
    <3>1. Went(t, "idle", Gone, Caller) \/ Went(t, "paired", x, r.leg)
      BY <1>4, <2>2, HandlerGoes
    <3> HIDE DEF x
    <3>2. CASE Went(t, "idle", Gone, Caller)
      BY <1>m, <2>0, <3>0, <3>2 DEF AnswerPlace
    <3>3. CASE Went(t, "paired", x, r.leg)
      <4>1. Turns(t, q) /\ q.pc = "paired"
        BY <3>3 DEF Went, Moves
      <4>2. ClaimAt(t)' /\ (WonOrGone => WonOrGone')
        BY <2>0, <4>1 DEF ClaimAt, WonOrGone
      <4>3. StillDialling /\ (t = Dialer => RingsFor(task'[Dialer]))
        BY <1>0, <1>d, <2>0, <4>1 DEF AnswerPlace
      <4>4. ClaimsOK'
        BY <3>0, <4>1, <4>2, TurnKeepsClaims DEF WinOK
      <4>5. TakenOK'
        BY <2>0, <2>2, <3>0, <4>1, <4>2, <4>3, TurnKeepsTaken DEF WinOK
      <4> QED
        BY <4>4, <4>5 DEF WinOK
    <3> QED
      BY <3>1, <3>2, <3>3
  <2> QED
    BY <2>1, <2>2
<1>5. CASE MarkPaired(t)
  <2>1. PICK w \in Leg : Saved(t, "idle") /\ r.pc = "paired" /\ Wrote("bridged", w, {}, "ringing")
    BY <1>5, HandlerWrites DEF MarkPaired
  <2>2. Turns(t, q) /\ q.pc = "idle" /\ sess # Gone /\ winner' = winner /\ sess'.winner = w
    BY <2>1 DEF Saved, Wrote
  <2>3. sess.winner # NoLeg \/ \E u \in Task : task[u].pc = "mark"
    BY <2>1, <2>2 DEF WinOK, TakenOK, WonOrGone
  <2>4. ClaimAt(t)' /\ WonOrGone'
    BY <2>2, NoLegIsNoLeg DEF ClaimAt, WonOrGone
  <2>5. StillDialling /\ (t = Dialer => RingsFor(task'[Dialer]))
    BY <1>0, <1>d, <2>1, <2>2 DEF AnswerPlace
  <2>6. ClaimsOK'
    BY <2>2, <2>4, TurnKeepsClaims DEF WinOK
  <2>7. TakenOK'
    BY <2>1, <2>2, <2>3, <2>4, <2>5, TurnKeepsTaken DEF WinOK
  <2> QED
    BY <2>6, <2>7 DEF WinOK
<1>6. CASE MarkBridged(t)
  <2>1. /\ Saved(t, "cancel") /\ r.pc = "mark" /\ r.leg \in Leg
        /\ Wrote("bridged", r.leg, {r.leg}, "answered")
    BY <1>6, HandlerWrites DEF MarkBridged
  <2>2. /\ Turns(t, q) /\ q.pc = "cancel" /\ q.leg = r.leg /\ q.copy = sess' /\ sess # Gone
        /\ winner' = winner /\ sess'.winner = r.leg /\ line' = line
        /\ \A l \in Leg \ {r.leg} : sess'.leg[l] = sess.leg[l]
    BY <2>1 DEF Saved, Wrote, NoCopy
  <2>3. WonOrGone'
    BY <2>1, <2>2, NoLegIsNoLeg DEF WonOrGone
  <2>4. ClaimAt(t)'
    <3>1. caller => winner = r.leg \/ (winner = NoLeg /\ WonOrGone) \/ Quiet
      BY <2>1 DEF WinOK, ClaimsOK, ClaimAt
    <3>2. caller' => caller
      BY DEF Grows
    <3> QED
      BY <2>2, <2>3, <3>1, <3>2 DEF Hush, ClaimAt
  <2>5. ClaimsOK'
    BY <2>2, <2>3, <2>4, TurnKeepsClaims DEF WinOK
  <2>6. StillDialling /\ (t = Dialer => RingsFor(task'[Dialer]))
    BY <1>0, <1>d, <2>1, <2>2 DEF AnswerPlace
  <2>7. ASSUME NEW l \in Leg, l \notin astray', line'[l] \in {"idle", "ringing"}
        PROVE  Dialing(task'[Dialer], l) \/ Cancelling(l)'
    <3>0. line[l] \in {"idle", "ringing"} /\ l \notin astray
      BY <2>1, <2>7 DEF Saved
    <3>1. r.pc \notin NoCopy /\ r.kind = "bridged"
      BY <1>0, <2>1 DEF NoCopy, Placed
    <3>2. l # r.leg
      BY <3>0, <3>1 DEF LinesOK, Heard, Talked
    <3>3. sess.leg[l] \notin {"no-answer", "cancelled", "dropped", "failed", "answered"}
      BY <3>0 DEF LinesOK, Sound, PickedUp
    <3>4. sess.leg[l] \in Statuses
      BY Copies DEF IInv, Session
    <3>5. CASE sess.leg[l] = "unknown"
      <4>1. Dialing(task[Dialer], l)
        BY <2>2, <3>5 DEF StagesOK, Registering
      <4> QED
        BY <2>2, <2>7, <2>1, <4>1, <2>6, NoLegIsNoLeg DEF StillDialling
    <3>6. CASE sess.leg[l] = "ringing"
      <4>1. l \in Losers(q.copy, q.leg)
        BY <2>2, <3>2, <3>6 DEF Losers, RingingIn
      <4> QED
        BY <2>2, <4>1 DEF Cancelling
    <3> QED
      BY <3>3, <3>4, <3>5, <3>6 DEF Statuses
  <2>8. RingsFor(task'[Dialer])
    <3>1. t # Dialer => Same(task'[Dialer], task[Dialer])
      BY <2>2 DEF Turns, Task
    <3> QED
      BY <2>6, <3>1 DEF WinOK, TakenOK, RingsFor, Same
  <2>9. TakenOK'
    BY <2>3, <2>7, <2>8 DEF TakenOK
  <2> QED
    BY <2>5, <2>9 DEF WinOK
<1>7. CASE CancelRemaining(t)
  <2>1. /\ Turns(t, q) /\ sess' = sess /\ q.pc = "kept" /\ r.pc = "cancel" /\ winner' = winner
    BY <1>7, HandlerGoes DEF CancelRemaining, Went, Moves
  <2>2. \A l \in Losers(r.copy, r.leg) :
          line'[l] \notin {"idle", "ringing"} \/ line[l] = "idle" \/ l \in astray'
    <3> DEFINE ls == Losers(r.copy, r.leg)
    <3>1. HangUp(ls) /\ ls \in SUBSET Leg
      BY <1>7 DEF CancelRemaining, Losers, RingingIn
    <3> HIDE DEF ls
    <3>2. BringsDown(ls) /\ \A l \in ls : line'[l] \notin Up \/ l \in astray'
      BY <3>1, HangUpBringsDown
    <3>3. \A l \in ls : line'[l] \notin {"idle", "ringing"} \/ line[l] = "idle" \/ l \in astray'
      BY <3>1, <3>2 DEF BringsDown, Up
    <3> QED
      BY <3>3 DEF ls
  <2>3. ClaimAt(t)' /\ (WonOrGone => WonOrGone')
    BY <2>1 DEF ClaimAt, WonOrGone
  <2>4. ClaimsOK'
    BY <2>1, <2>3, TurnKeepsClaims DEF WinOK
  <2>5. StillDialling /\ (t = Dialer => RingsFor(task'[Dialer]))
    BY <1>0, <1>d, <2>1 DEF AnswerPlace
  <2>6. \A u \in Task \ {t} : task'[u].pc = task[u].pc /\ task'[u].leg = task[u].leg
                              /\ task'[u].copy = task[u].copy
    BY <2>1 DEF Turns, Same
  <2>7. ASSUME sess'.winner # NoLeg, NEW l \in Leg, l \notin astray', line'[l] \in {"idle", "ringing"}
        PROVE  Dialing(task'[Dialer], l) \/ Cancelling(l)'
    <3>1. line[l] \in {"idle", "ringing"} /\ l \notin astray
      BY <2>7 DEF Grows, IInv, TypeOK, PickedUp
    <3>2. Dialing(task[Dialer], l) \/ Cancelling(l)
      BY <2>1, <2>7, <3>1 DEF WinOK, TakenOK
    <3>3. CASE Dialing(task[Dialer], l)
      BY <2>1, <2>5, <2>7, <3>3 DEF StillDialling
    <3>4. CASE l \in Losers(r.copy, r.leg)
      <4>1. r.copy.leg[l] = "ringing"
        BY <3>4 DEF Losers, RingingIn
      <4>2. line[l] # "idle"
        BY <4>1 DEF LinesOK, Sound
      <4> QED
        BY <2>2, <2>7, <3>4, <4>2
    <3>5. CASE Cancelling(l) /\ l \notin Losers(r.copy, r.leg)
      BY <2>1, <2>6, <3>5 DEF Cancelling
    <3> QED
      BY <3>2, <3>3, <3>4, <3>5
  <2>8. RingsFor(task'[Dialer])
    BY <2>5, <2>6 DEF WinOK, TakenOK, RingsFor, Task
  <2>9. winner' # NoLeg \/ (\E u \in Task : task'[u].pc = "paired") =>
          WonOrGone' \/ \E u \in Task : task'[u].pc = "mark"
    BY <2>1, <2>3, <2>6 DEF WinOK, TakenOK
  <2>10. TakenOK'
    BY <2>7, <2>8, <2>9 DEF TakenOK
  <2> QED
    BY <2>4, <2>10 DEF WinOK
<1>8. CASE SaveWon(t)
  <2>1. /\ Saved(t, "idle") /\ r.pc = "kept"
        /\ Wrote(sess.stage, sess.winner, Losers(sess, r.leg), "cancelled")
    BY <1>8, HandlerWrites DEF SaveWon
  <2> QED
    BY <1>s, <2>1 DEF AnswerPlace
<1> QED
  BY <1>1, <1>2, <1>3, <1>4, <1>5, <1>6, <1>7, <1>8 DEF Take, Answer

LEMMA EndKeepsWin ==
  ASSUME IInv, IInv', LinesOK, DialOK, CopiesFresh, StagesOK, CaptureOK, WinOK, Grows, Hush, mishap' = {},
         NEW t \in Task, End(t) \/ Voicemail(t)
  PROVE  WinOK'
<1> USE DEF At
<1> DEFINE r == task[t]
           q == task'[t]
<1>0. /\ Placed(t, r) /\ r.copy \in Session
      /\ r.pc \in EndPlace \cup CarePlace \cup NoCopy =>
           r.pc \notin DialerPlace /\ r.pc \notin {"mark", "cancel"}
  BY Copies DEF IInv, Whole, EndPlace, CarePlace, NoCopy, DialerPlace
<1>d. ASSUME r.pc \notin DialerPlace, Turns(t, q), q.pc # "registered"
      PROVE  StillDialling /\ (t = Dialer => RingsFor(task'[Dialer]))
  BY <1>d, HandlerStillDials DEF RingsFor
<1>p. ASSUME r.pc \in EndPlace \cup CarePlace \cup NoCopy, winner' = winner, Turns(t, q),
             q.pc \notin {"hangup", "clear", "delete", "mark", "cancel", "registered", "paired"},
             WonOrGone => WonOrGone', sess'.winner # NoLeg => sess.winner # NoLeg
      PROVE  WinOK'
  BY <1>0, <1>d, <1>p, PassKeepsWin
<1>m. ASSUME NEW p, NEW s, NEW l, Went(t, p, s, l), winner' = winner,
             r.pc \in EndPlace \cup CarePlace \cup NoCopy,
             p \notin {"hangup", "clear", "delete", "mark", "cancel", "registered", "paired"}
      PROVE  WinOK'
  BY <1>m, <1>p DEF Went, Moves, WonOrGone
<1>s. ASSUME NEW p \in {"idle", "route", "speak", "message"}, Saved(t, p),
             r.pc \in EndPlace \cup CarePlace \cup NoCopy,
             NEW stage, NEW ls, NEW st, Wrote(stage, sess.winner, ls, st)
      PROVE  WinOK'
  <2>1. Turns(t, q) /\ q.pc = p
    BY <1>s DEF Saved
  <2>2. sess'.winner = sess.winner /\ winner' = winner /\ (WonOrGone => WonOrGone')
    BY <1>s, WroteWon
  <2> QED
    BY <1>p, <1>s, <2>1, <2>2
\* The handler closes the session, or goes on with that.
<1>c. ASSUME NEW p \in {"clear", "delete"}, Went(t, p, Gone, Caller), ClaimAt(t)', r.pc \in EndPlace \cup NoCopy,
             winner' = winner \/ (winner' = NoLeg /\ (caller => WonOrGone \/ Quiet))
      PROVE  WinOK'
  <2>1. Turns(t, q) /\ sess' = sess /\ q.pc = p
    BY <1>c DEF Went, Moves
  <2>2. WonOrGone => WonOrGone'
    BY <2>1 DEF WonOrGone
  <2>3. StillDialling /\ (t = Dialer => RingsFor(task'[Dialer]))
    BY <1>0, <1>c, <1>d, <2>1
  <2>4. ClaimsOK'
    BY <1>c, <2>1, <2>2, TurnKeepsClaims DEF WinOK
  <2>5. TakenOK'
    BY <1>0, <1>c, <2>1, <2>2, <2>3, TurnKeepsTaken DEF WinOK
  <2> QED
    BY <2>4, <2>5 DEF WinOK
<1>1. ~IgnoreHangup(t)
  BY DEF IgnoreHangup
<1>2. CASE AbandonRing(t)
  <2>1. r.pc = "hangup" /\ r.leg = Caller /\ winner' = winner /\ caller' = caller
    BY <1>2 DEF AbandonRing
  <2>2. ~caller
    BY <1>0, <2>1 DEF LinesOK, Heard, NoCopy, Placed, EndPlace
  <2>3. Went(t, "clear", Gone, Caller)
    BY <1>2, HandlerGoes
  <2>4. ClaimAt(t)'
    BY <2>1, <2>2, <2>3 DEF ClaimAt, Went
  <2> QED
    BY <1>c, <2>1, <2>3, <2>4 DEF EndPlace
<1>3. CASE ClosingHangup(t)
  <2>1. /\ r.pc = "hangup" /\ winner' = winner /\ caller' = caller /\ sess' = sess
        /\ r.kind = "hangup"
    BY <1>0, <1>3 DEF ClosingHangup, carrier, Placed, EndPlace
  <2>2. ASSUME caller PROVE WonOrGone \/ Quiet
    <3>1. r.leg # Caller
      BY <2>1, <2>2 DEF LinesOK, Heard, NoCopy
    <3>2. Registered(r.copy, r.leg)
      BY <1>3, <3>1 DEF ClosingHangup
    <3>3. r.copy.stage \notin {"ringing", "connecting", "gone"}
      BY <1>0, <1>3, <2>1, <3>1, <3>2 DEF ClosingHangup, Blocked, Placed, NoCopy
    <3>4. r.copy.stage # "connect"
      BY <3>2 DEF StagesOK, StagedAt, Staged, Registered
    <3>5. r.copy.stage \in {"bridged", "voicemail"}
      BY <1>0, <3>3, <3>4 DEF Session, Stages
    <3>6. CASE r.copy.stage = "bridged"
      <4>1. r.copy.winner # NoLeg
        BY <3>6 DEF LinesOK, Sound
      <4> QED
        BY <2>1, <4>1 DEF WinOK, ClaimsOK, ClaimAt
    <3>7. CASE r.copy.stage = "voicemail"
      BY <3>7 DEF CaptureOK, Capture, Capturing, Ended
    <3> QED
      BY <3>5, <3>6, <3>7
  <2>3. Went(t, "clear", Gone, Caller)
    BY <1>3, HandlerGoes
  <2>4. ClaimAt(t)'
    BY <2>1, <2>2, <2>3 DEF Hush, ClaimAt, Went, WonOrGone
  <2> QED
    BY <1>c, <2>1, <2>3, <2>4 DEF EndPlace
<1>4. CASE ClearClaims(t)
  <2>1. r.pc = "clear" /\ winner' = NoLeg /\ caller' = caller /\ sess' = sess
    BY <1>4 DEF ClearClaims, carrier
  <2>2. caller => WonOrGone \/ Quiet
    BY <2>1 DEF WinOK, ClaimsOK, ClaimAt
  <2>3. Went(t, "delete", Gone, Caller)
    BY <1>4, HandlerGoes
  <2>4. ClaimAt(t)'
    BY <2>1, <2>2, <2>3 DEF Hush, ClaimAt, Went, WonOrGone
  <2> QED
    BY <1>c, <2>1, <2>2, <2>3, <2>4 DEF NoCopy
<1>5. CASE DeleteSession(t)
  <2>1. Turns(t, Idle) /\ sess' = Gone /\ winner' = winner /\ r.pc = "delete"
    BY <1>5, DeleteTurns DEF DeleteSession
  <2>2. Turns(t, q) /\ q.pc = "idle"
    BY <2>1, IdleIsATask DEF Turns
  <2> QED
    BY <1>p, <2>1, <2>2, GoneIsASession DEF NoCopy, WonOrGone
<1>6. CASE RingingLegHangup(t)
  <2>1. Went(t, "ended", r.copy, r.leg) /\ r.pc = "hangup" /\ winner' = winner
    BY <1>6, HandlerGoes DEF RingingLegHangup
  <2> QED
    BY <1>m, <2>1 DEF EndPlace
<1>7. CASE LoserHangup(t)
  <2>1. Went(t, "loser", q.copy, r.leg) /\ r.pc = "hangup" /\ winner' = winner
    BY <1>7, HandlerGoes DEF LoserHangup
  <2> QED
    BY <1>m, <2>1 DEF EndPlace
<1>8. CASE LegEnded(t)
  <2>1. /\ Went(t, "idle", Gone, Caller) \/ Went(t, "noanswer", q.copy, r.leg)
        /\ r.pc = "ended" /\ winner' = winner
    BY <1>8, HandlerGoes DEF LegEnded
  <2> QED
    BY <1>m, <2>1 DEF EndPlace
<1>9. CASE LoserSave(t)
  <2>1. Saved(t, "idle") /\ r.pc = "loser" /\ Wrote(sess.stage, sess.winner, {r.leg}, "cancelled")
    BY <1>9, HandlerWrites DEF LoserSave
  <2> QED
    BY <1>s, <2>1 DEF EndPlace
<1>10. CASE NoAnswerSave(t)
  <2> DEFINE p == IF Unanswered(r.copy) THEN "route" ELSE "idle"
  <2>1. /\ Saved(t, p) /\ r.pc = "noanswer"
        /\ Wrote(sess.stage, sess.winner, {r.leg}, "no-answer")
    BY <1>10, HandlerWrites DEF NoAnswerSave
  <2>2. p \in {"route", "idle"}
    OBVIOUS
  <2> HIDE DEF p
  <2> QED
    BY <1>s, <2>1, <2>2 DEF EndPlace
<1>11. CASE PromptSave(t) \/ RecordSave(t)
  <2>1. PICK p \in {"speak", "message"} :
          Saved(t, p) /\ Wrote("voicemail", sess.winner, {}, "ringing")
    BY <1>11, HandlerWrites
  <2>2. r.pc \in {"prompt", "record"}
    BY <1>11 DEF PromptSave, RecordSave
  <2> QED
    BY <1>s, <2>1, <2>2 DEF CarePlace
<1>12. CASE RouteToVoicemail(t)
  <2>1. Went(t, "idle", Gone, Caller) \/ Went(t, "prompt", r.copy, r.leg)
    BY <1>12, HandlerGoes
  <2>2. r.pc = "route" /\ winner' = winner
    BY <1>12 DEF RouteToVoicemail
  <2> QED
    BY <1>m, <2>1, <2>2 DEF CarePlace
<1>13. CASE SpeakPrompt(t) \/ RecordMessage(t)
  <2>1. Went(t, "idle", Gone, Caller)
    BY <1>13, HandlerGoes
  <2>2. r.pc \in {"speak", "message"} /\ winner' = winner
    BY <1>13 DEF SpeakPrompt, RecordMessage
  <2> QED
    BY <1>m, <2>1, <2>2 DEF NoCopy
<1> QED
  BY <1>1, <1>2, <1>3, <1>4, <1>5, <1>6, <1>7, <1>8, <1>9, <1>10, <1>11, <1>12, <1>13
     DEF End, Voicemail

LEMMA InitWin == Init => WinOK
<1> SUFFICES ASSUME Init PROVE WinOK
  OBVIOUS
<1>1. /\ task[Dialer] = [Idle EXCEPT !.pc = "ring", !.copy = sess] /\ winner = NoLeg
      /\ \A t \in Task \ {Dialer} : task[t] = Idle
      /\ sess.winner = NoLeg
  BY DEF Init, Task, Gone
<1>2. task[Dialer].pc = "ring" /\ \A t \in Task \ {Dialer} : task[t].pc = "idle"
  BY <1>1 DEF Idle
<1>3. ClaimsOK
  BY <1>2 DEF ClaimsOK, ClaimAt
<1> QED
  BY <1>1, <1>2, <1>3 DEF WinOK, TakenOK, RingsFor

LEMMA NextWin ==
  IInv /\ LinesOK /\ DialOK /\ CopiesFresh /\ StagesOK /\ CaptureOK /\ WinOK
  /\ IInv' /\ LinesOK' /\ Grows /\ Hush /\ mishap' = {} /\ [Next]_vars
    => WinOK'
<1> SUFFICES ASSUME IInv, LinesOK, DialOK, CopiesFresh, StagesOK, CaptureOK, WinOK,
                    IInv', LinesOK', Grows, Hush, mishap' = {}, [Next]_vars
             PROVE  WinOK'
  OBVIOUS
<1>1. CASE Dial
  BY <1>1, DialKeepsWin
<1>2. CASE World
  <2>1. task' = task /\ sess' = sess /\ winner' = winner
    BY <1>2 DEF World, CallerHangsUp, PickUp, Bridge, LegEnds
  <2> QED
    BY <2>1, WorldKeepsWin
<1>3. ASSUME NEW t \in Task, Take(t) \/ Answer(t) PROVE WinOK'
  BY <1>3, AnswerKeepsWin
<1>4. ASSUME NEW t \in Task, End(t) \/ Voicemail(t) PROVE WinOK'
  BY <1>4, EndKeepsWin
<1>5. CASE UNCHANGED vars
  BY <1>5, WorldKeepsWin DEF vars
<1> QED
  BY <1>1, <1>2, <1>3, <1>4, <1>5 DEF Next

----------------------------------------------------------------------------
(***************************************************************************)
(* Up to the first mishap a caller who waits is not forgotten: the session *)
(* stays, the end of every leg is told to it, and once all have ended      *)
(* unanswered a handler is on the way to voicemail, or the voicemail is on *)
(* the way to the caller.                                                  *)
(***************************************************************************)
Waiting == caller /\ ~served

\* The end of l waits to be handled, is being handled, or is in the session.
Told(l) ==
  \/ <<"hangup", l>> \in events
  \/ \E t \in Task : Handling(task[t], l)
  \/ sess.leg[l] \in {"no-answer", "answered"}

Unanswerable == sess.stage = "ringing" /\ \A l \in Leg : sess.leg[l] \in {"no-answer", "failed"}

Routes(r) == r.pc \in DialerPlace \cup {"prompt"} \/ (r.pc = "route" /\ ~Blocked(r.copy))

Spoken    == \E e \in events : e[1] = "spoken"
Speaks(r) == r.pc \in {"speak", "record", "message"}

UnservedOK ==
  Waiting =>
    /\ sess # Gone /\ \A t \in Task : task[t].pc \notin {"clear", "delete"}
    /\ \A l \in Leg : line[l] = "ended" => Told(l)
    /\ Unanswerable => \E t \in Task : Routes(task[t])
    /\ sess.stage = "voicemail" => Spoken \/ \E t \in Task : Speaks(task[t])

\* The carrier reports the end of every leg.
Reports == \A l \in Leg : line'[l] = "ended" => line[l] = "ended" \/ <<"hangup", l>> \in events'

LEMMA HangUpReports ==
  ASSUME NEW ls, HangUp(ls) \/ Down(ls) PROVE Reports /\ events \subseteq events'
BY DEF HangUp, Down, Reports

LEMMA NextReports == ASSUME IInv, [Next]_vars PROVE Reports
<1>q. ASSUME line' = line PROVE Reports
  BY <1>q DEF Reports
<1>1. CASE Dial
  <2>1. CASE RegisterCheck
    BY <2>1, HangUpReports DEF RegisterCheck
  <2>2. ASSUME NEW l \in Leg, DialLeg(l) PROVE Reports
    BY <2>2 DEF DialLeg, Reports, IInv, TypeOK
  <2> QED
    BY <1>1, <1>q, <2>1, <2>2
       DEF Dial, StartRinging, DialsReturn, RegisterLoad, RegisterSave, Recount, RecountSave, carrier
<1>2. CASE World
  <2>1. ASSUME NEW l \in Leg, LegEnds(l) PROVE Reports
    BY <2>1, HangUpReports DEF LegEnds
  <2>2. CASE CallerHangsUp
    BY <2>2 DEF CallerHangsUp, Reports
  <2> QED
    BY <1>2, <2>1, <2>2 DEF World, PickUp, Bridge, Reports, IInv, TypeOK
<1>3. ASSUME NEW t \in Task, Take(t) \/ Answer(t) PROVE Reports
  <2>1. CASE CancelRemaining(t)
    BY <2>1, HangUpReports DEF CancelRemaining
  <2> QED
    BY <1>3, <1>q, <2>1
       DEF Take, Begin, Answer, AcceptSave, MarkConnecting, AnswerReload, MarkAnswered, Claim, MarkPaired,
           MarkBridged, SaveWon, carrier
<1>4. ASSUME NEW t \in Task, End(t) PROVE Reports
  <2>1. CASE AbandonRing(t)
    BY <2>1, HangUpReports DEF AbandonRing
  <2> QED
    BY <1>4, <1>q, <2>1
       DEF End, IgnoreHangup, RingingLegHangup, LoserHangup, LoserSave, ClosingHangup, LegEnded,
           NoAnswerSave, ClearClaims, DeleteSession, carrier
<1>5. ASSUME NEW t \in Task, Voicemail(t) PROVE Reports
  BY <1>5, <1>q DEF Voicemail, RouteToVoicemail, PromptSave, SpeakPrompt, RecordSave, RecordMessage, carrier
<1> QED
  BY <1>1, <1>2, <1>3, <1>4, <1>5, <1>q DEF Next, vars, carrier

LEMMA TurnKeepsUnserved ==
  ASSUME UnservedOK, Waiting, Reports, NEW t \in Task, Turns(t, task'[t]),
         sess' # Gone, task'[t].pc \notin {"clear", "delete"},
         \A l \in Leg : <<"hangup", l>> \in events =>
           <<"hangup", l>> \in events' \/ Handling(task'[t], l),
         \A l \in Leg : Handling(task[t], l) => Handling(task'[t], l) \/ sess'.leg[l] = "no-answer",
         \A l \in Leg : sess.leg[l] \in {"no-answer", "answered"} =>
           sess'.leg[l] \in {"no-answer", "answered"},
         Unanswerable' => Routes(task'[t]) \/ (Unanswerable /\ ~Routes(task[t])),
         sess'.stage = "voicemail" =>
           \/ Speaks(task'[t])
           \/ sess.stage = "voicemail" /\ (Spoken => Spoken') /\ (Speaks(task[t]) => Spoken')
  PROVE  UnservedOK'
<1>0. /\ sess # Gone /\ \A u \in Task : task[u].pc \notin {"clear", "delete"}
      /\ \A l \in Leg : line[l] = "ended" => Told(l)
      /\ Unanswerable => \E u \in Task : Routes(task[u])
      /\ sess.stage = "voicemail" => Spoken \/ \E u \in Task : Speaks(task[u])
  BY DEF UnservedOK
<1>1. \A u \in Task \ {t} : /\ task'[u].pc = task[u].pc
                            /\ \A l \in Leg : Handling(task'[u], l) <=> Handling(task[u], l)
                            /\ Routes(task'[u]) <=> Routes(task[u])
                            /\ Speaks(task'[u]) <=> Speaks(task[u])
  BY DEF Turns, Same, Handling, Routes, Speaks
<1>2. \A u \in Task : task'[u].pc \notin {"clear", "delete"}
  BY <1>0, <1>1
<1>3. ASSUME NEW l \in Leg, line'[l] = "ended" PROVE Told(l)'
  <2>1. CASE line[l] # "ended"
    BY <1>3, <2>1 DEF Reports, Told
  <2>2. CASE <<"hangup", l>> \in events
    BY <2>2 DEF Told
  <2>3. ASSUME NEW u \in Task, Handling(task[u], l) PROVE Told(l)'
    <3>1. CASE u = t
      BY <2>3, <3>1 DEF Told
    <3>2. CASE u # t
      BY <1>1, <2>3, <3>2 DEF Told
    <3> QED
      BY <3>1, <3>2
  <2>4. CASE sess.leg[l] \in {"no-answer", "answered"}
    BY <2>4 DEF Told
  <2> QED
    BY <1>0, <2>1, <2>2, <2>3, <2>4 DEF Told
<1>4. Unanswerable' => \E u \in Task : Routes(task'[u])
  BY <1>0, <1>1
<1>5. sess'.stage = "voicemail" => Spoken' \/ \E u \in Task : Speaks(task'[u])
  BY <1>0, <1>1
<1> QED
  BY <1>2, <1>3, <1>4, <1>5 DEF UnservedOK

\* Nobody has the call of a caller who waits.
LEMMA NobodyHasIt ==
  ASSUME IInv, LinesOK, Waiting
  PROVE  /\ winner = NoLeg /\ sess.winner = NoLeg
         /\ \A t \in Task : task[t].copy.winner = NoLeg /\ task[t].copy.stage # "bridged"
         /\ \A t \in Task, l \in Leg : task[t].copy.leg[l] \notin {"cancelled", "dropped"}
         /\ \A t \in Task : task[t].pc \notin {"claim", "mark", "cancel", "kept", "paired"}
         /\ \A t \in Task : task[t].pc = "hangup" => task[t].leg \in Leg
<1>1. winner = NoLeg /\ sess.winner = NoLeg
  BY DEF LinesOK, OutsideOK, Sound, Waiting
<1> SUFFICES ASSUME NEW t \in Task
             PROVE  /\ task[t].copy.winner = NoLeg /\ task[t].copy.stage # "bridged"
                    /\ \A l \in Leg : task[t].copy.leg[l] \notin {"cancelled", "dropped"}
                    /\ task[t].pc \notin {"claim", "mark", "cancel", "kept", "paired"}
                    /\ task[t].pc = "hangup" => task[t].leg \in Leg
  BY <1>1
<1>2. Sound(task[t].copy, line, served, astray)
  BY DEF LinesOK
<1>3. task[t].pc \notin NoCopy => Heard(task[t].kind, task[t].leg, line, caller, served)
  BY DEF LinesOK
<1>4. /\ task[t].pc \in {"claim", "mark", "cancel", "kept", "paired"} => task[t].kind = "bridged"
      /\ task[t].pc = "hangup" => task[t].kind = "hangup"
      /\ task[t].leg \in Leg \cup {Caller}
  BY Copies DEF IInv, Whole, Placed, EndPlace
<1> QED
  BY <1>2, <1>3, <1>4 DEF Sound, Heard, NoCopy, Waiting

\* A move that neither takes nor settles anything.
LEMMA MoveKeepsUnserved ==
  ASSUME UnservedOK, Waiting, Reports, NEW t \in Task, NEW p, NEW s, NEW l, Went(t, p, s, l),
         p \notin {"clear", "delete"}, events \subseteq events', ~Speaks(task[t]),
         \A k \in Leg : Handling(task[t], k) => Handling(task'[t], k),
         Routes(task[t]) => Routes(task'[t])
  PROVE  UnservedOK'
<1>1. /\ Turns(t, task'[t]) /\ task'[t].pc = p /\ sess' = sess
      /\ sess # Gone
  BY DEF Went, Moves, UnservedOK
<1>2. Spoken => Spoken'
  BY DEF Spoken
<1>3. Unanswerable' <=> Unanswerable
  BY <1>1 DEF Unanswerable
<1> QED
  BY <1>1, <1>2, <1>3, TurnKeepsUnserved

\* A save that goes on with the stage and settles no leg at hand.
LEMMA SaveKeepsUnserved ==
  ASSUME IInv', UnservedOK, Waiting, Reports, NEW t \in Task, NEW p, Saved(t, p),
         p \notin {"clear", "delete"}, ~Speaks(task[t]),
         \A k \in Leg : Handling(task[t], k) => sess'.leg[k] = "no-answer",
         NEW stage, NEW w, NEW ls, NEW st, Wrote(stage, w, ls, st),
         st \in {"no-answer", "answered"} \/ \A k \in ls \cap Leg : sess.leg[k] = "unknown",
         Unanswerable' => Routes(task'[t]) \/ (Unanswerable /\ ~Routes(task[t])),
         sess'.stage = "voicemail" => Speaks(task'[t]) \/ sess.stage = "voicemail"
  PROVE  UnservedOK'
<1>1. /\ Turns(t, task'[t]) /\ task'[t].pc = p /\ events' = events /\ sess'.stage # "gone"
  BY DEF Saved
<1>2. sess' # Gone
  BY <1>1 DEF Gone
<1>3. Spoken => Spoken'
  BY <1>1 DEF Spoken
<1>4. \A l \in Leg : sess.leg[l] \in {"no-answer", "answered"} =>
        sess'.leg[l] \in {"no-answer", "answered"}
  BY DEF Wrote
<1> QED
  BY <1>1, <1>2, <1>3, <1>4, TurnKeepsUnserved

LEMMA DialKeepsUnserved ==
  ASSUME IInv, IInv', LinesOK, DialOK, CopiesFresh, UnservedOK, Reports, Waiting, LinesOK', Waiting',
         mishap' = {}, Dial
  PROVE  UnservedOK'
<1> USE DEF At
<1> DEFINE r == task[Dialer]
           q == task'[Dialer]
<1>0. /\ Dialer \in Task /\ Placed(Dialer, r)
      /\ r.pc \in DialerPlace => ~Speaks(r) /\ \A k \in Leg : ~Handling(r, k)
      /\ sess # Gone
  BY DEF Task, IInv, Whole, DialerPlace, Speaks, Handling, UnservedOK
<1>m. ASSUME NEW p \in DialerPlace, NEW s, NEW l, Went(Dialer, p, s, l), r.pc \in DialerPlace,
             events \subseteq events'
      PROVE  UnservedOK'
  <2>1. q.pc = p /\ p \notin {"clear", "delete"}
    BY <1>m DEF Went, DialerPlace
  <2>2. Routes(q)
    BY <2>1 DEF Routes
  <2> QED
    BY <1>0, <1>m, <2>1, <2>2, MoveKeepsUnserved
<1>1. CASE StartRinging
  <2>1. Saved(Dialer, "dialling") /\ Wrote("ringing", sess.winner, {}, "ringing") /\ r.pc = "ring"
    BY <1>1, DialerWrites DEF StartRinging
  <2>2. q.pc = "dialling" /\ sess'.stage = "ringing"
    BY <2>1 DEF Saved, Wrote
  <2>3. Routes(q) /\ r.pc \in DialerPlace
    BY <2>1, <2>2 DEF Routes, DialerPlace
  <2> QED
    BY <1>0, <2>1, <2>2, <2>3, SaveKeepsUnserved
<1>2. CASE DialsReturn
  <2>1. Went(Dialer, "register", r.copy, r.leg) /\ r.pc = "dialling" /\ events' = events
    BY <1>2, DialerGoes DEF DialsReturn
  <2> QED
    BY <1>m, <2>1 DEF DialerPlace
<1>3. CASE RegisterLoad
  <2>1. Went(Dialer, "check", sess, r.leg + 1) /\ r.pc = "register" /\ events' = events
    BY <1>0, <1>3, DialerGoes DEF RegisterLoad
  <2> QED
    BY <1>m, <2>1 DEF DialerPlace
<1>4. CASE RegisterCheck
  <2>1. Went(Dialer, "registered", q.copy, r.leg) /\ r.pc = "check"
    BY <1>4, DialerGoes DEF RegisterCheck
  <2>2. events \subseteq events'
    BY <1>4, HangUpReports DEF RegisterCheck
  <2> QED
    BY <1>m, <2>1, <2>2 DEF DialerPlace
<1>5. CASE RegisterSave
  <2> DEFINE p == AfterResult(r.leg)
  <2>1. PICK st \in {"ringing", "failed", "dropped"} :
          Saved(Dialer, p) /\ Wrote(sess.stage, sess.winner, {r.leg}, st) /\ r.pc = "registered"
    BY <1>5, DialerWrites DEF RegisterSave
  <2>2. p \in {"register", "recount"}
    BY DEF AfterResult
  <2>3. r.leg \in Leg
    BY <1>0, <2>1 DEF Placed
  <2>4. r.leg <= r.leg
    BY <2>3 DEF Leg
  <2>5. Fresh(sess, r.leg)
    BY <2>1, <2>3, <2>4 DEF DialOK, Dialing
  <2> HIDE DEF p
  <2>6. q.pc = p /\ sess'.stage = sess.stage
    BY <2>1 DEF Saved, Wrote
  <2>7. Routes(q) /\ r.pc \in DialerPlace
    BY <2>1, <2>2, <2>6 DEF Routes, DialerPlace
  <2>8. \A k \in {r.leg} \cap Leg : sess.leg[k] = "unknown"
    BY <2>5 DEF Fresh
  <2> QED
    BY <1>0, <2>1, <2>2, <2>6, <2>7, <2>8, SaveKeepsUnserved
<1>6. CASE Recount
  <2>1. Went(Dialer, "resave", sess, r.leg) /\ r.pc = "recount" /\ events' = events
    BY <1>0, <1>6, DialerGoes DEF Recount
  <2> QED
    BY <1>m, <2>1 DEF DialerPlace
<1>7. CASE RecountSave
  <2> DEFINE p == IF RingingIn(r.copy) = {} THEN "route" ELSE "idle"
  <2>1. Saved(Dialer, p) /\ r.copy = sess /\ sess' = sess /\ r.pc = "resave"
    BY <1>7, DialerWrites DEF RecountSave
  <2>2. p \in {"route", "idle"}
    OBVIOUS
  <2>3. Unanswerable' => p = "route"
    BY <2>1 DEF Unanswerable, RingingIn
  <2> HIDE DEF p
  <2>4. /\ Turns(Dialer, q) /\ q.pc = p /\ events' = events
        /\ p = "route" => q.copy = sess'
    BY <2>1 DEF Saved, NoCopy
  <2>5. Unanswerable' => Routes(q)
    BY <2>3, <2>4 DEF Routes, Unanswerable, Blocked
  <2>6. r.pc \in DialerPlace /\ (Spoken => Spoken')
    BY <2>1, <2>4 DEF DialerPlace, Spoken
  <2> QED
    BY <1>0, <2>1, <2>2, <2>4, <2>5, <2>6, TurnKeepsUnserved
<1>8. ASSUME NEW l \in Leg, DialLeg(l) PROVE UnservedOK'
  <2>1. /\ Moves(Dialer, q) /\ q = r /\ events' = events /\ r.pc = "dialling"
        /\ r.pc \in DialerPlace
    BY <1>0, <1>8, Tasks DEF DialLeg, Moves, Turns, Same, IInv, DialerPlace
  <2>2. Went(Dialer, "dialling", r.copy, r.leg)
    BY <2>1 DEF Went
  <2> QED
    BY <1>m, <2>1, <2>2 DEF DialerPlace
<1> QED
  BY <1>1, <1>2, <1>3, <1>4, <1>5, <1>6, <1>7, <1>8 DEF Dial

LEMMA WorldKeepsUnserved ==
  ASSUME IInv, UnservedOK, Reports, Waiting, task' = task, sess' = sess, events \subseteq events'
  PROVE  UnservedOK'
<1> DEFINE r == task[Dialer]
<1>1. /\ Dialer \in Task /\ Turns(Dialer, task'[Dialer]) /\ sess # Gone
      /\ r.pc \notin {"clear", "delete"}
  BY Tasks DEF Task, IInv, Turns, Same, UnservedOK
<1>2. Spoken => Spoken'
  BY DEF Spoken
<1>3. Unanswerable' <=> Unanswerable
  BY DEF Unanswerable
<1>4. ASSUME NEW l \in Leg, line'[l] = "ended" PROVE Told(l)'
  BY <1>4 DEF Reports, UnservedOK, Told
<1> QED
  BY <1>1, <1>2, <1>3, <1>4 DEF UnservedOK

LEMMA AnswerKeepsUnserved ==
  ASSUME IInv, IInv', LinesOK, CopiesFresh, UnservedOK, Reports, Waiting, mishap' = {},
         NEW t \in Task, Take(t) \/ Answer(t)
  PROVE  UnservedOK'
<1> USE DEF At
<1> DEFINE r == task[t]
           q == task'[t]
<1>0. /\ Placed(t, r) /\ sess # Gone
      /\ r.pc \in AnswerPlace \cup {"accept", "idle"} =>
           ~Speaks(r) /\ ~Routes(r) /\ \A k \in Leg : ~Handling(r, k)
      /\ r.pc \notin {"claim", "mark", "cancel", "kept", "paired"}
  BY NobodyHasIt DEF IInv, Whole, AnswerPlace, DialerPlace, Speaks, Routes, Handling, UnservedOK
<1>m. ASSUME NEW p, NEW s, NEW l, Went(t, p, s, l), r.pc \in AnswerPlace \cup {"accept", "idle"},
             p \notin {"clear", "delete"}, events \subseteq events'
      PROVE  UnservedOK'
  BY <1>0, <1>m, MoveKeepsUnserved
<1>s. ASSUME NEW p \in {"idle", "reread"}, Saved(t, p), r.pc \in AnswerPlace \cup {"accept", "idle"},
             NEW stage, NEW ls, Wrote(stage, sess.winner, ls, "answered"),
             stage = sess.stage \/ stage = "connecting", Unanswerable' => Unanswerable
      PROVE  UnservedOK'
  <2>1. sess'.stage = stage
    BY <1>s DEF Wrote
  <2> QED
    BY <1>0, <1>s, <2>1, SaveKeepsUnserved
<1>1. ASSUME NEW kind \in Kinds, NEW l \in Leg \cup {Caller}, Begin(t, kind, l) PROVE UnservedOK'
  <2>0. /\ r.pc = "idle" /\ <<kind, l>> \in events /\ events' = events \ {<<kind, l>>}
        /\ \/ Went(t, "idle", Gone, Caller) /\ kind = "answered"
           \/ Took(t, kind, l)
    BY <1>0, <1>1, BeginGoes
  <2>1. PICK p \in Place : Turns(t, q) /\ sess' = sess /\ q.pc = p /\ p \notin {"clear", "delete"}
                /\ (kind = "hangup" => p = "hangup" /\ q.leg = l)
                /\ (kind = "spoken" => p = "record")
    <3>1. CASE Went(t, "idle", Gone, Caller) /\ kind = "answered"
      BY <3>1 DEF Went, Moves, Place, NoCopy
    <3>2. CASE Took(t, kind, l)
      <4>1. StartOf(kind, sess) \in Place
        BY DEF StartOf, Kinds, Place, AnswerPlace, EndPlace, CarePlace
      <4>2. StartOf(kind, sess) \notin {"clear", "delete"}
        BY DEF StartOf, Kinds
      <4>3. kind = "hangup" => StartOf(kind, sess) = "hangup"
        BY DEF StartOf
      <4>4. kind = "spoken" => StartOf(kind, sess) = "record"
        BY DEF StartOf
      <4> QED
        BY <3>2, <4>1, <4>2, <4>3, <4>4 DEF Took, Moves
    <3> QED
      BY <2>0, <3>1, <3>2
  <2>2. \A k \in Leg : <<"hangup", k>> \in events => <<"hangup", k>> \in events' \/ Handling(q, k)
    BY <2>0, <2>1 DEF Handling
  <2>3. Spoken => Spoken' \/ Speaks(q)
    BY <2>0, <2>1 DEF Spoken, Speaks
  <2>4. Unanswerable' <=> Unanswerable
    BY <2>1 DEF Unanswerable
  <2> QED
    BY <1>0, <2>0, <2>1, <2>2, <2>3, <2>4, TurnKeepsUnserved
<1>2. CASE AcceptSave(t) \/ MarkConnecting(t)
  <2>1. PICK p \in {"idle", "reread"} :
          Saved(t, p) /\ Wrote("connecting", sess.winner, {}, "ringing")
    BY <1>2, HandlerWrites
  <2>2. r.pc \in {"accept", "connecting"}
    BY <1>2 DEF AcceptSave, MarkConnecting
  <2>3. Wrote("connecting", sess.winner, {}, "answered") /\ sess'.stage = "connecting"
    BY <2>1 DEF Wrote
  <2>4. ~Unanswerable'
    BY <2>3 DEF Unanswerable
  <2> QED
    BY <1>s, <2>1, <2>2, <2>3, <2>4 DEF AnswerPlace
<1>3. CASE AnswerReload(t)
  <2>1. PICK p, s, l : p \in {"idle", "picked", "claim"} /\ Went(t, p, s, l)
    <3> DEFINE p == IF r.kind = "answered" THEN "picked" ELSE "claim"
    <3>1. Went(t, "idle", Gone, Caller) \/ Went(t, p, Loaded(r), r.leg)
      BY <1>3, HandlerGoes
    <3>2. p \in {"idle", "picked", "claim"}
      OBVIOUS
    <3> HIDE DEF p
    <3> QED
      BY <3>1, <3>2
  <2>2. r.pc = "reread" /\ events' = events
    BY <1>3 DEF AnswerReload
  <2> QED
    BY <1>m, <2>1, <2>2 DEF AnswerPlace
<1>4. CASE MarkAnswered(t)
  <2>1. /\ Saved(t, "idle") /\ Wrote(sess.stage, sess.winner, {r.leg}, "answered")
        /\ r.pc = "picked" /\ r.leg \in Leg
    BY <1>0, <1>4, HandlerWrites DEF MarkAnswered, Placed, AnswerPlace
  <2>2. ~Unanswerable'
    BY <2>1 DEF Unanswerable, Wrote
  <2> QED
    BY <1>s, <2>1, <2>2 DEF AnswerPlace
<1>5. ~Claim(t) /\ ~MarkPaired(t) /\ ~MarkBridged(t) /\ ~CancelRemaining(t) /\ ~SaveWon(t)
  BY <1>0 DEF Claim, MarkPaired, MarkBridged, CancelRemaining, SaveWon
<1> QED
  BY <1>1, <1>2, <1>3, <1>4, <1>5 DEF Take, Answer

LEMMA EndKeepsUnserved ==
  ASSUME IInv, IInv', LinesOK, CopiesFresh, StagesOK, CaptureOK, UnservedOK, Reports, Waiting,
         LinesOK', Waiting', mishap' = {}, NEW t \in Task, End(t) \/ Voicemail(t)
  PROVE  UnservedOK'
<1> USE DEF At
<1> DEFINE r == task[t]
           q == task'[t]
<1>0. /\ Placed(t, r) /\ r.copy \in Session /\ sess # Gone
      /\ r.pc \notin {"clear", "delete"}
      /\ winner = NoLeg /\ sess.winner = NoLeg /\ r.copy.winner = NoLeg
      /\ ~Active(r.copy) /\ \A l \in Leg : r.copy.leg[l] \notin {"cancelled", "dropped"}
      /\ r.pc = "hangup" => r.leg \in Leg
  BY Copies, NobodyHasIt DEF IInv, Whole, UnservedOK, Active, HasWinner
<1>1. ~IgnoreHangup(t)
  BY DEF IgnoreHangup
<1>2. ~AbandonRing(t)
  BY <1>0, NoLegIsNoLeg DEF AbandonRing
<1>3. ~ClearClaims(t) /\ ~DeleteSession(t)
  BY <1>0 DEF ClearClaims, DeleteSession
<1>4. ~LoserHangup(t)
  BY <1>0 DEF LoserHangup
<1>5. ~LoserSave(t)
  <2> SUFFICES ASSUME LoserSave(t) PROVE FALSE
    OBVIOUS
  <2>1. Wrote(sess.stage, sess.winner, {r.leg}, "cancelled") /\ r.leg \in Leg
    BY <1>0, HandlerWrites DEF LoserSave, Placed, EndPlace
  <2>2. sess'.leg[r.leg] = "cancelled"
    BY <2>1 DEF Wrote
  <2> QED
    BY <2>1, <2>2 DEF LinesOK, Sound, Waiting
<1>6. ~ClosingHangup(t)
  <2> SUFFICES ASSUME ClosingHangup(t) PROVE FALSE
    OBVIOUS
  <2>1. r.pc = "hangup" /\ r.leg \in Leg /\ r.leg # Caller
    BY <1>0, NoLegIsNoLeg DEF ClosingHangup
  <2>2. r.copy.stage # "ringing" /\ r.copy.stage # "connecting" /\ Registered(r.copy, r.leg)
    BY <2>1 DEF ClosingHangup, Blocked
  <2>3. r.copy.stage \notin {"connect", "gone", "bridged"}
    BY <1>0, <2>1, <2>2, NobodyHasIt DEF StagesOK, StagedAt, Staged, Registered, Placed, NoCopy
  <2>4. r.copy.stage = "voicemail"
    BY <1>0, <2>2, <2>3 DEF Session, Stages
  <2>5. LegsOver /\ \A l \in astray : Stranger(l)
    BY <2>4 DEF CaptureOK, Capture, Capturing, Ended, Quiet, Waiting
  <2>6. r.leg \notin astray
    BY <2>2, <2>5 DEF Stranger, Aside, Registered, Lost
  <2> QED
    BY <2>1, <2>5, <2>6 DEF LegsOver, Handling
<1>7. CASE RingingLegHangup(t)
  <2>1. Went(t, "ended", r.copy, r.leg) /\ r.pc = "hangup" /\ events' = events
    BY <1>7, HandlerGoes DEF RingingLegHangup
  <2>2. q.pc = "ended" /\ q.leg = r.leg
    BY <2>1 DEF Went
  <2>3. \A k \in Leg : Handling(r, k) => Handling(q, k)
    BY <2>2 DEF Handling
  <2>4. ~Routes(r) /\ ~Speaks(r)
    BY <2>1 DEF Routes, Speaks, DialerPlace
  <2> QED
    BY <2>1, <2>3, <2>4, MoveKeepsUnserved
<1>8. CASE LegEnded(t)
  <2>1. r.pc = "ended" /\ r.leg \in Leg /\ events' = events
    BY <1>0, <1>8 DEF LegEnded, Placed, EndPlace
  <2>2. r.copy.leg[r.leg] \notin {"cancelled", "answered"}
    BY <1>0, <2>1 DEF StagesOK, StagedAt, Staged, Late
  <2>3. Went(t, "noanswer", q.copy, r.leg)
    BY <1>0, <1>8, <2>2, HandlerGoes
  <2>4. q.pc = "noanswer" /\ q.leg = r.leg
    BY <2>3 DEF Went
  <2>5. \A k \in Leg : Handling(r, k) => Handling(q, k)
    BY <2>4 DEF Handling
  <2>6. ~Routes(r) /\ ~Speaks(r)
    BY <2>1 DEF Routes, Speaks, DialerPlace
  <2> QED
    BY <2>1, <2>3, <2>5, <2>6, MoveKeepsUnserved
<1>9. CASE NoAnswerSave(t)
  <2> DEFINE p == IF Unanswered(r.copy) THEN "route" ELSE "idle"
  <2>1. /\ Saved(t, p) /\ r.pc = "noanswer" /\ r.copy = sess' /\ r.leg \in Leg
        /\ Wrote(sess.stage, sess.winner, {r.leg}, "no-answer")
    BY <1>0, <1>9, HandlerWrites DEF NoAnswerSave, Placed, EndPlace
  <2>2. p \in {"route", "idle"}
    OBVIOUS
  <2>3. Unanswerable' => p = "route"
    BY <1>0, <2>1 DEF Unanswerable, Unanswered, AnyAnswered, Settled, RingingIn, Entries
  <2> HIDE DEF p
  <2>4. q.pc = p /\ (p = "route" => q.copy = sess') /\ sess'.leg[r.leg] = "no-answer"
        /\ sess'.stage = sess.stage
    BY <2>1 DEF Saved, NoCopy, Wrote
  <2>5. Unanswerable' => Routes(q)
    BY <2>3, <2>4 DEF Routes, Unanswerable, Blocked
  <2>6. (\A k \in Leg : Handling(r, k) => sess'.leg[k] = "no-answer") /\ ~Speaks(r)
    BY <2>1, <2>4 DEF Handling, Speaks
  <2> QED
    BY <2>1, <2>2, <2>4, <2>5, <2>6, SaveKeepsUnserved
<1>10. CASE RouteToVoicemail(t)
  <2>1. r.pc = "route" /\ events' = events
    BY <1>10 DEF RouteToVoicemail
  <2>2. (\A k \in Leg : ~Handling(r, k)) /\ ~Speaks(r)
    BY <2>1 DEF Handling, Speaks
  <2>3. CASE Blocked(r.copy)
    <3>1. Went(t, "idle", Gone, Caller) /\ ~Routes(r)
      BY <1>10, <2>1, <2>3, HandlerGoes DEF Routes, DialerPlace
    <3> QED
      BY <2>1, <2>2, <3>1, MoveKeepsUnserved
  <2>4. CASE ~Blocked(r.copy)
    <3>1. Went(t, "prompt", r.copy, r.leg)
      BY <1>0, <1>10, <2>4, HandlerGoes
    <3>2. Routes(q)
      BY <3>1 DEF Went, Routes
    <3> QED
      BY <2>1, <2>2, <3>1, <3>2, MoveKeepsUnserved
  <2> QED
    BY <2>3, <2>4
<1>11. CASE PromptSave(t) \/ RecordSave(t)
  <2>1. PICK p \in {"speak", "message"} :
          Saved(t, p) /\ Wrote("voicemail", sess.winner, {}, "ringing")
    BY <1>11, HandlerWrites
  <2>2. /\ r.pc \in {"prompt", "record"} /\ q.pc = p /\ sess'.stage = "voicemail"
        /\ Turns(t, q) /\ events' = events
        /\ \A l \in Leg : sess'.leg[l] = sess.leg[l]
    BY <1>11, <2>1 DEF PromptSave, RecordSave, Saved, Wrote
  <2>3. Speaks(q) /\ ~Unanswerable' /\ \A k \in Leg : ~Handling(r, k)
    BY <2>1, <2>2 DEF Speaks, Unanswerable, Handling
  <2>4. sess' # Gone
    BY <2>2, GoneIsASession DEF Gone
  <2> QED
    BY <2>1, <2>2, <2>3, <2>4, TurnKeepsUnserved
<1>12. CASE SpeakPrompt(t)
  <2>1. Went(t, "idle", Gone, Caller) /\ r.pc = "speak"
    BY <1>12, HandlerGoes DEF SpeakPrompt
  <2>2. events \subseteq events' /\ <<"spoken", Caller>> \in events'
    BY <1>12 DEF SpeakPrompt, Waiting
  <2>3. Spoken'
    BY <2>2 DEF Spoken
  <2>4. Turns(t, q) /\ q.pc = "idle" /\ sess' = sess
    BY <2>1 DEF Went, Moves
  <2>5. (Unanswerable' <=> Unanswerable) /\ ~Routes(r) /\ \A k \in Leg : ~Handling(r, k)
    BY <2>1, <2>4 DEF Unanswerable, Routes, DialerPlace, Handling
  <2> QED
    BY <1>0, <2>2, <2>3, <2>4, <2>5, TurnKeepsUnserved
<1>13. ~RecordMessage(t)
  BY DEF RecordMessage, Waiting
<1> QED
  BY <1>1, <1>2, <1>3, <1>4, <1>5, <1>6, <1>7, <1>8, <1>9, <1>10, <1>11, <1>12, <1>13
     DEF End, Voicemail

LEMMA NextUnserved ==
  IInv /\ LinesOK /\ DialOK /\ CopiesFresh /\ StagesOK /\ CaptureOK /\ UnservedOK
  /\ IInv' /\ LinesOK' /\ Grows /\ mishap' = {} /\ [Next]_vars
    => UnservedOK'
<1> SUFFICES ASSUME IInv, LinesOK, DialOK, CopiesFresh, StagesOK, CaptureOK, UnservedOK,
                    IInv', LinesOK', Grows, mishap' = {}, [Next]_vars, Waiting'
             PROVE  UnservedOK'
  BY DEF UnservedOK
<1>0. Waiting /\ Reports
  BY NextReports DEF Waiting, Grows
<1>1. CASE Dial
  BY <1>0, <1>1, DialKeepsUnserved
<1>2. CASE World
  <2>1. task' = task /\ sess' = sess /\ events \subseteq events'
    BY <1>2, HangUpReports DEF World, CallerHangsUp, PickUp, Bridge, LegEnds
  <2> QED
    BY <1>0, <2>1, WorldKeepsUnserved
<1>3. ASSUME NEW t \in Task, Take(t) \/ Answer(t) PROVE UnservedOK'
  BY <1>0, <1>3, AnswerKeepsUnserved
<1>4. ASSUME NEW t \in Task, End(t) \/ Voicemail(t) PROVE UnservedOK'
  BY <1>0, <1>4, EndKeepsUnserved
<1>5. CASE UNCHANGED vars
  BY <1>0, <1>5, WorldKeepsUnserved DEF vars
<1> QED
  BY <1>1, <1>2, <1>3, <1>4, <1>5 DEF Next

LEMMA InitUnserved == Init => UnservedOK
<1> SUFFICES ASSUME Init PROVE UnservedOK
  OBVIOUS
<1>1. /\ task[Dialer] = [Idle EXCEPT !.pc = "ring", !.copy = sess]
      /\ \A t \in Task \ {Dialer} : task[t] = Idle
      /\ sess.stage = "connect" /\ \A l \in Leg : line[l] = "idle"
  BY DEF Init, Task, Gone
<1>2. task[Dialer].pc = "ring" /\ \A t \in Task \ {Dialer} : task[t].pc = "idle"
  BY <1>1 DEF Idle
<1>3. sess # Gone
  BY <1>1 DEF Gone
<1> QED
  BY <1>1, <1>2, <1>3 DEF UnservedOK, Unanswerable

----------------------------------------------------------------------------
(***************************************************************************)
(* The invariant of the ring, and what follows from it.                    *)
(***************************************************************************)

\* What holds up to the first mishap.
Orderly == mishap = {} => StagesOK /\ HangupsOK /\ OrphanOK /\ CaptureOK /\ WinOK /\ UnservedOK

RingInv == Basis /\ Orderly

LEMMA NextRing == RingInv /\ [Next]_vars => RingInv'
<1> SUFFICES ASSUME RingInv, [Next]_vars PROVE RingInv'
  OBVIOUS
<1>1. Basis'
  BY NextIInv, NextLines, NextDial, NextFresh DEF RingInv, Basis
<1>2. ASSUME mishap' = {}
      PROVE  (StagesOK /\ HangupsOK /\ OrphanOK /\ CaptureOK /\ WinOK /\ UnservedOK)'
  <2>1. mishap = {}
    BY <1>2 DEF Next, vars
  <2>2. /\ IInv /\ LinesOK /\ DialOK /\ CopiesFresh /\ IInv' /\ LinesOK'
        /\ StagesOK /\ HangupsOK /\ OrphanOK /\ CaptureOK /\ WinOK /\ UnservedOK
    BY <1>1, <2>1 DEF RingInv, Basis, Orderly
  <2>3. Grows /\ Tells /\ HandlesOnce
    BY <1>2, <2>2, NextGrows, NextTells, NextHandles
  <2>9. OrphanOK' /\ Hush
    BY <1>2, <2>2, <2>3, NextOrphan, NextHush
  <2>4. StagesOK'
    BY <1>2, <2>2, NextStages
  <2>5. HangupsOK'
    BY <2>2, <2>3, NextHangups
  <2>6. CaptureOK'
    BY <1>2, <2>2, <2>3, <2>5, <2>9, NextCapture
  <2>7. WinOK'
    BY <1>2, <2>2, <2>3, <2>9, NextWin
  <2>8. UnservedOK'
    BY <1>2, <2>2, <2>3, NextUnserved
  <2> QED
    BY <2>4, <2>5, <2>6, <2>7, <2>8, <2>9
<1> QED
  BY <1>1, <1>2 DEF RingInv, Orderly

LEMMA RingInvHolds == Spec => []RingInv
<1>1. Init => RingInv
  BY InitIInv, InitLines, InitDial, InitFresh, InitStages, InitHangups, InitOrphan, InitCapture,
     InitWin, InitUnserved
     DEF RingInv, Basis, Orderly
<1> QED
  BY <1>1, NextRing, PTL DEF Spec

\* The voicemail prompt is spoken only once every line is down: nobody is
\* bridged, rings or was picked up and waits for its bridge, unless it is a leg
\* whose dial threw though the carrier had accepted it (inboundCallControl.js:918).
THEOREM PromptsAreLate == Spec => []PromptIsForTheUnanswered
<1>1. RingInv => PromptIsForTheUnanswered
  BY DEF RingInv, Orderly, PromptIsForTheUnanswered, At, CaptureOK, Capture, Capturing, Ended, Quiet,
     AllDown
<1> QED
  BY <1>1, RingInvHolds, PTL

\* A call that is taken and whose events are all handled rings nowhere: the
\* winner's handler cancelled the legs it knew, the dialer dropped the others.
\* Only a leg the program gave up may ring on: its hangup failed
\* (inboundCallControl.js:698-703, 975-979) or its dial threw (:918).
THEOREM TakenCallsAreQuiet == Spec => []TakenCallStopsRinging
<1>1. RingInv => TakenCallStopsRinging
  BY DEF RingInv, Orderly, TakenCallStopsRinging, AtRest, At, WinOK, TakenOK, Cancelling, Dialing, Task
<1> QED
  BY <1>1, RingInvHolds, PTL

\* A caller all of whose legs have ended, and none of whose events is left, was
\* bridged to an agent or left a message, or the call is at "connecting".
THEOREM CallersAreServed == Spec => []CallerIsServed
<1>1. RingInv => CallerIsServed
  <2> SUFFICES ASSUME RingInv, AtRest, caller, ~served, sess.stage # "connecting",
                      \A l \in Leg : line[l] \in {"failed", "ended"}
               PROVE  FALSE
    BY DEF CallerIsServed
  <2>0. /\ IInv /\ LinesOK /\ StagesOK /\ UnservedOK /\ Waiting /\ Dialer \in Task
        /\ events = {} /\ \A t \in Task : task[t].pc = "idle"
    BY DEF RingInv, Basis, Orderly, AtRest, At, Waiting, Task
  <2>1. /\ sess # Gone /\ \A l \in Leg : line[l] = "ended" => sess.leg[l] \in {"no-answer", "answered"}
        /\ ~Unanswerable /\ sess.stage # "voicemail"
    BY <2>0 DEF UnservedOK, Told, Handling, Routes, DialerPlace, Speaks, Spoken
  <2>2. sess.stage \notin {"gone", "connect", "bridged"} /\ sess \in Session
    BY <2>0, <2>1 DEF IInv, TypeOK, Whole, StagesOK, Registering, LinesOK, Sound, Waiting
  <2>3. sess.stage = "ringing"
    BY <2>1, <2>2 DEF Session, Stages
  <2>4. ASSUME NEW l \in Leg PROVE sess.leg[l] \in {"no-answer", "failed"}
    <3>1. sess.leg[l] # "answered"
      BY <2>0, <2>3 DEF StagesOK, Staged, Late
    <3>2. CASE line[l] = "failed"
      <4>1. sess.leg[l] # "unknown"
        BY <2>0, <2>1 DEF StagesOK, Registering, Dialing
      <4>2. sess.leg[l] \notin {"ringing", "no-answer", "cancelled", "dropped"}
        BY <2>0, <3>2 DEF LinesOK, Sound
      <4> QED
        BY <2>2, <3>1, <4>1, <4>2 DEF Session, Statuses
    <3> QED
      BY <2>1, <3>1, <3>2
  <2> QED
    BY <2>1, <2>3, <2>4 DEF Unanswerable
<1> QED
  BY <1>1, RingInvHolds, PTL

\* No handler hangs up the leg that has the call while the caller is there: the
\* dialer drops a leg nobody knew of, the winner's handler cancels other legs,
\* and the end of a ring is for a caller who has gone.  A leg that is still up
\* once the others are down is a stranger, and no handler's copy has it ringing.
LEMMA StepSparesWinner ==
  ASSUME RingInv, Next, NEW l \in Leg, line[l] # "ended", line'[l] = "ended", task' # task, caller
  PROVE  l # winner
<1> USE DEF At
<1>0. IInv /\ LinesOK /\ DialOK /\ WinOK
  BY DEF RingInv, Basis, Orderly, Next
<1>q. line' # line
  OBVIOUS
<1>h. ASSUME NEW ls \in SUBSET Leg, HangUp(ls) PROVE l \in ls /\ line[l] \in Up
  <2>1. BringsDown(ls)
    BY <1>h, HangUpBringsDown
  <2> QED
    BY <2>1 DEF BringsDown
<1>1. CASE Dial
  <2> DEFINE r == task[Dialer]
  <2>1. CASE RegisterCheck
    <3> DEFINE ls == {r.leg} \cap {k \in Leg : Result(r.copy, r.leg,
                                             winner # NoLeg \/ HasWinner(r.copy)).leg[k] = "dropped"}
    <3>0. r.pc = "check" /\ HangUp(ls) /\ ls \in SUBSET Leg /\ ls \subseteq {r.leg}
      BY <2>1 DEF RegisterCheck
    <3> HIDE DEF ls
    <3>1. r.leg = l
      BY <1>h, <3>0
    <3>2. Dialing(r, l)
      BY <3>0, <3>1 DEF Dialing, Leg
    <3> QED
      BY <1>0, <3>2 DEF DialOK
  <2>2. ASSUME NEW k \in Leg, DialLeg(k) PROVE FALSE
    BY <2>2 DEF DialLeg
  <2> QED
    BY <1>1, <1>q, <2>1, <2>2
       DEF Dial, StartRinging, DialsReturn, RegisterLoad, RegisterSave, Recount, RecountSave, carrier
<1>2. CASE World
  BY <1>2 DEF World, CallerHangsUp, PickUp, Bridge, LegEnds
<1>3. ASSUME NEW t \in Task, Take(t) \/ Answer(t) PROVE l # winner
  <2>1. CASE CancelRemaining(t)
    <3> DEFINE ls == Losers(task[t].copy, task[t].leg)
    <3>0. task[t].pc = "cancel" /\ HangUp(ls) /\ ls \in SUBSET Leg
      BY <2>1 DEF CancelRemaining, Losers, RingingIn
    <3>a. \A k \in ls : k # task[t].leg /\ task[t].copy.leg[k] = "ringing"
      BY DEF Losers, RingingIn
    <3> HIDE DEF ls
    <3>1. l \in ls /\ line[l] \in Up
      BY <1>h, <3>0
    <3>2. l # task[t].leg /\ ~Stranger(l)
      BY <3>1, <3>a DEF Stranger, Aside, Lost
    <3>3. ~Quiet
      BY <3>1, <3>2 DEF Quiet, AllDown, Up
    <3> QED
      BY <1>0, <3>0, <3>2, <3>3, NoLegIsNoLeg DEF WinOK, ClaimsOK, ClaimAt
  <2> QED
    BY <1>3, <1>q, <2>1
       DEF Take, Begin, Answer, AcceptSave, MarkConnecting, AnswerReload, MarkAnswered, Claim, MarkPaired,
           MarkBridged, SaveWon, carrier
<1>4. ASSUME NEW t \in Task, End(t) PROVE l # winner
  <2>1. CASE AbandonRing(t)
    <3>1. task[t].pc = "hangup" /\ task[t].leg = Caller
      BY <2>1 DEF AbandonRing
    <3>2. task[t].kind = "hangup" /\ task[t].pc \notin NoCopy
      BY <1>0, <3>1 DEF IInv, Whole, Placed, EndPlace, NoCopy
    <3> QED
      BY <1>0, <3>1, <3>2 DEF LinesOK, Heard
  <2> QED
    BY <1>4, <1>q, <2>1
       DEF End, IgnoreHangup, RingingLegHangup, LoserHangup, LoserSave, ClosingHangup, LegEnded,
           NoAnswerSave, ClearClaims, DeleteSession, carrier
<1>5. ASSUME NEW t \in Task, Voicemail(t) PROVE l # winner
  BY <1>5, <1>q DEF Voicemail, RouteToVoicemail, PromptSave, SpeakPrompt, RecordSave, RecordMessage, carrier
<1> QED
  BY <1>1, <1>2, <1>3, <1>4, <1>5 DEF Next

\* While the caller is on the line the program never hangs up the leg that holds
\* the claim.
THEOREM WinnersAreSpared == Spec => WinnerIsNotHungUp
<1>1. RingInv /\ [Next]_vars =>
        [\A l \in Leg : line[l] # "ended" /\ line'[l] = "ended" /\ task' # task
                          => l # winner \/ ~caller]_vars
  BY StepSparesWinner
<1> QED
  BY <1>1, RingInvHolds, PTL DEF Spec, WinnerIsNotHungUp
=============================================================================
