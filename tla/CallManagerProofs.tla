-------------------------- MODULE CallManagerProofs --------------------------
(***************************************************************************)
(* Safety of the call manager for any number of calls, legs, events and    *)
(* workers, any stream order and any mixture of faults.                    *)
(***************************************************************************)
EXTENDS CallManager, FiniteSetTheorems, TLAPS

----------------------------------------------------------------------------
(* What the proofs need to know of the transition tables, so that none has  *)
(* to open them again.                                                      *)

FeatureTrigger == {"route.decided", "hold.started", "hold.ended",
  "transfer.started", "transfer.completed", "transfer.cancelled"}

\* Where a session goes to tear the call down.
Teardown == {"ENDING", "ENDED", "FAILED"}

LEMMA LegTargets ==
  \A l, t : Targets(LegRule, l, t) \subseteq LegState
BY DEF Targets, LegRule, LegState

LEMMA SessionTargets ==
  \A s, t : Targets(SessionRule, s, t) \subseteq SessionState
BY DEF Targets, SessionRule, SessionState

\* Only a session in ENDING is closed, and that is all closing does.
LEMMA ClosingTargets ==
  /\ \A s, t : "ENDED" \in Targets(SessionRule, s, t) => s = "ENDING"
  /\ \A s : Targets(SessionRule, s, "session.closed") \subseteq {"ENDED"}
BY DEF Targets, SessionRule

\* No feature tears a call down.
LEMMA FeatureTargets ==
  \A t \in FeatureTrigger :
    /\ \A s : Targets(SessionRule, s, t) \cap Teardown = {}
    /\ \A l : Targets(LegRule, l, t) \cap Terminal = {}
BY DEF Targets, SessionRule, LegRule, FeatureTrigger, Teardown, Terminal

LEMMA HangupTargets ==
  \A l : /\ Targets(LegRule, l, "leg.hangup") \subseteq {"ENDED"}
         /\ Targets(LegRule, l, "call.failed") \subseteq {"FAILED"}
BY DEF Targets, LegRule

LEMMA LegTriggersExist ==
  ASSUME NEW k \in Kind PROVE LegTrigger(k) \in Trigger
<1>1. \A r \in LegRule : r[2] \in Trigger
  BY DEF Trigger
<1>2. /\ <<"NEW", "leg.created", "DIALING">> \in LegRule
      /\ <<"DIALING", "call.ringing", "RINGING">> \in LegRule
      /\ <<"RINGING", "call.answered", "ANSWERED">> \in LegRule
      /\ <<"ANSWERED", "bridge.completed", "BRIDGED">> \in LegRule
      /\ <<"BRIDGED", "leg.hangup", "ENDED">> \in LegRule
      /\ <<"DIALING", "call.failed", "FAILED">> \in LegRule
  BY DEF LegRule
<1>3. {"leg.created", "call.ringing", "call.answered", "bridge.completed",
       "leg.hangup", "call.failed"} \subseteq Trigger
  BY <1>1, <1>2
<1>4. "none" \in Trigger
  BY DEF Trigger
<1> QED BY <1>3, <1>4 DEF Kind, LegTrigger

LEMMA SessionTriggersExist ==
  ASSUME NEW k \in Kind PROVE SessionTrigger(k) \in Trigger
<1>1. \A r \in SessionRule : r[2] \in Trigger
  BY DEF Trigger
<1>2. /\ <<"NEW", "origin.parked", "ORIGIN_PARKED">> \in SessionRule
      /\ <<"NEW", "session.created", "ROUTING">> \in SessionRule
      /\ <<"NEW", "call.initiated", "ROUTING">> \in SessionRule
      /\ <<"RINGING", "call.answered", "BRIDGING">> \in SessionRule
      /\ <<"BRIDGING", "bridge.completed", "ACTIVE">> \in SessionRule
      /\ <<"ACTIVE", "leg.ended", "ENDING">> \in SessionRule
      /\ <<"RINGING", "call.failed", "FAILED">> \in SessionRule
  BY DEF SessionRule
<1>3. {"origin.parked", "session.created", "call.initiated", "call.answered",
       "bridge.completed", "leg.ended", "call.failed"} \subseteq Trigger
  BY <1>1, <1>2
<1>4. "none" \in Trigger
  BY DEF Trigger
<1> QED BY <1>3, <1>4 DEF Kind, SessionTrigger

LEMMA OtherTriggersExist == FeatureTrigger \cup {"session.closed"} \subseteq Trigger
<1>1. \A r \in SessionRule : r[2] \in Trigger
  BY DEF Trigger
<1>2. /\ <<"ROUTING", "route.decided", "RINGING">> \in SessionRule
      /\ <<"ACTIVE", "hold.started", "HELD">> \in SessionRule
      /\ <<"HELD", "hold.ended", "ACTIVE">> \in SessionRule
      /\ <<"ACTIVE", "transfer.started", "TRANSFER_PENDING">> \in SessionRule
      /\ <<"TRANSFER_PENDING", "transfer.completed", "ACTIVE">> \in SessionRule
      /\ <<"TRANSFER_PENDING", "transfer.cancelled", "ACTIVE">> \in SessionRule
      /\ <<"ENDING", "session.closed", "ENDED">> \in SessionRule
  BY DEF SessionRule
<1> QED BY <1>1, <1>2 DEF FeatureTrigger

\* What resolveLegTransition yields: a leg state; the same one if the leg has
\* ended; the end of the leg for a hangup or failure; never the end for a
\* feature's trigger.
LEMMA LegMoves ==
  ASSUME NEW l \in LegState, NEW t \in Trigger
  PROVE  /\ LegTo(l, t) \in LegState
         /\ l \in Terminal => LegTo(l, t) = l
         /\ t \in {"leg.hangup", "call.failed"} => LegTo(l, t) \in Terminal
         /\ t \in FeatureTrigger /\ LegTo(l, t) # l => LegTo(l, t) \notin Terminal
<1>1. LegTo(l, t) = IF l \in Terminal THEN l
                    ELSE IF Targets(LegRule, l, t) # {}
                         THEN CHOOSE x \in Targets(LegRule, l, t) : TRUE
                    ELSE IF t = "call.failed" THEN "FAILED"
                    ELSE IF t \in {"leg.hangup", "leg.ended"} THEN "ENDED"
                    ELSE l
  BY DEF LegTo, LegTable
<1>2. Targets(LegRule, l, t) # {} =>
        (CHOOSE x \in Targets(LegRule, l, t) : TRUE) \in Targets(LegRule, l, t)
  OBVIOUS
<1>3. {"ENDED", "FAILED"} \subseteq LegState
  BY DEF LegState
<1>4. LegTo(l, t) \in LegState
  BY <1>1, <1>2, <1>3, LegTargets
<1>5. t \in {"leg.hangup", "call.failed"} => LegTo(l, t) \in Terminal
  <2>1. CASE t = "leg.hangup"
    BY <1>1, <1>2, <2>1, HangupTargets DEF Terminal
  <2>2. CASE t = "call.failed"
    BY <1>1, <1>2, <2>2, HangupTargets DEF Terminal
  <2> QED BY <2>1, <2>2
<1>6. t \in FeatureTrigger /\ LegTo(l, t) # l => LegTo(l, t) \notin Terminal
  BY <1>1, <1>2, FeatureTargets DEF FeatureTrigger
<1> QED BY <1>1, <1>4, <1>5, <1>6

\* What resolveSessionTransition yields.
LEMMA SessionMoves ==
  ASSUME NEW s \in SessionState, NEW t \in Trigger
  PROVE  /\ SessionTo(s, t) \in SessionState
         /\ s \in Terminal => SessionTo(s, t) = s
         /\ SessionTo(s, t) = "ENDED" => s \in {"ENDING", "ENDED"}
         /\ t = "session.closed" /\ SessionTo(s, t) # s => s = "ENDING" /\ SessionTo(s, t) = "ENDED"
         /\ t \in FeatureTrigger /\ SessionTo(s, t) # s => SessionTo(s, t) \notin Teardown
<1>1. SessionTo(s, t) = IF s \in Terminal \/ Targets(SessionRule, s, t) = {} THEN s
                        ELSE CHOOSE x \in Targets(SessionRule, s, t) : TRUE
  BY DEF SessionTo, SessionTable
<1>2. Targets(SessionRule, s, t) # {} =>
        (CHOOSE x \in Targets(SessionRule, s, t) : TRUE) \in Targets(SessionRule, s, t)
  OBVIOUS
<1> QED BY <1>1, <1>2, SessionTargets, ClosingTargets, FeatureTargets

----------------------------------------------------------------------------
(* Types, and what exists by the time a worker gets anywhere.               *)

\* What exists by the time a worker gets to each place of its delivery.
Grounded ==
  /\ \A l \in Leg : lState[l] # "NONE" => sState[CallOf[l]] # "NONE"
  /\ \A w \in Worker :
       /\ pc[w] \in {"bootleg", "announce", "found"} \cup InFsm =>
            sState[CallOfW(w)] # "NONE"
       /\ pc[w] \in {"announce", "found"} \cup InFsm => lState[LegOfW(w)] # "NONE"
       /\ pc[w] \in {"loaded", "decided"} => view[w].s # "NONE"
       /\ pc[w] = "decided" => view[w].l # "NONE"

TInv == TypeOK /\ Grounded

LEMMA InitTInv == Init => TInv
BY CallManagerAssumption DEF Init, TInv, TypeOK, Grounded, NoView, View, Msg, Control,
   InBoot, InFsm

LEMMA WorkersEvent ==
  ASSUME TInv, NEW w \in Worker, pc[w] # "idle"
  PROVE  /\ ev[w] \in Event
         /\ KindOf[ev[w]] \in Kind
         /\ LegOfW(w) \in Leg
         /\ CallOfW(w) \in Call
BY CallManagerAssumption DEF TInv, TypeOK, LegOfW, CallOfW

\* The decision a worker comes to, from what it has loaded.
LEMMA Decision ==
  ASSUME TInv, NEW w \in Worker, pc[w] = "decided"
  PROVE  /\ view[w].l \in LegState /\ view[w].s \in SessionState
         /\ ToLeg(w) \in LegState /\ ToSession(w) \in SessionState
         /\ ToClosed(w) \in SessionState
         /\ view[w].l \in Terminal => ToLeg(w) = view[w].l
         /\ KindOf[ev[w]] \in {"hangup", "failed"} => ToLeg(w) \in Terminal
         /\ ToSession(w) = "ENDED" => view[w].s \in {"ENDING", "ENDED"}
         /\ Closes(w) => /\ MovesLeg(w) /\ ToLeg(w) \in Terminal /\ ~view[w].open
                         /\ ToSession(w) = "ENDING" /\ ToClosed(w) = "ENDED"
<1>1. KindOf[ev[w]] \in Kind
  BY WorkersEvent
<1>2. view[w].l \in LegState /\ view[w].s \in SessionState
  BY DEF TInv, TypeOK, View, Grounded
<1>3. LegTrigger(KindOf[ev[w]]) \in Trigger /\ SessionTrigger(KindOf[ev[w]]) \in Trigger
  BY <1>1, LegTriggersExist, SessionTriggersExist
<1>4. "session.closed" \in Trigger
  BY OtherTriggersExist
<1>5. KindOf[ev[w]] \in {"hangup", "failed"} =>
        LegTrigger(KindOf[ev[w]]) \in {"leg.hangup", "call.failed"}
  BY DEF LegTrigger
<1>6. /\ ToLeg(w) \in LegState
      /\ view[w].l \in Terminal => ToLeg(w) = view[w].l
      /\ KindOf[ev[w]] \in {"hangup", "failed"} => ToLeg(w) \in Terminal
  BY <1>2, <1>3, <1>5, LegMoves DEF ToLeg
<1>7. /\ ToSession(w) \in SessionState
      /\ ToSession(w) = "ENDED" => view[w].s \in {"ENDING", "ENDED"}
  BY <1>2, <1>3, SessionMoves DEF ToSession
<1>8. /\ ToClosed(w) \in SessionState
      /\ Closes(w) => /\ MovesLeg(w) /\ ToLeg(w) \in Terminal /\ ~view[w].open
                      /\ ToSession(w) = "ENDING" /\ ToClosed(w) = "ENDED"
  <2>1. /\ SessionTo(ToSession(w), "session.closed") \in SessionState
        /\ SessionTo(ToSession(w), "session.closed") # ToSession(w) =>
             /\ ToSession(w) = "ENDING"
             /\ SessionTo(ToSession(w), "session.closed") = "ENDED"
    BY <1>4, <1>7, SessionMoves
  <2> QED BY <1>7, <2>1 DEF ToClosed, Completed, Closes, MovesLeg
<1> QED BY <1>2, <1>6, <1>7, <1>8

\* The number of audit rows of a commit.
LEMMA RowCount ==
  ASSUME NEW w \in Worker
  PROVE  /\ Cardinality(NewSRows(w)) \in Nat
         /\ NewSRows(w) # {} => Cardinality(NewSRows(w)) > 0
<1> DEFINE x == <<ev[w], "session">>
           y == <<ev[w], "closed">>
<1>0. {x, y} = {x} \cup {y}
  OBVIOUS
<1>1. IsFiniteSet({x, y})
  <2> HIDE DEF x, y
  <2>1. IsFiniteSet({x})
    BY FS_Singleton
  <2>2. IsFiniteSet({x} \cup {y})
    BY <2>1, FS_AddElement
  <2> QED BY <1>0, <2>2
<1>2. NewSRows(w) \subseteq {x, y}
  BY DEF NewSRows
<1>3. IsFiniteSet(NewSRows(w))
  BY <1>1, <1>2, FS_Subset
<1>4. Cardinality(NewSRows(w)) \in Nat
  BY <1>3, FS_CardinalityType
<1>5. Cardinality(NewSRows(w)) = 0 <=> NewSRows(w) = {}
  BY <1>3, FS_EmptySet
<1> QED BY <1>4, <1>5
\* Places and types of the workers, after a step that moves one of them.
WorkerPart ==
  /\ pc \in [Worker -> Control]
  /\ ev \in [Worker -> Event \cup {NoEvent}]
  /\ \A w \in Worker : pc[w] # "idle" => ev[w] \in Event
  /\ attempt \in [Worker -> 0 .. (MaxAttempts - 1)]
  /\ made \in [Worker -> SUBSET {"session", "leg"}]
  /\ view \in [Worker -> View]
  /\ Grounded

LockPart ==
  /\ sLock \in [Call -> Worker \cup {Free, Other}]
  /\ bLock \in [Leg -> Worker \cup {Free, Other}]

\* The rows that exist and the event of a worker do not go away under it.
RowsStay ==
  /\ \A c \in Call : sState[c] # "NONE" => sState'[c] # "NONE"
  /\ \A l \in Leg : /\ lState[l] # "NONE" => lState'[l] # "NONE"
                    /\ lState'[l] # "NONE" => sState'[CallOf[l]] # "NONE"

LEMMA DropTypes ==
  ASSUME TInv, RowsStay, NEW w \in Worker, Drop(w) PROVE WorkerPart'
BY CallManagerAssumption DEF Drop, Goto, TInv, TypeOK, Grounded, WorkerPart, RowsStay,
   NoView, View, Control, InBoot, InFsm, LegOfW, CallOfW

LEMMA ReleaseTypes ==
  ASSUME TInv, NEW w \in Worker, Release(w) PROVE LockPart'
BY DEF Release, Unlock, TInv, TypeOK, LockPart

\* A worker goes from a place to one that asks for no more than is there.
LEMMA GotoTypes ==
  ASSUME TInv, RowsStay, NEW w \in Worker, NEW p \in Control, Goto(w, p),
         UNCHANGED <<ev, attempt, made, view>>, pc[w] # "idle",
         p \in {"bootleg", "announce", "found"} \cup InFsm => sState'[CallOfW(w)] # "NONE",
         p \in {"announce", "found"} \cup InFsm => lState'[LegOfW(w)] # "NONE",
         p \notin {"loaded", "decided"}
  PROVE  WorkerPart'
BY CallManagerAssumption DEF Goto, TInv, TypeOK, Grounded, WorkerPart, RowsStay,
   View, Control, InBoot, InFsm, LegOfW, CallOfW

LEMMA StepTInv == TInv /\ [Next]_vars => TInv'
<1> SUFFICES ASSUME TInv, [Next]_vars PROVE TInv'
  OBVIOUS
<1> USE CallManagerAssumption
<1>a. /\ \A v \in Worker : pc[v] # "idle" => LegOfW(v) \in Leg /\ CallOfW(v) \in Call
      /\ \A v \in Worker : pc[v] # "idle" => CallOfW(v) = CallOf[LegOfW(v)]
  BY WorkersEvent DEF CallOfW
\* Most steps leave most variables alone.
<1>b. ASSUME WorkerPart', LockPart', UNCHANGED <<rowVars, streamVars, history>> PROVE TInv'
  BY <1>b DEF TInv, TypeOK, WorkerPart, LockPart, rowVars, streamVars, history
<1>c. ASSUME UNCHANGED <<sLock, bLock>> PROVE LockPart'
  BY <1>c DEF TInv, TypeOK, LockPart
<1>d. ASSUME UNCHANGED rowVars PROVE RowsStay
  BY <1>d DEF TInv, Grounded, RowsStay, rowVars
<1>e. ASSUME UNCHANGED <<pc, workVars>>, RowsStay PROVE WorkerPart'
  BY <1>a, <1>e DEF TInv, TypeOK, Grounded, WorkerPart, RowsStay, workVars, LegOfW, CallOfW, InFsm
<1>1. ASSUME NEW w \in Worker, NEW e \in Event, Take(w, e) PROVE TInv'
  <2>1. /\ msg' \in [Event -> Msg]
        /\ deliveries' \in [Event -> 0 .. MaxDeliveries]
    BY <1>1 DEF Take, TInv, TypeOK, Msg
  <2>2. WorkerPart'
    <3>1. pc' \in [Worker -> Control] /\ pc'[w] \in {"ack", "found", "boot"}
      BY <1>1 DEF Take, Begin, Goto, TInv, TypeOK, Control
    <3>2. pc'[w] = "found" => lState[LegOf[e]] # "NONE"
      BY <1>1 DEF Take, Begin, Goto, TInv, TypeOK
    <3>3. \A v \in Worker \ {w} : pc'[v] = pc[v] /\ ev'[v] = ev[v]
      BY <1>1 DEF Take, Begin, Goto
    <3>4. ev' = [ev EXCEPT ![w] = e] /\ UNCHANGED <<rowVars, attempt, made, view>>
      BY <1>1 DEF Take, Begin
    <3>5. Grounded'
      BY <3>1, <3>2, <3>3, <3>4 DEF TInv, TypeOK, Grounded, LegOfW, CallOfW, InFsm, rowVars
    <3> QED BY <3>1, <3>3, <3>4, <3>5 DEF TInv, TypeOK, WorkerPart
  <2> QED BY <1>1, <1>c, <2>1, <2>2 DEF Take, TInv, TypeOK, WorkerPart, LockPart, rowVars, history
<1>2. ASSUME NEW w \in Worker, TakeBootstrapLock(w) PROVE TInv'
  <2>1. LockPart'
    BY <1>2 DEF TakeBootstrapLock, TInv, TypeOK, LockPart
  <2>2. WorkerPart'
    BY <1>2, <1>a, <1>d, GotoTypes DEF TakeBootstrapLock, workVars, Control, InBoot, InFsm
  <2> QED BY <1>2, <1>b, <2>1, <2>2 DEF TakeBootstrapLock
<1>3. ASSUME NEW w \in Worker, BootSession(w) PROVE TInv'
  <2>1. CASE lState[LegOfW(w)] # "NONE"
    <3>1. Goto(w, "found") /\ Release(w) /\ UNCHANGED <<rowVars, streamVars, workVars, history>>
      BY <1>3, <2>1 DEF BootSession, workVars
    <3>2. sState[CallOfW(w)] # "NONE" /\ pc[w] # "idle"
      BY <1>3, <1>a, <2>1 DEF TInv, Grounded, BootSession
    <3>3. WorkerPart'
      BY <1>d, <2>1, <3>1, <3>2, GotoTypes DEF Control, InFsm, rowVars, workVars
    <3> QED BY <1>b, <3>1, <3>3, ReleaseTypes
  <2>2. CASE lState[LegOfW(w)] = "NONE"
    <3>1. /\ pc[w] = "bootlocked"
          /\ sState' = [sState EXCEPT ![CallOfW(w)] = IF @ = "NONE" THEN "NEW" ELSE @]
          /\ \E m \in SUBSET {"session", "leg"} : made' = [made EXCEPT ![w] = m]
          /\ pc' = [pc EXCEPT ![w] = "bootleg"]
          /\ UNCHANGED <<sVersion, lState, lVersion, sRows, lRows, commands, sLock, bLock,
                         streamVars, ev, attempt, view, history>>
      BY <1>3, <2>2 DEF BootSession, Goto
    <3>2. /\ sState' \in [Call -> SessionState \cup {"NONE"}]
          /\ sState'[CallOfW(w)] # "NONE"
          /\ RowsStay
      BY <1>a, <3>1 DEF TInv, TypeOK, Grounded, RowsStay, SessionState
    <3>3. Grounded'
      BY <1>a, <3>1, <3>2 DEF TInv, TypeOK, Grounded, RowsStay, LegOfW, CallOfW, InFsm
    <3> QED BY <3>1, <3>2, <3>3 DEF TInv, TypeOK, Control, InBoot, streamVars, history
  <2> QED BY <2>1, <2>2
<1>4. ASSUME NEW w \in Worker, BootLeg(w) PROVE TInv'
  <2>1. /\ pc[w] = "bootleg"
        /\ lState' = [lState EXCEPT ![LegOfW(w)] = IF @ = "NONE" THEN "NEW" ELSE @]
        /\ \E m \in SUBSET {"session", "leg"} : made' = [made EXCEPT ![w] = m]
        /\ pc' = [pc EXCEPT ![w] = "announce"]
        /\ UNCHANGED <<sState, sVersion, lVersion, sRows, lRows, commands, sLock, bLock,
                       streamVars, ev, attempt, view, history>>
    BY <1>4 DEF BootLeg, Goto, TInv, TypeOK
  <2>2. sState[CallOfW(w)] # "NONE"
    BY <2>1 DEF TInv, Grounded
  <2>3. /\ lState' \in [Leg -> LegState \cup {"NONE"}]
        /\ lState'[LegOfW(w)] # "NONE"
        /\ RowsStay
    BY <1>a, <2>1, <2>2 DEF TInv, TypeOK, Grounded, RowsStay, LegState
  <2>4. Grounded'
    BY <1>a, <2>1, <2>2, <2>3 DEF TInv, TypeOK, Grounded, RowsStay, LegOfW, CallOfW, InFsm
  <2> QED BY <2>1, <2>3, <2>4 DEF TInv, TypeOK, Control, InBoot, streamVars, history
<1>5. ASSUME NEW w \in Worker, Announce(w) PROVE TInv'
  <2>1. WorkerPart'
    BY <1>5, <1>d, GotoTypes DEF Announce, TInv, Grounded, Control, InFsm, rowVars, workVars
  <2>2. sPublished' \in [Call -> Nat] /\ lPublished' \in [Leg -> Nat]
    BY <1>5, <1>a DEF Announce, TInv, TypeOK
  <2> QED BY <1>5, <2>1, <2>2, ReleaseTypes
       DEF Announce, TInv, TypeOK, WorkerPart, LockPart, rowVars, streamVars
<1>6. ASSUME NEW w \in Worker, TakeSessionLock(w) PROVE TInv'
  <2>1. LockPart'
    BY <1>6, <1>a DEF TakeSessionLock, TInv, TypeOK, LockPart
  <2>2. WorkerPart'
    BY <1>6, <1>a, <1>d, GotoTypes
       DEF TakeSessionLock, TInv, Grounded, workVars, rowVars, Control, InFsm
  <2> QED BY <1>6, <1>b, <2>1, <2>2 DEF TakeSessionLock
<1>7. ASSUME NEW w \in Worker, LoadSession(w) PROVE TInv'
  <2> DEFINE loaded == [s |-> sState[CallOfW(w)], v |-> sVersion[CallOfW(w)],
                        open |-> OthersOpen(LegOfW(w)), l |-> "NONE", lv |-> 0]
  <2>1. view' = [view EXCEPT ![w] = loaded]
    BY <1>7 DEF LoadSession
  <2>0. OthersOpen(LegOfW(w)) \in BOOLEAN
    BY DEF OthersOpen
  <2>2. /\ pc[w] = "locked" /\ pc' = [pc EXCEPT ![w] = "loaded"]
        /\ UNCHANGED <<rowVars, streamVars, sLock, bLock, ev, attempt, made, history>>
    BY <1>7 DEF LoadSession, Goto
  <2>3. view' \in [Worker -> View] /\ view'[w].s # "NONE"
    <3>1. /\ sState[CallOfW(w)] \in SessionState /\ sVersion[CallOfW(w)] \in Nat
          /\ sState[CallOfW(w)] # "NONE"
      BY <1>a, <2>2 DEF TInv, TypeOK, Grounded, InFsm
    <3>2. loaded \in View /\ loaded.s # "NONE"
      BY <2>0, <3>1 DEF View
    <3> HIDE DEF loaded
    <3> QED BY <2>1, <3>2 DEF TInv, TypeOK
  <2>4. \A v \in Worker \ {w} : view'[v] = view[v]
    BY <2>1
  <2>5. Grounded'
    BY <2>2, <2>3, <2>4 DEF TInv, TypeOK, Grounded, LegOfW, CallOfW, InFsm, rowVars
  <2>6. WorkerPart'
    BY <2>2, <2>3, <2>5 DEF TInv, TypeOK, WorkerPart, Control, InFsm
  <2> QED BY <1>b, <1>c, <2>2, <2>6
<1>8. ASSUME NEW w \in Worker, LoadLeg(w) PROVE TInv'
  <2>1. /\ pc[w] = "loaded" /\ pc' = [pc EXCEPT ![w] = "decided"]
        /\ view' = [view EXCEPT ![w] =
             [s |-> view[w].s, v |-> view[w].v, open |-> view[w].open,
              l |-> lState[LegOfW(w)], lv |-> lVersion[LegOfW(w)]]]
        /\ UNCHANGED <<rowVars, streamVars, sLock, bLock, ev, attempt, made, history>>
    BY <1>8 DEF LoadLeg, Goto, TInv, TypeOK, View
  <2>2. /\ view' \in [Worker -> View]
        /\ view'[w].s # "NONE" /\ view'[w].l # "NONE"
    <3>1. /\ lState[LegOfW(w)] \in LegState /\ lVersion[LegOfW(w)] \in Nat
          /\ lState[LegOfW(w)] # "NONE"
          /\ view[w] \in View /\ view[w].s # "NONE"
      BY <1>a, <2>1 DEF TInv, TypeOK, Grounded, InFsm
    <3> DEFINE r == [s |-> view[w].s, v |-> view[w].v, open |-> view[w].open,
                     l |-> lState[LegOfW(w)], lv |-> lVersion[LegOfW(w)]]
    <3>3. r \in View /\ r.s # "NONE" /\ r.l # "NONE"
      BY <3>1 DEF View
    <3>4. view' = [view EXCEPT ![w] = r]
      BY <2>1
    <3> HIDE DEF r
    <3> QED BY <3>3, <3>4 DEF TInv, TypeOK
  <2>3. \A v \in Worker \ {w} : view'[v] = view[v]
    BY <2>1
  <2>4. Grounded'
    BY <2>1, <2>2, <2>3 DEF TInv, TypeOK, Grounded, LegOfW, CallOfW, InFsm, rowVars
  <2>5. WorkerPart'
    BY <2>1, <2>2, <2>4 DEF TInv, TypeOK, WorkerPart, Control, InFsm
  <2> QED BY <1>b, <1>c, <2>1, <2>5
<1>f. ASSUME NEW w \in Worker, pc[w] # "idle", Answer(w),
             UNCHANGED <<rowVars, streamVars, workVars, sPublished, lPublished>>
      PROVE  TInv'
  <2>1. WorkerPart'
    BY <1>f, <1>d, GotoTypes DEF Answer, Control, InFsm, workVars
  <2>2. handled' \subseteq Event
    BY <1>f, WorkersEvent DEF Answer, TInv, TypeOK
  <2> QED BY <1>f, <2>1, <2>2, ReleaseTypes
       DEF Answer, TInv, TypeOK, WorkerPart, LockPart, rowVars, streamVars
<1>9. ASSUME NEW w \in Worker, NoTransition(w) \/ Duplicate(w) \/ Publish(w) PROVE TInv'
  BY <1>9, <1>f DEF NoTransition, Duplicate, Publish
<1>10. ASSUME NEW w \in Worker, Conflict(w) PROVE TInv'
  <2>1. /\ pc[w] = "decided" /\ pc' = [pc EXCEPT ![w] = "locked"]
        /\ attempt[w] + 1 < MaxAttempts /\ attempt' = [attempt EXCEPT ![w] = @ + 1]
        /\ UNCHANGED <<rowVars, streamVars, sLock, bLock, ev, made, view, history>>
    BY <1>10 DEF Conflict, Goto
  <2>2. attempt' \in [Worker -> 0 .. (MaxAttempts - 1)]
    BY <2>1 DEF TInv, TypeOK
  <2>3. Grounded'
    BY <2>1 DEF TInv, TypeOK, Grounded, LegOfW, CallOfW, InFsm, rowVars
  <2>4. WorkerPart'
    BY <2>1, <2>2, <2>3 DEF TInv, TypeOK, WorkerPart, Control, InFsm
  <2> QED BY <1>b, <1>c, <2>1, <2>4
<1>11. ASSUME NEW w \in Worker, Commit(w) PROVE TInv'
  <2>1. /\ pc[w] = "decided" /\ Goto(w, "publish")
        /\ UNCHANGED <<streamVars, sLock, bLock, workVars, history>>
        /\ sRows' = sRows \cup NewSRows(w) /\ lRows' = lRows \cup NewLRows(w)
        /\ commands' = commands \cup CommandsOf(w)
    BY <1>11 DEF Commit
  <2>2. /\ sState' \in [Call -> SessionState \cup {"NONE"}] /\ sVersion' \in [Call -> Nat]
        /\ lState' \in [Leg -> LegState \cup {"NONE"}] /\ lVersion' \in [Leg -> Nat]
    <3>1. CallOfW(w) \in Call /\ LegOfW(w) \in Leg
      BY <1>a, <2>1
    <3>2. /\ ToClosed(w) \in SessionState /\ ToLeg(w) \in LegState
          /\ Cardinality(NewSRows(w)) \in Nat
      BY <2>1, Decision, RowCount
    <3>3. CASE NewSRows(w) = {}
      BY <3>3, <1>11, <3>1, <3>2 DEF Commit, TInv, TypeOK
    <3>4. CASE NewSRows(w) # {}
      BY <3>4, <1>11, <3>1, <3>2 DEF Commit, TInv, TypeOK
    <3> QED BY <3>3, <3>4
  <2>3. RowsStay
    <3>1. ToClosed(w) # "NONE" /\ ToLeg(w) # "NONE"
      BY <2>1, Decision DEF SessionState, LegState
    <3>2. \A c \in Call : sState[c] # "NONE" => sState'[c] # "NONE"
      BY <1>11, <1>a, <3>1 DEF Commit, TInv, TypeOK
    <3>3. sState[CallOfW(w)] # "NONE" /\ CallOfW(w) = CallOf[LegOfW(w)]
      BY <1>a, <2>1 DEF TInv, Grounded, InFsm
    <3>4. \A l \in Leg : /\ lState[l] # "NONE" => lState'[l] # "NONE"
                         /\ lState'[l] # "NONE" => lState[l] # "NONE" \/ l = LegOfW(w)
      BY <1>11, <1>a, <3>1 DEF Commit, TInv, TypeOK
    <3> QED BY <3>2, <3>3, <3>4 DEF TInv, Grounded, RowsStay
  <2>4. WorkerPart'
    <3>1. sState'[CallOfW(w)] # "NONE" /\ lState'[LegOfW(w)] # "NONE"
      BY <1>a, <2>1, <2>3 DEF TInv, Grounded, RowsStay, InFsm
    <3> QED BY <2>1, <2>3, <3>1, GotoTypes DEF Control, InFsm, workVars
  <2>5. /\ sRows' \subseteq Event \X {"session", "closed"}
        /\ lRows' \subseteq Event \X {"leg"}
        /\ commands' \subseteq Event \X {"BRIDGE", "HANGUP"}
    BY <2>1, WorkersEvent DEF TInv, TypeOK, NewSRows, NewLRows, CommandsOf, Intents
  <2> QED BY <1>c, <2>1, <2>2, <2>4, <2>5 DEF TInv, TypeOK, WorkerPart, LockPart, streamVars, history
<1>12. ASSUME NEW w \in Worker, Ack(w) PROVE TInv'
  <2>1. WorkerPart'
    BY <1>12, <1>d, DropTypes DEF Ack
  <2>2. msg' \in [Event -> Msg]
    BY <1>12 DEF Ack, TInv, TypeOK, Msg
  <2> QED BY <1>12, <1>c, <2>1, <2>2 DEF Ack, TInv, TypeOK, WorkerPart, LockPart, rowVars, history
<1>13. ASSUME NEW w \in Worker, FailedDelivery(w) PROVE TInv'
  <2>1. WorkerPart'
    BY <1>13, <1>d, DropTypes DEF FailedDelivery
  <2>2. msg' \in [Event -> Msg]
    BY <1>13 DEF FailedDelivery, TInv, TypeOK, Msg
  <2> QED BY <1>13, <2>1, <2>2, ReleaseTypes
       DEF FailedDelivery, TInv, TypeOK, WorkerPart, LockPart, rowVars, history
<1>14. ASSUME NEW w \in Worker, Crash(w) PROVE TInv'
  <2>1. WorkerPart'
    BY <1>14, <1>d, DropTypes DEF Crash
  <2>2. LockPart'
    BY <1>14 DEF Crash, TInv, TypeOK, LockPart
  <2> QED BY <1>14, <1>b, <2>1, <2>2 DEF Crash
<1>15. ASSUME NEW c \in Call, SessionLockExpires(c) \/ OtherLocks(c) PROVE TInv'
  <2>1. LockPart'
    BY <1>15 DEF SessionLockExpires, OtherLocks, TInv, TypeOK, LockPart
  <2> QED BY <1>15, <1>b, <1>d, <1>e, <2>1 DEF SessionLockExpires, OtherLocks
<1>16. ASSUME NEW l \in Leg, BootstrapLockExpires(l) PROVE TInv'
  <2>1. LockPart'
    BY <1>16 DEF BootstrapLockExpires, TInv, TypeOK, LockPart
  <2> QED BY <1>16, <1>b, <1>d, <1>e, <2>1 DEF BootstrapLockExpires
<1>g. FeatureTriggers \subseteq Trigger
  BY OtherTriggersExist DEF FeatureTrigger
<1>17. ASSUME NEW c \in Call, FeatureSession(c) \/ SnapshotWrite(c) PROVE TInv'
  <2>1. /\ sState[c] # "NONE"
        /\ \E x \in SessionState : sState' = [sState EXCEPT ![c] = x]
        /\ sVersion' = [sVersion EXCEPT ![c] = @ + 1]
        /\ UNCHANGED <<lState, lVersion, sRows, lRows, commands, streamVars, sLock, bLock,
                       pc, workVars, history>>
    BY <1>17, <1>g, SessionMoves DEF FeatureSession, SnapshotWrite, TInv, TypeOK
  <2>2. RowsStay
    BY <2>1 DEF TInv, TypeOK, Grounded, RowsStay, SessionState
  <2> QED BY <1>c, <1>e, <2>1, <2>2 DEF TInv, TypeOK, WorkerPart, LockPart, streamVars, history
<1>18. ASSUME NEW l \in Leg, FeatureLeg(l) PROVE TInv'
  <2>1. /\ lState[l] # "NONE"
        /\ \E x \in LegState : lState' = [lState EXCEPT ![l] = x]
        /\ lVersion' = [lVersion EXCEPT ![l] = @ + 1]
        /\ UNCHANGED <<sState, sVersion, sRows, lRows, commands, streamVars, sLock, bLock,
                       pc, workVars, history>>
    BY <1>18, <1>g, LegMoves DEF FeatureLeg, TInv, TypeOK
  <2>2. RowsStay
    BY <2>1 DEF TInv, TypeOK, Grounded, RowsStay, LegState
  <2> QED BY <1>c, <1>e, <2>1, <2>2 DEF TInv, TypeOK, WorkerPart, LockPart, streamVars, history
<1>19. CASE UNCHANGED vars
  BY <1>19, <1>b, <1>c, <1>d, <1>e DEF vars
<1> QED BY <1>1, <1>2, <1>3, <1>4, <1>5, <1>6, <1>7, <1>8, <1>9, <1>10, <1>11, <1>12,
           <1>13, <1>14, <1>15, <1>16, <1>17, <1>18, <1>19
        DEF Next, Progress, GiveUp, StoreFails

LEMMA TInvHolds == Spec => []TInv
BY InitTInv, StepTInv, PTL DEF Spec

\* Type correctness of the call manager: the retries and deliveries of an
\* event stay within their bounds, and the rows within the frozen states.
THEOREM CallTypeCorrect == Spec => []TypeOK
<1>1. TInv => TypeOK
  BY DEF TInv
<1> QED BY <1>1, TInvHolds, PTL
-----------------------------------------------------------------------------
(***************************************************************************)
(* What a worker has loaded is what the rows hold, or an older version.    *)
(***************************************************************************)
ViewInv ==
  \A w \in Worker :
    /\ pc[w] \in {"loaded", "decided"} =>
         /\ view[w].v <= sVersion[CallOfW(w)]
         /\ view[w].v = sVersion[CallOfW(w)] => view[w].s = sState[CallOfW(w)]
    /\ pc[w] = "decided" =>
         /\ view[w].lv <= lVersion[LegOfW(w)]
         /\ view[w].lv = lVersion[LegOfW(w)] => view[w].l = lState[LegOfW(w)]
         /\ view[w].l \in Terminal => lState[LegOfW(w)] \in Terminal

\* The steps that write rows.
LEMMA RowStep ==
  ASSUME [Next]_vars
  PROVE  \/ UNCHANGED rowVars
         \/ \E w \in Worker : BootSession(w) \/ BootLeg(w) \/ Commit(w)
         \/ \E c \in Call : FeatureSession(c) \/ SnapshotWrite(c)
         \/ \E l \in Leg : FeatureLeg(l)
<1>1. CASE UNCHANGED vars
  BY <1>1 DEF vars
<1>2. CASE \E w \in Worker : \/ \E e \in Event : Take(w, e)
                             \/ Progress(w) \/ StoreFails(w) \/ Crash(w)
  BY <1>2 DEF Take, Progress, TakeBootstrapLock, Announce, TakeSessionLock, LoadSession,
     LoadLeg, NoTransition, Conflict, Duplicate, Publish, Ack, GiveUp, StoreFails,
     FailedDelivery, Crash
<1>3. CASE \/ \E c \in Call : \/ SessionLockExpires(c) \/ OtherLocks(c)
                              \/ FeatureSession(c) \/ SnapshotWrite(c)
           \/ \E l \in Leg : BootstrapLockExpires(l) \/ FeatureLeg(l)
  BY <1>3 DEF SessionLockExpires, OtherLocks, BootstrapLockExpires
<1> QED BY <1>1, <1>2, <1>3 DEF Next

\* A step is one of the worker itself, or leaves it alone.
LEMMA WorkerStep ==
  ASSUME TInv, [Next]_vars, NEW w \in Worker
  PROVE  \/ \E e \in Event : Take(w, e)
         \/ Progress(w)
         \/ Drop(w)
         \/ /\ pc'[w] = pc[w] /\ ev'[w] = ev[w] /\ attempt'[w] = attempt[w]
            /\ made'[w] = made[w] /\ view'[w] = view[w]
<1> DEFINE Stays == /\ pc'[w] = pc[w] /\ ev'[w] = ev[w] /\ attempt'[w] = attempt[w]
                    /\ made'[w] = made[w] /\ view'[w] = view[w]
<1>a. /\ pc \in [Worker -> Control] /\ ev \in [Worker -> Event \cup {NoEvent}]
      /\ attempt \in [Worker -> 0 .. (MaxAttempts - 1)]
      /\ made \in [Worker -> SUBSET {"session", "leg"}] /\ view \in [Worker -> View]
  BY DEF TInv, TypeOK
<1>b. ASSUME NEW v \in Worker, v # w, NEW p, Goto(v, p) PROVE pc'[w] = pc[w]
  BY <1>a, <1>b DEF Goto
<1>1. CASE UNCHANGED vars
  BY <1>1 DEF vars, workVars
<1>2. ASSUME NEW v \in Worker, v # w, NEW e \in Event, Take(v, e) PROVE Stays
  BY <1>a, <1>2 DEF Take, Begin, Goto
<1>3. ASSUME NEW v \in Worker, v # w, Drop(v) PROVE Stays
  BY <1>a, <1>3 DEF Drop, Goto
<1>4. ASSUME NEW v \in Worker, v # w, Progress(v) PROVE Stays
  <2>1. CASE Ack(v) \/ GiveUp(v)
    BY <1>3, <1>4, <2>1 DEF Ack, GiveUp, FailedDelivery
  <2>2. CASE TakeBootstrapLock(v) \/ TakeSessionLock(v) \/ Conflict(v) \/ Commit(v) \/ Announce(v)
    BY <1>a, <1>b, <1>4, <2>2 DEF TakeBootstrapLock, TakeSessionLock, Conflict, Commit,
       Announce, workVars
  <2>3. CASE BootSession(v) \/ BootLeg(v) \/ LoadSession(v) \/ LoadLeg(v)
    BY <1>a, <1>b, <1>4, <2>3 DEF BootSession, BootLeg, LoadSession, LoadLeg
  <2>4. CASE NoTransition(v) \/ Duplicate(v) \/ Publish(v)
    BY <1>b, <1>4, <2>4 DEF NoTransition, Duplicate, Publish, Answer, workVars
  <2> QED BY <1>4, <2>1, <2>2, <2>3, <2>4 DEF Progress
<1>5. ASSUME NEW v \in Worker, StoreFails(v) \/ Crash(v) PROVE Drop(w) \/ Stays
  BY <1>3, <1>5 DEF StoreFails, Crash, FailedDelivery
<1>6. ASSUME NEW c \in Call, \/ SessionLockExpires(c) \/ OtherLocks(c)
                             \/ FeatureSession(c) \/ SnapshotWrite(c)
      PROVE  Stays
  BY <1>6 DEF SessionLockExpires, OtherLocks, FeatureSession, SnapshotWrite, workVars
<1>7. ASSUME NEW l \in Leg, BootstrapLockExpires(l) \/ FeatureLeg(l) PROVE Stays
  BY <1>7 DEF BootstrapLockExpires, FeatureLeg, workVars
<1> HIDE DEF Stays
<1>8. Stays \/ Drop(w) \/ Progress(w) \/ \E e \in Event : Take(w, e)
  BY <1>1, <1>2, <1>4, <1>5, <1>6, <1>7 DEF Next, Stays, vars, workVars
<1> QED BY <1>8 DEF Stays

\* Where each step of a worker leads.
LEMMA PlaceStep ==
  ASSUME TInv, NEW w \in Worker
  PROVE  /\ \A e \in Event : Take(w, e) => pc'[w] \in {"ack", "found", "boot"}
         /\ Drop(w) => pc'[w] = "idle"
         /\ TakeBootstrapLock(w) => pc'[w] = "bootlocked"
         /\ BootSession(w) => pc'[w] \in {"found", "bootleg"}
         /\ BootLeg(w) => pc'[w] = "announce"
         /\ Announce(w) => pc'[w] = "found"
         /\ TakeSessionLock(w) \/ Conflict(w) => pc'[w] = "locked"
         /\ LoadSession(w) => pc'[w] = "loaded"
         /\ LoadLeg(w) => pc'[w] = "decided"
         /\ Commit(w) => pc'[w] = "publish"
         /\ NoTransition(w) \/ Duplicate(w) \/ Publish(w) => pc'[w] = "ack"
         /\ Ack(w) \/ GiveUp(w) => pc'[w] = "idle"
<1>1. pc \in [Worker -> Control]
  BY DEF TInv, TypeOK
<1>2. \A p : Goto(w, p) => pc'[w] = p
  BY <1>1 DEF Goto
<1>3. \A e \in Event : Take(w, e) => pc'[w] \in {"ack", "found", "boot"}
  BY <1>2 DEF Take, Begin
<1> QED BY <1>2, <1>3 DEF Drop, TakeBootstrapLock, BootSession, BootLeg, Announce,
        TakeSessionLock, Conflict, LoadSession, LoadLeg, Commit, NoTransition, Duplicate,
        Publish, Answer, Ack, GiveUp, FailedDelivery

\* A worker that has loaded something has just done so, or has it since.
LEMMA ViewStep ==
  ASSUME TInv, [Next]_vars, NEW w \in Worker, pc'[w] \in {"loaded", "decided"}
  PROVE  \/ LoadSession(w) \/ LoadLeg(w)
         \/ pc'[w] = pc[w] /\ view'[w] = view[w] /\ ev'[w] = ev[w]
BY WorkerStep, PlaceStep DEF Progress

\* What a commit writes: a row it writes is the version that was loaded.
LEMMA CommitWrites ==
  ASSUME TInv, ViewInv, NEW w \in Worker, Commit(w)
  PROVE  /\ pc[w] = "decided" /\ CallOfW(w) \in Call /\ LegOfW(w) \in Leg
         /\ \/ NewSRows(w) = {} /\ UNCHANGED <<sState, sVersion>>
            \/ /\ NewSRows(w) # {} /\ view[w].s = sState[CallOfW(w)]
               /\ sState' = [sState EXCEPT ![CallOfW(w)] = ToClosed(w)]
               /\ \E n \in Nat : n > 0 /\ sVersion' = [sVersion EXCEPT ![CallOfW(w)] = @ + n]
         /\ \/ ~MovesLeg(w) /\ UNCHANGED <<lState, lVersion>>
            \/ /\ MovesLeg(w) /\ view[w].l = lState[LegOfW(w)]
               /\ lState' = [lState EXCEPT ![LegOfW(w)] = ToLeg(w)]
               /\ lVersion' = [lVersion EXCEPT ![LegOfW(w)] = @ + 1]
<1>1. pc[w] = "decided" /\ CallOfW(w) \in Call /\ LegOfW(w) \in Leg
  BY WorkersEvent DEF Commit
<1>2. ~ConflictFound(w) /\ ~DuplicateFound(w)
  BY DEF Commit
<1>3. NewSRows(w) # {} => sVersion[CallOfW(w)] = view[w].v
  BY <1>2 DEF ConflictFound, StaleSession
<1>4. NewLRows(w) # {} => lVersion[LegOfW(w)] = view[w].lv
  <2>1. ~Seen(NewSRows(w), sRows)
    BY <1>2 DEF DuplicateFound
  <2> QED BY <1>2, <2>1 DEF ConflictFound, StaleLeg
<1>5. NewSRows(w) # {} => view[w].s = sState[CallOfW(w)]
  BY <1>1, <1>3 DEF ViewInv
<1>6. NewLRows(w) # {} => view[w].l = lState[LegOfW(w)]
  BY <1>1, <1>4 DEF ViewInv
<1>7. MovesLeg(w) <=> NewLRows(w) # {}
  BY DEF NewLRows
<1> QED BY <1>1, <1>5, <1>6, <1>7, RowCount DEF Commit

\* What a feature writes: a new version, and never a teardown.
LEMMA FeatureWrites ==
  ASSUME TInv
  PROVE  /\ \A c \in Call : FeatureSession(c) \/ SnapshotWrite(c) =>
              /\ sVersion' = [sVersion EXCEPT ![c] = @ + 1]
              /\ sState[c] # "NONE"
              /\ \E x \in SessionState : /\ sState' = [sState EXCEPT ![c] = x]
                                         /\ x # sState[c] => x \notin Teardown
              /\ UNCHANGED <<lState, lVersion, sRows, lRows, commands>>
         /\ \A l \in Leg : FeatureLeg(l) =>
              /\ lVersion' = [lVersion EXCEPT ![l] = @ + 1]
              /\ lState[l] # "NONE" /\ lState[l] \notin Terminal
              /\ \E x \in LegState \ Terminal : lState' = [lState EXCEPT ![l] = x]
              /\ UNCHANGED <<sState, sVersion, sRows, lRows, commands>>
<1>1. \A t \in FeatureTriggers : t \in FeatureTrigger /\ t \in Trigger
  BY CallManagerAssumption, OtherTriggersExist DEF FeatureTrigger
<1>2. ASSUME NEW c \in Call, FeatureSession(c)
      PROVE  /\ sVersion' = [sVersion EXCEPT ![c] = @ + 1]
             /\ sState[c] # "NONE"
             /\ \E x \in SessionState : /\ sState' = [sState EXCEPT ![c] = x]
                                        /\ x # sState[c] => x \notin Teardown
             /\ UNCHANGED <<lState, lVersion, sRows, lRows, commands>>
  <2>1. sState[c] \in SessionState
    BY <1>2 DEF FeatureSession, TInv, TypeOK
  <2>2. PICK t \in FeatureTriggers : /\ SessionTo(sState[c], t) # sState[c]
                                     /\ sState' = [sState EXCEPT ![c] = SessionTo(@, t)]
    BY <1>2 DEF FeatureSession
  <2>3. /\ SessionTo(sState[c], t) \in SessionState \ Teardown
        /\ sState' = [sState EXCEPT ![c] = SessionTo(sState[c], t)]
    BY <1>1, <2>1, <2>2, SessionMoves DEF TInv, TypeOK
  <2> QED BY <1>2, <2>3 DEF FeatureSession
<1>3. ASSUME NEW c \in Call, SnapshotWrite(c)
      PROVE  /\ sVersion' = [sVersion EXCEPT ![c] = @ + 1]
             /\ sState[c] # "NONE"
             /\ \E x \in SessionState : /\ sState' = [sState EXCEPT ![c] = x]
                                        /\ x # sState[c] => x \notin Teardown
             /\ UNCHANGED <<lState, lVersion, sRows, lRows, commands>>
  <2>1. sState[c] \in SessionState /\ sState' = [sState EXCEPT ![c] = sState[c]]
    BY <1>3 DEF SnapshotWrite, TInv, TypeOK
  <2> QED BY <1>3, <2>1 DEF SnapshotWrite
<1>4. ASSUME NEW l \in Leg, FeatureLeg(l)
      PROVE  /\ lVersion' = [lVersion EXCEPT ![l] = @ + 1]
             /\ lState[l] # "NONE" /\ lState[l] \notin Terminal
             /\ \E x \in LegState \ Terminal : lState' = [lState EXCEPT ![l] = x]
             /\ UNCHANGED <<sState, sVersion, sRows, lRows, commands>>
  <2>1. lState[l] \in LegState
    BY <1>4 DEF FeatureLeg, TInv, TypeOK
  <2>2. PICK t \in FeatureTriggers : /\ LegTo(lState[l], t) # lState[l]
                                     /\ lState' = [lState EXCEPT ![l] = LegTo(@, t)]
    BY <1>4 DEF FeatureLeg
  <2>3. /\ LegTo(lState[l], t) \in LegState \ Terminal /\ lState[l] \notin Terminal
        /\ lState' = [lState EXCEPT ![l] = LegTo(lState[l], t)]
    BY <1>1, <2>1, <2>2, LegMoves DEF TInv, TypeOK
  <2> QED BY <1>4, <2>3 DEF FeatureLeg
<1> QED BY <1>2, <1>3, <1>4

\* Rows only grow: a row that changes has a new version, an ended leg is for
\* good.
LEMMA RowsGrow ==
  ASSUME TInv, ViewInv, [Next]_vars
  PROVE  /\ \A c \in Call : sState[c] # "NONE" =>
              \/ sState'[c] = sState[c] /\ sVersion'[c] = sVersion[c]
              \/ sVersion'[c] > sVersion[c]
         /\ \A l \in Leg : lState[l] # "NONE" =>
              \/ lState'[l] = lState[l] /\ lVersion'[l] = lVersion[l]
              \/ lVersion'[l] > lVersion[l]
         /\ \A l \in Leg : lState[l] \in Terminal => lState'[l] \in Terminal
<1>t. /\ sState \in [Call -> SessionState \cup {"NONE"}] /\ sVersion \in [Call -> Nat]
      /\ lState \in [Leg -> LegState \cup {"NONE"}] /\ lVersion \in [Leg -> Nat]
  BY DEF TInv, TypeOK
<1>1. CASE UNCHANGED rowVars
  BY <1>1 DEF rowVars
<1>2. ASSUME NEW w \in Worker, BootSession(w)
      PROVE  /\ \A c \in Call : sState[c] # "NONE" => sState'[c] = sState[c]
             /\ UNCHANGED <<sVersion, lState, lVersion>>
  BY <1>2, <1>t DEF BootSession, rowVars
<1>3. ASSUME NEW w \in Worker, BootLeg(w)
      PROVE  /\ \A l \in Leg : lState[l] # "NONE" => lState'[l] = lState[l]
             /\ UNCHANGED <<sState, sVersion, lVersion>>
  BY <1>3, <1>t DEF BootLeg
<1>4. ASSUME NEW w \in Worker, Commit(w)
      PROVE  /\ \A c \in Call : \/ sState'[c] = sState[c] /\ sVersion'[c] = sVersion[c]
                                \/ sVersion'[c] > sVersion[c]
             /\ \A l \in Leg : \/ lState'[l] = lState[l] /\ lVersion'[l] = lVersion[l]
                               \/ lVersion'[l] > lVersion[l]
             /\ \A l \in Leg : lState[l] \in Terminal => lState'[l] \in Terminal
  <2>1. /\ \/ UNCHANGED <<sState, sVersion>>
           \/ \E n \in Nat : /\ n > 0 /\ sVersion' = [sVersion EXCEPT ![CallOfW(w)] = @ + n]
                             /\ sState' = [sState EXCEPT ![CallOfW(w)] = ToClosed(w)]
        /\ \/ UNCHANGED <<lState, lVersion>>
           \/ /\ lState' = [lState EXCEPT ![LegOfW(w)] = ToLeg(w)]
              /\ lVersion' = [lVersion EXCEPT ![LegOfW(w)] = @ + 1]
              /\ lState[LegOfW(w)] \notin Terminal
    BY <1>4, CommitWrites, Decision DEF MovesLeg
  <2> QED BY <1>t, <2>1
<1>5. ASSUME NEW c \in Call, FeatureSession(c) \/ SnapshotWrite(c)
      PROVE  /\ \A d \in Call : \/ sState'[d] = sState[d] /\ sVersion'[d] = sVersion[d]
                                \/ sVersion'[d] > sVersion[d]
             /\ UNCHANGED <<lState, lVersion>>
  BY <1>5, <1>t, FeatureWrites
<1>6. ASSUME NEW l \in Leg, FeatureLeg(l)
      PROVE  /\ \A m \in Leg : \/ lState'[m] = lState[m] /\ lVersion'[m] = lVersion[m]
                               \/ lVersion'[m] > lVersion[m]
             /\ \A m \in Leg : lState[m] \in Terminal => lState'[m] \in Terminal
             /\ UNCHANGED <<sState, sVersion>>
  BY <1>6, <1>t, FeatureWrites
<1>n. "NONE" \notin Terminal
  BY DEF Terminal
<1> QED BY <1>1, <1>2, <1>3, <1>4, <1>5, <1>6, <1>n, RowStep

LEMMA StepViewInv == TInv /\ ViewInv /\ [Next]_vars => ViewInv'
<1> SUFFICES ASSUME TInv, ViewInv, [Next]_vars,
                    NEW w \in Worker, pc'[w] \in {"loaded", "decided"}
             PROVE  /\ view'[w].v <= sVersion'[CallOfW(w)']
                    /\ view'[w].v = sVersion'[CallOfW(w)'] => view'[w].s = sState'[CallOfW(w)']
                    /\ pc'[w] = "decided" =>
                         /\ view'[w].lv <= lVersion'[LegOfW(w)']
                         /\ view'[w].lv = lVersion'[LegOfW(w)'] =>
                              view'[w].l = lState'[LegOfW(w)']
                         /\ view'[w].l \in Terminal => lState'[LegOfW(w)'] \in Terminal
  BY DEF ViewInv
<1>t. /\ sVersion \in [Call -> Nat] /\ lVersion \in [Leg -> Nat]
      /\ view \in [Worker -> View] /\ pc \in [Worker -> Control]
  BY DEF TInv, TypeOK
<1>1. CASE LoadSession(w)
  BY <1>1, <1>t, WorkersEvent DEF LoadSession, Goto, rowVars, LegOfW, CallOfW
<1>2. CASE LoadLeg(w)
  <2>1. /\ pc[w] = "loaded" /\ CallOfW(w)' = CallOfW(w) /\ LegOfW(w)' = LegOfW(w)
        /\ CallOfW(w) \in Call /\ LegOfW(w) \in Leg
        /\ UNCHANGED rowVars
    BY <1>2, WorkersEvent DEF LoadLeg, CallOfW, LegOfW
  <2>2. /\ view'[w].s = view[w].s /\ view'[w].v = view[w].v
        /\ view'[w].l = lState[LegOfW(w)] /\ view'[w].lv = lVersion[LegOfW(w)]
    BY <1>2, <1>t DEF LoadLeg
  <2> QED BY <1>t, <2>1, <2>2 DEF ViewInv, rowVars
<1>3. CASE pc'[w] = pc[w] /\ view'[w] = view[w] /\ ev'[w] = ev[w]
  <2>1. /\ CallOfW(w)' = CallOfW(w) /\ LegOfW(w)' = LegOfW(w)
        /\ CallOfW(w) \in Call /\ LegOfW(w) \in Leg
    BY <1>3, WorkersEvent DEF CallOfW, LegOfW
  <2>2. sState[CallOfW(w)] # "NONE" /\ lState[LegOfW(w)] # "NONE"
    BY <1>3 DEF TInv, Grounded, InFsm
  <2>3. /\ \/ sState'[CallOfW(w)] = sState[CallOfW(w)] /\ sVersion'[CallOfW(w)] = sVersion[CallOfW(w)]
           \/ sVersion'[CallOfW(w)] > sVersion[CallOfW(w)]
        /\ \/ lState'[LegOfW(w)] = lState[LegOfW(w)] /\ lVersion'[LegOfW(w)] = lVersion[LegOfW(w)]
           \/ lVersion'[LegOfW(w)] > lVersion[LegOfW(w)]
        /\ lState[LegOfW(w)] \in Terminal => lState'[LegOfW(w)] \in Terminal
    BY <2>1, <2>2, RowsGrow
  <2>4. /\ view[w].v \in Nat /\ view[w].lv \in Nat
        /\ sVersion[CallOfW(w)] \in Nat /\ lVersion[LegOfW(w)] \in Nat
    BY <1>t, <2>1 DEF View
  <2>5. /\ sVersion'[CallOfW(w)] \in Nat /\ lVersion'[LegOfW(w)] \in Nat
    <3>1. TInv'
      BY StepTInv
    <3> QED BY <2>1, <3>1 DEF TInv, TypeOK
  <2> QED BY <1>3, <2>1, <2>3, <2>4, <2>5 DEF ViewInv
<1> QED BY <1>1, <1>2, <1>3, ViewStep

LEMMA ViewInvHolds == Spec => [](TInv /\ ViewInv)
<1>1. Init => ViewInv
  BY DEF Init, ViewInv
<1> QED BY <1>1, InitTInv, StepTInv, StepViewInv, PTL DEF Spec
-----------------------------------------------------------------------------
(***************************************************************************)
(* A hangup is answered only when the leg has ended: by this delivery, by  *)
(* the one whose rows it ran into, or before the event was looked at.      *)
(***************************************************************************)
Ending(e) == KindOf[e] \in {"hangup", "failed"}

HangupInv ==
  /\ \A r \in sRows \cup lRows : Ending(r[1]) => lState[LegOf[r[1]]] \in Terminal
  /\ \A w \in Worker : pc[w] = "publish" /\ Ending(ev[w]) => lState[LegOfW(w)] \in Terminal
  /\ HandledHangupEndsLeg

\* The steps that answer an event.
LEMMA HandledStep ==
  ASSUME [Next]_vars
  PROVE  \/ UNCHANGED handled
         \/ \E w \in Worker : NoTransition(w) \/ Duplicate(w) \/ Publish(w)
<1>1. CASE UNCHANGED vars
  BY <1>1 DEF vars, history
<1>2. ASSUME NEW w \in Worker, Progress(w)
      PROVE  UNCHANGED handled \/ NoTransition(w) \/ Duplicate(w) \/ Publish(w)
  BY <1>2 DEF Progress, TakeBootstrapLock, BootSession, BootLeg, Announce, TakeSessionLock,
     LoadSession, LoadLeg, Conflict, Commit, Ack, GiveUp, FailedDelivery, history
<1>3. ASSUME NEW w \in Worker, (\E e \in Event : Take(w, e)) \/ StoreFails(w) \/ Crash(w)
      PROVE  UNCHANGED handled
  BY <1>3 DEF Take, StoreFails, FailedDelivery, Crash, history
<1>4. ASSUME \/ \E c \in Call : \/ SessionLockExpires(c) \/ OtherLocks(c)
                                \/ FeatureSession(c) \/ SnapshotWrite(c)
             \/ \E l \in Leg : BootstrapLockExpires(l) \/ FeatureLeg(l)
      PROVE  UNCHANGED handled
  BY <1>4 DEF SessionLockExpires, OtherLocks, FeatureSession, SnapshotWrite,
     BootstrapLockExpires, FeatureLeg, history
<1> QED BY <1>1, <1>2, <1>3, <1>4 DEF Next

LEMMA StepHangupInv == TInv /\ ViewInv /\ HangupInv /\ [Next]_vars => HangupInv'
<1> SUFFICES ASSUME TInv, ViewInv, HangupInv, [Next]_vars PROVE HangupInv'
  OBVIOUS
<1>1. \A l \in Leg : lState[l] \in Terminal => lState'[l] \in Terminal
  BY RowsGrow
\* A worker that has decided on the end of its leg finds or makes it ended.
<1>2. ASSUME NEW w \in Worker, pc[w] = "decided", Ending(ev[w])
      PROVE  /\ ToLeg(w) \in Terminal
             /\ ~MovesLeg(w) => lState[LegOfW(w)] \in Terminal
  BY <1>2, Decision DEF ViewInv, MovesLeg, Ending
<1>3. ASSUME NEW w \in Worker, Commit(w), Ending(ev[w])
      PROVE  lState'[LegOfW(w)] \in Terminal
  BY <1>1, <1>2, <1>3, CommitWrites DEF TInv, TypeOK
<1>4. \A r \in (sRows \cup lRows)' : Ending(r[1]) => lState'[LegOf[r[1]]] \in Terminal
  <2>1. ASSUME UNCHANGED <<sRows, lRows>>
        PROVE  \A r \in (sRows \cup lRows)' : Ending(r[1]) => lState'[LegOf[r[1]]] \in Terminal
    <3>1. \A r \in sRows \cup lRows : LegOf[r[1]] \in Leg
      BY CallManagerAssumption DEF TInv, TypeOK
    <3> QED BY <1>1, <2>1, <3>1 DEF HangupInv
  <2>2. ASSUME NEW w \in Worker, Commit(w)
        PROVE  \A r \in (sRows \cup lRows)' : Ending(r[1]) => lState'[LegOf[r[1]]] \in Terminal
    <3>1. \A r \in (sRows \cup lRows)' : r \in sRows \cup lRows \/ r[1] = ev[w]
      BY <2>2 DEF Commit, NewSRows, NewLRows
    <3>2. \A r \in sRows \cup lRows : LegOf[r[1]] \in Leg
      BY CallManagerAssumption DEF TInv, TypeOK
    <3> QED BY <1>1, <1>3, <2>2, <3>1, <3>2 DEF HangupInv, LegOfW
  <2> QED BY <2>1, <2>2, RowStep, FeatureWrites DEF rowVars, BootSession, BootLeg
<1>5. ASSUME NEW w \in Worker, pc'[w] = "publish", Ending(ev'[w])
      PROVE  lState'[LegOfW(w)'] \in Terminal
  <2>1. \/ Commit(w)
        \/ pc[w] = "publish" /\ ev'[w] = ev[w]
    BY <1>5, WorkerStep, PlaceStep DEF Progress
  <2>2. CASE Commit(w)
    BY <1>3, <1>5, <2>2 DEF Commit, workVars, LegOfW
  <2>3. CASE pc[w] = "publish" /\ ev'[w] = ev[w]
    BY <1>1, <1>5, <2>3, WorkersEvent DEF HangupInv, LegOfW
  <2> QED BY <2>1, <2>2, <2>3
<1>6. HandledHangupEndsLeg'
  <2>1. \A e \in handled : Ending(e) => lState'[LegOf[e]] \in Terminal
    BY <1>1, CallManagerAssumption DEF HangupInv, HandledHangupEndsLeg, Ending, TInv, TypeOK
  <2>2. ASSUME NEW w \in Worker, NoTransition(w) \/ Duplicate(w) \/ Publish(w), Ending(ev[w])
        PROVE  lState[LegOfW(w)] \in Terminal
    <3>1. CASE NoTransition(w)
      BY <1>2, <2>2, <3>1 DEF NoTransition, NewLRows
    <3>2. CASE Duplicate(w)
      <4>1. PICK r \in sRows \cup lRows : r[1] = ev[w]
        BY <3>2 DEF Duplicate, DuplicateFound, Seen, NewSRows, NewLRows
      <4> QED BY <2>2, <4>1 DEF HangupInv, LegOfW
    <3>3. CASE Publish(w)
      BY <2>2, <3>3 DEF Publish, HangupInv
    <3> QED BY <2>2, <3>1, <3>2, <3>3
  <2>3. ASSUME NEW w \in Worker, NoTransition(w) \/ Duplicate(w) \/ Publish(w)
        PROVE  handled' = handled \cup {ev[w]} /\ UNCHANGED lState
    BY <2>3 DEF NoTransition, Duplicate, Publish, Answer, rowVars
  <2>4. \/ UNCHANGED handled
        \/ \E w \in Worker : NoTransition(w) \/ Duplicate(w) \/ Publish(w)
    BY HandledStep
  <2> QED BY <2>1, <2>2, <2>3, <2>4 DEF HandledHangupEndsLeg, Ending, LegOfW
<1> QED BY <1>4, <1>5, <1>6 DEF HangupInv

\* An answered hangup or failure has ended its leg, whichever of its
\* deliveries did it and whatever ran at the same time.
THEOREM AnsweredHangups == Spec => []HandledHangupEndsLeg
<1>1. Init => HangupInv
  BY DEF Init, HangupInv, HandledHangupEndsLeg
<1>2. HangupInv => HandledHangupEndsLeg
  BY DEF HangupInv
<1> QED BY <1>1, <1>2, ViewInvHolds, StepHangupInv, PTL DEF Spec
-----------------------------------------------------------------------------
(***************************************************************************)
(* Teardown and its command are written together.                          *)
(***************************************************************************)
SessionHangup(c) == \E e \in Event : CallOf[LegOf[e]] = c /\ <<e, "HANGUP">> \in commands
LegHangup(l)     == \E e \in Event : LegOf[e] = l /\ <<e, "HANGUP">> \in commands

\* A commit that brings teardown about writes the command.
LEMMA CommitHangup ==
  ASSUME TInv, ViewInv, NEW w \in Worker, Commit(w)
  PROVE  /\ \A c \in Call : sState'[c] \in Teardown => sState[c] \in Teardown \/ SessionHangup(c)'
         /\ \A l \in Leg : lState'[l] \in Terminal => lState[l] \in Terminal \/ LegHangup(l)'
<1>1. /\ pc[w] = "decided" /\ ev[w] \in Event /\ LegOfW(w) = LegOf[ev[w]]
      /\ CallOfW(w) = CallOf[LegOf[ev[w]]] /\ CallOfW(w) \in Call /\ LegOfW(w) \in Leg
  BY WorkersEvent DEF Commit, LegOfW, CallOfW
<1>2. ASSUME "HANGUP" \in Intents(view[w].s, ToSession(w), view[w].l, ToLeg(w))
      PROVE  /\ \A c \in Call : c = CallOfW(w) => SessionHangup(c)'
             /\ \A l \in Leg : l = LegOfW(w) => LegHangup(l)'
  <2>1. <<ev[w], "HANGUP">> \in commands'
    BY <1>2 DEF Commit, CommandsOf
  <2> QED BY <1>1, <2>1 DEF SessionHangup, LegHangup
<1>3. ASSUME MovesLeg(w), ToLeg(w) \in Terminal PROVE \A l \in Leg : l = LegOfW(w) => LegHangup(l)'
  BY <1>2, <1>3 DEF Intents, MovesLeg
<1>4. ASSUME ToClosed(w) \in Teardown, view[w].s \notin Teardown
      PROVE  \A c \in Call : c = CallOfW(w) => SessionHangup(c)'
  <2>1. ToSession(w) \in {"ENDING", "FAILED"} /\ ToSession(w) # view[w].s
    BY <1>1, <1>4, Decision DEF Closes, Teardown
  <2> QED BY <1>2, <2>1 DEF Intents
<1>5. \A c \in Call : sState'[c] # sState[c] => /\ c = CallOfW(w) /\ sState'[c] = ToClosed(w)
                                                /\ view[w].s = sState[c]
  BY <1>1, CommitWrites DEF TInv, TypeOK
<1>6. \A l \in Leg : lState'[l] # lState[l] => /\ l = LegOfW(w) /\ lState'[l] = ToLeg(w)
                                               /\ MovesLeg(w)
  BY <1>1, CommitWrites DEF TInv, TypeOK
<1> QED BY <1>3, <1>4, <1>5, <1>6

LEMMA StepTeardown == TInv /\ ViewInv /\ TeardownIsCommanded /\ [Next]_vars
                        => TeardownIsCommanded'
<1> SUFFICES ASSUME TInv, ViewInv, TeardownIsCommanded, [Next]_vars
             PROVE  TeardownIsCommanded'
  OBVIOUS
<1>t. sState \in [Call -> SessionState \cup {"NONE"}] /\ lState \in [Leg -> LegState \cup {"NONE"}]
  BY DEF TInv, TypeOK
<1>1. commands \subseteq commands'
  BY RowStep, FeatureWrites DEF rowVars, BootSession, BootLeg, Commit
<1>2. /\ \A c \in Call : SessionHangup(c) => SessionHangup(c)'
      /\ \A l \in Leg : LegHangup(l) => LegHangup(l)'
  BY <1>1 DEF SessionHangup, LegHangup
<1>3. /\ \A c \in Call : sState'[c] \in Teardown => sState[c] \in Teardown \/ SessionHangup(c)'
      /\ \A l \in Leg : lState'[l] \in Terminal => lState[l] \in Terminal \/ LegHangup(l)'
  <2>1. CASE UNCHANGED rowVars
    BY <2>1 DEF rowVars
  <2>2. ASSUME NEW w \in Worker, BootSession(w) \/ BootLeg(w)
        PROVE  /\ \A c \in Call : sState'[c] \in Teardown => sState[c] \in Teardown
               /\ \A l \in Leg : lState'[l] \in Terminal => lState[l] \in Terminal
    BY <1>t, <2>2 DEF BootSession, BootLeg, rowVars, Teardown, Terminal
  <2>3. ASSUME NEW c \in Call, FeatureSession(c) \/ SnapshotWrite(c)
        PROVE  /\ \A d \in Call : sState'[d] \in Teardown => sState[d] \in Teardown
               /\ UNCHANGED lState
    BY <1>t, <2>3, FeatureWrites
  <2>4. ASSUME NEW l \in Leg, FeatureLeg(l)
        PROVE  /\ \A m \in Leg : lState'[m] \in Terminal => lState[m] \in Terminal
               /\ UNCHANGED sState
    BY <1>t, <2>4, FeatureWrites
  <2> QED BY <2>1, <2>2, <2>3, <2>4, CommitHangup, RowStep
<1>4. TeardownIsCommanded <=> /\ \A c \in Call : sState[c] \in Teardown => SessionHangup(c)
                              /\ \A l \in Leg : lState[l] \in Terminal => LegHangup(l)
  BY DEF TeardownIsCommanded, SessionHangup, LegHangup, Teardown
<1>5. TeardownIsCommanded' <=>
        /\ \A c \in Call : sState'[c] \in Teardown => SessionHangup(c)'
        /\ \A l \in Leg : lState'[l] \in Terminal => LegHangup(l)'
  BY DEF TeardownIsCommanded, SessionHangup, LegHangup, Teardown
<1> QED BY <1>2, <1>3, <1>4, <1>5

\* No session in teardown and no ended leg without a HANGUP command: the
\* transaction of persistCallFsmResult never separates them.
THEOREM TeardownHasItsCommand == Spec => []TeardownIsCommanded
<1>1. Init => TeardownIsCommanded
  BY DEF Init, TeardownIsCommanded, Terminal
<1> QED BY <1>1, ViewInvHolds, StepTeardown, PTL DEF Spec
-----------------------------------------------------------------------------
(***************************************************************************)
(* One delivery creates a row, and that one publishes it.                  *)
(***************************************************************************)
OpensSession(w) == pc[w] \in {"bootleg", "announce"} /\ "session" \in made[w]
OpensLeg(w)     == pc[w] = "announce" /\ "leg" \in made[w]

PublishInv ==
  /\ \A c \in Call : sState[c] = "NONE" => sPublished[c] = 0
  /\ \A l \in Leg : lState[l] = "NONE" => lPublished[l] = 0
  /\ \A w \in Worker : /\ OpensSession(w) => sPublished[CallOfW(w)] = 0
                       /\ OpensLeg(w) => lPublished[LegOfW(w)] = 0
                       /\ pc[w] = "bootleg" => "leg" \notin made[w]
  /\ \A v, w \in Worker : v # w =>
       /\ OpensSession(v) /\ OpensSession(w) => CallOfW(v) # CallOfW(w)
       /\ OpensLeg(v) /\ OpensLeg(w) => LegOfW(v) # LegOfW(w)
  /\ PublishedAtMostOnce

LEMMA RowsKept ==
  ASSUME TInv, ViewInv, [Next]_vars
  PROVE  /\ \A c \in Call : sState[c] # "NONE" => sState'[c] # "NONE"
         /\ \A l \in Leg : lState[l] # "NONE" => lState'[l] # "NONE"
<1>t. /\ sState \in [Call -> SessionState \cup {"NONE"}]
      /\ lState \in [Leg -> LegState \cup {"NONE"}]
      /\ "NONE" \notin SessionState \cup LegState
  BY DEF TInv, TypeOK, SessionState, LegState
<1>1. CASE UNCHANGED rowVars
  BY <1>1 DEF rowVars
<1>2. ASSUME NEW w \in Worker, BootSession(w) \/ BootLeg(w)
      PROVE  /\ \A c \in Call : sState[c] # "NONE" => sState'[c] # "NONE"
             /\ \A l \in Leg : lState[l] # "NONE" => lState'[l] # "NONE"
  BY <1>t, <1>2 DEF BootSession, BootLeg, rowVars
<1>3. ASSUME NEW w \in Worker, Commit(w)
      PROVE  /\ \A c \in Call : sState[c] # "NONE" => sState'[c] # "NONE"
             /\ \A l \in Leg : lState[l] # "NONE" => lState'[l] # "NONE"
  BY <1>t, <1>3, CommitWrites, Decision
<1>4. ASSUME NEW c \in Call, FeatureSession(c) \/ SnapshotWrite(c)
      PROVE  /\ \A d \in Call : sState[d] # "NONE" => sState'[d] # "NONE"
             /\ UNCHANGED lState
  BY <1>t, <1>4, FeatureWrites
<1>5. ASSUME NEW l \in Leg, FeatureLeg(l)
      PROVE  /\ \A m \in Leg : lState[m] # "NONE" => lState'[m] # "NONE"
             /\ UNCHANGED sState
  BY <1>t, <1>5, FeatureWrites
<1> QED BY <1>1, <1>2, <1>3, <1>4, <1>5, RowStep

\* The steps that publish.
LEMMA PublishStep ==
  ASSUME [Next]_vars
  PROVE  \/ UNCHANGED <<sPublished, lPublished>>
         \/ \E w \in Worker : Announce(w)
<1>1. CASE UNCHANGED vars
  BY <1>1 DEF vars, history
<1>2. ASSUME NEW w \in Worker, Progress(w)
      PROVE  UNCHANGED <<sPublished, lPublished>> \/ Announce(w)
  BY <1>2 DEF Progress, TakeBootstrapLock, BootSession, BootLeg, TakeSessionLock,
     LoadSession, LoadLeg, NoTransition, Conflict, Duplicate, Commit, Publish, Ack, GiveUp,
     FailedDelivery, history
<1>3. ASSUME NEW w \in Worker, (\E e \in Event : Take(w, e)) \/ StoreFails(w) \/ Crash(w)
      PROVE  UNCHANGED <<sPublished, lPublished>>
  BY <1>3 DEF Take, StoreFails, FailedDelivery, Crash, history
<1>4. ASSUME \/ \E c \in Call : \/ SessionLockExpires(c) \/ OtherLocks(c)
                                \/ FeatureSession(c) \/ SnapshotWrite(c)
             \/ \E l \in Leg : BootstrapLockExpires(l) \/ FeatureLeg(l)
      PROVE  UNCHANGED <<sPublished, lPublished>>
  BY <1>4 DEF SessionLockExpires, OtherLocks, FeatureSession, SnapshotWrite,
     BootstrapLockExpires, FeatureLeg, history
<1> QED BY <1>1, <1>2, <1>3, <1>4 DEF Next

\* A worker about to publish has just created the row, or was about to.
LEMMA OpensStep ==
  ASSUME TInv, PublishInv, [Next]_vars, NEW w \in Worker
  PROVE  /\ OpensSession(w)' =>
              /\ ev'[w] = ev[w]
              /\ \/ OpensSession(w)
                 \/ BootSession(w) /\ sState[CallOfW(w)] = "NONE"
         /\ OpensLeg(w)' =>
              /\ ev'[w] = ev[w]
              /\ \/ OpensLeg(w)
                 \/ BootLeg(w) /\ lState[LegOfW(w)] = "NONE"
         /\ pc'[w] = "bootleg" => "leg" \notin made'[w]
<1>t. pc \in [Worker -> Control] /\ made \in [Worker -> SUBSET {"session", "leg"}]
  BY DEF TInv, TypeOK
<1>1. CASE BootSession(w)
  <2>1. pc'[w] # "announce" /\ ev'[w] = ev[w]
    BY <1>1, PlaceStep DEF BootSession
  <2>2. CASE lState[LegOfW(w)] # "NONE"
    <3>1. pc'[w] = "found"
      BY <1>1, <1>t, <2>2 DEF BootSession, Goto
    <3> QED BY <3>1 DEF OpensSession, OpensLeg
  <2>3. CASE lState[LegOfW(w)] = "NONE"
    <3>1. made'[w] = IF sState[CallOfW(w)] = "NONE" THEN {"session"} ELSE {}
      BY <1>1, <1>t, <2>3 DEF BootSession
    <3> QED BY <1>1, <2>1, <3>1 DEF OpensSession, OpensLeg
  <2> QED BY <2>2, <2>3
<1>2. CASE BootLeg(w)
  <2>1. /\ pc[w] = "bootleg" /\ pc'[w] = "announce" /\ ev'[w] = ev[w]
        /\ made'[w] = IF lState[LegOfW(w)] = "NONE" THEN made[w] \cup {"leg"} ELSE made[w]
    BY <1>2, <1>t, PlaceStep DEF BootLeg
  <2> QED BY <1>2, <2>1 DEF OpensSession, OpensLeg, PublishInv
<1>3. CASE pc'[w] \notin {"bootleg", "announce"}
  BY <1>3 DEF OpensSession, OpensLeg
<1>4. CASE pc'[w] = pc[w] /\ ev'[w] = ev[w] /\ made'[w] = made[w]
  BY <1>4 DEF OpensSession, OpensLeg, PublishInv
<1> QED BY <1>1, <1>2, <1>3, <1>4, WorkerStep, PlaceStep DEF Progress

LEMMA StepPublishInv == TInv /\ ViewInv /\ PublishInv /\ [Next]_vars => PublishInv'
<1> SUFFICES ASSUME TInv, ViewInv, PublishInv, [Next]_vars PROVE PublishInv'
  OBVIOUS
<1>t. /\ pc \in [Worker -> Control]
      /\ sPublished \in [Call -> Nat] /\ lPublished \in [Leg -> Nat]
  BY DEF TInv, TypeOK
<1>w. /\ \A w \in Worker : pc[w] # "idle" => LegOfW(w) \in Leg /\ CallOfW(w) \in Call
      /\ \A w \in Worker : ev'[w] = ev[w] => LegOfW(w)' = LegOfW(w) /\ CallOfW(w)' = CallOfW(w)
  BY WorkersEvent DEF LegOfW, CallOfW
\* A row about to be published exists.
<1>g. \A w \in Worker : /\ OpensSession(w) => sState[CallOfW(w)] # "NONE" /\ pc[w] # "idle"
                        /\ OpensLeg(w) => lState[LegOfW(w)] # "NONE" /\ pc[w] # "idle"
  BY DEF TInv, Grounded, OpensSession, OpensLeg
<1>1. \A w \in Worker : pc'[w] = "bootleg" => "leg" \notin made'[w]
  BY OpensStep
\* No two workers publish the same row.
<1>2. ASSUME NEW v \in Worker, NEW w \in Worker, v # w
      PROVE  /\ OpensSession(v)' /\ OpensSession(w)' => CallOfW(v)' # CallOfW(w)'
             /\ OpensLeg(v)' /\ OpensLeg(w)' => LegOfW(v)' # LegOfW(w)'
  <2>1. /\ ~(BootSession(v) /\ BootSession(w) /\ OpensSession(v)' /\ OpensSession(w)')
        /\ ~(BootLeg(v) /\ BootLeg(w))
    <3>1. BootLeg(v) => pc'[w] = pc[w]
      BY <1>2, <1>t DEF BootLeg, Goto
    <3>2. BootLeg(w) => pc[w] = "bootleg" /\ pc'[w] = "announce"
      BY PlaceStep DEF BootLeg
    <3>3. BootSession(v) => pc'[w] = pc[w]
      BY <1>2, <1>t DEF BootSession, Goto
    <3>4. BootSession(w) => pc[w] = "bootlocked"
      BY DEF BootSession
    <3> QED BY <3>1, <3>2, <3>3, <3>4 DEF OpensSession
  <2>2. /\ OpensSession(v) /\ OpensSession(w) => CallOfW(v) # CallOfW(w)
        /\ OpensLeg(v) /\ OpensLeg(w) => LegOfW(v) # LegOfW(w)
    BY <1>2 DEF PublishInv
  <2> QED BY <1>w, <1>g, <2>1, <2>2, OpensStep
<1>3. CASE UNCHANGED <<sPublished, lPublished>>
  <2>1. /\ \A c \in Call : sState'[c] = "NONE" => sPublished'[c] = 0
        /\ \A l \in Leg : lState'[l] = "NONE" => lPublished'[l] = 0
        /\ PublishedAtMostOnce'
    BY <1>3, RowsKept DEF PublishInv, PublishedAtMostOnce
  <2>2. ASSUME NEW w \in Worker
        PROVE  /\ OpensSession(w)' => sPublished'[CallOfW(w)'] = 0
               /\ OpensLeg(w)' => lPublished'[LegOfW(w)'] = 0
    <3>1. /\ BootSession(w) => pc[w] # "idle"
          /\ BootLeg(w) => pc[w] # "idle"
      BY DEF BootSession, BootLeg
    <3>2. /\ OpensSession(w) => sPublished[CallOfW(w)] = 0
          /\ OpensLeg(w) => lPublished[LegOfW(w)] = 0
      BY DEF PublishInv
    <3>3. /\ CallOfW(w) \in Call /\ sState[CallOfW(w)] = "NONE" => sPublished[CallOfW(w)] = 0
          /\ LegOfW(w) \in Leg /\ lState[LegOfW(w)] = "NONE" => lPublished[LegOfW(w)] = 0
      BY DEF PublishInv
    <3> QED BY <1>3, <1>w, <3>1, <3>2, <3>3, OpensStep
  <2> QED BY <1>1, <1>2, <2>1, <2>2 DEF PublishInv
<1>4. ASSUME NEW w \in Worker, Announce(w) PROVE PublishInv'
  <2>1. /\ pc[w] = "announce" /\ pc'[w] = "found" /\ CallOfW(w) \in Call /\ LegOfW(w) \in Leg
        /\ UNCHANGED <<rowVars, ev, made>>
        /\ sPublished' = [sPublished EXCEPT ![CallOfW(w)] =
                            IF "session" \in made[w] THEN @ + 1 ELSE @]
        /\ lPublished' = [lPublished EXCEPT ![LegOfW(w)] =
                            IF "leg" \in made[w] THEN @ + 1 ELSE @]
        /\ \A v \in Worker \ {w} : pc'[v] = pc[v]
    BY <1>4, <1>t, <1>w, PlaceStep DEF Announce, workVars, Goto
  <2>2. /\ "session" \in made[w] => sPublished[CallOfW(w)] = 0
        /\ "leg" \in made[w] => lPublished[LegOfW(w)] = 0
        /\ sState[CallOfW(w)] # "NONE" /\ lState[LegOfW(w)] # "NONE"
    BY <2>1 DEF PublishInv, OpensSession, OpensLeg, TInv, Grounded
  <2>3. /\ \A c \in Call : sState'[c] = "NONE" => sPublished'[c] = 0
        /\ \A l \in Leg : lState'[l] = "NONE" => lPublished'[l] = 0
    BY <1>t, <2>1, <2>2 DEF PublishInv, rowVars
  <2>4. PublishedAtMostOnce'
    BY <1>t, <2>1, <2>2 DEF PublishInv, PublishedAtMostOnce
  <2>5. ASSUME NEW v \in Worker
        PROVE  /\ OpensSession(v)' => sPublished'[CallOfW(v)'] = 0
               /\ OpensLeg(v)' => lPublished'[LegOfW(v)'] = 0
    <3>1. CASE v = w
      BY <2>1, <3>1 DEF OpensSession, OpensLeg
    <3>2. CASE v # w
      <4>1. /\ OpensSession(v)' => OpensSession(v)
            /\ OpensLeg(v)' => OpensLeg(v)
            /\ CallOfW(v)' = CallOfW(v) /\ LegOfW(v)' = LegOfW(v)
        BY <1>w, <2>1, <3>2 DEF OpensSession, OpensLeg
      <4>2. /\ OpensSession(v) /\ "session" \in made[w] => CallOfW(v) # CallOfW(w)
            /\ OpensLeg(v) /\ "leg" \in made[w] => LegOfW(v) # LegOfW(w)
        BY <2>1, <3>2 DEF PublishInv, OpensSession, OpensLeg
      <4>3. /\ OpensSession(v) => sPublished[CallOfW(v)] = 0 /\ CallOfW(v) \in Call
            /\ OpensLeg(v) => lPublished[LegOfW(v)] = 0 /\ LegOfW(v) \in Leg
        BY <1>g, <1>w DEF PublishInv
      <4> QED BY <1>t, <2>1, <4>1, <4>2, <4>3
    <3> QED BY <3>1, <3>2
  <2> QED BY <1>1, <1>2, <2>3, <2>4, <2>5 DEF PublishInv
<1> QED BY <1>3, <1>4, PublishStep

\* A call is offered to the routers at most once, however many deliveries
\* bootstrap it at a time and whatever becomes of their locks.
THEOREM RoutedAtMostOnce == Spec => []PublishedAtMostOnce
<1>1. Init => PublishInv
  BY CallManagerAssumption
     DEF Init, PublishInv, PublishedAtMostOnce, OpensSession, OpensLeg
<1>2. PublishInv => PublishedAtMostOnce
  BY DEF PublishInv
<1> QED BY <1>1, <1>2, ViewInvHolds, StepPublishInv, PTL DEF Spec
-----------------------------------------------------------------------------
(***************************************************************************)
(* While no worker dies and no store fails, the delivery that created a    *)
(* row gets to publish it.                                                 *)
(***************************************************************************)
NoLoss == Faults \cap {"crash", "store"} = {}

OfferInv ==
  /\ \A c \in Call : sState[c] # "NONE" =>
       sPublished[c] # 0 \/ \E w \in Worker : OpensSession(w) /\ CallOfW(w) = c
  /\ \A l \in Leg : lState[l] # "NONE" =>
       lPublished[l] # 0 \/ \E w \in Worker : OpensLeg(w) /\ LegOfW(w) = l

\* No delivery ends between the creation of a row and its publication.
LEMMA OpeningGoesOn ==
  ASSUME TInv, NoLoss, [Next]_vars, NEW w \in Worker,
         pc[w] \in {"bootleg", "announce"}
  PROVE  pc'[w] # "idle"
<1>t. pc \in [Worker -> Control]
  BY DEF TInv, TypeOK
<1>1. ASSUME NEW v \in Worker, NEW e \in Event, Take(v, e) PROVE pc'[w] # "idle"
  BY <1>t, <1>1 DEF Take, Begin, Goto
<1>2. ASSUME NEW v \in Worker, Progress(v) PROVE pc'[w] # "idle"
  <2>1. CASE v = w
    <3>1. BootLeg(w) \/ Announce(w)
      BY <1>2, <2>1 DEF Progress, TakeBootstrapLock, BootSession, TakeSessionLock,
         LoadSession, LoadLeg, NoTransition, Conflict, Duplicate, Commit, Publish, Ack,
         GiveUp, GivesUp
    <3> QED BY <3>1, PlaceStep
  <2>2. CASE v # w
    <3>1. \E p : Goto(v, p)
      BY <1>2 DEF Progress, TakeBootstrapLock, BootSession, BootLeg, Announce,
         TakeSessionLock, LoadSession, LoadLeg, NoTransition, Conflict, Duplicate,
         Commit, Publish, Answer, Ack, GiveUp, FailedDelivery, Drop
    <3> QED BY <1>t, <2>2, <3>1 DEF Goto
  <2> QED BY <2>1, <2>2
<1>3. ASSUME NEW v \in Worker, StoreFails(v) \/ Crash(v) PROVE FALSE
  BY <1>3 DEF StoreFails, Crash, NoLoss
<1>4. CASE \/ \E c \in Call : \/ SessionLockExpires(c) \/ OtherLocks(c)
                              \/ FeatureSession(c) \/ SnapshotWrite(c)
           \/ \E l \in Leg : BootstrapLockExpires(l) \/ FeatureLeg(l)
           \/ UNCHANGED vars
  BY <1>4 DEF SessionLockExpires, OtherLocks, FeatureSession, SnapshotWrite,
     BootstrapLockExpires, FeatureLeg, vars
<1> QED BY <1>1, <1>2, <1>3, <1>4 DEF Next

LEMMA OpenerStays ==
  ASSUME TInv, NoLoss, [Next]_vars, NEW w \in Worker
  PROVE  /\ OpensSession(w) =>
              Announce(w) \/ (OpensSession(w)' /\ CallOfW(w)' = CallOfW(w))
         /\ OpensLeg(w) =>
              Announce(w) \/ (OpensLeg(w)' /\ LegOfW(w)' = LegOfW(w))
<1>t. made \in [Worker -> SUBSET {"session", "leg"}]
  BY DEF TInv, TypeOK
<1>0. CASE Announce(w)
  BY <1>0
<1>1. CASE pc[w] \in {"bootleg", "announce"} /\ ~Announce(w)
  <2>1. CASE BootLeg(w)
    <3>1. /\ pc[w] = "bootleg" /\ pc'[w] = "announce" /\ UNCHANGED ev
          /\ made[w] \subseteq made'[w]
      BY <1>t, <2>1, PlaceStep DEF BootLeg
    <3> QED BY <3>1 DEF OpensSession, OpensLeg, CallOfW, LegOfW
  <2>2. CASE pc'[w] = pc[w] /\ ev'[w] = ev[w] /\ made'[w] = made[w]
    BY <2>2 DEF OpensSession, OpensLeg, CallOfW, LegOfW
  <2>3. CASE Progress(w)
    BY <1>1, <2>1, <2>3 DEF Progress, TakeBootstrapLock, BootSession, TakeSessionLock,
       LoadSession, LoadLeg, NoTransition, Conflict, Duplicate, Commit, Publish, Ack,
       GiveUp, GivesUp
  <2>4. ~Drop(w) /\ \A e \in Event : ~Take(w, e)
    BY <1>1, OpeningGoesOn, PlaceStep DEF Take
  <2> QED BY <2>2, <2>3, <2>4, WorkerStep
<1>2. CASE pc[w] \notin {"bootleg", "announce"}
  BY <1>2 DEF OpensSession, OpensLeg
<1> QED BY <1>0, <1>1, <1>2

\* A new row has its creator.
LEMMA NewRows ==
  ASSUME TInv, ViewInv, [Next]_vars
  PROVE  /\ \A c \in Call : sState[c] = "NONE" /\ sState'[c] # "NONE" =>
              \E w \in Worker : OpensSession(w)' /\ CallOfW(w)' = c
         /\ \A l \in Leg : lState[l] = "NONE" /\ lState'[l] # "NONE" =>
              \E w \in Worker : OpensLeg(w)' /\ LegOfW(w)' = l
<1> DEFINE Creators ==
      /\ \A c \in Call : sState[c] = "NONE" /\ sState'[c] # "NONE" =>
           \E w \in Worker : OpensSession(w)' /\ CallOfW(w)' = c
      /\ \A l \in Leg : lState[l] = "NONE" /\ lState'[l] # "NONE" =>
           \E w \in Worker : OpensLeg(w)' /\ LegOfW(w)' = l
<1>t. /\ sState \in [Call -> SessionState \cup {"NONE"}]
      /\ lState \in [Leg -> LegState \cup {"NONE"}]
      /\ pc \in [Worker -> Control]
      /\ made \in [Worker -> SUBSET {"session", "leg"}]
  BY DEF TInv, TypeOK
<1>1. CASE UNCHANGED rowVars
  BY <1>1 DEF rowVars
<1>2. ASSUME NEW w \in Worker, BootSession(w) PROVE Creators
  <2>1. CASE lState[LegOfW(w)] # "NONE"
    BY <1>2, <2>1 DEF BootSession, rowVars
  <2>2. CASE lState[LegOfW(w)] = "NONE"
    <3>1. /\ UNCHANGED <<lState, ev>> /\ pc'[w] = "bootleg"
          /\ \A c \in Call : c # CallOfW(w) => sState'[c] = sState[c]
          /\ sState[CallOfW(w)] = "NONE" => made'[w] = {"session"}
      BY <1>t, <1>2, <2>2 DEF BootSession, Goto
    <3> QED BY <3>1 DEF OpensSession, CallOfW, LegOfW
  <2> QED BY <2>1, <2>2
<1>3. ASSUME NEW w \in Worker, BootLeg(w) PROVE Creators
  <2>1. /\ UNCHANGED <<sState, ev>> /\ pc'[w] = "announce"
        /\ \A l \in Leg : l # LegOfW(w) => lState'[l] = lState[l]
        /\ lState[LegOfW(w)] = "NONE" => "leg" \in made'[w]
    BY <1>t, <1>3 DEF BootLeg, Goto
  <2> QED BY <2>1 DEF OpensLeg, LegOfW
<1>4. ASSUME NEW w \in Worker, Commit(w) PROVE Creators
  <2>1. sState[CallOfW(w)] # "NONE" /\ lState[LegOfW(w)] # "NONE"
    BY <1>4 DEF Commit, TInv, Grounded, InFsm
  <2>2. /\ \A c \in Call : c # CallOfW(w) => sState'[c] = sState[c]
        /\ \A l \in Leg : l # LegOfW(w) => lState'[l] = lState[l]
    BY <1>t, <1>4 DEF Commit
  <2> QED BY <2>1, <2>2
<1>5. ASSUME NEW c \in Call, FeatureSession(c) \/ SnapshotWrite(c) PROVE Creators
  BY <1>t, <1>5 DEF FeatureSession, SnapshotWrite
<1>6. ASSUME NEW l \in Leg, FeatureLeg(l) PROVE Creators
  BY <1>t, <1>6 DEF FeatureLeg
<1> QED BY <1>1, <1>2, <1>3, <1>4, <1>5, <1>6, RowStep

LEMMA StepOfferInv ==
  ASSUME TInv, ViewInv, NoLoss, OfferInv, [Next]_vars PROVE OfferInv'
<1>t. sPublished \in [Call -> Nat] /\ lPublished \in [Leg -> Nat]
  BY DEF TInv, TypeOK
\* What was published stays so, and publication clears what was open.
<1>1. /\ \A c \in Call : sPublished[c] # 0 => sPublished'[c] # 0
      /\ \A l \in Leg : lPublished[l] # 0 => lPublished'[l] # 0
  BY <1>t, PublishStep DEF Announce
<1>2. ASSUME NEW w \in Worker, Announce(w)
      PROVE  /\ OpensSession(w) => sPublished'[CallOfW(w)] # 0
             /\ OpensLeg(w) => lPublished'[LegOfW(w)] # 0
  <2>1. CallOfW(w) \in Call /\ LegOfW(w) \in Leg
    BY <1>2, WorkersEvent DEF Announce
  <2> QED BY <1>t, <1>2, <2>1 DEF Announce, OpensSession, OpensLeg
<1>3. ASSUME NEW c \in Call, sState'[c] # "NONE"
      PROVE  \/ sPublished'[c] # 0
             \/ \E w \in Worker : OpensSession(w)' /\ CallOfW(w)' = c
  BY <1>1, <1>2, <1>3, NewRows, OpenerStays DEF OfferInv
<1>4. ASSUME NEW l \in Leg, lState'[l] # "NONE"
      PROVE  \/ lPublished'[l] # 0
             \/ \E w \in Worker : OpensLeg(w)' /\ LegOfW(w)' = l
  BY <1>1, <1>2, <1>4, NewRows, OpenerStays DEF OfferInv
<1> QED BY <1>3, <1>4 DEF OfferInv

\* Every call and leg has been offered to the routers, exactly once, when the
\* deliveries are through and none was cut short.
THEOREM EveryCallIsOffered == Spec => []CallIsOffered
<1>1. CASE NoLoss
  <2>1. Init => OfferInv
    BY DEF Init, OfferInv
  <2>2. TInv /\ ViewInv /\ OfferInv /\ [Next]_vars => OfferInv'
    BY <1>1, StepOfferInv
  <2>3. TInv /\ OfferInv /\ PublishedAtMostOnce => CallIsOffered
    <3>1. SUFFICES ASSUME TInv, OfferInv, PublishedAtMostOnce PROVE CallIsOffered
      OBVIOUS
    <3>2. ASSUME Quiet, NEW l \in Leg, lState[l] # "NONE"
          PROVE  lPublished[l] = 1 /\ sPublished[CallOf[l]] = 1
      <4>1. sState[CallOf[l]] # "NONE" /\ CallOf[l] \in Call
        BY <3>1, <3>2, CallManagerAssumption DEF TInv, Grounded
      <4>2. \A w \in Worker : ~OpensSession(w) /\ ~OpensLeg(w)
        BY <3>2 DEF Quiet, OpensSession, OpensLeg
      <4>3. lPublished[l] # 0 /\ sPublished[CallOf[l]] # 0
        BY <3>1, <3>2, <4>1, <4>2 DEF OfferInv
      <4>4. lPublished[l] \in Nat /\ sPublished[CallOf[l]] \in Nat
        BY <3>1, <4>1 DEF TInv, TypeOK
      <4>5. lPublished[l] <= 1 /\ sPublished[CallOf[l]] <= 1
        BY <3>1, <4>1 DEF PublishedAtMostOnce
      <4> QED BY <4>3, <4>4, <4>5
    <3> QED BY <3>2 DEF CallIsOffered
  <2> QED BY <2>1, <2>2, <2>3, ViewInvHolds, RoutedAtMostOnce, PTL DEF Spec
<1>2. CASE ~NoLoss
  <2>1. CallIsOffered
    BY <1>2 DEF CallIsOffered, NoLoss
  <2> QED BY <2>1, PTL
<1> QED BY <1>1, <1>2
=============================================================================
