------------------------------- MODULE CallFsm -------------------------------
(***************************************************************************)
(* The frozen transition tables of the V3 call engine and the decision the *)
(* call manager takes from them (lib/telephony-v3/StateMachine).           *)
(*                                                                         *)
(* A trigger without a rule leaves the state as it is; no rule of either   *)
(* table is a self loop, so "no transition" and "same state" coincide.     *)
(***************************************************************************)

SessionState ==
  {"NEW", "ORIGIN_PARKED", "ROUTING", "RINGING", "BRIDGING", "ACTIVE", "HELD",
   "TRANSFER_PENDING", "ENDING", "ENDED", "FAILED"}

LegState ==
  {"NEW", "DIALING", "RINGING", "ANSWERED", "BRIDGED", "HELD", "ENDED", "FAILED"}

Terminal == {"ENDED", "FAILED"}   \* of sessions and of legs

\* SESSION_TRANSITIONS, as <<from, trigger, to>>.
SessionRule == {
  <<"NEW", "call.initiated", "ROUTING">>,
  <<"NEW", "session.created", "ROUTING">>,
  <<"NEW", "origin.parked", "ORIGIN_PARKED">>,
  <<"ORIGIN_PARKED", "tenant.resolved", "ROUTING">>,
  <<"ORIGIN_PARKED", "route.decided", "ROUTING">>,
  <<"ROUTING", "route.decided", "RINGING">>,
  <<"ROUTING", "leg.created", "RINGING">>,
  <<"ROUTING", "policy.denied", "FAILED">>,
  <<"ROUTING", "route.failover", "RINGING">>,
  <<"ROUTING", "call.failed", "FAILED">>,
  <<"RINGING", "call.answered", "BRIDGING">>,
  <<"RINGING", "timer.expired", "ROUTING">>,
  <<"RINGING", "call.failed", "FAILED">>,
  <<"RINGING", "leg.ended", "ENDING">>,
  <<"BRIDGING", "bridge.completed", "ACTIVE">>,
  <<"BRIDGING", "bridge.failed", "FAILED">>,
  <<"BRIDGING", "leg.ended", "ENDING">>,
  <<"ACTIVE", "hold.started", "HELD">>,
  <<"ACTIVE", "transfer.started", "TRANSFER_PENDING">>,
  <<"ACTIVE", "leg.ended", "ENDING">>,
  <<"ACTIVE", "call.failed", "FAILED">>,
  <<"HELD", "hold.ended", "ACTIVE">>,
  <<"HELD", "leg.ended", "ENDING">>,
  <<"TRANSFER_PENDING", "transfer.completed", "ACTIVE">>,
  <<"TRANSFER_PENDING", "transfer.cancelled", "ACTIVE">>,
  <<"TRANSFER_PENDING", "timer.expired", "ACTIVE">>,
  <<"TRANSFER_PENDING", "leg.ended", "ENDING">>,
  <<"ENDING", "session.closed", "ENDED">>,
  <<"ENDING", "leg.ended", "ENDED">> }

\* LEG_TRANSITIONS.
LegRule == {
  <<"NEW", "leg.created", "DIALING">>,
  <<"NEW", "leg.hangup", "ENDED">>,
  <<"DIALING", "call.ringing", "RINGING">>,
  <<"DIALING", "call.failed", "FAILED">>,
  <<"DIALING", "leg.hangup", "ENDED">>,
  <<"RINGING", "call.answered", "ANSWERED">>,
  <<"RINGING", "timer.expired", "FAILED">>,
  <<"RINGING", "call.failed", "FAILED">>,
  <<"RINGING", "leg.hangup", "ENDED">>,
  <<"ANSWERED", "bridge.completed", "BRIDGED">>,
  <<"ANSWERED", "hold.started", "HELD">>,
  <<"ANSWERED", "leg.hangup", "ENDED">>,
  <<"BRIDGED", "hold.started", "HELD">>,
  <<"BRIDGED", "leg.hangup", "ENDED">>,
  <<"HELD", "hold.ended", "BRIDGED">>,
  <<"HELD", "leg.hangup", "ENDED">> }

Trigger == {r[2] : r \in SessionRule \cup LegRule} \cup {"none"}

\* Where the rules lead from state s under trigger t: one state or none.
Targets(rules, s, t) == {r[3] : r \in {q \in rules : q[1] = s /\ q[2] = t}}

\* resolveSessionTransition, with the state itself for null.
SessionTable ==
  [s \in SessionState |-> [t \in Trigger |->
     IF s \in Terminal \/ Targets(SessionRule, s, t) = {} THEN s
     ELSE CHOOSE x \in Targets(SessionRule, s, t) : TRUE]]

SessionTo(s, t) == SessionTable[s][t]

\* resolveLegTransition: the table, then the two fallbacks.
LegTable ==
  [l \in LegState |-> [t \in Trigger |->
     IF l \in Terminal THEN l
     ELSE IF Targets(LegRule, l, t) # {}
          THEN CHOOSE x \in Targets(LegRule, l, t) : TRUE
     ELSE IF t = "call.failed" THEN "FAILED"
     ELSE IF t \in {"leg.hangup", "leg.ended"} THEN "ENDED"
     ELSE l]]

LegTo(l, t) == LegTable[l][t]
-----------------------------------------------------------------------------
(***************************************************************************)
(* mapTelnyxToTriggers.  A kind is an event type with what else decides    *)
(* its triggers: call.initiated parked, incoming or neither; "failed" is   *)
(* call.dial.failed, busy and no_answer; "media" is every other type.      *)
(***************************************************************************)
Kind == {"parked", "incoming", "initiated", "ringing", "answered", "bridged",
         "hangup", "failed", "media"}

SessionTrigger(k) ==
  CASE k = "parked"    -> "origin.parked"
    [] k = "incoming"  -> "session.created"
    [] k = "initiated" -> "call.initiated"
    [] k = "answered"  -> "call.answered"
    [] k = "bridged"   -> "bridge.completed"
    [] k = "hangup"    -> "leg.ended"
    [] k = "failed"    -> "call.failed"
    [] OTHER           -> "none"

LegTrigger(k) ==
  CASE k \in {"parked", "incoming", "initiated"} -> "leg.created"
    [] k = "ringing"  -> "call.ringing"
    [] k = "answered" -> "call.answered"
    [] k = "bridged"  -> "bridge.completed"
    [] k = "hangup"   -> "leg.hangup"
    [] k = "failed"   -> "call.failed"
    [] OTHER          -> "none"

\* Which kinds may create the session and the leg.
Bootstraps(k) == k \in {"parked", "incoming", "initiated", "ringing"}

\* resolveSessionCompletion: s is the session state after the event's own
\* transition, the leg went from l to l2, and othersOpen tells whether the
\* loaded session has another leg that is not terminal.
Completed(s, l, l2, othersOpen) ==
  IF l2 # l /\ l2 \in Terminal /\ ~othersOpen
  THEN SessionTo(s, "session.closed")
  ELSE s

\* deriveCommandIntents, for a session going from s to s2 and a leg from l
\* to l2 (the completion step is not looked at).
Intents(s, s2, l, l2) ==
  {x \in {"BRIDGE", "HANGUP"} :
     \/ /\ x = "BRIDGE"
        /\ (s2 # s /\ s2 = "BRIDGING") \/ (l2 # l /\ l2 = "ANSWERED")
     \/ /\ x = "HANGUP"
        /\ (s2 # s /\ s2 \in {"ENDING", "FAILED"}) \/ (l2 # l /\ l2 \in Terminal)}
=============================================================================
