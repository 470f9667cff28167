------------------------------ MODULE CallLife ------------------------------
(***************************************************************************)
(* What the call manager promises of a call, without workers, locks,       *)
(* versions or retries: the session and its legs move along the frozen     *)
(* transition tables only, a webhook event moves each of them at most      *)
(* once, and in the same instant the commands its moves call for are in    *)
(* the outbox.  A part of an event may be ignored (its trigger has no rule *)
(* by the time it is handled).                                             *)
(***************************************************************************)
EXTENDS CallFsm

CONSTANTS Call, Leg, CallOf, Event, LegOf, KindOf, FeatureTriggers

VARIABLES
  session,    \* state of each call's session, or "NONE"
  leg,        \* state of each leg, or "NONE"
  applied,    \* <<event, part>>: the parts each event has moved
  commands    \* <<event, type>>: the commands in the outbox

vars == <<session, leg, applied, commands>>

Init ==
  /\ session  = [c \in Call |-> "NONE"]
  /\ leg      = [l \in Leg |-> "NONE"]
  /\ applied  = {}
  /\ commands = {}

Open(c) ==
  /\ session[c] = "NONE"
  /\ session' = [session EXCEPT ![c] = "NEW"]
  /\ UNCHANGED <<leg, applied, commands>>

OpenLeg(l) ==
  /\ session[CallOf[l]] # "NONE"
  /\ leg[l] = "NONE"
  /\ leg' = [leg EXCEPT ![l] = "NEW"]
  /\ UNCHANGED <<session, applied, commands>>

\* Handling event e takes the leg from l to l2 and the session from s over
\* s2 to s3.  Only the event that ends its leg may close the session.
Apply(e) ==
  LET l == leg[LegOf[e]]
      s == session[CallOf[LegOf[e]]]
  IN  /\ l # "NONE" /\ s # "NONE"
      /\ \E l2 \in {l, LegTo(l, LegTrigger(KindOf[e]))},
            s2 \in {s, SessionTo(s, SessionTrigger(KindOf[e]))} :
           \E s3 \in {s2, Completed(s2, l, l2, FALSE)} :
             LET moved == {p \in {"leg", "session", "closed"} :
                             \/ p = "leg" /\ l2 # l
                             \/ p = "session" /\ s2 # s
                             \/ p = "closed" /\ s3 # s2}
             IN  /\ moved # {}
                 /\ \A p \in moved : <<e, p>> \notin applied
                 /\ leg'      = [leg EXCEPT ![LegOf[e]] = l2]
                 /\ session'  = [session EXCEPT ![CallOf[LegOf[e]]] = s3]
                 /\ applied'  = applied \cup ({e} \X moved)
                 /\ commands' = commands \cup ({e} \X Intents(s, s2, l, l2))

\* Hold, transfer and routing features move a session or a leg on their own.
FeatureSession(c) ==
  /\ session[c] # "NONE"
  /\ \E t \in FeatureTriggers : session' = [session EXCEPT ![c] = SessionTo(@, t)]
  /\ UNCHANGED <<leg, applied, commands>>

FeatureLeg(l) ==
  /\ leg[l] # "NONE"
  /\ \E t \in FeatureTriggers : leg' = [leg EXCEPT ![l] = LegTo(@, t)]
  /\ UNCHANGED <<session, applied, commands>>

Next ==
  \/ \E c \in Call : Open(c) \/ FeatureSession(c)
  \/ \E l \in Leg : OpenLeg(l) \/ FeatureLeg(l)
  \/ \E e \in Event : Apply(e)

Spec == Init /\ [][Next]_vars
=============================================================================
