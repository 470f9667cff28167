----------------------------- MODULE InboundRing -----------------------------
(***************************************************************************)
(* The simultaneous ring of the legacy call control                        *)
(* (lib/inboundCallControl.js over lib/callControlSessionStore.js): one    *)
(* answered inbound call rings every target at once, the first bridged leg *)
(* claims it with SET NX, the others are hung up, and a call nobody takes  *)
(* goes to voicemail.                                                      *)
(*                                                                         *)
(* The session is one JSON value in Redis.  Every handler loads it whole,  *)
(* works on its copy between awaits and saves it whole.  The webhook       *)
(* answers 200 first and handles each event id once, in any order, beside  *)
(* the dialer and the API call of the agent's Accept.  The carrier (line,  *)
(* caller) is external: it bridges at most one leg at a time.              *)
(*                                                                         *)
(* Left out: the sequential strategy, the ring-first pilot, the wording of *)
(* prompts, the extension forward of a missed call, the call log and the   *)
(* recording of answered calls; a missed call has voicemail enabled.       *)
(* call.dial.answered and call.dial.ended take the path of call.answered   *)
(* and of a leg's hangup.                                                  *)
(***************************************************************************)
EXTENDS Naturals, FiniteSets

CONSTANTS
  Targets,   \* number of ring targets
  AppLegs,   \* the legs of the softphone app, whose agent taps Accept first
  Handler,   \* webhook and API handlers that may run at once
  MaxBusy,   \* bound: handlers busy at once, the dialer included
  Dialer     \* the handler that rings the targets

ASSUME RingAssumption ==
  /\ Targets \in Nat \ {0}
  /\ AppLegs \subseteq 1..Targets
  /\ Dialer \notin Handler

Leg    == 1..Targets
NoLeg  == 0            \* no winner; as the leg of an event, the caller's own leg
Caller == 0
Task   == Handler \cup {Dialer}

VARIABLES
  sess,     \* ccs:{id}: [stage, leg status, winner], stage "gone" once deleted
  winner,   \* ccs:winner:{id}
  task,     \* what each handler is at, with its copy of the session
  events,   \* webhooks and API calls not handled yet: <<kind, leg>>
  line,     \* the carrier's state of each leg
  caller,   \* the caller is on the line
  served,   \* the caller was bridged to an agent, or left a message
  astray,   \* the legs that were up when the program gave them up, because their
            \* dial threw or their hangup failed
  mishap    \* history: a session change was overwritten or a deleted session
            \* revived by a save, a call was claimed whose session was being
            \* cleaned up, a hangup was ignored for bridge grace, or it met a
            \* session that did not track every dialled leg

vars == <<sess, winner, task, events, line, caller, served, astray, mishap>>
carrier == <<line, caller, served, astray>>

Stages   == {"connect", "ringing", "connecting", "bridged", "voicemail", "gone"}
\* "unknown": no entry in outboundLegs.  "dropped" and "failed" are entries
\* without a callControlId (cancelled after a late dial, failed dial).
Statuses == {"unknown", "ringing", "answered", "no-answer", "cancelled", "dropped", "failed"}
Kinds    == {"accept", "answered", "bridged", "hangup", "spoken"}
Session  == [stage : Stages, leg : [Leg -> Statuses], winner : Leg \cup {NoLeg}]
Gone     == [stage |-> "gone", leg |-> [l \in Leg |-> "unknown"], winner |-> NoLeg]

TypeOK ==
  /\ sess \in Session
  /\ winner \in Leg \cup {NoLeg}
  /\ task \in [Task -> [pc : {"idle", "ring", "dialling", "register", "check", "registered",
                              "recount", "resave", "accept", "connecting",
                              "reread", "picked", "claim", "mark", "cancel", "kept",
                              "paired", "hangup", "ended", "noanswer", "loser",
                              "clear", "delete", "route", "prompt", "speak", "record",
                              "message"},
                        kind : Kinds \cup {"dial"}, leg : Leg \cup {Caller},
                        copy : Session, stale : BOOLEAN]]
  /\ events \subseteq Kinds \X (Leg \cup {Caller})
  /\ line \in [Leg -> {"idle", "failed", "ringing", "answered", "bridged", "ended"}]
  /\ caller \in BOOLEAN
  /\ served \in BOOLEAN
  /\ astray \subseteq Leg
  /\ mishap \subseteq {"overwritten", "revived", "reclaimed", "untracked", "ignored"}

----------------------------------------------------------------------------
(* The session value.                                                       *)

\* isOutboundLegEvent: the session has the leg's callControlId.
Registered(s, l) == l \in Leg /\ s.leg[l] \in {"ringing", "answered", "no-answer", "cancelled"}
Entries(s)       == {l \in Leg : s.leg[l] # "unknown"}
RingingIn(s)     == {l \in Leg : s.leg[l] = "ringing"}
\* Mutant: a dial that failed is not terminal.
SettledButFailed(s) == Entries(s) # {} /\ \A l \in Leg : s.leg[l] \notin {"ringing", "failed"}
\* allOutboundLegsSettled: every entry is terminal, and there is one.
Settled(s)       == Entries(s) # {} /\ RingingIn(s) = {}
AnyAnswered(s)   == s.winner # NoLeg \/ \E l \in Leg : s.leg[l] = "answered"
\* hasBridgedState
HasWinner(s)     == s.stage = "bridged" \/ s.winner # NoLeg
\* Mutant: no bridge grace before there is a winner.
BlockedByWinner(s) == s.stage = "connecting" /\ s.winner # NoLeg
\* shouldBlockVoicemailRouting: the grace period begins with this stage.
Blocked(s)       == s.stage = "connecting"

WithStage(s, stage)     == [s EXCEPT !.stage = stage]
WithLegs(s, ls, status) == [s EXCEPT !.leg = [l \in Leg |-> IF l \in ls THEN status ELSE @[l]]]
BridgedBy(s, l)         == [s EXCEPT !.stage = "bridged", !.winner = l]

----------------------------------------------------------------------------
(* Tasks, and the session store.                                            *)

Idle == [pc |-> "idle", kind |-> "dial", leg |-> Caller, copy |-> Gone, stale |-> FALSE]

At(t, p)      == task[t].pc = p
Finish(t)     == task' = [task EXCEPT ![t] = Idle]
\* t goes on at p with s as its working copy.
Hold(t, p, s) == task' = [task EXCEPT ![t].pc = p, ![t].copy = s]
Goto(t, p)    == Hold(t, p, task[t].copy)
\* t goes on at p and needs its copy no more.
Without(r, p) == [r EXCEPT !.pc = p, !.leg = Caller, !.copy = Gone, !.stale = FALSE]
Leave(t, p)   == task' = [task EXCEPT ![t] = Without(@, p)]

\* What a load leaves in the task: a deleted session keeps the old copy.
Reloaded(r) == IF sess = Gone THEN r ELSE [r EXCEPT !.copy = sess, !.stale = FALSE]

\* The other tasks' copies after the stored session becomes s.
Outdated(t, r, s) ==
  [u \in Task |-> IF u = t THEN r
                  ELSE [task[u] EXCEPT !.stale = @ \/ (task[u].copy # Gone /\ s # sess)]]

\* saveSession, then on at p: a save over a session that changed since the
\* load loses that change, a save after deleteSession brings the session back.
Save(t, s, p) ==
  /\ sess' = s
  /\ task' = Outdated(t, IF p = "idle" THEN Idle
                         ELSE IF p \in {"speak", "message"} THEN Without(task[t], p)
                         ELSE [task[t] EXCEPT !.pc = p, !.copy = s, !.stale = FALSE], s)
  /\ mishap' = mishap \cup (IF sess = Gone THEN {"revived"}
                            ELSE IF task[t].stale THEN {"overwritten"} ELSE {})

UpIn(ls) == {l \in ls : line[l] \in {"ringing", "answered", "bridged"}}

\* The carrier reports the end of legs ls.
Down(ls) ==
  /\ line' = [l \in Leg |-> IF l \in ls THEN "ended" ELSE line[l]]
  /\ events' = events \cup ({"hangup"} \X ls)

\* hangupCall on legs ls.  Whether it worked or not the leg counts as cancelled:
\* one whose hangup failed stays up, and nobody hangs it up again.
HangUp(ls) ==
  \E failed \in SUBSET UpIn(ls) :
    Down(UpIn(ls) \ failed) /\ astray' = astray \cup failed

----------------------------------------------------------------------------
(* The dialer: dialAllTargetsSimultaneously.                                *)

StartRinging ==
  /\ At(Dialer, "ring")
  /\ Save(Dialer, WithStage(task[Dialer].copy, "ringing"), "dialling")
  /\ UNCHANGED <<winner, events, carrier>>

\* The dials run in parallel; the leg may ring long before all have returned.
\* Whatever throws in dialSingleTarget makes the dial a failed one: the carrier's
\* refusal, but also a lost answer of the carrier, or Redis once the leg rings.
DialLeg(l) ==
  /\ At(Dialer, "dialling") /\ line[l] = "idle"
  /\ \/ line' = [line EXCEPT ![l] = "failed"] /\ astray' = astray
     \/ line' = [line EXCEPT ![l] = "ringing"] /\ astray' \in {astray, astray \cup {l}}
  /\ UNCHANGED <<sess, winner, task, events, caller, served, mishap>>

DialsReturn ==
  /\ At(Dialer, "dialling") /\ \A l \in Leg : line[l] # "idle"
  /\ Goto(Dialer, "register")
  /\ UNCHANGED <<sess, winner, events, carrier, mishap>>

\* Mutant: one result too many.
AfterResultTooFar(l) == IF l <= Targets THEN "register" ELSE "recount"

\* The results are registered one after another, the dialer's leg being the last.
AfterResult(l) == IF l < Targets THEN "register" ELSE "recount"

RegisterLoad ==
  /\ At(Dialer, "register")
  /\ LET l == task[Dialer].leg + 1
         r == [task[Dialer] EXCEPT !.leg = l]
     IN  task' = [task EXCEPT ![Dialer] =
           IF sess = Gone THEN [r EXCEPT !.pc = AfterResult(l)]
           ELSE [Reloaded(r) EXCEPT !.pc = "check"]]
  /\ UNCHANGED <<sess, winner, events, carrier, mishap>>

\* The result has no callControlId.  Before it is registered a leg can only be
\* astray because its dial threw.
DialFailed(l) == line[l] = "failed" \/ l \in astray

\* Mutant: without RC-3, a late leg is registered as any other.
ResultWithoutRc3(s, l, taken) ==
  WithLegs(s, {l}, IF DialFailed(l) THEN "failed" ELSE "ringing")

\* registerOutboundDialResult once it knows whether the call is taken.
Result(s, l, taken) ==
  IF DialFailed(l) THEN WithLegs(s, {l}, "failed")
  ELSE IF ~taken THEN WithLegs(s, {l}, "ringing")
  ELSE IF l \in {winner, s.winner} THEN BridgedBy(WithLegs(s, {l}, "answered"), l)
  ELSE WithLegs(s, {l}, "dropped")

RegisterCheck ==
  /\ At(Dialer, "check")
  /\ LET l == task[Dialer].leg
         s == task[Dialer].copy
         r == Result(s, l, winner # NoLeg \/ HasWinner(s))
     IN  /\ Hold(Dialer, "registered", r)
         /\ HangUp({l} \cap {k \in Leg : r.leg[k] = "dropped"})
  /\ UNCHANGED <<sess, winner, caller, served, mishap>>

RegisterSave ==
  /\ At(Dialer, "registered")
  /\ Save(Dialer, task[Dialer].copy, AfterResult(task[Dialer].leg))
  /\ UNCHANGED <<winner, events, carrier>>

Recount ==
  /\ At(Dialer, "recount")
  /\ task' = [task EXCEPT ![Dialer] = IF sess = Gone THEN Idle
                                      ELSE [Reloaded(@) EXCEPT !.pc = "resave"]]
  /\ UNCHANGED <<sess, winner, events, carrier, mishap>>

RecountSave ==
  /\ At(Dialer, "resave")
  /\ Save(Dialer, task[Dialer].copy,
          IF RingingIn(task[Dialer].copy) = {} THEN "route" ELSE "idle")
  /\ UNCHANGED <<winner, events, carrier>>

----------------------------------------------------------------------------
(* Handlers: an event is taken, and its session found, whatever its age.    *)

Begin(t, kind, l) ==
  /\ At(t, "idle") /\ t # Dialer /\ <<kind, l>> \in events
  /\ Cardinality({u \in Task : ~At(u, "idle")}) < MaxBusy
  /\ events' = events \ {<<kind, l>>}
  /\ task' = [task EXCEPT ![t] =
       IF sess = Gone \/ (kind = "answered" /\ ~Registered(sess, l)) THEN Idle
       ELSE [pc |-> CASE kind \in {"answered", "bridged"} ->
                           IF sess.stage \in {"bridged", "connecting"} THEN "reread"
                                                                       ELSE "connecting"
                      [] kind = "spoken" -> "record"
                      [] OTHER -> kind,
             kind |-> kind, leg |-> l, copy |-> sess, stale |-> FALSE]]
  /\ UNCHANGED <<sess, winner, carrier, mishap>>

\* markAgentWebRtcAccepted: whatever the stage was.
AcceptSave(t) ==
  /\ At(t, "accept")
  /\ Save(t, WithStage(task[t].copy, "connecting"), "idle")
  /\ UNCHANGED <<winner, events, carrier>>

(* onOutboundLegAnswered *)
MarkConnecting(t) ==
  /\ At(t, "connecting")
  /\ Save(t, WithStage(task[t].copy, "connecting"), "reread")
  /\ UNCHANGED <<winner, events, carrier>>

AnswerReload(t) ==
  /\ At(t, "reread")
  /\ LET r == Reloaded(task[t])
         s == r.copy
     IN  task' = [task EXCEPT ![t] =
           IF \/ s.stage = "bridged" /\ s.winner = r.leg
              \/ ~Registered(s, r.leg)
              \/ s.leg[r.leg] = "cancelled"
           THEN Idle
           ELSE [r EXCEPT !.pc = IF r.kind = "answered" THEN "picked" ELSE "claim"]]
  /\ UNCHANGED <<sess, winner, events, carrier, mishap>>

MarkAnswered(t) ==
  /\ At(t, "picked")
  /\ Save(t, WithLegs(task[t].copy, {task[t].leg}, "answered"), "idle")
  /\ UNCHANGED <<winner, events, carrier>>

\* claimConnectedLeg on call.bridged.  One event of a leg is handled, so the
\* claim it finds is another leg's: that leg is marked as the winner.
Claim(t) ==
  /\ At(t, "claim")
  /\ IF winner = NoLeg
       THEN /\ winner' = task[t].leg
            /\ Goto(t, "mark")
            /\ mishap' = mishap \cup (IF sess = Gone \/ sess.winner # NoLeg
                                     THEN {"reclaimed"} ELSE {})
       ELSE /\ winner' = winner
            /\ IF task[t].copy.stage = "bridged" THEN Finish(t)
               ELSE Hold(t, "paired", BridgedBy(task[t].copy, winner))
            /\ UNCHANGED mishap
  /\ UNCHANGED <<sess, events, carrier>>

MarkPaired(t) ==
  /\ At(t, "paired")
  /\ Save(t, task[t].copy, "idle")
  /\ UNCHANGED <<winner, events, carrier>>

MarkBridged(t) ==
  /\ At(t, "mark")
  /\ LET l == task[t].leg
     IN  Save(t, BridgedBy(WithLegs(task[t].copy, {l}, "answered"), l), "cancel")
  /\ UNCHANGED <<winner, events, carrier>>

\* Mutant: every leg of the session is cancelled.
EveryLeg(s, l) == {k \in Leg : Registered(s, k)}

\* cancelRemainingOutboundLegs: which legs of session s the winner l cancels.
Losers(s, l) == RingingIn(s) \ {l, s.winner}

CancelRemaining(t) ==
  /\ At(t, "cancel")
  /\ LET ls == Losers(task[t].copy, task[t].leg)
     IN  HangUp(ls) /\ Hold(t, "kept", WithLegs(task[t].copy, ls, "cancelled"))
  /\ UNCHANGED <<sess, winner, caller, served, mishap>>

SaveWon(t) ==
  /\ At(t, "kept")
  /\ Save(t, task[t].copy, "idle")
  /\ UNCHANGED <<winner, events, carrier>>

(* handleHangup, with hasActiveWinner's read of the claim. *)
Active(s) == HasWinner(s) \/ winner # NoLeg

IgnoreHangup(t) ==
  /\ At(t, "hangup") /\ Blocked(task[t].copy)
  /\ Finish(t)
  /\ mishap' = mishap \cup {"ignored"}
  /\ UNCHANGED <<sess, winner, events, carrier>>

\* The caller gives up while every leg still rings.
AbandonRing(t) ==
  LET s == task[t].copy IN
  /\ At(t, "hangup") /\ task[t].leg = Caller /\ s.stage = "ringing" /\ ~Active(s)
  /\ HangUp(RingingIn(s))
  /\ Leave(t, "clear")
  /\ UNCHANGED <<sess, winner, caller, served, mishap>>

\* A ringing leg ends and nobody has the call.
RingingLegHangup(t) ==
  LET s == task[t].copy IN
  /\ At(t, "hangup") /\ Registered(s, task[t].leg) /\ s.stage = "ringing" /\ ~Active(s)
  /\ Goto(t, "ended")
  /\ mishap' = mishap \cup (IF \E l \in Leg : s.leg[l] \in {"unknown", "dropped"}
                            THEN {"untracked"} ELSE {})
  /\ UNCHANGED <<sess, winner, events, carrier>>

\* A leg that does not have the call ends.
LoserHangup(t) ==
  LET s == task[t].copy
      l == task[t].leg
  IN
  /\ At(t, "hangup") /\ Registered(s, l) /\ l # s.winner
  /\ ~Blocked(s)
  /\ IF s.stage = "ringing" THEN Active(s) ELSE s.winner # NoLeg
  /\ Hold(t, "loser", WithLegs(s, {l}, "cancelled"))
  /\ UNCHANGED <<sess, winner, events, carrier, mishap>>

LoserSave(t) ==
  /\ At(t, "loser")
  /\ Save(t, task[t].copy, "idle")
  /\ UNCHANGED <<winner, events, carrier>>

\* Every other hangup closes the session: the winner's, the caller's, and
\* that of a leg the loaded session has no entry for.
ClosingHangup(t) ==
  LET s == task[t].copy
      l == task[t].leg
  IN
  /\ At(t, "hangup") /\ ~Blocked(s)
  /\ IF l = Caller THEN s.stage # "ringing" \/ Active(s)
     ELSE ~Registered(s, l) \/ (s.stage # "ringing" /\ s.winner \in {NoLeg, l})
  /\ Leave(t, "clear")
  /\ mishap' = mishap \cup (IF l # Caller /\ ~Registered(s, l) THEN {"untracked"} ELSE {})
  /\ UNCHANGED <<sess, winner, events, carrier>>

(* handleSimultaneousLegEnded *)
LegEnded(t) ==
  /\ At(t, "ended")
  /\ LET l == task[t].leg IN
     IF winner # NoLeg \/ task[t].copy.leg[l] \in {"cancelled", "answered"} THEN Finish(t)
     ELSE Hold(t, "noanswer", WithLegs(task[t].copy, {l}, "no-answer"))
  /\ UNCHANGED <<sess, winner, events, carrier, mishap>>

\* After the save, voicemail once every leg is settled and none answered.
Unanswered(s) == ~AnyAnswered(s) /\ Settled(s)

NoAnswerSave(t) ==
  /\ At(t, "noanswer")
  /\ Save(t, task[t].copy, IF Unanswered(task[t].copy) THEN "route" ELSE "idle")
  /\ UNCHANGED <<winner, events, carrier>>

(* cleanupInboundSession: clearSessionClaims, then the session. *)
ClearClaims(t) ==
  /\ At(t, "clear")
  /\ winner' = NoLeg
  /\ Leave(t, "delete")
  /\ UNCHANGED <<sess, events, carrier, mishap>>

DeleteSession(t) ==
  /\ At(t, "delete")
  /\ sess' = Gone
  /\ task' = Outdated(t, Idle, Gone)
  /\ UNCHANGED <<winner, events, carrier, mishap>>

(* routeToVoicemailOrHangup, startVoicemailCapture, handleSpeakEnded. *)
RouteToVoicemail(t) ==
  /\ At(t, "route")
  /\ IF Blocked(task[t].copy) \/ Active(task[t].copy) THEN Finish(t) ELSE Goto(t, "prompt")
  /\ UNCHANGED <<sess, winner, events, carrier, mishap>>

PromptSave(t) ==
  /\ At(t, "prompt")
  /\ Save(t, WithStage(task[t].copy, "voicemail"), "speak")
  /\ UNCHANGED <<winner, events, carrier>>

SpeakPrompt(t) ==
  /\ At(t, "speak")
  /\ events' = events \cup (IF caller THEN {<<"spoken", Caller>>} ELSE {})
  /\ Finish(t)
  /\ UNCHANGED <<sess, winner, carrier, mishap>>

RecordSave(t) ==
  /\ At(t, "record")
  /\ Save(t, WithStage(task[t].copy, "voicemail"), "message")
  /\ UNCHANGED <<winner, events, carrier>>

RecordMessage(t) ==
  /\ At(t, "message")
  /\ served' = (served \/ caller)
  /\ Finish(t)
  /\ UNCHANGED <<sess, winner, events, line, caller, astray, mishap>>

----------------------------------------------------------------------------
(* The carrier, the agents and the caller.                                  *)

\* The app posts call-accepted, which may fail, and answers its leg without
\* waiting for the reply.
PickUp(l) ==
  /\ line[l] = "ringing"
  /\ line' = [line EXCEPT ![l] = "answered"]
  /\ \E posts \in SUBSET ({l} \cap AppLegs) :
       events' = events \cup {<<"answered", l>>} \cup ({"accept"} \X posts)
  /\ UNCHANGED <<sess, winner, task, caller, served, astray, mishap>>

Bridge(l) ==
  /\ caller /\ line[l] = "answered" /\ \A k \in Leg : line[k] # "bridged"
  /\ line' = [line EXCEPT ![l] = "bridged"]
  /\ events' = events \cup {<<"bridged", l>>}
  /\ served' = TRUE
  /\ UNCHANGED <<sess, winner, task, caller, astray, mishap>>

\* Rejected, timed out, lost or hung up by the agent.
LegEnds(l) ==
  /\ UpIn({l}) # {} /\ Down({l})
  /\ UNCHANGED <<sess, winner, task, caller, served, astray, mishap>>

CallerHangsUp ==
  /\ caller
  /\ caller' = FALSE
  /\ LET with == {l \in Leg : line[l] = "bridged"}
     IN  /\ line' = [l \in Leg |-> IF l \in with THEN "ended" ELSE line[l]]
         /\ events' = events \cup ({"hangup"} \X (with \cup {Caller}))
  /\ UNCHANGED <<sess, winner, task, served, astray, mishap>>

----------------------------------------------------------------------------
Init ==
  /\ sess = [Gone EXCEPT !.stage = "connect"]
  /\ winner = NoLeg
  /\ task = [t \in Task |-> IF t = Dialer THEN [Idle EXCEPT !.pc = "ring", !.copy = sess]
                                          ELSE Idle]
  /\ events = {}
  /\ line = [l \in Leg |-> "idle"]
  /\ caller = TRUE
  /\ served = FALSE
  /\ astray = {}
  /\ mishap = {}

Dial == \/ StartRinging \/ DialsReturn \/ RegisterLoad \/ RegisterCheck \/ RegisterSave
        \/ Recount \/ RecountSave
        \/ \E l \in Leg : DialLeg(l)

Take(t) == \E kind \in Kinds, l \in Leg \cup {Caller} : Begin(t, kind, l)

Answer(t) == \/ AcceptSave(t) \/ MarkConnecting(t) \/ AnswerReload(t)
             \/ MarkAnswered(t) \/ Claim(t) \/ MarkPaired(t) \/ MarkBridged(t)
             \/ CancelRemaining(t) \/ SaveWon(t)

End(t) == \/ IgnoreHangup(t) \/ AbandonRing(t) \/ RingingLegHangup(t) \/ LoserHangup(t)
          \/ LoserSave(t) \/ ClosingHangup(t) \/ LegEnded(t) \/ NoAnswerSave(t)
          \/ ClearClaims(t) \/ DeleteSession(t)

Voicemail(t) == \/ RouteToVoicemail(t) \/ PromptSave(t) \/ SpeakPrompt(t)
                \/ RecordSave(t) \/ RecordMessage(t)

World == \/ CallerHangsUp
         \/ \E l \in Leg : PickUp(l) \/ Bridge(l) \/ LegEnds(l)

\* Bound: a behaviour is followed up to its first mishap.
Next == /\ mishap = {}
        /\ Dial \/ World \/ \E t \in Task : Take(t) \/ Answer(t) \/ End(t) \/ Voicemail(t)

Spec == Init /\ [][Next]_vars

----------------------------------------------------------------------------
\* Nothing is handled or waits to be handled, and no mishap has happened.
AtRest == events = {} /\ mishap = {} /\ \A t \in Task : At(t, "idle")

\* The program never hangs up the leg that holds the claim while the caller is
\* on the line: neither the winner cancelling by the copy it loaded before, nor
\* the dialer registering late results, nor the end of a ring that was claimed
\* in between.
WinnerIsNotHungUp ==
  [][\A l \in Leg : line[l] # "ended" /\ line'[l] = "ended" /\ task' # task
                     => l # winner \/ ~caller]_vars

\* Once a leg has the call no other phone keeps ringing, also one whose dial
\* returned, or was registered, after the claim (RC-3).  The phones excepted are
\* those the program has given up: their hangup failed and nobody repeats it
\* (inboundCallControl.js:698-703, 975-979), or their dial threw (:918).
TakenCallStopsRinging ==
  AtRest /\ sess.winner # NoLeg => \A l \in Leg \ astray : line[l] # "ringing"

\* A caller all of whose legs have ended got an agent or left a message, unless
\* the call stays blocked in stage "connecting", in whatever order the dial
\* results, answers and hangups were handled.
CallerIsServed ==
  AtRest /\ caller /\ (\A l \in Leg : line[l] \in {"failed", "ended"})
  => served \/ sess.stage = "connecting"

\* The voicemail prompt is spoken only when no leg can have the call any more:
\* not to a caller who is bridged to an agent, and not while a phone still rings
\* or was picked up and waits for its bridge, which is what bridge grace is for.
\* Excepted is a leg whose dial threw when the carrier had accepted it: it counts
\* as failed (inboundCallControl.js:918) and may ring through the prompt.
PromptIsForTheUnanswered ==
  mishap = {} /\ (\E t \in Task : At(t, "speak")) =>
    \A l \in Leg \ astray : line[l] \in {"failed", "ended"}
=============================================================================
