--------------------------- MODULE CallLifeProofs ---------------------------
(***************************************************************************)
(* The call manager implements the abstract life of a call.                *)
(***************************************************************************)
EXTENDS CallManagerProofs

\* The tables of the instance are the tables.
LEMMA SameTables ==
  /\ Life!Terminal = Terminal
  /\ \A l, t : Life!LegTo(l, t) = LegTo(l, t)
  /\ \A s, t : Life!SessionTo(s, t) = SessionTo(s, t)
<1>1. Life!Terminal = Terminal
  BY DEF Life!Terminal, Terminal
<1>2. Life!LegTable = LegTable
  BY Zenon DEF Life!LegTable, LegTable, Life!LegState, LegState, Life!Targets, Targets,
     Life!Trigger, Trigger, Life!Terminal, Terminal, Life!LegRule, LegRule,
     Life!SessionRule, SessionRule
<1>3. Life!SessionTable = SessionTable
  BY Zenon DEF Life!SessionTable, SessionTable, Life!SessionState, SessionState,
     Life!Targets, Targets, Life!Trigger, Trigger, Life!Terminal, Terminal,
     Life!LegRule, LegRule, Life!SessionRule, SessionRule
<1> QED BY <1>1, <1>2, <1>3 DEF Life!LegTo, LegTo, Life!SessionTo, SessionTo

LEMMA SameDecisions ==
  /\ \A k : Life!LegTrigger(k) = LegTrigger(k)
  /\ \A k : Life!SessionTrigger(k) = SessionTrigger(k)
  /\ \A s, l, l2 : Life!Completed(s, l, l2, FALSE) = Completed(s, l, l2, FALSE)
  /\ \A s, s2, l, l2 : Life!Intents(s, s2, l, l2) = Intents(s, s2, l, l2)
<1>1. ASSUME NEW k PROVE Life!LegTrigger(k) = LegTrigger(k)
  BY Zenon DEF Life!LegTrigger, LegTrigger
<1>2. ASSUME NEW k PROVE Life!SessionTrigger(k) = SessionTrigger(k)
  BY Zenon DEF Life!SessionTrigger, SessionTrigger
<1>3. \A s, l, l2 : Life!Completed(s, l, l2, FALSE) = Completed(s, l, l2, FALSE)
  BY SameTables DEF Life!Completed, Completed
<1>4. \A s, s2, l, l2 : Life!Intents(s, s2, l, l2) = Intents(s, s2, l, l2)
  BY SameTables DEF Life!Intents, Intents
<1> QED BY <1>1, <1>2, <1>3, <1>4

\* A commit is an application of its event to the rows as they are: a part
\* whose row was not written is one the event does not move.
LEMMA CommitApplies ==
  ASSUME TInv, ViewInv, NEW w \in Worker, Commit(w)
  PROVE  Life!Apply(ev[w])
<1> DEFINE e  == ev[w]
           l  == lState[LegOf[e]]
           s  == sState[CallOf[LegOf[e]]]
           l2 == IF MovesLeg(w) THEN ToLeg(w) ELSE l
           s2 == IF NewSRows(w) = {} THEN s ELSE ToSession(w)
           s3 == IF NewSRows(w) = {} THEN s ELSE ToClosed(w)
           moved == {p \in {"leg", "session", "closed"} :
                       \/ p = "leg" /\ l2 # l
                       \/ p = "session" /\ s2 # s
                       \/ p = "closed" /\ s3 # s2}
<1>1. /\ pc[w] = "decided" /\ LegOfW(w) = LegOf[e] /\ CallOfW(w) = CallOf[LegOf[e]]
      /\ LegOf[e] \in Leg /\ CallOf[LegOf[e]] \in Call
  BY WorkersEvent DEF Commit, LegOfW, CallOfW
<1>2. l # "NONE" /\ s # "NONE"
  BY <1>1 DEF TInv, Grounded, InFsm
<1>3. /\ MovesLeg(w) => l = view[w].l
      /\ NewSRows(w) # {} => s = view[w].s
      /\ lState' = [lState EXCEPT ![LegOf[e]] = l2]
      /\ sState' = [sState EXCEPT ![CallOf[LegOf[e]]] = s3]
  BY <1>1, CommitWrites DEF TInv, TypeOK
<1>4. /\ MovesSession(w) \/ Closes(w) <=> NewSRows(w) # {}
      /\ MovesSession(w) <=> <<e, "session">> \in NewSRows(w)
      /\ Closes(w) <=> <<e, "closed">> \in NewSRows(w)
      /\ NewSRows(w) \subseteq {<<e, "session">>, <<e, "closed">>}
  BY DEF NewSRows
<1>5. /\ l2 # l <=> MovesLeg(w)
      /\ s2 # s <=> MovesSession(w)
      /\ s3 # s2 <=> Closes(w)
  BY <1>3, <1>4 DEF MovesLeg, MovesSession, Closes
<1>6. l2 \in {l, LegTo(l, LegTrigger(KindOf[e]))}
  BY <1>3 DEF ToLeg
<1>7. s2 \in {s, SessionTo(s, SessionTrigger(KindOf[e]))}
  BY <1>3 DEF ToSession
<1>8. s3 \in {s2, Completed(s2, l, l2, FALSE)}
  <2>1. CASE ~Closes(w)
    BY <1>5, <2>1
  <2>2. CASE Closes(w)
    <3>1. MovesLeg(w) /\ ToLeg(w) \in Terminal /\ ~view[w].open
      BY <1>1, <2>2, Decision
    <3>2. s3 = ToClosed(w) /\ s2 = ToSession(w) /\ l2 = ToLeg(w) /\ l = view[w].l
      BY <1>3, <1>4, <2>2, <3>1
    <3> QED BY <3>1, <3>2 DEF ToClosed, Completed, MovesLeg
  <2> QED BY <2>1, <2>2
<1>9. Intents(view[w].s, ToSession(w), view[w].l, ToLeg(w)) = Intents(s, s2, l, l2)
  <2>1. /\ (ToSession(w) # view[w].s <=> s2 # s) /\ (s2 # s => s2 = ToSession(w))
        /\ (ToLeg(w) # view[w].l <=> l2 # l) /\ (l2 # l => l2 = ToLeg(w))
    BY <1>5 DEF MovesSession, MovesLeg
  <2> HIDE DEF l, s, l2, s2
  <2> QED BY <2>1 DEF Intents
<1>10. commands' = commands \cup ({e} \X Intents(s, s2, l, l2))
  BY <1>9 DEF Commit, CommandsOf
<1>11. {e} \X moved = NewSRows(w) \cup NewLRows(w)
  <2>1. moved = {p \in {"leg", "session", "closed"} :
                   \/ p = "leg" /\ MovesLeg(w)
                   \/ p = "session" /\ MovesSession(w)
                   \/ p = "closed" /\ Closes(w)}
    BY <1>5
  <2> HIDE DEF moved
  <2> QED BY <2>1 DEF NewSRows, NewLRows
<1>12. moved # {}
  <2>1. NewSRows(w) \cup NewLRows(w) # {}
    BY DEF Commit
  <2> QED BY <1>11, <2>1
<1>13. \A p \in moved : <<e, p>> \notin sRows \cup lRows
  <2>1. NewSRows(w) \cap sRows = {} /\ NewLRows(w) \cap lRows = {}
    BY DEF Commit, DuplicateFound, Seen
  <2>2. sRows \subseteq Event \X {"session", "closed"} /\ lRows \subseteq Event \X {"leg"}
    BY DEF TInv, TypeOK
  <2>3. \A p \in moved : <<e, p>> \in NewSRows(w) \cup NewLRows(w)
    BY <1>11
  <2> HIDE DEF moved
  <2> QED BY <2>1, <2>2, <2>3 DEF NewSRows, NewLRows
<1>14. (sRows \cup lRows)' = (sRows \cup lRows) \cup ({e} \X moved)
  BY <1>11 DEF Commit
<1>15. /\ l2 \in {l, Life!LegTo(l, Life!LegTrigger(KindOf[e]))}
       /\ s2 \in {s, Life!SessionTo(s, Life!SessionTrigger(KindOf[e]))}
       /\ s3 \in {s2, Life!Completed(s2, l, l2, FALSE)}
       /\ commands' = commands \cup ({e} \X Life!Intents(s, s2, l, l2))
  <2> HIDE DEF l, s, l2, s2, s3
  <2> QED BY <1>6, <1>7, <1>8, <1>10, SameTables, SameDecisions
<1>16. \E x2 \in {l, Life!LegTo(l, Life!LegTrigger(KindOf[e]))},
          y2 \in {s, Life!SessionTo(s, Life!SessionTrigger(KindOf[e]))} :
         \E y3 \in {y2, Life!Completed(y2, l, x2, FALSE)} :
           LET m == {p \in {"leg", "session", "closed"} :
                       \/ p = "leg" /\ x2 # l
                       \/ p = "session" /\ y2 # s
                       \/ p = "closed" /\ y3 # y2}
           IN  /\ m # {}
               /\ \A p \in m : <<e, p>> \notin sRows \cup lRows
               /\ lState' = [lState EXCEPT ![LegOf[e]] = x2]
               /\ sState' = [sState EXCEPT ![CallOf[LegOf[e]]] = y3]
               /\ (sRows \cup lRows)' = (sRows \cup lRows) \cup ({e} \X m)
               /\ commands' = commands \cup ({e} \X Life!Intents(s, y2, l, x2))
  <2> USE <1>15
  <2> HIDE DEF e, l, s, l2, s2, s3
  <2> WITNESS l2 \in {l, Life!LegTo(l, Life!LegTrigger(KindOf[e]))},
              s2 \in {s, Life!SessionTo(s, Life!SessionTrigger(KindOf[e]))}
  <2> WITNESS s3 \in {s2, Life!Completed(s2, l, l2, FALSE)}
  <2> QED BY <1>3, <1>12, <1>13, <1>14
<1> QED BY <1>2, <1>16 DEF Life!Apply

\* Every step of the call manager is one of the abstract call, or none.
LEMMA StepLife == TInv /\ ViewInv /\ [Next]_vars => [Life!Next]_(Life!vars)
<1> SUFFICES ASSUME TInv, ViewInv, [Next]_vars PROVE Life!Next \/ UNCHANGED Life!vars
  OBVIOUS
<1>t. /\ sState \in [Call -> SessionState \cup {"NONE"}]
      /\ lState \in [Leg -> LegState \cup {"NONE"}]
  BY DEF TInv, TypeOK
<1>1. CASE UNCHANGED rowVars
  BY <1>1 DEF rowVars, Life!vars
<1>2. ASSUME NEW w \in Worker, BootSession(w) PROVE Life!Next \/ UNCHANGED Life!vars
  <2>1. CallOfW(w) \in Call
    BY <1>2, WorkersEvent DEF BootSession
  <2>2. \/ UNCHANGED sState
        \/ sState[CallOfW(w)] = "NONE" /\ sState' = [sState EXCEPT ![CallOfW(w)] = "NEW"]
    BY <1>2, <1>t, <2>1 DEF BootSession, rowVars
  <2>3. UNCHANGED <<lState, sRows, lRows, commands>>
    BY <1>2 DEF BootSession, rowVars
  <2> QED BY <2>1, <2>2, <2>3 DEF Life!Next, Life!Open, Life!vars
<1>3. ASSUME NEW w \in Worker, BootLeg(w) PROVE Life!Next \/ UNCHANGED Life!vars
  <2>1. LegOfW(w) \in Leg /\ sState[CallOf[LegOfW(w)]] # "NONE"
    BY <1>3, WorkersEvent DEF BootLeg, TInv, Grounded, CallOfW
  <2>2. \/ UNCHANGED lState
        \/ lState[LegOfW(w)] = "NONE" /\ lState' = [lState EXCEPT ![LegOfW(w)] = "NEW"]
    BY <1>3, <1>t, <2>1 DEF BootLeg
  <2>3. UNCHANGED <<sState, sRows, lRows, commands>>
    BY <1>3 DEF BootLeg
  <2> QED BY <2>1, <2>2, <2>3 DEF Life!Next, Life!OpenLeg, Life!vars
<1>4. ASSUME NEW w \in Worker, Commit(w) PROVE Life!Next
  <2>1. ev[w] \in Event /\ Life!Apply(ev[w])
    BY <1>4, WorkersEvent, CommitApplies DEF Commit
  <2> QED BY <2>1 DEF Life!Next
<1>5. ASSUME NEW c \in Call, FeatureSession(c) PROVE Life!Next
  BY <1>5, SameTables DEF FeatureSession, Life!Next, Life!FeatureSession
<1>6. ASSUME NEW c \in Call, SnapshotWrite(c) PROVE UNCHANGED Life!vars
  BY <1>6 DEF SnapshotWrite, Life!vars
<1>7. ASSUME NEW l \in Leg, FeatureLeg(l) PROVE Life!Next
  BY <1>7, SameTables DEF FeatureLeg, Life!Next, Life!FeatureLeg
<1> QED BY <1>1, <1>2, <1>3, <1>4, <1>5, <1>6, <1>7, RowStep

\* Whatever expires, fails, crashes or is delivered twice, the rows of a call
\* live the life CallLife describes, each event moving each row at most once
\* and together with its commands.
THEOREM CallsLiveTheirLife == Spec => ImplementsCallLife
<1>1. Init => Life!Init
  BY DEF Init, Life!Init
<1>2. ImplementsCallLife <=> Life!Init /\ [][Life!Next]_(Life!vars)
  BY DEF ImplementsCallLife, Life!Spec
<1> QED BY <1>1, <1>2, ViewInvHolds, StepLife, PTL DEF Spec
=============================================================================
