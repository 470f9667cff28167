---------------------------- MODULE MCCallManager ----------------------------
(***************************************************************************)
(* Small instances of CallManager: one call with the legs "a" (the caller) *)
(* and "b" (the callee), and the events of each run.                       *)
(***************************************************************************)
EXTENDS CallManager, TLC

OneCall == {"call"}
OneLeg  == {"a"}
TwoLegs == {"a", "b"}

MCCallOf == [l \in Leg |-> "call"]
MCLegOf  == [e \in Event |-> e[1]]
MCKindOf == [e \in Event |-> e[2]]

Short    == {<<"a", "parked">>, <<"a", "hangup">>}
Failing  == {<<"a", "incoming">>, <<"a", "failed">>}
NoTenant == {<<"a", "media">>}
BothEnd  == {<<"a", "incoming">>, <<"b", "initiated">>, <<"a", "hangup">>,
             <<"b", "hangup">>}
Full     == {<<"a", "incoming">>, <<"a", "ringing">>, <<"a", "answered">>,
             <<"a", "bridged">>, <<"a", "hangup">>, <<"a", "media">>}

\* The carrier's order of the events of a leg.
Rank(k) == CASE k \in {"incoming", "parked", "initiated"} -> 1
             [] k = "ringing" -> 2
             [] k = "answered" -> 3
             [] k = "bridged" -> 4
             [] k \in {"hangup", "failed"} -> 5
             [] OTHER -> 0
InOrder  == {p \in Event \X Event : p[1][1] = p[2][1] /\ Rank(p[1][2]) < Rank(p[2][2])}
AnyOrder == {}
\* Both legs are created before either hangs up, the caller first.
CallerFirst == {p \in Event \X Event : Rank(p[1][2]) < Rank(p[2][2])}
               \cup {<<<<"a", "hangup">>, <<"b", "hangup">>>>}

Routing  == {"route.decided"}
Features == {"route.decided", "hold.started", "hold.ended"}
None     == {}

Lapses    == {"ttl"}
Outages   == {"crash", "store"}
Writes    == {"store", "executor", "snapshot"}
Symmetry == Permutations(Worker)
=============================================================================
