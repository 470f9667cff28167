---------------------------- MODULE MCInboundRing ----------------------------
(***************************************************************************)
(* Small instances of InboundRing: leg 1 is the softphone app's, the others *)
(* are phones; webhook handlers are interchangeable.                        *)
(***************************************************************************)
EXTENDS InboundRing, TLC

FirstLeg == {1}
Symmetry == Permutations(Handler)

\* Bound: with a phone astray, a behaviour is followed until the caller gives up.
Followed == astray = {} \/ caller
=============================================================================
