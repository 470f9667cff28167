---------------------------- MODULE MCAgentQueue ----------------------------
(* One call and two worker processes, each busy with one handler at a time:*)
(* a handler is called by its process.  The IVR joins the call under one   *)
(* request id, which another process, or a restarted one, accepts again.   *)
EXTENDS AgentQueue, TLC

CONSTANTS p1, p2, digit

OneEach  == [p \in Process |-> p]
Symmetry == Permutations({p1, p2})

\* Bound: two of a first join, a second one, a fault, the end of the call, and
\* the loss of the wait timer.
Count(b) == IF b THEN 1 ELSE 0
Followed == joins + faults + Count(call = "over") + Count(lost) <= 2
=============================================================================
