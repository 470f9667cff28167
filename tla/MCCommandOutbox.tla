--------------------------- MODULE MCCommandOutbox ---------------------------
(***************************************************************************)
(* Small instances of CommandOutbox for TLC.                               *)
(***************************************************************************)
EXTENDS CommandOutbox, TLC

CONSTANT s1

\* Every command belongs to one session, so that workers meet on its lock.
MCSessionOf == [c \in Command |-> s1]

\* Workers are interchangeable, and so are commands of one session.
Symmetry == Permutations(Worker) \cup Permutations(Command)
=============================================================================
