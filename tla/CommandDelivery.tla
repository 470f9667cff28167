--------------------------- MODULE CommandDelivery ---------------------------
(***************************************************************************)
(* What the command outbox promises to the call engine, without workers,   *)
(* leases or locks: at-least-once delivery.  A command that was submitted  *)
(* is open until it is done, which takes a confirmation by the carrier, or *)
(* given up, which takes a refusal or a full count of tries; and a command *)
(* that was closed stays closed, until it is forgotten.  The carrier may   *)
(* be tried at any time, even again after the command was closed: the      *)
(* outbox does not promise at-most-once.                                   *)
(***************************************************************************)
EXTENDS Naturals

CONSTANTS Command, MaxAttempts

VARIABLES
  state,      \* of each command
  confirmed,  \* the carrier confirmed it
  refused,    \* the carrier refused it
  tries       \* times the carrier was tried, up to MaxAttempts

vars == <<state, confirmed, refused, tries>>

Init ==
  /\ state     = [c \in Command |-> "absent"]
  /\ confirmed = [c \in Command |-> FALSE]
  /\ refused   = [c \in Command |-> FALSE]
  /\ tries     = [c \in Command |-> 0]

Move(c, from, to) ==
  /\ state[c] = from
  /\ state' = [state EXCEPT ![c] = to]
  /\ UNCHANGED <<confirmed, refused, tries>>

Submit(c) == Move(c, "absent", "open")

Try(c) ==
  /\ state[c] # "absent"
  /\ tries' = [tries EXCEPT ![c] = IF @ < MaxAttempts THEN @ + 1 ELSE @]
  /\ \/ confirmed' = [confirmed EXCEPT ![c] = TRUE] /\ UNCHANGED refused
     \/ refused' = [refused EXCEPT ![c] = TRUE] /\ UNCHANGED confirmed
     \/ UNCHANGED <<confirmed, refused>>
  /\ UNCHANGED state

Finish(c) == confirmed[c] /\ Move(c, "open", "done")

GiveUp(c) ==
  /\ refused[c] \/ tries[c] = MaxAttempts
  /\ Move(c, "open", "dead")

Forget(c) == Move(c, "done", "forgotten") \/ Move(c, "dead", "forgotten")

Next ==
  \E c \in Command : Submit(c) \/ Try(c) \/ Finish(c) \/ GiveUp(c) \/ Forget(c)

Spec == Init /\ [][Next]_vars
=============================================================================
