-------------------------- MODULE MCIngressPipeline --------------------------
(***************************************************************************)
(* A small instance of IngressPipeline: the POSTs of one event.            *)
(***************************************************************************)
EXTENDS IngressPipeline

CONSTANT e1

MCEventOf == [p \in Post |-> e1]
MCEntry   == 1 .. 2
MCCopy    == 1 .. (2 * Cardinality(Worker) + MaxMishaps)
=============================================================================
