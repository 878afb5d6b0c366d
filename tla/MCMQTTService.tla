----------------------------- MODULE MCMQTTService -----------------------------
(* One command for one valve, with all its retries. *)
EXTENDS MQTTService

CONSTANTS c1, v1

MCTarget == [c \in Command |-> v1]
===============================================================================
