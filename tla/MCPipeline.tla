------------------------------- MODULE MCPipeline -------------------------------
(* One detector, a zone with one valve, channels of one element. *)
EXTENDS Pipeline

CONSTANTS d1, z1, v1

MCZoneOf == [x \in Valve |-> z1]
MCFireZone == [d \in Detector |-> z1]
===============================================================================
