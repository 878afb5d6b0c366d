------------------------- MODULE MCEmergencyController -------------------------
(* Zone z1 with a valve and a fan, and zone z2 with a valve. *)
EXTENDS EmergencyController

CONSTANTS z1, z2, v1, v2, f1

MCZoneOf == [d \in Device |-> IF d = v2 THEN z2 ELSE z1]
===============================================================================
