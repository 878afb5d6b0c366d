----------------------------- MODULE MCLegacyPath -----------------------------
EXTENDS LegacyPath

CONSTANTS d1, z1, v1, f1

MCZoneOf == [x \in {v1, f1} |-> z1]
MCFireZone == [d \in Device |-> z1]
===============================================================================
