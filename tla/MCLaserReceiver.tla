---------------------------- MODULE MCLaserReceiver ----------------------------
(* Messages on both sides of every check of validate. *)
EXTENDS LaserReceiver

CONSTANTS high, mid, low, negative, huge, future, nameless

MCDeviceOf == [m \in Message |-> IF m = nameless THEN NoDevice ELSE "LASER-0001"]
MCConcentrationOf ==
  [m \in Message |-> CASE m = low -> 1
                        [] m = negative -> -1
                        [] m = huge -> 101
                        [] m = mid -> 2
                        [] OTHER -> 100]
MCTimestampOf == [m \in Message |-> IF m = future THEN 1 ELSE 0]
===============================================================================
