---------------------------- MODULE AlarmLifecycle ----------------------------
(***************************************************************************)
(* What the alarm component promises, with every operation atomic: a       *)
(* device has at most one open alarm, a new alarm is raised only when the  *)
(* level changes, an alarm is closed for good when it is resolved or       *)
(* superseded, and only an open alarm can be acknowledged.                 *)
(***************************************************************************)
EXTENDS Integers, Sequences

CONSTANT Device      \* the laser detectors

VARIABLES
  alarms,            \* every alarm ever raised, in order; its index is its ID
  activeAlarms,      \* the open alarm of each device, 0 when there is none
  acknowledged,      \* the alarms an operator has acknowledged
  resolved           \* the alarms closed because the gas level went down

vars == <<alarms, activeAlarms, acknowledged, resolved>>

Level == 1..3

Init ==
  /\ alarms = <<>>
  /\ activeAlarms = [d \in Device |-> 0]
  /\ acknowledged = {}
  /\ resolved = {}

\* The level of d is now l: a new alarm replaces the open one, if any.
Raise(d, l) ==
  /\ activeAlarms[d] # 0 => alarms[activeAlarms[d]].level # l
  /\ alarms' = Append(alarms, [device |-> d, level |-> l])
  /\ activeAlarms' = [activeAlarms EXCEPT ![d] = Len(alarms) + 1]
  /\ UNCHANGED <<acknowledged, resolved>>

\* The gas at d is below every threshold: the open alarm is resolved.
Resolve(d) ==
  /\ activeAlarms[d] # 0
  /\ resolved' = resolved \cup {activeAlarms[d]}
  /\ activeAlarms' = [activeAlarms EXCEPT ![d] = 0]
  /\ UNCHANGED <<alarms, acknowledged>>

\* An operator acknowledges the open alarm of d.
Acknowledge(d) ==
  /\ activeAlarms[d] # 0
  /\ acknowledged' = acknowledged \cup {activeAlarms[d]}
  /\ UNCHANGED <<alarms, activeAlarms, resolved>>

Next ==
  \E d \in Device :
    \/ \E l \in Level : Raise(d, l)
    \/ Resolve(d)
    \/ Acknowledge(d)

Spec == Init /\ [][Next]_vars
===============================================================================
