----------------------------- MODULE AlarmEngine ------------------------------
(***************************************************************************)
(* backend/services/alarm.go: the alarm engine that the MQTT client calls  *)
(* directly while no LaserReceiver runs.  Every reading is checked in a    *)
(* goroutine of its own (mqtt/client.go:351), so the checks of one device  *)
(* interleave: the open alarm is looked up under the read lock and         *)
(* replaced under the write lock taken later, and the table is written     *)
(* after that lock is released.                                            *)
(***************************************************************************)
EXTENDS Integers, Sequences, FiniteSets

CONSTANTS
  Device,        \* laser detectors
  MaxReadings,   \* bound: readings that reach the engine
  ReadingLevel,  \* the levels their concentrations have for getAlarmLevel
  MaxAcks,       \* bound: calls of AcknowledgeAlarm
  MaxFailed      \* bound: alarms with an INSERT or UPDATE that fails

VARIABLES
  checks,        \* the goroutines of CheckAlarm, in the order in which they start
  alarms,        \* every alarm created, in order; its index is its ID
  activeAlarms,  \* the open alarm of each device, 0 when there is none
  acknowledged,  \* alarms whose Acknowledged field is set
  resolved,      \* alarms whose Resolved field is set
  rows,          \* table alarms: the alarms that have a row
  ackRows,       \* rows with acknowledged = TRUE
  resolvedRows,  \* rows with resolved = TRUE
  acks,          \* calls of AcknowledgeAlarm that found the alarm
  overlapped,    \* history: devices of which two operations were under way at once
  failed         \* history: alarms of which a statement failed

engineVars == <<checks, alarms, activeAlarms, acknowledged, resolved, rows,
                ackRows, resolvedRows, acks, overlapped, failed>>

Check == DOMAIN checks

Init ==
  /\ checks = <<>>
  /\ alarms = <<>>
  /\ activeAlarms = [d \in Device |-> 0]
  /\ acknowledged = {}
  /\ resolved = {}
  /\ rows = {}
  /\ ackRows = {}
  /\ resolvedRows = {}
  /\ acks = 0
  /\ overlapped = {}
  /\ failed = {}

Running(d) == {c \in Check : checks[c].device = d /\ checks[c].pc # "done"}
Goto(c, l) == checks' = [checks EXCEPT ![c].pc = l]

\* The outcomes of a statement about an alarm: it succeeds, or it changes nothing.
Outcome == IF Cardinality(failed) < MaxFailed THEN {TRUE, FALSE} ELSE {TRUE}
Note(a, ok) == failed' = IF ok THEN failed ELSE failed \cup {a}

-------------------------------------------------------------------------------
\* processSensorDataLegacy: go CheckAlarm(deviceID, concentration); l is getAlarmLevel's
\* level of the concentration, 0 below every threshold.
GoCheckAlarm(d, l) ==
  /\ Len(checks) < MaxReadings
  /\ checks' = Append(checks, [device |-> d, level |-> l, alarm |-> 0,
                               pc |-> IF l = 0 THEN "resolve" ELSE "look"])
  /\ overlapped' = IF Running(d) = {} THEN overlapped ELSE overlapped \cup {d}
  /\ UNCHANGED <<alarms, activeAlarms, acknowledged, resolved, rows, ackRows,
                 resolvedRows, acks, failed>>

\* Mutant: a level that stays is raised again.
RisesOrStays(d, l) == activeAlarms[d] = 0 \/ alarms[activeAlarms[d]].level <= l

\* CheckAlarm, under the read lock: is there an open alarm of another level?
Changes(d, l) == activeAlarms[d] = 0 \/ alarms[activeAlarms[d]].level # l

LookUp(c) ==
  /\ checks[c].pc = "look"
  /\ Goto(c, IF Changes(checks[c].device, checks[c].level) THEN "create" ELSE "done")
  /\ UNCHANGED <<alarms, activeAlarms, acknowledged, resolved, rows, ackRows,
                 resolvedRows, acks, overlapped, failed>>

\* Mutant: the INSERT is forgotten.
CreateUnsaved(c) ==
  LET d == checks[c].device IN
  /\ checks[c].pc = "create"
  /\ checks' = [checks EXCEPT ![c].pc = "trigger", ![c].alarm = Len(alarms) + 1]
  /\ alarms' = Append(alarms, [device |-> d, level |-> checks[c].level])
  /\ activeAlarms' = [activeAlarms EXCEPT ![d] = Len(alarms) + 1]
  /\ UNCHANGED <<acknowledged, resolved, rows, ackRows, resolvedRows, acks,
                 overlapped, failed>>

\* createAlarm, under the write lock.
CreateAlarm(c) ==
  LET d == checks[c].device IN
  /\ checks[c].pc = "create"
  /\ checks' = [checks EXCEPT ![c].pc = "insert", ![c].alarm = Len(alarms) + 1]
  /\ alarms' = Append(alarms, [device |-> d, level |-> checks[c].level])
  /\ activeAlarms' = [activeAlarms EXCEPT ![d] = Len(alarms) + 1]
  /\ UNCHANGED <<acknowledged, resolved, rows, ackRows, resolvedRows, acks,
                 overlapped, failed>>

\* saveAlarmToDB; an error is only logged.
SaveAlarm(c) ==
  /\ checks[c].pc = "insert"
  /\ Goto(c, "trigger")
  /\ \E ok \in Outcome :
       /\ rows' = IF ok THEN rows \cup {checks[c].alarm} ELSE rows
       /\ Note(checks[c].alarm, ok)
  /\ UNCHANGED <<alarms, activeAlarms, acknowledged, resolved, ackRows,
                 resolvedRows, acks, overlapped>>

\* triggerAlarm: the goroutines it starts are the listeners of the alarm.
TriggerAlarm(c) ==
  /\ checks[c].pc = "trigger"
  /\ Goto(c, "done")
  /\ UNCHANGED <<alarms, activeAlarms, acknowledged, resolved, rows, ackRows,
                 resolvedRows, acks, overlapped, failed>>

\* Mutant: the alarm stays in the map.
ResolveKeepsOpen(c) ==
  LET a == activeAlarms[checks[c].device] IN
  /\ checks[c].pc = "resolve"
  /\ checks' = [checks EXCEPT ![c].pc = IF a = 0 THEN "done" ELSE "update",
                              ![c].alarm = a]
  /\ resolved' = resolved \cup ({a} \ {0})
  /\ UNCHANGED <<alarms, activeAlarms, acknowledged, rows, ackRows,
                 resolvedRows, acks, overlapped, failed>>

\* resolveAlarm, under the write lock.
ResolveAlarm(c) ==
  LET d == checks[c].device  a == activeAlarms[d] IN
  /\ checks[c].pc = "resolve"
  /\ checks' = [checks EXCEPT ![c].pc = IF a = 0 THEN "done" ELSE "update",
                              ![c].alarm = a]
  /\ resolved' = resolved \cup ({a} \ {0})
  /\ activeAlarms' = [activeAlarms EXCEPT ![d] = 0]
  /\ UNCHANGED <<alarms, acknowledged, rows, ackRows, resolvedRows, acks,
                 overlapped, failed>>

\* resolveAlarm after the unlock: UPDATE alarms SET resolved = TRUE WHERE id = ...
UpdateResolved(c) ==
  /\ checks[c].pc = "update"
  /\ Goto(c, "done")
  /\ \E ok \in Outcome :
       /\ resolvedRows' = IF ok THEN resolvedRows \cup ({checks[c].alarm} \cap rows)
                                ELSE resolvedRows
       /\ Note(checks[c].alarm, ok)
  /\ UNCHANGED <<alarms, activeAlarms, acknowledged, resolved, rows, ackRows,
                 acks, overlapped>>

\* AcknowledgeAlarm holds the write lock during its UPDATE, so it is one step.  It
\* finds only open alarms, whose row may not have been inserted yet.
AcknowledgeAlarm(d) ==
  LET a == activeAlarms[d] IN
  /\ a # 0 /\ acks < MaxAcks
  /\ acks' = acks + 1
  /\ acknowledged' = acknowledged \cup {a}
  /\ \E ok \in Outcome :
       /\ ackRows' = IF ok THEN ackRows \cup ({a} \cap rows) ELSE ackRows
       /\ Note(a, ok)
  /\ overlapped' = IF Running(d) = {} THEN overlapped ELSE overlapped \cup {d}
  /\ UNCHANGED <<checks, alarms, activeAlarms, resolved, rows, resolvedRows>>

CheckStep(c) ==
  \/ LookUp(c)
  \/ CreateAlarm(c)
  \/ SaveAlarm(c)
  \/ ResolveAlarm(c)
  \/ UpdateResolved(c)
===============================================================================
