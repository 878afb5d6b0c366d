------------------------------ MODULE LegacyPath ------------------------------
(***************************************************************************)
(* The legacy path of a reading: AlarmEngine (services/alarm.go) and the   *)
(* EmergencyControlService it owns (services/emergency.go), composed as    *)
(* triggerAlarm composes them.  mqtt/client.go takes this path for every   *)
(* reading that arrives while LaserReceiver is not running.                *)
(***************************************************************************)
EXTENDS Integers, Sequences, FiniteSets

CONSTANTS
  Device, ReadingLevel, MaxReadings, MaxAcks,
  Zone, Valve, Fan, ZoneOf, NoDevice, MaxFaults, MaxExpiries, MaxResets,
  MaxEvents,     \* bound: failures, acknowledgements, expiries and resets together
  FireZone       \* getFireZoneFromDeviceID

ASSUME EngineAssumption ==
  /\ ReadingLevel \subseteq 0..3
  /\ MaxReadings \in Nat /\ MaxAcks \in Nat
ASSUME ControlAssumption ==
  /\ ZoneOf \in [Valve \cup Fan -> Zone] /\ FireZone \in [Device -> Zone]
  /\ Valve \cap Fan = {} /\ NoDevice \notin Valve \cup Fan
  /\ {MaxFaults, MaxExpiries, MaxResets, MaxEvents} \subseteq Nat

VARIABLES
  checks, alarms, activeAlarms, acknowledged, resolved, rows, ackRows,
  resolvedRows, acks, overlapped, failed,
  walks, activeControls, orders, valveRow, fanRow, logs, resets, expiries,
  faults, ordered, passed, undone, unanswered, unlogged, crashed

Engine == INSTANCE AlarmEngine WITH MaxFailed <- MaxFaults
Control == INSTANCE EmergencyControlService

engineVars == <<checks, alarms, activeAlarms, acknowledged, resolved, rows,
                ackRows, resolvedRows, acks, overlapped, failed>>
controlVars == <<walks, activeControls, orders, valveRow, fanRow, logs, resets,
                 expiries, faults, ordered, passed, undone, unanswered, unlogged,
                 crashed>>
vars == <<engineVars, controlVars>>

Init == Engine!Init /\ Control!Init

-------------------------------------------------------------------------------
\* triggerAlarm starts HandleEmergency for the alarm just created.
Trigger(c) ==
  LET a == checks[c].alarm  d == checks[c].device IN
  /\ Engine!TriggerAlarm(c)
  /\ Control!HandleEmergency(a, checks[c].level, FireZone[d])

EngineStep ==
  /\ UNCHANGED controlVars
  /\ \/ \E d \in Device, l \in ReadingLevel : Engine!GoCheckAlarm(d, l)
     \/ \E d \in Device : Engine!AcknowledgeAlarm(d)
     \/ \E c \in DOMAIN checks : Engine!CheckStep(c)

\* MaxFaults bounds what fails in both components together.
Next ==
  /\ \/ ~crashed /\ EngineStep
     \/ ~crashed /\ \E c \in DOMAIN checks : Trigger(c)
     \/ Control!Next /\ UNCHANGED engineVars
  /\ Cardinality(failed') + faults' <= MaxFaults
  /\ Cardinality(failed') + faults' + acks' + expiries' + Len(resets') <= MaxEvents

Spec == Init /\ [][Next]_vars

-------------------------------------------------------------------------------
(* Properties *)

Last(d) == CHOOSE c \in DOMAIN checks :
             /\ checks[c].device = d
             /\ \A e \in DOMAIN checks : checks[e].device = d => e <= c

LevelOf(d) == IF activeAlarms[d] = 0 THEN 0 ELSE alarms[activeAlarms[d]].level

CheckRecord ==
  [device : Device, level : 0..3, alarm : Nat,
   pc : {"look", "create", "insert", "trigger", "resolve", "update", "done"}]
AlarmRecord == [device : Device, level : 1..3]
WalkRecord ==
  [kind : Control!Kind, alarm : Nat, level : 2..3, pc : {"next", "mark"},
   todo : SUBSET (Valve \cup Fan), device : Valve \cup Fan \cup {NoDevice}]
OrderRecord ==
  [device : Valve \cup Fan, alarm : Nat, speed : {0, 75, 100},
   pc : {"order", "log"}, success : BOOLEAN]

\* Every variable has its type, a goroutine holds an alarm or a device exactly while
\* it works on it, and only an order that was given can be a success.
EngineTypeOK ==
  /\ checks \in Seq(CheckRecord)
  /\ \A c \in DOMAIN checks :
       IF checks[c].pc \in {"look", "create", "resolve"} THEN checks[c].alarm = 0
       ELSE /\ checks[c].alarm \in 0..Len(alarms)
            /\ checks[c].pc # "done" => checks[c].alarm # 0
  /\ \A c \in DOMAIN checks :
       checks[c].pc # "done" =>
         (checks[c].pc \in {"resolve", "update"} <=> checks[c].level = 0)
  /\ alarms \in Seq(AlarmRecord)
  /\ activeAlarms \in [Device -> 0..Len(alarms)]
  /\ acknowledged \cup resolved \cup rows \cup ackRows \cup resolvedRows \cup failed
       \subseteq 1..Len(alarms)
  /\ overlapped \subseteq Device

ControlTypeOK ==
  /\ walks \subseteq WalkRecord
  /\ \A w \in walks : w.pc = "next" <=> w.device = NoDevice
  /\ orders \subseteq OrderRecord
  /\ \A o \in orders : o.pc = "order" => ~o.success
  /\ logs \subseteq [device : Valve \cup Fan, alarm : Nat, success : BOOLEAN]
  /\ activeControls \in [Valve \cup Fan -> Nat]
  /\ undone \cup unlogged \subseteq Valve \cup Fan
  /\ valveRow \in [Valve -> {"open", "closed"}]
  /\ fanRow \in [Fan -> {0, 75, 100}]
  /\ resets \in Seq([zone : Zone, pc : {"fans", "done"}])
  /\ unanswered \subseteq Control!Kind \X Nat
  /\ crashed \in BOOLEAN

TypeOK == EngineTypeOK /\ ControlTypeOK

\* As long as no two operations on a device overlap, the engine keeps its word about
\* it: once they have returned, the open alarm is that of the last reading, and every
\* row says of its alarm what memory says, unless a statement about it has failed.
SerialDevicesSettle ==
  \A d \in Device \ overlapped :
    Engine!Running(d) = {} =>
      /\ (\E c \in DOMAIN checks : checks[c].device = d) =>
            LevelOf(d) = checks[Last(d)].level
      /\ \A a \in DOMAIN alarms \ failed :
           alarms[a].device = d =>
             /\ a \in rows
             /\ a \in resolvedRows <=> a \in resolved
             /\ a \in ackRows <=> a \in acknowledged

\* What concurrent checks of one device do to the alarms in memory that one check would
\* not do is to raise one again: every other step is a step of AlarmLifecycle.
Lifecycle == INSTANCE AlarmLifecycle WITH
               Device <- Device, alarms <- alarms, activeAlarms <- activeAlarms,
               acknowledged <- acknowledged, resolved <- resolved

RaiseAgain(d) ==
  /\ alarms' = Append(alarms, [device |-> d, level |-> LevelOf(d)])
  /\ activeAlarms' = [activeAlarms EXCEPT ![d] = Len(alarms) + 1]
  /\ UNCHANGED <<acknowledged, resolved>>

LifecycleButForRepeats ==
  /\ Lifecycle!Init
  /\ [][Lifecycle!Next \/ \E d \in overlapped : RaiseAgain(d)]_(Lifecycle!vars)

\* Whatever the control service does, it does for an alarm of level 2 or more whose
\* INSERT has been made: the logs of the devices name alarms that can be looked up,
\* even if the program ends at any point.
OrdersNameStoredAlarms ==
  \A x \in walks \cup orders \cup logs :
    /\ x.alarm \in rows \cup failed
    /\ alarms[x.alarm].level >= 2

\* Device d has been ordered for alarm a, or its cooldown, which an order for an
\* earlier alarm began, has kept it from that.
Answered(a, d) ==
  \/ <<a, d>> \in ordered
  \/ \E b \in DOMAIN alarms : <<a, d, b>> \in passed /\ <<b, d>> \in ordered

\* The order that put d on cooldown is in force: its row tells so, or it is on its way.
\* The code leaves two exceptions: the order or its UPDATE has failed, and a reset of
\* the zone has come after it, which leaves the cooldown alone (undone).
InForce(d) ==
  \/ IF d \in Valve THEN valveRow[d] = "closed" ELSE fanRow[d] # 0
  \/ \E o \in orders : o.device = d /\ o.pc = "order"
  \/ d \in undone

\* When the walks of an alarm have ended, every device of its zone has been ordered for
\* this alarm, or skipped because of the cooldown that an order for another alarm began;
\* and a device is on cooldown only while this order is in force, however the walks of
\* several alarms, the goroutines of the devices and the resets interleaved, unless the
\* program has ended.
ZonesAnswered ==
  /\ \A c \in DOMAIN checks, k \in Control!Kind :
       LET a == checks[c].alarm IN
       /\ checks[c].pc = "done" /\ checks[c].level >= 2 /\ a # 0
       /\ ~crashed /\ <<k, a>> \notin unanswered
       /\ \A w \in walks : w.alarm = a => w.kind # k
       => \A d \in Control!DevicesOf(k, FireZone[checks[c].device]) : Answered(a, d)
  /\ \A d \in Valve \cup Fan : activeControls[d] # 0 => InForce(d)

\* A row says that a valve is closed or a fan runs only when the broker accepted such
\* an order, which a log of it records, will record, or would but for a lost statement
\* or the end of the program.
RowsBacked ==
  \A d \in Valve \cup Fan :
    \/ IF d \in Valve THEN valveRow[d] = "open" ELSE fanRow[d] = 0
    \/ \E x \in logs \cup orders : x.device = d /\ x.success
    \/ d \in unlogged \/ crashed
===============================================================================
