------------------------ MODULE EmergencyControlService -----------------------
(***************************************************************************)
(* backend/services/emergency.go: the control service the alarm engine     *)
(* owns.  An alarm of level 2 or more starts one goroutine that walks over *)
(* the valves of its fire zone and one that walks over the fans; each      *)
(* device that is not on cooldown gets a goroutine of its own that orders, *)
(* updates and logs.                                                       *)
(*                                                                         *)
(* The walks of all alarms share the map activeControls without a lock.    *)
(* Accesses of which one is a write must not overlap in Go: the runtime    *)
(* may end the program.                                                    *)
(***************************************************************************)
EXTENDS Integers, Sequences, FiniteSets

CONSTANTS
  Zone,          \* fire zones
  Valve, Fan,    \* controlled devices
  ZoneOf,        \* column fire_zone of tables valves and fans
  NoDevice,      \* a walk has no device in hand
  MaxFaults,     \* bound: queries, statements and orders that fail
  MaxExpiries,   \* bound: cooldowns that end
  MaxResets      \* bound: calls of ResetZone

VARIABLES
  walks,         \* the goroutines closeZoneValves and startZoneFans that run
  activeControls,\* the alarm whose entry for a device is younger than five minutes
  orders,        \* the device goroutines that run
  valveRow,      \* column status of table valves
  fanRow,        \* column speed of table fans, 0 when the status is stopped
  logs,          \* tables valve_control_logs and fan_control_logs
  resets,        \* the calls of ResetZone, in order
  expiries,      \* cooldowns that have ended
  faults,        \* operations that have failed
  ordered,       \* history: alarm and device of every goroutine started for one
  passed,        \* history: alarm, device and entry of every skipped device
  undone,        \* history: devices whose row need not show the order they are on
                 \* cooldown for: it or its UPDATE has failed, or a reset came after
  unanswered,    \* history: the walks whose query failed
  unlogged,      \* history: devices of which a log was lost
  crashed        \* the runtime has found overlapping map accesses

controlVars == <<walks, activeControls, orders, valveRow, fanRow, logs, resets,
                 expiries, faults, ordered, passed, undone, unanswered, unlogged,
                 crashed>>
historyVars == <<ordered, passed, undone>>

Controlled == Valve \cup Fan
Kind == {"valve", "fan"}
DevicesOf(kind, zone) ==
  {d \in IF kind = "valve" THEN Valve ELSE Fan : ZoneOf[d] = zone}

Init ==
  /\ walks = {}
  /\ activeControls = [d \in Controlled |-> 0]
  /\ orders = {}
  /\ valveRow = [v \in Valve |-> "open"]
  /\ fanRow = [f \in Fan |-> 0]
  /\ logs = {}
  /\ resets = <<>>
  /\ expiries = 0
  /\ faults = 0
  /\ ordered = {} /\ passed = {} /\ undone = {}
  /\ unanswered = {}
  /\ unlogged = {}
  /\ crashed = FALSE

\* A query, statement or order succeeds or fails.
Outcome == IF faults < MaxFaults THEN {TRUE, FALSE} ELSE {TRUE}
Count(ok) == faults' = IF ok THEN faults ELSE faults + 1

-------------------------------------------------------------------------------
(* closeZoneValves and startZoneFans *)

\* A walk over the devices of its kind, todo, that the query has returned.
Walk(kind, zone, a, level) ==
  [kind |-> kind, alarm |-> a, level |-> level, pc |-> "next",
   todo |-> DevicesOf(kind, zone), device |-> NoDevice]

\* The walk w goes on as x, or ends when no device is left for it.
GoOn(w, x) ==
  walks' = (walks \ {w}) \cup IF x.todo = {} /\ x.device = NoDevice THEN {} ELSE {x}

\* HandleEmergency: the walks start with getValvesInZone and getFansInZone, whose
\* result depends on nothing the program changes; an error ends the walk.  The
\* evacuation notice of level 3 leaves no trace in the program.
HandleEmergency(a, level, zone) ==
  \E answered \in IF level >= 2 THEN SUBSET Kind ELSE {Kind} :
    /\ faults + Cardinality(Kind \ answered) <= MaxFaults
    /\ faults' = faults + Cardinality(Kind \ answered)
    /\ unanswered' = unanswered \cup {<<k, a>> : k \in Kind \ answered}
    /\ walks' = IF level < 2 THEN walks
                ELSE walks \cup {w \in {Walk(k, zone, a, level) : k \in answered} :
                                    w.todo # {}}
    /\ UNCHANGED <<activeControls, orders, valveRow, fanRow, logs, resets,
                   expiries, historyVars, unlogged, crashed>>

\* Mutant: one key for all devices of a zone.
ZoneOnCooldown(d) ==
  \E e \in Controlled : activeControls[e] # 0 /\ ZoneOf[e] = ZoneOf[d]

OnCooldown(d) == activeControls[d] # 0

\* Read the entry of the next device; skip it when it was controlled lately.
LookUp(w) ==
  /\ w.pc = "next"
  /\ \E d \in w.todo :
       IF OnCooldown(d)
       THEN /\ passed' = passed \cup {<<w.alarm, d, activeControls[d]>>}
            /\ GoOn(w, [w EXCEPT !.todo = @ \ {d}])
       ELSE /\ GoOn(w, [w EXCEPT !.pc = "mark", !.device = d, !.todo = @ \ {d}])
            /\ UNCHANGED passed
  /\ UNCHANGED <<activeControls, orders, valveRow, fanRow, logs, resets,
                 expiries, faults, ordered, undone, unanswered, unlogged, crashed>>

\* The speed startZoneFans asks for; a valve has none.
Speed(kind, level) == IF kind = "valve" THEN 0 ELSE IF level >= 3 THEN 100 ELSE 75

\* activeControls[controlKey] = time.Now(), and the goroutine of the device starts.
MarkAndOrder(w) ==
  /\ w.pc = "mark"
  /\ activeControls' = [activeControls EXCEPT ![w.device] = w.alarm]
  /\ ordered' = ordered \cup {<<w.alarm, w.device>>}
  /\ undone' = undone \ {w.device}
  /\ orders' = orders \cup {[device |-> w.device, alarm |-> w.alarm,
                              speed |-> Speed(w.kind, w.level),
                              pc |-> "order", success |-> FALSE]}
  /\ GoOn(w, [w EXCEPT !.pc = "next", !.device = NoDevice])
  /\ UNCHANGED <<valveRow, fanRow, logs, resets, expiries, faults, passed,
                 unanswered, unlogged, crashed>>

\* A walk about to write the map and another about to access it: the accesses may
\* overlap, and then the runtime may end the program, with all that is in memory.
Crash ==
  /\ \E w \in walks : w.pc = "mark" /\ walks # {w}
  /\ crashed' = TRUE
  /\ walks' = {} /\ orders' = {} /\ activeControls' = [d \in Controlled |-> 0]
  /\ UNCHANGED <<valveRow, fanRow, logs, resets, expiries, faults, historyVars,
                 unanswered, unlogged>>

-------------------------------------------------------------------------------
(* The goroutine of one device *)

\* Mutant: the row is updated whether or not the order succeeded.
UpdateAnyway(o) ==
  /\ o.pc = "order"
  /\ \E accepted \in Outcome :
       /\ orders' = (orders \ {o}) \cup {[o EXCEPT !.pc = "log", !.success = accepted]}
       /\ Count(accepted)
       /\ valveRow' = IF o.device \in Valve
                        THEN [valveRow EXCEPT ![o.device] = "closed"] ELSE valveRow
       /\ fanRow' = IF o.device \in Fan
                      THEN [fanRow EXCEPT ![o.device] = o.speed] ELSE fanRow
  /\ UNCHANGED <<walks, activeControls, logs, resets, expiries, historyVars,
                 unanswered, unlogged, crashed>>

\* mqtt.MQTT.ControlValve(vID, "close") or ControlFan(fID, "start", speed), and the
\* UPDATE when it succeeds, whose error is ignored.  Nothing here depends on what
\* happens between the two.
ControlDevice(o) ==
  /\ o.pc = "order"
  /\ \E accepted \in Outcome : \E ok \in IF accepted THEN Outcome ELSE {FALSE} :
       /\ orders' = (orders \ {o}) \cup {[o EXCEPT !.pc = "log", !.success = accepted]}
       /\ Count(ok)
       /\ valveRow' = IF ok /\ o.device \in Valve
                        THEN [valveRow EXCEPT ![o.device] = "closed"] ELSE valveRow
       /\ fanRow' = IF ok /\ o.device \in Fan
                      THEN [fanRow EXCEPT ![o.device] = o.speed] ELSE fanRow
       /\ undone' = IF ok THEN undone ELSE undone \cup {o.device}
  /\ UNCHANGED <<walks, activeControls, logs, resets, expiries, ordered, passed,
                 unanswered, unlogged, crashed>>

\* logValveControl or logFanControl, for a failed order as well.
LogControl(o) ==
  /\ o.pc = "log"
  /\ orders' = orders \ {o}
  /\ \E ok \in Outcome :
       /\ Count(ok)
       /\ logs' = IF ok THEN logs \cup {[device |-> o.device, alarm |-> o.alarm,
                                         success |-> o.success]}
                        ELSE logs
       /\ unlogged' = IF ok THEN unlogged ELSE unlogged \cup {o.device}
  /\ UNCHANGED <<walks, activeControls, valveRow, fanRow, resets, expiries,
                 historyVars, unanswered, crashed>>

\* Five minutes after an entry was written.
CooldownEnds ==
  /\ expiries < MaxExpiries
  /\ expiries' = expiries + 1
  /\ \E d \in Controlled :
       /\ activeControls[d] # 0
       /\ activeControls' = [activeControls EXCEPT ![d] = 0]
  /\ UNCHANGED <<walks, orders, valveRow, fanRow, logs, resets, faults, historyVars,
                 unanswered, unlogged, crashed>>

-------------------------------------------------------------------------------
(* ResetZone, which the API calls on a service it has just created            *)
(* (api/handlers.go:404): the entries it deletes are those of its own, empty  *)
(* map, and the cooldowns of the engine's service stay.                       *)

\* The call begins with the UPDATE of the valves; an error ends it.
ResetValves(zone) ==
  /\ Len(resets) < MaxResets
  /\ \E ok \in Outcome :
       /\ Count(ok)
       /\ resets' = Append(resets, [zone |-> zone, pc |-> IF ok THEN "fans" ELSE "done"])
       /\ valveRow' = [v \in Valve |-> IF ok /\ ZoneOf[v] = zone
                                         THEN "open" ELSE valveRow[v]]
       /\ undone' = undone \cup {v \in Valve : ok /\ ZoneOf[v] = zone}
  /\ UNCHANGED <<walks, activeControls, orders, fanRow, logs, expiries, ordered,
                 passed, unanswered, unlogged, crashed>>

\* The UPDATE of the fans.  The orders to open and to stop that follow change
\* nothing in the service.
ResetFans(r) ==
  /\ resets[r].pc = "fans"
  /\ \E ok \in Outcome :
       /\ Count(ok)
       /\ resets' = [resets EXCEPT ![r].pc = "done"]
       /\ fanRow' = [f \in Fan |-> IF ok /\ ZoneOf[f] = resets[r].zone
                                     THEN 0 ELSE fanRow[f]]
       /\ undone' = undone \cup {f \in Fan : ok /\ ZoneOf[f] = resets[r].zone}
  /\ UNCHANGED <<walks, activeControls, orders, valveRow, logs, expiries,
                 ordered, passed, unanswered, unlogged, crashed>>

-------------------------------------------------------------------------------
WalkStep == \E w \in walks : LookUp(w) \/ MarkAndOrder(w)
OrderStep == \E o \in orders : ControlDevice(o) \/ LogControl(o)
ResetStep ==
  \/ \E z \in Zone : ResetValves(z)
  \/ \E r \in DOMAIN resets : ResetFans(r)

Next == ~crashed /\ (WalkStep \/ OrderStep \/ ResetStep \/ CooldownEnds \/ Crash)
===============================================================================
