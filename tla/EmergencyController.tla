-------------------------- MODULE EmergencyController --------------------------
(***************************************************************************)
(* backend/modules/emergency_controller: alarmReceiver turns every alarm   *)
(* into commands and sends them to commandChan; commandProcessor takes     *)
(* them one after the other and starts one goroutine for every valve or    *)
(* fan of the zone that is not on cooldown.  The API goroutines reset      *)
(* zones, and main stops the module by closing commandChan.                *)
(*                                                                         *)
(* MQTT and PostgreSQL appear through their results: an order is accepted  *)
(* by the broker or refused, a statement is executed or fails.             *)
(***************************************************************************)
EXTENDS Integers, Sequences, FiniteSets

CONSTANTS
  Zone, Valve, Fan,
  ZoneOf,              \* column fire_zone of tables valves and fans
  Level,               \* levels of the alarms that arrive
  ValveControlLevel, EvacuationLevel, FanSpeedHighLevel,
  CommandChanCap,
  NoDevice,
  MaxAlarms,           \* bound: alarms received
  MaxResets,           \* bound: calls of ResetZone that get a transaction
  MaxFaults            \* bound: orders, queries and statements that fail

Device == Valve \cup Fan
Alarm == [zone : Zone, level : Level]

ASSUME DeviceAssumption ==
  /\ ZoneOf \in [Valve \cup Fan -> Zone]
  /\ Valve \cap Fan = {}
  /\ NoDevice \notin Valve \cup Fan

ASSUME LevelAssumption ==
  /\ Level \subseteq Nat
  /\ ValveControlLevel \in Nat
  /\ EvacuationLevel \in Nat
  /\ FanSpeedHighLevel \in Nat

ASSUME BoundAssumption ==
  /\ CommandChanCap \in Nat \ {0}
  /\ MaxAlarms \in Nat
  /\ MaxResets \in Nat
  /\ MaxFaults \in Nat

Kind == {"close_valves", "start_fans", "evacuation"}
Order == {"close", "normal", "high"}
State == Order \cup {"open", "stop"}
Command == [alarm : 1..MaxAlarms, kind : Kind]
Task == [alarm : 1..MaxAlarms, device : Device, order : Order, success : BOOLEAN,
         pc : {"control", "update", "log", "done"}]
Reset == [zone : Zone, table : {"valves", "fans"}, left : SUBSET Device,
          device : Device \cup {NoDevice}, pc : {"query", "control", "forget", "done"}]

VARIABLES
  running,      \* EmergencyController.running
  received,     \* the alarms taken from alarmChan; the index names the alarm
  recvPc,       \* where alarmReceiver is
  offer,        \* the commands of the alarm in hand still to be sent
  commandChan,
  closed,       \* whether commandChan is closed
  procPc,       \* where commandProcessor is
  job,          \* the command it processes, <<>> or <<command>>
  left,         \* devices the loop of the command has not visited
  device,       \* the device between canControl and markControlled
  activeControls, \* the task that put a device on cooldown, 0 when none has
  tasks,        \* the goroutines that control one device, in starting order
  told,         \* the last order for a device the broker accepted
  row,          \* status of a device in tables valves and fans
  logs,         \* valve_control_logs, fan_control_logs: task and success
  resets,       \* the calls of ResetZone, in the order of their transactions
  faults,       \* history: number of failures
  asked,        \* history: the commands the received alarms call for, in order
  handled,      \* history: the commands processed completely, in order
  unfound,      \* history: the commands whose query for the devices has failed
  passed,       \* history: the alarm and the device of every canControl that refused
  executed,     \* history: the tasks whose order the broker accepted
  untouched     \* history: the resets whose queries have not failed, and in whose
                \* zone no device was marked since they began

recvVars  == <<received, recvPc, offer, asked>>
procVars  == <<procPc, job, left, device, handled, unfound, passed>>
resetVars == <<resets, untouched>>
vars == <<running, received, recvPc, offer, commandChan, closed, procPc, job,
          left, device, activeControls, tasks, told, row, logs, resets, faults,
          asked, handled, unfound, passed, executed, untouched>>

\* n orders, queries or statements fail in this step.
Failures(n) == faults' = faults + n /\ faults' <= MaxFaults

\* The devices a kind of command is for.
DevicesOf(kind) ==
  CASE kind = "close_valves" -> Valve
    [] kind = "start_fans"   -> Fan
    [] kind = "evacuation"   -> {}

InZone(S, z) == {d \in S : ZoneOf[d] = z}

Targets(cmd) == InZone(DevicesOf(cmd.kind), received[cmd.alarm].zone)

\* The state of a device after a reset, and before the first alarm.
Rest(d) == IF d \in Valve THEN "open" ELSE "stop"

Init ==
  /\ running = TRUE
  /\ received = <<>>
  /\ recvPc = "poll"
  /\ offer = <<>>
  /\ commandChan = <<>>
  /\ closed = FALSE
  /\ procPc = "range"
  /\ job = <<>>
  /\ left = {}
  /\ device = NoDevice
  /\ activeControls = [d \in Device |-> 0]
  /\ tasks = <<>>
  /\ told = [d \in Device |-> Rest(d)]
  /\ row = [d \in Device |-> Rest(d)]
  /\ logs = {}
  /\ resets = <<>>
  /\ faults = 0
  /\ asked = <<>>
  /\ handled = <<>>
  /\ unfound = {}
  /\ passed = {}
  /\ executed = {}
  /\ untouched = {}

-------------------------------------------------------------------------------
(* alarmReceiver *)

\* Mutant: running is not read.
PollForever ==
  /\ recvPc = "poll"
  /\ recvPc' = "select"
  /\ UNCHANGED <<running, received, offer, asked, commandChan, closed, procVars,
                 activeControls, tasks, told, row, logs, executed, resetVars, faults>>

\* The top of the loop: read running under mu.
Poll ==
  /\ recvPc = "poll"
  /\ recvPc' = IF running THEN "select" ELSE "done"
  /\ UNCHANGED <<running, received, offer, asked, commandChan, closed, procVars,
                 activeControls, tasks, told, row, logs, executed, resetVars, faults>>

\* Mutant: the level for an evacuation replaces the other commands.
OnlyEvacuation(a, level) ==
  IF level >= EvacuationLevel
  THEN <<[alarm |-> a, kind |-> "evacuation"]>>
  ELSE IF level >= ValveControlLevel
       THEN <<[alarm |-> a, kind |-> "close_valves"],
              [alarm |-> a, kind |-> "start_fans"]>>
       ELSE <<>>

\* handleAlarm: the commands an alarm calls for, in the order they are sent.
CommandsFor(a, level) ==
  (IF level >= ValveControlLevel
   THEN <<[alarm |-> a, kind |-> "close_valves"], [alarm |-> a, kind |-> "start_fans"]>>
   ELSE <<>>) \o
  (IF level >= EvacuationLevel
   THEN <<[alarm |-> a, kind |-> "evacuation"]>>
   ELSE <<>>)

\* select: an alarm arrives, and handleAlarm begins.
ReceiveAlarm(z, level) ==
  /\ recvPc = "select"
  /\ Len(received) < MaxAlarms
  /\ received' = Append(received, [zone |-> z, level |-> level])
  /\ offer' = CommandsFor(Len(received) + 1, level)
  /\ asked' = asked \o offer'
  /\ recvPc' = "send"
  /\ UNCHANGED <<running, commandChan, closed, procVars, activeControls, tasks,
                 told, row, logs, executed, resetVars, faults>>

\* select: 100 ms without an alarm.
ReceiveTimeout ==
  /\ recvPc = "select"
  /\ recvPc' = "poll"
  /\ UNCHANGED <<running, received, offer, asked, commandChan, closed, procVars,
                 activeControls, tasks, told, row, logs, executed, resetVars, faults>>

\* Mutant: a full channel drops the command.
SendOrDrop ==
  /\ recvPc = "send"
  /\ offer # <<>>
  /\ ~closed
  /\ commandChan' = IF Len(commandChan) < CommandChanCap
                    THEN Append(commandChan, Head(offer))
                    ELSE commandChan
  /\ offer' = Tail(offer)
  /\ UNCHANGED <<running, received, recvPc, asked, closed, procVars, activeControls,
                 tasks, told, row, logs, executed, resetVars, faults>>

\* commandChan <- command blocks while the channel is full.
SendCommand ==
  /\ recvPc = "send"
  /\ offer # <<>>
  /\ ~closed
  /\ Len(commandChan) < CommandChanCap
  /\ commandChan' = Append(commandChan, Head(offer))
  /\ offer' = Tail(offer)
  /\ UNCHANGED <<running, received, recvPc, asked, closed, procVars, activeControls,
                 tasks, told, row, logs, executed, resetVars, faults>>

\* A send on a closed channel panics, which ends the program.
Panic ==
  /\ recvPc = "send"
  /\ offer # <<>>
  /\ closed
  /\ recvPc' = "panic"
  /\ UNCHANGED <<running, received, offer, asked, commandChan, closed, procVars,
                 activeControls, tasks, told, row, logs, executed, resetVars, faults>>

HandleAlarmReturns ==
  /\ recvPc = "send"
  /\ offer = <<>>
  /\ recvPc' = "poll"
  /\ UNCHANGED <<running, received, offer, asked, commandChan, closed, procVars,
                 activeControls, tasks, told, row, logs, executed, resetVars, faults>>

AlarmReceiver ==
  Poll \/ ReceiveTimeout \/ SendCommand \/ Panic \/ HandleAlarmReturns

-------------------------------------------------------------------------------
(* commandProcessor *)

\* range commandChan: take a command and query the devices it is for; nothing
\* is controlled when the query fails.
TakeCommand ==
  /\ procPc = "range"
  /\ commandChan # <<>>
  /\ LET cmd == Head(commandChan)
     IN /\ job' = <<cmd>>
        /\ \/ /\ Failures(0)
              /\ left' = Targets(cmd)
              /\ UNCHANGED unfound
           \/ /\ Failures(1)
              /\ left' = {}
              /\ unfound' = unfound \cup {cmd}
  /\ commandChan' = Tail(commandChan)
  /\ procPc' = "visit"
  /\ UNCHANGED <<running, recvVars, closed, device, handled, passed, activeControls,
                 tasks, told, row, logs, executed, resetVars>>

\* canControl: a device on cooldown is left alone.
CanControl(d) ==
  /\ procPc = "visit"
  /\ d \in left
  /\ left' = left \ {d}
  /\ IF activeControls[d] # 0
     THEN passed' = passed \cup {<<job[1].alarm, d>>} /\ UNCHANGED <<procPc, device>>
     ELSE procPc' = "mark" /\ device' = d /\ UNCHANGED passed
  /\ UNCHANGED <<running, recvVars, commandChan, closed, job, handled, unfound,
                 activeControls, tasks, told, row, logs, executed, resetVars, faults>>

\* The order the command gives to a device.
OrderOf(cmd) ==
  IF cmd.kind = "close_valves" THEN "close"
  ELSE IF received[cmd.alarm].level >= FanSpeedHighLevel THEN "high" ELSE "normal"

\* markControlled, and go: the goroutine that controls the device.
MarkControlled ==
  /\ procPc = "mark"
  /\ tasks' = Append(tasks, [alarm |-> job[1].alarm, device |-> device,
                             order |-> OrderOf(job[1]), success |-> FALSE,
                             pc |-> "control"])
  /\ activeControls' = [activeControls EXCEPT ![device] = Len(tasks')]
  /\ untouched' = {r \in untouched : resets[r].zone # ZoneOf[device]}
  /\ procPc' = "visit"
  /\ device' = NoDevice
  /\ UNCHANGED <<running, recvVars, commandChan, closed, job, left, handled, unfound,
                 passed, told, row, logs, executed, resets, faults>>

\* Mutant: the loop over the devices is left early.
CommandDoneEarly ==
  /\ procPc = "visit"
  /\ handled' = handled \o job
  /\ job' = <<>>
  /\ left' = {}
  /\ procPc' = "range"
  /\ UNCHANGED <<running, recvVars, commandChan, closed, device, unfound, passed,
                 activeControls, tasks, told, row, logs, executed, resetVars, faults>>

\* The end of processCommand.
CommandDone ==
  /\ procPc = "visit"
  /\ left = {}
  /\ handled' = handled \o job
  /\ job' = <<>>
  /\ procPc' = "range"
  /\ UNCHANGED <<running, recvVars, commandChan, closed, left, device, unfound, passed,
                 activeControls, tasks, told, row, logs, executed, resetVars, faults>>

\* range ends when the channel is closed and drained.
ProcessorExits ==
  /\ procPc = "range"
  /\ closed
  /\ commandChan = <<>>
  /\ procPc' = "done"
  /\ UNCHANGED <<running, recvVars, commandChan, closed, job, left, device, handled,
                 unfound, passed, activeControls, tasks, told, row, logs, executed,
                 resetVars, faults>>

CommandProcessor ==
  \/ TakeCommand \/ MarkControlled \/ CommandDone \/ ProcessorExits
  \/ \E d \in Device : CanControl(d)

-------------------------------------------------------------------------------
(* The goroutine of a device: ControlValve or ControlFan, UPDATE, INSERT *)

ControlDevice(i) ==
  /\ tasks[i].pc = "control"
  /\ \/ /\ Failures(0)
        /\ told' = [told EXCEPT ![tasks[i].device] = tasks[i].order]
        /\ executed' = executed \cup {i}
        /\ tasks' = [tasks EXCEPT ![i].success = TRUE, ![i].pc = "update"]
     \/ /\ Failures(1)
        /\ tasks' = [tasks EXCEPT ![i].pc = "log"]
        /\ UNCHANGED <<told, executed>>
  /\ UNCHANGED <<running, recvVars, commandChan, closed, procVars, activeControls, row,
                 logs, resetVars>>

\* The UPDATE of the device's row, whose error is ignored.
UpdateRow(i) ==
  /\ tasks[i].pc = "update"
  /\ tasks' = [tasks EXCEPT ![i].pc = "log"]
  /\ \/ Failures(0) /\ row' = [row EXCEPT ![tasks[i].device] = tasks[i].order]
     \/ Failures(1) /\ UNCHANGED row
  /\ UNCHANGED <<running, recvVars, commandChan, closed, procVars, activeControls, told,
                 logs, executed, resetVars>>

\* Mutant: the log says success whatever the broker answered.
LogSuccess(i) ==
  /\ tasks[i].pc = "log"
  /\ tasks' = [tasks EXCEPT ![i].pc = "done"]
  /\ \/ Failures(0) /\ logs' = logs \cup {[task |-> i, success |-> TRUE]}
     \/ Failures(1) /\ UNCHANGED logs
  /\ UNCHANGED <<running, recvVars, commandChan, closed, procVars, activeControls, told,
                 row, executed, resetVars>>

\* logValveControl, logFanControl: the INSERT, whose error is only logged.
LogControl(i) ==
  /\ tasks[i].pc = "log"
  /\ tasks' = [tasks EXCEPT ![i].pc = "done"]
  /\ \/ Failures(0) /\ logs' = logs \cup {[task |-> i, success |-> tasks[i].success]}
     \/ Failures(1) /\ UNCHANGED logs
  /\ UNCHANGED <<running, recvVars, commandChan, closed, procVars, activeControls, told,
                 row, executed, resetVars>>

TaskStep(i) == ControlDevice(i) \/ UpdateRow(i) \/ LogControl(i)

-------------------------------------------------------------------------------
(* ResetZone, called by POST /zones/:zone/reset, by several callers at a time *)

\* The transaction on both tables; the handler refuses while stopped.
BeginReset(z) ==
  /\ running
  /\ Len(resets) < MaxResets
  /\ resets' = Append(resets, [zone |-> z, table |-> "valves", left |-> {},
                               device |-> NoDevice, pc |-> "query"])
  /\ row' = [d \in Device |-> IF ZoneOf[d] = z THEN Rest(d) ELSE row[d]]
  /\ untouched' = untouched \cup {Len(resets')}
  /\ UNCHANGED <<running, recvVars, commandChan, closed, procVars, activeControls, tasks,
                 told, logs, executed, faults>>

\* getValvesInZone, or getFansInZone: an error is ignored, nothing is visited.
ResetQuery(r) ==
  /\ resets[r].pc = "query"
  /\ \/ /\ Failures(0)
        /\ resets' = [resets EXCEPT
             ![r].pc = "control",
             ![r].left = InZone(IF resets[r].table = "valves" THEN Valve ELSE Fan,
                                resets[r].zone)]
        /\ UNCHANGED untouched
     \/ /\ Failures(1)
        /\ resets' = [resets EXCEPT ![r].pc = "control"]
        /\ untouched' = untouched \ {r}
  /\ UNCHANGED <<running, recvVars, commandChan, closed, procVars, activeControls, tasks,
                 told, row, logs, executed>>

\* ControlValve(open), or ControlFan(stop); errors are ignored.
ResetControl(r, d) ==
  /\ resets[r].pc = "control"
  /\ d \in resets[r].left
  /\ \/ Failures(0) /\ told' = [told EXCEPT ![d] = Rest(d)]
     \/ Failures(1) /\ UNCHANGED told
  /\ resets' = [resets EXCEPT ![r].left = @ \ {d}, ![r].device = d, ![r].pc = "forget"]
  /\ UNCHANGED <<running, recvVars, commandChan, closed, procVars, activeControls, tasks,
                 row, logs, executed, untouched>>

\* Mutant: the device stays on cooldown.
ResetRemembers(r) ==
  /\ resets[r].pc = "forget"
  /\ resets' = [resets EXCEPT ![r].device = NoDevice, ![r].pc = "control"]
  /\ UNCHANGED <<running, recvVars, commandChan, closed, procVars, activeControls, tasks,
                 told, row, logs, executed, untouched, faults>>

\* delete(activeControls, key)
ResetForget(r) ==
  /\ resets[r].pc = "forget"
  /\ activeControls' = [activeControls EXCEPT ![resets[r].device] = 0]
  /\ resets' = [resets EXCEPT ![r].device = NoDevice, ![r].pc = "control"]
  /\ UNCHANGED <<running, recvVars, commandChan, closed, procVars, tasks, told, row,
                 logs, executed, untouched, faults>>

\* The end of a loop: from the valves to the fans, from the fans to the end.
ResetLoopEnds(r) ==
  /\ resets[r].pc = "control"
  /\ resets[r].left = {}
  /\ resets' = IF resets[r].table = "valves"
               THEN [resets EXCEPT ![r].table = "fans", ![r].pc = "query"]
               ELSE [resets EXCEPT ![r].pc = "done"]
  /\ UNCHANGED <<running, recvVars, commandChan, closed, procVars, activeControls, tasks,
                 told, row, logs, executed, untouched, faults>>

ResetStep(r) ==
  \/ ResetQuery(r) \/ ResetForget(r) \/ ResetLoopEnds(r)
  \/ \E d \in Device : ResetControl(r, d)

-------------------------------------------------------------------------------
\* ControlCooldown has passed since the device was marked.
CooldownOver(d) ==
  /\ activeControls[d] # 0
  /\ activeControls' = [activeControls EXCEPT ![d] = 0]
  /\ UNCHANGED <<running, recvVars, commandChan, closed, procVars, tasks, told, row,
                 logs, executed, resetVars, faults>>

\* Stop, called by main before the modules that produce alarms are stopped.
Stop ==
  /\ running
  /\ running' = FALSE
  /\ closed' = TRUE
  /\ UNCHANGED <<recvVars, commandChan, procVars, activeControls, tasks, told, row, logs,
                 executed, resetVars, faults>>

Next ==
  /\ recvPc # "panic"
  /\ \/ \E z \in Zone, l \in Level : ReceiveAlarm(z, l)
     \/ AlarmReceiver
     \/ CommandProcessor
     \/ \E i \in 1..Len(tasks) : TaskStep(i)
     \/ \E z \in Zone : BeginReset(z)
     \/ \E r \in 1..Len(resets) : ResetStep(r)
     \/ \E d \in Device : CooldownOver(d)
     \/ Stop

Spec == Init /\ [][Next]_vars

\* The scheduler runs the receiver, the processor and the device goroutines, and
\* calls of MQTT and the database return.  Nobody owes an alarm, a reset, a stop,
\* or the end of a cooldown.
Fairness ==
  /\ WF_vars(recvPc # "panic" /\ AlarmReceiver)
  /\ WF_vars(recvPc # "panic" /\ CommandProcessor)
  /\ \A i \in 1..(MaxAlarms * Cardinality(Device)) :
       WF_vars(recvPc # "panic" /\ i \in 1..Len(tasks) /\ TaskStep(i))

FairSpec == Spec /\ Fairness

-------------------------------------------------------------------------------
(* Correctness *)

\* Every variable has its type, and every goroutine holds what it works on
\* exactly while it does.
TypeOK ==
  /\ running \in BOOLEAN /\ closed = ~running
  /\ received \in Seq(Alarm) /\ Len(received) <= MaxAlarms
  /\ recvPc \in {"poll", "select", "send", "panic", "done"}
  /\ offer \in Seq(Command)
  /\ offer # <<>> => recvPc \in {"send", "panic"}
  /\ commandChan \in Seq(Command) /\ Len(commandChan) <= CommandChanCap
  /\ procPc \in {"range", "visit", "mark", "done"}
  /\ IF procPc \in {"visit", "mark"} THEN \E cmd \in Command : job = <<cmd>>
                                     ELSE job = <<>> /\ left = {}
  /\ left \subseteq Device
  /\ IF procPc = "mark" THEN device \in Device ELSE device = NoDevice
  /\ activeControls \in [Device -> 0..Len(tasks)]
  /\ tasks \in Seq(Task)
  /\ told \in [Device -> State]
  /\ row \in [Device -> State]
  /\ logs \subseteq [task : 1..Len(tasks), success : BOOLEAN]
  /\ resets \in Seq(Reset)
  /\ \A r \in 1..Len(resets) :
       /\ resets[r].pc = "forget" <=> resets[r].device \in Device
       /\ resets[r].pc \in {"query", "done"} => resets[r].left = {}
       /\ resets[r].pc = "done" => resets[r].table = "fans"
  /\ faults \in 0..MaxFaults
  /\ asked \in Seq(Command)
  /\ handled \in Seq(Command)
  /\ unfound \subseteq Command
  /\ passed \subseteq (1..MaxAlarms) \X Device
  /\ executed \subseteq 1..Len(tasks)
  /\ untouched \subseteq 1..Len(resets)

\* The commands of the alarms are processed each once and in the order of the
\* alarms: valves before fans before the evacuation message; a stop loses none of
\* those that have reached the channel (handleAlarm, commandProcessor).
CommandsInOrder == handled \o job \o commandChan \o offer = asked

\* The order that put d on cooldown is in force: d has an order and has not been
\* told to rest since.  The code leaves three exceptions: the order is on its
\* way; the broker has refused it; a reset has told d to rest and is about to take
\* it off cooldown.
InForce(d) ==
  LET i == activeControls[d]
  IN /\ tasks[i].device = d
     /\ \/ told[d] # Rest(d)
        \/ ~tasks[i].success
        \/ \E r \in 1..Len(resets) : resets[r].pc = "forget" /\ resets[r].device = d

\* Device d has an order of alarm a, or its cooldown has kept it from one.
Answered(a, d) ==
  \/ <<a, d>> \in passed
  \/ \E i \in 1..Len(tasks) : tasks[i].device = d /\ tasks[i].alarm = a

\* A command whose query has not failed is over only when every device it is for
\* has been given an order of this alarm, or passed over because of its cooldown;
\* and a device is on cooldown only while the order that put it there is in force,
\* so that no alarm passes over a device that has been reset since, or was never
\* ordered anything (canControl, markControlled and the delete in ResetZone).
ZoneAnswered ==
  /\ \A k \in 1..Len(handled) :
       handled[k] \notin unfound =>
         \A d \in Targets(handled[k]) : Answered(handled[k].alarm, d)
  /\ \A d \in Device : activeControls[d] # 0 => InForce(d)

\* The tables show an order only after the broker has accepted it, and the logs
\* tell for every task, at most once and when it is over, whether the broker has
\* accepted its order (closeZoneValves, startZoneFans, logValveControl,
\* logFanControl).
RowsAndLogsBacked ==
  /\ \A d \in Device :
       row[d] # Rest(d) =>
         \E i \in executed : /\ tasks[i].device = d
                             /\ tasks[i].order = row[d]
                             /\ tasks[i].pc \in {"log", "done"}
  /\ \A l \in logs : /\ tasks[l.task].pc = "done"
                     /\ l.success <=> l.task \in executed

\* ResetZone leaves no device of the zone on cooldown, so that the next alarm
\* can control all of them, whatever other resets do meanwhile, unless a query for
\* them has failed or a command has marked one since it began.
ResetFreesZone ==
  \A r \in untouched :
    resets[r].pc = "done" =>
      \A d \in InZone(Device, resets[r].zone) : activeControls[d] = 0

\* An alarm that calls for it closes every valve of its zone, unless an order or a
\* statement fails, a zone is reset or the controller panics.
AlarmAnswered ==
  \A z \in Zone :
    (\E a \in 1..Len(received) : /\ received[a].zone = z
                                 /\ received[a].level >= ValveControlLevel)
      ~> \/ \A v \in InZone(Valve, z) : told[v] = "close"
         \/ recvPc = "panic" \/ faults > 0 \/ resets # <<>>

\* After Stop both goroutines end, the processor having drained the channel.
ModuleEnds ==
  ~running ~> \/ recvPc = "panic"
              \/ recvPc = "done" /\ procPc = "done" /\ commandChan = <<>>
===============================================================================
