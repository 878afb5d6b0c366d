-------------------------------- MODULE Pipeline --------------------------------
(***************************************************************************)
(* backend/main.go: the alarm path of the modules.  Every MQTT message has *)
(* a goroutine of its own, in which LaserReceiver forwards its reading to  *)
(* AlarmRouter when it is valid and above a threshold.  The alarms go over *)
(* alarmChan to EmergencyController.  At a signal main stops the modules   *)
(* without waiting for their goroutines, closes the channels and returns.  *)
(* The program may also end at any point; when it starts again memory,     *)
(* channels and goroutines are gone, the tables and the devices keep       *)
(* their state.                                                            *)
(*                                                                         *)
(* AlarmRouter and EmergencyController are the modules of these names.     *)
(* Acknowledgements, SMS, resets and the failures EmergencyController      *)
(* meets, which the runs of the two modules cover, are left out.           *)
(***************************************************************************)
EXTENDS Integers, Sequences, FiniteSets

CONSTANTS
  Detector,       \* Device of AlarmRouter
  Concentration, NoReading, AlarmForwardThreshold,
  Level1Threshold, Level2Threshold, Level3Threshold, DataChanCap, AlarmChanCap,
  Zone, Valve, Fan, ZoneOf, NoDevice,
  ValveControlLevel, EvacuationLevel, FanSpeedHighLevel, CommandChanCap,
  FireZone,       \* getFireZoneFromDeviceID
  DBMayFail,      \* whether an INSERT or UPDATE of AlarmRouter may fail
  MaxReadings,    \* bound: readings of the detectors
  MaxRestarts,    \* bound: ends of the program
  SignalStarts    \* bound: starts, from the first, that may end by a signal

ASSUME FireZoneAssumption == FireZone \in [Detector -> Zone]
ASSUME BoundAssumption == {MaxReadings, MaxRestarts, SignalStarts} \subseteq Nat

\* What AlarmRouter and EmergencyController assume; alarmChan has room.
ASSUME RouterAssumption ==
  /\ Concentration \subseteq Nat /\ AlarmForwardThreshold \in Nat
  /\ {Level1Threshold, Level2Threshold, Level3Threshold} \subseteq Nat \ {0}
  /\ NoReading \notin [device : Detector, conc : Concentration]
  /\ DataChanCap \in Nat /\ AlarmChanCap \in Nat \ {0}
  /\ DBMayFail \in BOOLEAN

ASSUME ControllerAssumption ==
  /\ ZoneOf \in [Valve \cup Fan -> Zone]
  /\ Valve \cap Fan = {} /\ NoDevice \notin Valve \cup Fan
  /\ {ValveControlLevel, EvacuationLevel, FanSpeedHighLevel} \subseteq Nat
  /\ CommandChanCap \in Nat \ {0}

VARIABLES
  \* AlarmRouter
  dataChan, alarmChan, activeAlarms, alarmHistory, alarms, timestamps, resolved,
  dbRows, dbResolved, pc, reading, cur, stamp, smsPending, handed, accepted, last,
  \* EmergencyController
  received, recvPc, offer, commandChan, procPc, job, left, device, activeControls,
  tasks, told, row, logs, asked, handled, unfound, passed, executed,
  \* the goroutines of the MQTT messages
  flying,       \* readings LaserReceiver is still to process
  \* main
  running,      \* AlarmRouter.running
  controlling,  \* EmergencyController.running
  closed,       \* commandChan is closed
  mainPc,       \* where main is
  \* never changed here
  acknowledged, dbAcked, smsNoted, smsSent, now, lostAcks, resets, faults, untouched,
  \* histories
  reports,    \* readings that have arrived so far
  reported,   \* number and value of each detector's last one since the start
  fate,       \* what has become of it: in flight, processed, dropped, overtaken
  restarts,   \* how often the program has started again
  epoch,      \* alarms raised before the last start
  heard       \* alarms received before the last start

Router == INSTANCE AlarmRouter WITH
  Device <- Detector, SMSMinLevel <- 0, SMSInterval <- 0, SMSMaxPerInterval <- 0, MaxTime <- 0

Controller == INSTANCE EmergencyController WITH
  Level <- 1..3, MaxFaults <- 0, MaxResets <- 0, MaxAlarms <- MaxReadings,
  running <- controlling

routerVars == <<dataChan, alarmChan, activeAlarms, alarmHistory, alarms, timestamps,
                resolved, dbRows, dbResolved, pc, reading, cur, stamp, smsPending,
                handed, accepted, last>>
controllerVars == <<received, recvPc, offer, commandChan, procPc, job, left, device,
                    activeControls, tasks, told, row, logs, asked, handled, unfound,
                    passed, executed>>
startVars == <<restarts, epoch, heard>>
historyVars == <<flying, reports, reported, fate, startVars>>
mainVars == <<running, controlling, closed, mainPc>>
constVars == <<acknowledged, dbAcked, smsNoted, smsSent, now, lostAcks, resets, faults,
               untouched>>
vars == <<routerVars, controllerVars, mainVars, constVars, historyVars>>

Init ==
  /\ Router!Init /\ Controller!Init
  /\ mainPc = "wait"
  /\ reports = 0
  /\ flying = {}
  /\ reported = [d \in Detector |-> [nr |-> 0, conc |-> 0]]
  /\ fate = [d \in Detector |-> "processed"]
  /\ restarts = 0 /\ epoch = 0 /\ heard = 0

-------------------------------------------------------------------------------
(* The modules, while main has not returned *)

Alive == mainPc \notin {"returned", "panic"}
ChannelsClosed == mainPc = "return"

LaserReceiverRuns == mainPc \in {"wait", "stopRouter", "stopReceiver"}

\* The concentration of a reading that LaserReceiver refuses, whatever it is.
Invalid == -1

\* handleSensorData and processSensorData: a goroutine is started for a message,
\* and finds LaserReceiver, which is stopped last, running.
Arrive(d, c) ==
  /\ LaserReceiverRuns
  /\ reports < MaxReadings
  /\ reports' = reports + 1
  /\ flying' = flying \cup {[nr |-> reports', device |-> d, conc |-> c]}
  /\ reported' = [reported EXCEPT ![d] = [nr |-> reports', conc |-> c]]
  /\ fate' = [fate EXCEPT ![d] = "flying"]
  /\ UNCHANGED <<routerVars, controllerVars, mainVars, constVars, startVars>>

\* The goroutine of m, if it is the last message of its detector, ends with f.
EndsWith(m, f) ==
  fate' = IF m.nr = reported[m.device].nr THEN [fate EXCEPT ![m.device] = f] ELSE fate

\* An earlier message is forwarded after the last one was processed.
Overtaken(m) == m.nr # reported[m.device].nr /\ fate[m.device] = "processed"

\* Mutant: only readings that raise an alarm are forwarded.
ProcessAlarmsOnly(m) ==
  /\ LaserReceiverRuns
  /\ m \in flying
  /\ flying' = flying \ {m}
  /\ IF m.conc < Level1Threshold
     THEN EndsWith(m, "processed") /\ UNCHANGED <<routerVars, running>>
     ELSE /\ Router!ForwardReading(m.device, m.conc)
          /\ IF Overtaken(m) THEN fate' = [fate EXCEPT ![m.device] = "overtaken"]
                             ELSE EndsWith(m, "processed")
  /\ UNCHANGED <<controllerVars, controlling, closed, mainPc, constVars, reports,
                 reported, startVars>>

\* ProcessData of LaserReceiver, in the goroutine of message m: a reading that is
\* invalid, at or below the threshold or finds the channel full is not forwarded.
ProcessData(m) ==
  /\ LaserReceiverRuns
  /\ m \in flying
  /\ flying' = flying \ {m}
  /\ \/ /\ m.conc <= AlarmForwardThreshold
        /\ EndsWith(m, "processed") /\ UNCHANGED <<routerVars, running>>
     \/ /\ m.conc > AlarmForwardThreshold /\ Len(dataChan) = DataChanCap
        /\ EndsWith(m, "dropped") /\ UNCHANGED <<routerVars, running>>
     \/ /\ Router!ForwardReading(m.device, m.conc)
        /\ IF Overtaken(m) THEN fate' = [fate EXCEPT ![m.device] = "overtaken"]
                           ELSE EndsWith(m, "processed")
  /\ UNCHANGED <<controllerVars, controlling, closed, mainPc, constVars, reports,
                 reported, startVars>>

\* A send on a channel that main has closed ends the program.
ReceiverSendsOnClosed ==
  ChannelsClosed /\ \E m \in flying : m.conc > AlarmForwardThreshold
RouterSendsOnClosed == ChannelsClosed /\ pc = "trigger"
ControllerSendsOnClosed == closed /\ recvPc = "send" /\ offer # <<>>

controllerRest == <<routerVars, mainVars, constVars, historyVars>>
routerRest == <<controllerVars, mainVars, constVars, historyVars>>

\* The goroutine of AlarmRouter.
RouterStep ==
  Alive /\ ~RouterSendsOnClosed /\ Router!Receiver /\ UNCHANGED routerRest

\* alarmReceiver takes an alarm from alarmChan.
Hand ==
  /\ Alive
  /\ Router!ReceiveAlarm
  /\ LET a == alarms[Head(alarmChan)] IN
     Controller!ReceiveAlarm(FireZone[a.device], a.level)
  /\ UNCHANGED <<mainVars, constVars, historyVars>>

\* The goroutines of EmergencyController.
AlarmReceiver ==
  /\ Alive /\ ~ControllerSendsOnClosed
  /\ Controller!AlarmReceiver /\ UNCHANGED controllerRest

CommandProcessor == Alive /\ Controller!CommandProcessor /\ UNCHANGED controllerRest

DeviceTask ==
  /\ Alive
  /\ \E i \in DOMAIN tasks : Controller!TaskStep(i)
  /\ UNCHANGED controllerRest

CooldownOver ==
  /\ Alive
  /\ \E d \in Valve \cup Fan : Controller!CooldownOver(d)
  /\ UNCHANGED controllerRest

-------------------------------------------------------------------------------
(* The end of main, and a new start *)

\* A signal: EmergencyController.Stop.
StopController ==
  /\ restarts < SignalStarts
  /\ mainPc = "wait" /\ mainPc' = "stopRouter"
  /\ Controller!Stop
  /\ UNCHANGED <<routerVars, running, constVars, historyVars>>

StopRouter ==
  /\ mainPc = "stopRouter" /\ mainPc' = "stopReceiver"
  /\ Router!Stop
  /\ UNCHANGED <<controllerVars, controlling, closed, constVars, historyVars>>

\* LaserReceiver.Stop, and close of the four channels.
CloseChannels ==
  /\ mainPc = "stopReceiver" /\ mainPc' = "return"
  /\ UNCHANGED <<routerVars, controllerVars, running, controlling, closed, constVars,
                 historyVars>>

MainReturns ==
  /\ mainPc = "return" /\ mainPc' = "returned"
  /\ UNCHANGED <<routerVars, controllerVars, running, controlling, closed, constVars,
                 historyVars>>

Panics ==
  /\ Alive
  /\ ReceiverSendsOnClosed \/ RouterSendsOnClosed \/ ControllerSendsOnClosed
  /\ mainPc' = "panic"
  /\ UNCHANGED <<routerVars, controllerVars, running, controlling, closed, constVars,
                 historyVars>>

\* Mutant: the open alarms are restored.
RestartRemembers ==
  /\ restarts < MaxRestarts
  /\ mainPc' = "wait" /\ running' = TRUE /\ controlling' = TRUE /\ closed' = FALSE
  /\ dataChan' = <<>> /\ alarmChan' = <<>>
  /\ alarmHistory' = [d \in Detector |-> <<>>]
  /\ pc' = "poll" /\ reading' = NoReading /\ cur' = 0 /\ stamp' = 0
  /\ smsPending' = {}
  /\ last' = [d \in Detector |-> 0]
  /\ recvPc' = "poll" /\ offer' = <<>> /\ commandChan' = <<>>
  /\ procPc' = "range" /\ job' = <<>> /\ left' = {} /\ device' = NoDevice
  /\ activeControls' = [x \in Valve \cup Fan |-> 0]
  /\ tasks' = [i \in DOMAIN tasks |-> [tasks[i] EXCEPT !.pc = "done"]]
  /\ flying' = {}
  /\ reported' = [d \in Detector |-> [nr |-> 0, conc |-> 0]]
  /\ fate' = [d \in Detector |-> "processed"]
  /\ restarts' = restarts + 1
  /\ epoch' = Len(alarms) /\ heard' = Len(received)
  /\ UNCHANGED <<activeAlarms, alarms, timestamps, resolved, dbRows, dbResolved, handed,
                 accepted, received, told, row, logs, asked, handled, unfound, passed,
                 executed, reports, constVars>>

\* The program ends, if it has not, and main starts it again: every module begins
\* with empty maps and channels, and the goroutines of the devices are gone.
Restart ==
  /\ restarts < MaxRestarts
  /\ mainPc' = "wait" /\ running' = TRUE /\ controlling' = TRUE /\ closed' = FALSE
  /\ dataChan' = <<>> /\ alarmChan' = <<>>
  /\ activeAlarms' = [d \in Detector |-> 0]
  /\ alarmHistory' = [d \in Detector |-> <<>>]
  /\ pc' = "poll" /\ reading' = NoReading /\ cur' = 0 /\ stamp' = 0
  /\ smsPending' = {}
  /\ last' = [d \in Detector |-> 0]
  /\ recvPc' = "poll" /\ offer' = <<>> /\ commandChan' = <<>>
  /\ procPc' = "range" /\ job' = <<>> /\ left' = {} /\ device' = NoDevice
  /\ activeControls' = [x \in Valve \cup Fan |-> 0]
  /\ tasks' = [i \in DOMAIN tasks |-> [tasks[i] EXCEPT !.pc = "done"]]
  /\ flying' = {}
  /\ reported' = [d \in Detector |-> [nr |-> 0, conc |-> 0]]
  /\ fate' = [d \in Detector |-> "processed"]
  /\ restarts' = restarts + 1
  /\ epoch' = Len(alarms) /\ heard' = Len(received)
  /\ UNCHANGED <<alarms, timestamps, resolved, dbRows, dbResolved, handed, accepted,
                 received, told, row, logs, asked, handled, unfound, passed, executed,
                 reports, constVars>>

Main == StopController \/ StopRouter \/ CloseChannels \/ MainReturns

Next ==
  \/ \E d \in Detector, c \in Concentration \cup {Invalid} : Arrive(d, c)
  \/ \E m \in flying : ProcessData(m)
  \/ RouterStep \/ Hand \/ AlarmReceiver \/ CommandProcessor \/ DeviceTask
  \/ CooldownOver
  \/ Main \/ Panics \/ Restart

Spec == Init /\ [][Next]_vars

\* The goroutines of both modules are scheduled, and each takes from its channel
\* sooner or later although the 100 ms timer may win the select.
Fairness ==
  /\ WF_routerVars(Alive /\ ~RouterSendsOnClosed /\ Router!Receiver)
  /\ SF_routerVars(Alive /\ Router!Receive)
  /\ WF_controllerVars(Alive /\ ~ControllerSendsOnClosed /\ Controller!AlarmReceiver)
  /\ SF_vars(Hand)
  /\ WF_controllerVars(Alive /\ Controller!CommandProcessor)
  /\ WF_controllerVars(Alive /\ \E i \in DOMAIN tasks : Controller!TaskStep(i))

FairSpec == Spec /\ Fairness

-------------------------------------------------------------------------------
(* Properties *)

Answered(k) ==
  \A i \in DOMAIN asked :
    asked[i].alarm = k => \E j \in DOMAIN handled : handled[j] = asked[i]

\* How far alarm a has come.
StageOf(a) ==
  IF \E k \in DOMAIN handed : handed[k] = a
  THEN LET k == CHOOSE k \in DOMAIN handed : handed[k] = a IN
       IF Answered(k) THEN "answered" ELSE IF k > heard THEN "received" ELSE "lost"
  ELSE IF \E i \in DOMAIN alarmChan : alarmChan[i] = a THEN "offered"
  ELSE IF cur = a /\ pc = "save" THEN "raised"
  ELSE IF cur = a /\ pc = "trigger" THEN "stored"
  ELSE "lost"

\* The two modules, the channels between them and any restart together keep the
\* promise of ResponseChain.
Chain == INSTANCE ResponseChain WITH
           stage <- [a \in DOMAIN alarms |-> StageOf(a)], stored <- dbRows
ImplementsChain == Chain!Spec

\* An open row of table alarms tells the level of the last reading of its detector
\* that has arrived, once the readings have been graded, unless
\*  - a later alarm of the detector has replaced the alarm, which resolves no row;
\*  - the program has started again since, which forgets the alarm;
\*  - the UPDATE that resolves the row has failed, which is not tried again;
\*  - the last reading was invalid or not above the threshold of LaserReceiver;
\*  - it is still in its goroutine, or met a full channel, or an earlier one that it
\*    has overtaken was forwarded after it (fate).
TableTellsTruth ==
  \A a \in dbRows \ dbResolved :
    LET d == alarms[a].device IN
    \/ Router!Ungraded(d) \/ (pc = "resolve" /\ cur = a)
    \/ Router!getAlarmLevel(reported[d].conc) = alarms[a].level
    \/ \E b \in a + 1..Len(alarms) : alarms[b].device = d
    \/ a <= epoch
    \/ DBMayFail /\ a \in resolved
    \/ reported[d].conc <= AlarmForwardThreshold
    \/ fate[d] \in {"flying", "dropped", "overtaken"}

\* A reading that calls for it, once accepted by alarmDataChan, closes the valves of
\* the zone whatever becomes of the statements about its alarm, unless a signal or a
\* crash ends the program or a full alarmChan has lost an alarm of the detector.  This
\* holds of the first readings after a restart too, although the alarm they repeat is
\* still open in the table.
GasAnswered ==
  \A d \in Detector :
    Router!getAlarmLevel(last[d]) >= ValveControlLevel
      ~> \/ \A v \in Valve : ZoneOf[v] = FireZone[d] => told[v] = "close"
         \/ \E a \in epoch + 1..Len(alarms) : alarms[a].device = d /\ StageOf(a) = "lost"
         \/ mainPc # "wait"
         \/ last[d] = 0   \* a restart

===============================================================================
