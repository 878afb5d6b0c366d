----------------------------- MODULE LaserReceiver -----------------------------
(***************************************************************************)
(* backend/modules/laser_receiver, with the entry of sensor messages in    *)
(* backend/mqtt/client.go and the shutdown in backend/main.go.             *)
(*                                                                         *)
(* The MQTT client starts a goroutine for every message.  It asks whether  *)
(* the module is running, falls back on the legacy pipeline if not, and    *)
(* otherwise counts, validates and forwards the reading.  statsMu is taken *)
(* twice for a message and mu once, with nothing held in between.          *)
(***************************************************************************)
EXTENDS Integers, Sequences, FiniteSets

CONSTANTS
  Message,              \* the sensor messages that may arrive
  DeviceOf,             \* their device; NoDevice is the empty device_id
  ConcentrationOf,      \* their concentration, in %LEL
  TimestampOf,          \* their timestamp, in ticks
  NoDevice,
  AlarmForwardThreshold, MaxValidConcentration, MaxDataAge, MaxFutureTime,
  AlarmDataCap, LeakDataCap,
  MaxTime               \* bound: ticks of the clock

ASSUME ReceiverAssumption ==
  /\ IsFiniteSet(Message)
  /\ ConcentrationOf \in [Message -> Int]
  /\ TimestampOf \in [Message -> Nat]
  /\ AlarmForwardThreshold \in Nat /\ MaxValidConcentration \in Nat
  /\ MaxDataAge \in Nat /\ MaxFutureTime \in Nat
  /\ AlarmDataCap \in Nat /\ LeakDataCap \in Nat
  /\ MaxTime \in Nat

FailReason == {"empty_device_id", "negative_concentration",
               "concentration_out_of_range", "data_too_old", "future_timestamp"}
Verdict == FailReason \cup {"valid"}

VARIABLES
  running,         \* LaserReceiver.running
  open,            \* whether main has not closed the channels yet
  now,             \* the clock, in ticks
  pc,              \* where the goroutine of a message is
  verdict,         \* the result of its validation
  totalReceived, validCount, invalidCount, errorCount,   \* stats
  alarmDataChan, leakDataChan,   \* messages on their way to the modules
  written,         \* messages given to DatabaseService.WriteSensorData
  legacy,          \* messages given to the legacy pipeline
  dropped,         \* history: <<message, channel>> pairs dropped because full
  taken            \* history: <<message, channel>> pairs received by the modules

statVars == <<totalReceived, validCount, invalidCount, errorCount>>
chanVars == <<alarmDataChan, leakDataChan>>
LRvars == <<running, open, now, pc, verdict, totalReceived, validCount, invalidCount,
          errorCount, alarmDataChan, leakDataChan, written, legacy, dropped, taken>>

PC == {"absent", "route", "check", "count", "validate", "judge", "alarm", "leak",
       "done", "panic"}

LRInit ==
  /\ running = TRUE
  /\ open = TRUE
  /\ now = 0
  /\ pc = [m \in Message |-> "absent"]
  /\ verdict = [m \in Message |-> "valid"]
  /\ totalReceived = 0
  /\ validCount = 0
  /\ invalidCount = 0
  /\ errorCount = [r \in FailReason |-> 0]
  /\ alarmDataChan = <<>>
  /\ leakDataChan = <<>>
  /\ written = {}
  /\ legacy = {}
  /\ dropped = {}
  /\ taken = {}

Goto(m, l) == pc' = [pc EXCEPT ![m] = l]

-------------------------------------------------------------------------------
(* mqtt/client.go *)

\* handleSensorData: go processSensorData.
Arrive(m) ==
  /\ pc[m] = "absent"
  /\ Goto(m, "route")
  /\ UNCHANGED <<running, open, now, verdict, statVars, chanVars, written, legacy,
                 dropped, taken>>

\* processSensorData: IsRunning under mu decides between the two pipelines.
Route(m) ==
  /\ pc[m] = "route"
  /\ IF running
     THEN Goto(m, "check") /\ UNCHANGED legacy
     ELSE Goto(m, "done") /\ legacy' = legacy \cup {m}
  /\ UNCHANGED <<running, open, now, verdict, statVars, chanVars, written, dropped,
                 taken>>

-------------------------------------------------------------------------------
(* ProcessData *)

CheckRunning(m) ==
  /\ pc[m] = "check"
  /\ Goto(m, IF running THEN "count" ELSE "done")
  /\ UNCHANGED <<running, open, now, verdict, statVars, chanVars, written, legacy,
                 dropped, taken>>

CountReceived(m) ==
  /\ pc[m] = "count"
  /\ totalReceived' = totalReceived + 1
  /\ Goto(m, "validate")
  /\ UNCHANGED <<running, open, now, verdict, validCount, invalidCount, errorCount,
                 chanVars, written, legacy, dropped, taken>>

\* validate: the first check that fails gives the reason.
validate(m) ==
  LET age == now - TimestampOf[m] IN
    IF DeviceOf[m] = NoDevice THEN "empty_device_id"
    ELSE IF ConcentrationOf[m] < 0 THEN "negative_concentration"
    ELSE IF ConcentrationOf[m] > MaxValidConcentration
         THEN "concentration_out_of_range"
    ELSE IF age > MaxDataAge THEN "data_too_old"
    ELSE IF age < -MaxFutureTime THEN "future_timestamp"
    ELSE "valid"

Validate(m) ==
  /\ pc[m] = "validate"
  /\ verdict' = [verdict EXCEPT ![m] = validate(m)]
  /\ Goto(m, "judge")
  /\ UNCHANGED <<running, open, now, statVars, chanVars, written, legacy, dropped,
                 taken>>

\* Mutants: only readings above the threshold are passed on; the reason is not
\* counted.
CountValidAbove(m) ==
  /\ pc[m] = "judge"
  /\ verdict[m] = "valid"
  /\ validCount' = validCount + 1
  /\ written' = written \cup {m}
  /\ Goto(m, IF ConcentrationOf[m] > AlarmForwardThreshold THEN "alarm" ELSE "done")
  /\ UNCHANGED <<running, open, now, verdict, totalReceived, invalidCount, errorCount,
                 chanVars, legacy, dropped, taken>>

CountInvalidOnly(m) ==
  /\ pc[m] = "judge"
  /\ verdict[m] # "valid"
  /\ invalidCount' = invalidCount + 1
  /\ Goto(m, "done")
  /\ UNCHANGED <<running, open, now, verdict, totalReceived, validCount, errorCount,
                 chanVars, written, legacy, dropped, taken>>

CountValid(m) ==
  /\ pc[m] = "judge"
  /\ verdict[m] = "valid"
  /\ validCount' = validCount + 1
  /\ written' = written \cup {m}
  /\ Goto(m, IF ConcentrationOf[m] > AlarmForwardThreshold THEN "alarm" ELSE "leak")
  /\ UNCHANGED <<running, open, now, verdict, totalReceived, invalidCount, errorCount,
                 chanVars, legacy, dropped, taken>>

CountInvalid(m) ==
  /\ pc[m] = "judge"
  /\ verdict[m] # "valid"
  /\ invalidCount' = invalidCount + 1
  /\ errorCount' = [errorCount EXCEPT ![verdict[m]] = @ + 1]
  /\ Goto(m, "done")
  /\ UNCHANGED <<running, open, now, verdict, totalReceived, validCount, chanVars,
                 written, legacy, dropped, taken>>

\* Mutant: a send that waits for room.
ForwardAlarmBlocking(m) ==
  /\ pc[m] = "alarm"
  /\ open
  /\ Len(alarmDataChan) < AlarmDataCap
  /\ alarmDataChan' = Append(alarmDataChan, m)
  /\ Goto(m, "leak")
  /\ UNCHANGED <<running, open, now, verdict, statVars, leakDataChan, written, legacy,
                 dropped, taken>>

\* select with default: the reading is dropped when the channel is full.  A send
\* on a closed channel panics, which ends the program.
ForwardAlarm(m) ==
  /\ pc[m] = "alarm"
  /\ IF ~open
     THEN Goto(m, "panic") /\ UNCHANGED <<alarmDataChan, dropped>>
     ELSE /\ Goto(m, "leak")
          /\ IF Len(alarmDataChan) < AlarmDataCap
             THEN /\ alarmDataChan' = Append(alarmDataChan, m)
                  /\ UNCHANGED dropped
             ELSE /\ dropped' = dropped \cup {<<m, "alarm">>}
                  /\ UNCHANGED alarmDataChan
  /\ UNCHANGED <<running, open, now, verdict, statVars, leakDataChan, written, legacy,
                 taken>>

ForwardLeak(m) ==
  /\ pc[m] = "leak"
  /\ IF ~open
     THEN Goto(m, "panic") /\ UNCHANGED <<leakDataChan, dropped>>
     ELSE /\ Goto(m, "done")
          /\ IF Len(leakDataChan) < LeakDataCap
             THEN /\ leakDataChan' = Append(leakDataChan, m)
                  /\ UNCHANGED dropped
             ELSE /\ dropped' = dropped \cup {<<m, "leak">>}
                  /\ UNCHANGED leakDataChan
  /\ UNCHANGED <<running, open, now, verdict, statVars, alarmDataChan, written, legacy,
                 taken>>

ProcessMessage(m) ==
  \/ Route(m) \/ CheckRunning(m) \/ CountReceived(m) \/ Validate(m)
  \/ CountValid(m) \/ CountInvalid(m) \/ ForwardAlarm(m) \/ ForwardLeak(m)

-------------------------------------------------------------------------------
(* AlarmRouter and LeakLocator receive *)

TakeAlarmData ==
  /\ alarmDataChan # <<>>
  /\ taken' = taken \cup {<<Head(alarmDataChan), "alarm">>}
  /\ alarmDataChan' = Tail(alarmDataChan)
  /\ UNCHANGED <<running, open, now, pc, verdict, statVars, leakDataChan, written,
                 legacy, dropped>>

TakeLeakData ==
  /\ leakDataChan # <<>>
  /\ taken' = taken \cup {<<Head(leakDataChan), "leak">>}
  /\ leakDataChan' = Tail(leakDataChan)
  /\ UNCHANGED <<running, open, now, pc, verdict, statVars, alarmDataChan, written,
                 legacy, dropped>>

Tick ==
  /\ now < MaxTime
  /\ now' = now + 1
  /\ UNCHANGED <<running, open, pc, verdict, statVars, chanVars, written, legacy,
                 dropped, taken>>

\* main stops the module and then closes the channels; the MQTT client is still
\* connected.
Stop ==
  /\ running
  /\ running' = FALSE
  /\ UNCHANGED <<open, now, pc, verdict, statVars, chanVars, written, legacy, dropped,
                 taken>>

CloseChannels ==
  /\ ~running
  /\ open
  /\ open' = FALSE
  /\ UNCHANGED <<running, now, pc, verdict, statVars, chanVars, written, legacy,
                 dropped, taken>>

Alive == \A m \in Message : pc[m] # "panic"

LRNext ==
  /\ Alive
  /\ \/ \E m \in Message : Arrive(m) \/ ProcessMessage(m)
     \/ TakeAlarmData \/ TakeLeakData \/ Tick \/ Stop \/ CloseChannels

LRSpec == LRInit /\ [][LRNext]_LRvars

\* The scheduler runs the goroutine of every message.
LRFairSpec == LRSpec /\ \A m \in Message : WF_LRvars(Alive /\ ProcessMessage(m))

-------------------------------------------------------------------------------
(* Correctness *)

SeqRange(s) == {s[i] : i \in 1..Len(s)}
At(S) == {m \in Message : pc[m] \in S}

LRTypeOK ==
  /\ running \in BOOLEAN /\ open \in BOOLEAN
  /\ running => open
  /\ now \in Nat
  /\ pc \in [Message -> PC]
  /\ verdict \in [Message -> Verdict]
  /\ totalReceived \in Nat /\ validCount \in Nat /\ invalidCount \in Nat
  /\ errorCount \in [FailReason -> Nat]
  /\ alarmDataChan \in Seq(Message) /\ Len(alarmDataChan) <= AlarmDataCap
  /\ leakDataChan \in Seq(Message) /\ Len(leakDataChan) <= LeakDataCap
  /\ written \subseteq Message
  /\ legacy \subseteq Message
  /\ dropped \subseteq Message \X {"alarm", "leak"}
  /\ taken \subseteq Message \X {"alarm", "leak"}

\* The statistics, updated in two critical sections per message, lag only by the
\* messages between the two: whatever GetStats returns, valid and invalid never
\* exceed received, and each message is counted once.
StatsAddUp ==
  /\ totalReceived = validCount + invalidCount + Cardinality(At({"validate", "judge"}))
  /\ \A r \in FailReason :
       errorCount[r] = Cardinality({m \in At({"done"}) : verdict[m] = r})
  /\ validCount = Cardinality(written)

\* Every valid reading above the threshold is offered to AlarmRouter as well as to
\* LeakLocator and to the database, and nothing else reaches AlarmRouter.
Reached(m, ch, queue) ==
  m \in SeqRange(queue) \/ <<m, ch>> \in taken \cup dropped

OfferedToAll ==
  \A m \in Message :
    /\ pc[m] = "done" /\ m \in written =>
         /\ Reached(m, "leak", leakDataChan)
         /\ ConcentrationOf[m] > AlarmForwardThreshold
              => Reached(m, "alarm", alarmDataChan)
    /\ Reached(m, "alarm", alarmDataChan) =>
         /\ m \in written
         /\ ConcentrationOf[m] > AlarmForwardThreshold
         /\ ConcentrationOf[m] <= MaxValidConcentration

\* Every message that arrives is dealt with, unless the program dies.
MessagesFinish ==
  \A m \in Message : (pc[m] = "route") ~> (pc[m] = "done" \/ ~Alive)

===============================================================================
