------------------------------ MODULE AlarmRouter ------------------------------
(***************************************************************************)
(* backend/modules/alarm_router: one dataReceiver goroutine grades the     *)
(* readings of alarmDataChan, keeps the open alarm of every device in      *)
(* memory and in table alarms, and passes new alarms on to the             *)
(* EmergencyController over alarmChan without ever blocking.  The API      *)
(* goroutines acknowledge alarms concurrently, and every new alarm starts  *)
(* a goroutine that decides whether an SMS goes out.                       *)
(*                                                                         *)
(* Steps are cut at the lock boundaries and database calls of the code:    *)
(* the RLock of checkAlarm, the Lock of createAlarm and resolveAlarm, the  *)
(* INSERT and the UPDATE made after unlocking, and triggerAlarm.           *)
(***************************************************************************)
EXTENDS Integers, Sequences, FiniteSets

CONSTANTS
  Device,                 \* laser detectors
  Concentration,          \* methane readings, in %LEL
  NoReading,              \* the receiver holds no reading
  AlarmForwardThreshold,  \* LaserReceiver forwards readings above it
  Level1Threshold, Level2Threshold, Level3Threshold,
  DataChanCap, AlarmChanCap,
  SMSMinLevel, SMSInterval, SMSMaxPerInterval,
  DBMayFail,              \* whether a statement sent to PostgreSQL may fail
  MaxReadings,            \* bound: readings accepted by alarmDataChan
  MaxTime                 \* bound: ticks of the clock

ASSUME ThresholdAssumption ==
  /\ Concentration \subseteq Nat
  /\ AlarmForwardThreshold \in Nat
  /\ Level1Threshold \in Nat \ {0}
  /\ Level2Threshold \in Nat \ {0}
  /\ Level3Threshold \in Nat \ {0}

ASSUME BoundAssumption ==
  /\ DataChanCap \in Nat
  /\ AlarmChanCap \in Nat
  /\ SMSMinLevel \in Nat
  /\ SMSInterval \in Nat
  /\ SMSMaxPerInterval \in Nat
  /\ DBMayFail \in BOOLEAN
  /\ MaxReadings \in Nat
  /\ MaxTime \in Nat

Reading == [device : Device, conc : Concentration]

ASSUME NoReadingAssumption == NoReading \notin Reading

VARIABLES
  running,       \* AlarmRouter.running
  dataChan,      \* alarmDataChan: readings LaserReceiver has validated
  alarmChan,     \* alarmChan: IDs of the alarms sent to EmergencyController
  activeAlarms,  \* activeAlarms: ID of the open alarm of a device, or 0
  alarmHistory,  \* alarmHistory: times at which a device's alarms were raised
  alarms,        \* the alarm objects ever created; the index is the ID
  timestamps,    \* their Timestamp fields
  acknowledged,  \* IDs whose Acknowledged field is true
  resolved,      \* IDs whose Resolved field is true
  dbRows,        \* IDs with a row in table alarms
  dbAcked,       \* rows with acknowledged = TRUE
  dbResolved,    \* rows with resolved = TRUE
  pc,            \* where the dataReceiver goroutine is
  reading,       \* its local reading
  cur,           \* its local alarm ID, or 0
  stamp,         \* the time it took for the alarm it is creating
  smsPending,    \* alarms whose sendAlarmSMS goroutine has not run yet
  smsNoted,      \* those that have read the history, with its length then
  smsSent,       \* alarms announced by SMS
  handed,        \* alarms EmergencyController has received, in order
  now,           \* the clock, in ticks
  lostAcks,      \* history: alarms whose latest acknowledgement came before the INSERT
  accepted,      \* history: number of readings accepted by dataChan
  last           \* history: the last reading of a device dataChan accepted

memVars      == <<activeAlarms, alarmHistory, alarms, timestamps, acknowledged,
                  resolved>>
receiverVars == <<pc, reading, cur, stamp>>
dbVars       == <<dbRows, dbAcked, dbResolved>>
smsVars      == <<smsPending, smsNoted, smsSent, now>>
ghostVars    == <<lostAcks, accepted, last>>
vars == <<running, dataChan, alarmChan, activeAlarms, alarmHistory, alarms,
          timestamps, acknowledged, resolved, dbRows, dbAcked, dbResolved, pc, reading,
          cur, stamp, smsPending, smsNoted, smsSent, handed, now, lostAcks, accepted,
          last>>

-------------------------------------------------------------------------------
(* getAlarmLevel: the highest threshold the concentration reaches. *)

getAlarmLevel(c) ==
  IF c >= Level3Threshold THEN 3
  ELSE IF c >= Level2Threshold THEN 2
  ELSE IF c >= Level1Threshold THEN 1
  ELSE 0

AlarmId == 1..Len(alarms)

\* The level a device is at according to the open alarms.
ActiveLevel(d) ==
  IF activeAlarms[d] = 0 THEN 0 ELSE alarms[activeAlarms[d]].level

-------------------------------------------------------------------------------
Init ==
  /\ running = TRUE
  /\ dataChan = <<>>
  /\ alarmChan = <<>>
  /\ activeAlarms = [d \in Device |-> 0]
  /\ alarmHistory = [d \in Device |-> <<>>]
  /\ alarms = <<>>
  /\ timestamps = <<>>
  /\ acknowledged = {}
  /\ resolved = {}
  /\ dbRows = {}
  /\ dbAcked = {}
  /\ dbResolved = {}
  /\ pc = "poll"
  /\ reading = NoReading
  /\ cur = 0
  /\ stamp = 0
  /\ smsPending = {}
  /\ smsNoted = {}
  /\ smsSent = {}
  /\ handed = <<>>
  /\ now = 0
  /\ lostAcks = {}
  /\ accepted = 0
  /\ last = [d \in Device |-> 0]

(***************************************************************************)
(* The environment.  LaserReceiver drops a reading when the channel is     *)
(* full; a dropped reading changes nothing here.                           *)
(***************************************************************************)
ForwardReading(d, c) ==
  /\ accepted < MaxReadings
  /\ c > AlarmForwardThreshold
  /\ Len(dataChan) < DataChanCap
  /\ dataChan' = Append(dataChan, [device |-> d, conc |-> c])
  /\ accepted' = accepted + 1
  /\ last' = [last EXCEPT ![d] = c]
  /\ UNCHANGED <<running, alarmChan, memVars, dbVars, receiverVars, smsVars,
                 handed, lostAcks>>

\* EmergencyController.alarmReceiver takes the next alarm.
ReceiveAlarm ==
  /\ alarmChan # <<>>
  /\ handed' = Append(handed, Head(alarmChan))
  /\ alarmChan' = Tail(alarmChan)
  /\ UNCHANGED <<running, dataChan, memVars, dbVars, receiverVars, smsVars,
                 ghostVars>>

\* Time passes, whatever the goroutines are doing.
Tick ==
  /\ now < MaxTime
  /\ now' = now + 1
  /\ UNCHANGED <<running, dataChan, alarmChan, memVars, dbVars, receiverVars,
                 smsPending, smsNoted, smsSent, handed, ghostVars>>

-------------------------------------------------------------------------------
(* dataReceiver *)

\* The top of the loop: read running under mu.
Poll ==
  /\ pc = "poll"
  /\ pc' = IF running THEN "select" ELSE "done"
  /\ UNCHANGED <<running, dataChan, alarmChan, memVars, dbVars, reading, cur,
                 stamp, smsVars, handed, ghostVars>>

\* select: receive a reading.
Receive ==
  /\ pc = "select"
  /\ dataChan # <<>>
  /\ reading' = Head(dataChan)
  /\ dataChan' = Tail(dataChan)
  /\ pc' = "check"
  /\ UNCHANGED <<running, alarmChan, memVars, dbVars, cur, stamp, smsVars, handed,
                 ghostVars>>

\* select: 100 ms without a reading.
ReceiveTimeout ==
  /\ pc = "select"
  /\ pc' = "poll"
  /\ UNCHANGED <<running, dataChan, alarmChan, memVars, dbVars, reading, cur,
                 stamp, smsVars, handed, ghostVars>>

\* checkAlarm, level 0: the locked part of resolveAlarm.
ResolveAlarm ==
  /\ pc = "check"
  /\ getAlarmLevel(reading.conc) = 0
  /\ LET d == reading.device IN
       IF activeAlarms[d] # 0
       THEN /\ resolved' = resolved \cup {activeAlarms[d]}
            /\ activeAlarms' = [activeAlarms EXCEPT ![d] = 0]
            /\ cur' = activeAlarms[d]
            /\ pc' = "resolve"
       ELSE /\ pc' = "poll"
            /\ UNCHANGED <<resolved, activeAlarms, cur>>
  /\ reading' = NoReading
  /\ UNCHANGED <<running, dataChan, alarmChan, alarmHistory, alarms, timestamps,
                 acknowledged, dbVars, stamp, smsVars, handed, ghostVars>>

\* resolveAlarm after Unlock: UPDATE alarms SET resolved = TRUE WHERE id.
\* The error of the statement is ignored.
ResolveRow ==
  /\ pc = "resolve"
  /\ \/ dbResolved' = dbResolved \cup ({cur} \cap dbRows)
     \/ DBMayFail /\ UNCHANGED dbResolved
  /\ pc' = "poll"
  /\ cur' = 0
  /\ UNCHANGED <<running, dataChan, alarmChan, memVars, dbRows, dbAcked,
                 reading, stamp, smsVars, handed, ghostVars>>

\* Mutants: any open alarm will do; the open alarm is not looked at.
NeedsAlarmIfNone(r) == activeAlarms[r.device] = 0
NeedsAlarmAlways(r) == TRUE

\* checkAlarm, level above 0: compare with the open alarm under RLock.
NeedsAlarm(r) ==
  \/ activeAlarms[r.device] = 0
  \/ alarms[activeAlarms[r.device]].level # getAlarmLevel(r.conc)

\* When an alarm is due createAlarm fills in its Timestamp, before it takes the lock.
CheckAlarm ==
  /\ pc = "check"
  /\ getAlarmLevel(reading.conc) # 0
  /\ IF NeedsAlarm(reading)
     THEN pc' = "create" /\ stamp' = now /\ UNCHANGED reading
     ELSE pc' = "poll" /\ reading' = NoReading /\ UNCHANGED stamp
  /\ UNCHANGED <<running, dataChan, alarmChan, memVars, dbVars, cur, smsVars,
                 handed, ghostVars>>

\* createAlarm from Lock to Unlock: the new alarm replaces the open one.
CreateAlarm ==
  /\ pc = "create"
  /\ LET id == Len(alarms) + 1
         d  == reading.device
     IN /\ alarms' = Append(alarms, [device |-> d,
                                     level  |-> getAlarmLevel(reading.conc)])
        /\ timestamps' = Append(timestamps, stamp)
        /\ activeAlarms' = [activeAlarms EXCEPT ![d] = id]
        /\ alarmHistory' = [alarmHistory EXCEPT ![d] = Append(@, stamp)]
        /\ cur' = id
  /\ reading' = NoReading
  /\ stamp' = 0
  /\ pc' = "save"
  /\ UNCHANGED <<running, dataChan, alarmChan, acknowledged, resolved, dbVars,
                 smsVars, handed, ghostVars>>

\* Mutants: the INSERT is left out; the alarm is offered here and in triggerAlarm.
SkipSave ==
  /\ pc = "save"
  /\ pc' = "trigger"
  /\ UNCHANGED <<running, dataChan, alarmChan, memVars, dbVars, reading, cur, stamp,
                 smsVars, handed, ghostVars>>

SaveAndOffer ==
  /\ pc = "save"
  /\ dbRows' = dbRows \cup {cur}
  /\ alarmChan' = IF Len(alarmChan) < AlarmChanCap THEN Append(alarmChan, cur)
                                                   ELSE alarmChan
  /\ pc' = "trigger"
  /\ UNCHANGED <<running, dataChan, memVars, dbAcked, dbResolved, reading, cur,
                 stamp, smsVars, handed, ghostVars>>

\* saveAlarmToDB: INSERT; an error is only logged.
SaveAlarm ==
  /\ pc = "save"
  /\ \/ dbRows' = dbRows \cup {cur}
     \/ DBMayFail /\ UNCHANGED dbRows
  /\ pc' = "trigger"
  /\ UNCHANGED <<running, dataChan, alarmChan, memVars, dbAcked, dbResolved,
                 reading, cur, stamp, smsVars, handed, ghostVars>>

\* triggerAlarm: start the SMS goroutine and offer the alarm to alarmChan,
\* dropping it when the channel is full.
TriggerAlarm ==
  /\ pc = "trigger"
  /\ smsPending' = smsPending \cup {cur}
  /\ alarmChan' = IF Len(alarmChan) < AlarmChanCap
                  THEN Append(alarmChan, cur)
                  ELSE alarmChan
  /\ pc' = "poll"
  /\ cur' = 0
  /\ UNCHANGED <<running, dataChan, memVars, dbVars, reading, stamp, smsNoted,
                 smsSent, now, handed, ghostVars>>

Receiver ==
  \/ Poll \/ Receive \/ ReceiveTimeout
  \/ ResolveAlarm \/ ResolveRow
  \/ CheckAlarm \/ CreateAlarm \/ SaveAlarm \/ TriggerAlarm

-------------------------------------------------------------------------------
(* The other goroutines *)

\* The goroutine go sendAlarmSMS(alarm), shouldSendSMS up to RUnlock: an alarm of a
\* level that is not announced ends it; otherwise it holds the history as it is now.
ReadHistory(id) ==
  /\ id \in smsPending
  /\ smsPending' = smsPending \ {id}
  /\ smsNoted' =
       IF alarms[id].level < SMSMinLevel THEN smsNoted
       ELSE smsNoted \cup {[alarm |-> id, length |-> Len(alarmHistory[alarms[id].device])]}
  /\ UNCHANGED <<running, dataChan, alarmChan, memVars, dbVars, receiverVars,
                 smsSent, handed, now, ghostVars>>

\* Mutant: the budget is exceeded by one.
shouldSendOneMore(note) ==
  LET history == alarmHistory[alarms[note.alarm].device]
  IN Cardinality({i \in 1..note.length : history[i] > now - SMSInterval})
       <= SMSMaxPerInterval + 1

\* The rest of shouldSendSMS: the cutoff is taken from the clock only now.
shouldSendSMS(note) ==
  LET history     == alarmHistory[alarms[note.alarm].device]
      recentCount == Cardinality({i \in 1..note.length :
                                    history[i] > now - SMSInterval})
  IN note.length >= 2 => recentCount <= SMSMaxPerInterval

\* The goroutine decides.
SendAlarmSMS(note) ==
  /\ note \in smsNoted
  /\ smsNoted' = smsNoted \ {note}
  /\ smsSent' = IF shouldSendSMS(note) THEN smsSent \cup {note.alarm} ELSE smsSent
  /\ UNCHANGED <<running, dataChan, alarmChan, memVars, dbVars, receiverVars,
                 smsPending, handed, now, ghostVars>>

\* Mutant: the alarm is not looked up among the open ones.
AcknowledgeAny(id) ==
  /\ acknowledged' = acknowledged \cup {id}
  /\ dbAcked' = dbAcked \cup ({id} \cap dbRows)
  /\ UNCHANGED <<running, dataChan, alarmChan, activeAlarms, alarmHistory, alarms,
                 timestamps, resolved, dbRows, dbResolved, receiverVars, smsVars,
                 handed, ghostVars>>

\* AcknowledgeAlarm of an open alarm, called by POST /alarms/:id/acknowledge:
\* the UPDATE runs under alarmsMu and matches no row when the INSERT of
\* the alarm is still to come, which then stores it as not acknowledged.
AcknowledgeAlarm(id) ==
  /\ \E d \in Device : activeAlarms[d] = id
  /\ acknowledged' = acknowledged \cup {id}
  /\ \/ dbAcked' = dbAcked \cup ({id} \cap dbRows)
     \/ DBMayFail /\ UNCHANGED dbAcked
  /\ lostAcks' = IF pc = "save" /\ cur = id THEN lostAcks \cup {id} ELSE lostAcks \ {id}
  /\ UNCHANGED <<running, dataChan, alarmChan, activeAlarms, alarmHistory,
                 alarms, timestamps, resolved, dbRows, dbResolved, receiverVars, smsVars,
                 handed, accepted, last>>

\* Stop, called by main at shutdown.
Stop ==
  /\ running
  /\ running' = FALSE
  /\ UNCHANGED <<dataChan, alarmChan, memVars, dbVars, receiverVars, smsVars,
                 handed, ghostVars>>

Next ==
  \/ \E d \in Device, c \in Concentration : ForwardReading(d, c)
  \/ ReceiveAlarm
  \/ Tick
  \/ Receiver
  \/ \E id \in smsPending : ReadHistory(id)
  \/ \E note \in smsNoted : SendAlarmSMS(note)
  \/ \E id \in AlarmId : AcknowledgeAlarm(id)
  \/ Stop

Spec == Init /\ [][Next]_vars

-------------------------------------------------------------------------------
(* Correctness *)

\* Every variable has its type; the channels never exceed their capacity, the
\* receiver holds a reading exactly while it is grading one and an alarm
\* exactly while it is storing, triggering or resolving one.
TypeOK ==
  /\ running \in BOOLEAN
  /\ dataChan \in Seq(Reading) /\ Len(dataChan) <= DataChanCap
  /\ alarms \in Seq([device : Device, level : 1..3])
  /\ timestamps \in Seq(Nat) /\ Len(timestamps) = Len(alarms)
  /\ alarmChan \in Seq(AlarmId) /\ Len(alarmChan) <= AlarmChanCap
  /\ activeAlarms \in [Device -> {0} \cup AlarmId]
  /\ alarmHistory \in [Device -> Seq(Nat)]
  /\ acknowledged \subseteq AlarmId
  /\ resolved \subseteq AlarmId
  /\ dbRows \subseteq AlarmId
  /\ dbAcked \subseteq dbRows
  /\ dbResolved \subseteq dbRows
  /\ pc \in {"poll", "select", "check", "create", "save", "trigger",
             "resolve", "done"}
  /\ reading \in Reading \cup {NoReading}
  /\ reading # NoReading <=> pc \in {"check", "create"}
  /\ pc = "create" => getAlarmLevel(reading.conc) # 0
  /\ cur \in {0} \cup AlarmId
  /\ cur # 0 <=> pc \in {"save", "trigger", "resolve"}
  /\ stamp \in Nat
  /\ smsPending \subseteq AlarmId
  /\ smsNoted \subseteq [alarm : AlarmId, length : Nat]
  /\ smsSent \subseteq AlarmId
  /\ handed \in Seq(AlarmId)
  /\ now \in Nat
  /\ lostAcks \subseteq AlarmId
  /\ accepted \in Nat
  /\ last \in [Device -> Nat]

\* The readings of d the receiver has not finished grading.
Ungraded(d) ==
  \/ \E i \in 1..Len(dataChan) : dataChan[i].device = d
  \/ reading # NoReading /\ reading.device = d

\* Once every accepted reading of a detector has been graded, the open alarm of
\* the detector has the level of its last reading, and there is none when that
\* is below every threshold (checkAlarm).
SettledLevel ==
  \A d \in Device : ~Ungraded(d) => ActiveLevel(d) = getAlarmLevel(last[d])

\* Two consecutive alarms of a detector have the same level only when the first
\* was resolved in between: the comparison made under RLock in checkAlarm still
\* holds when createAlarm takes the lock.
NoRepeatedAlarm ==
  \A j \in AlarmId, i \in AlarmId :
    ( /\ i < j
      /\ alarms[i].device = alarms[j].device
      /\ alarms[i].level = alarms[j].level
      /\ \A k \in (i + 1)..(j - 1) : alarms[k].device # alarms[i].device )
    => i \in resolved

\* Without database errors the table lags memory by at most the one statement
\* the receiver is about to execute: every alarm has its row, and its row is
\* marked resolved, unless that INSERT or UPDATE comes next.  Acknowledgements are
\* in the table but for those made between createAlarm's unlock and its INSERT,
\* which the API confirms and the table never shows unless they are repeated.
TableFollowsMemory ==
  ~DBMayFail =>
    /\ \A id \in AlarmId \ dbRows : pc = "save" /\ cur = id
    /\ \A id \in resolved \ dbResolved : pc = "resolve" /\ cur = id
    /\ dbResolved \subseteq resolved
    /\ dbAcked = acknowledged \ lostAcks

\* EmergencyController receives alarms in the order in which they were raised,
\* none twice, and only alarms whose INSERT has been attempted.
HandedInOrder ==
  LET sent == handed \o alarmChan IN
    /\ \A i, j \in 1..Len(sent) : i < j => sent[i] < sent[j]
    /\ pc \in {"save", "trigger"} => \A i \in 1..Len(sent) : sent[i] < cur

\* Of the alarms a detector has raised within the last SMSInterval at most
\* SMSMaxPerInterval have been announced, or one when that is zero, although each
\* announcement is decided by a goroutine of its own, on a history it read before
\* and a clock it reads after (shouldSendSMS).
SMSBudget ==
  \A d \in Device :
    Cardinality({id \in smsSent : /\ alarms[id].device = d
                                  /\ timestamps[id] > now - SMSInterval})
      <= IF SMSMaxPerInterval = 0 THEN 1 ELSE SMSMaxPerInterval

\* The strengthening under which the properties above are inductive.
\* The open alarm of a detector belongs to it, is its latest and is not
\* resolved; every other alarm of it is resolved or superseded by a later one;
\* what CheckAlarm found is still true when CreateAlarm runs.
OpenAlarms ==
  /\ pc = "create" => NeedsAlarm(reading)
  /\ \A d \in Device : activeAlarms[d] # 0 =>
       /\ alarms[activeAlarms[d]].device = d
       /\ activeAlarms[d] \notin resolved
       /\ \A id \in AlarmId : alarms[id].device = d => id <= activeAlarms[d]
  /\ \A id \in AlarmId \ resolved :
       \/ activeAlarms[alarms[id].device] = id
       \/ \E k \in AlarmId : k > id /\ alarms[k].device = alarms[id].device

\* The newest ungraded reading of a detector is the last one accepted.
NewestReading ==
  /\ \A i \in 1..Len(dataChan) :
       (\A j \in (i + 1)..Len(dataChan) : dataChan[j].device # dataChan[i].device)
         => dataChan[i].conc = last[dataChan[i].device]
  /\ ( /\ reading # NoReading
       /\ \A j \in 1..Len(dataChan) : dataChan[j].device # reading.device )
     => reading.conc = last[reading.device]

\* The alarm whose row is about to be marked resolved is resolved in memory,
\* and the one being stored or triggered is the newest, with no row until then.
AlarmInHand ==
  /\ pc = "resolve" => cur \in resolved
  /\ pc \in {"save", "trigger"} => cur = Len(alarms)
  /\ pc = "save" => cur \notin dbRows

IndInv ==
  /\ TypeOK /\ OpenAlarms /\ NewestReading /\ AlarmInHand
  /\ SettledLevel /\ NoRepeatedAlarm /\ TableFollowsMemory /\ HandedInOrder

\* Every operation, cut as it is at locks and database calls, behaves like the
\* atomic one of AlarmLifecycle: what is known before an unlock is still true
\* after the next lock.
Lifecycle == INSTANCE AlarmLifecycle WITH
               Device <- Device, alarms <- alarms, activeAlarms <- activeAlarms,
               acknowledged <- acknowledged, resolved <- resolved
ImplementsLifecycle == Lifecycle!Spec
===============================================================================
