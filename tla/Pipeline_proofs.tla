----------------------------- MODULE Pipeline_proofs -----------------------------
(***************************************************************************)
(* Proofs about Pipeline for any detectors, zones, devices, thresholds and *)
(* channel capacities, and any number of restarts.  What a step of a       *)
(* module keeps is known from the proofs about the module; what is shown   *)
(* here is what a restart keeps, and what holds between the modules.       *)
(***************************************************************************)
EXTENDS Pipeline, SequenceTheorems, TLAPS

R == INSTANCE AlarmRouter_proofs WITH
  Device <- Detector, SMSMinLevel <- 0, SMSInterval <- 0, SMSMaxPerInterval <- 0, MaxTime <- 0

\* R says the same as Router.
LEMMA RouterReceiver == Router!Receiver <=> R!Receiver
<1>1. /\ Router!Poll <=> R!Poll
      /\ Router!Receive <=> R!Receive
      /\ Router!ReceiveTimeout <=> R!ReceiveTimeout
  BY DEF Router!Poll, R!Poll, Router!Receive, R!Receive, Router!ReceiveTimeout,
     R!ReceiveTimeout, Router!memVars, R!memVars, Router!dbVars, R!dbVars,
     Router!smsVars, R!smsVars, Router!ghostVars, R!ghostVars
<1>2. /\ Router!ResolveAlarm <=> R!ResolveAlarm
      /\ Router!ResolveRow <=> R!ResolveRow
  BY DEF Router!ResolveAlarm, R!ResolveAlarm, Router!ResolveRow, R!ResolveRow,
     Router!getAlarmLevel, R!getAlarmLevel, Router!memVars, R!memVars, Router!dbVars,
     R!dbVars, Router!smsVars, R!smsVars, Router!ghostVars, R!ghostVars
<1>3. Router!CheckAlarm <=> R!CheckAlarm
  BY DEF Router!CheckAlarm, R!CheckAlarm, Router!NeedsAlarm, R!NeedsAlarm,
     Router!getAlarmLevel, R!getAlarmLevel, Router!memVars, R!memVars, Router!dbVars,
     R!dbVars, Router!smsVars, R!smsVars, Router!ghostVars, R!ghostVars
<1>4. Router!CreateAlarm <=> R!CreateAlarm
  BY DEF Router!CreateAlarm, R!CreateAlarm, Router!getAlarmLevel, R!getAlarmLevel,
     Router!dbVars, R!dbVars, Router!smsVars, R!smsVars, Router!ghostVars, R!ghostVars
<1>5. /\ Router!SaveAlarm <=> R!SaveAlarm
      /\ Router!TriggerAlarm <=> R!TriggerAlarm
  BY DEF Router!SaveAlarm, R!SaveAlarm, Router!TriggerAlarm, R!TriggerAlarm,
     Router!memVars, R!memVars, Router!dbVars, R!dbVars, Router!smsVars, R!smsVars,
     Router!ghostVars, R!ghostVars
<1> QED
  BY <1>1, <1>2, <1>3, <1>4, <1>5 DEF Router!Receiver, R!Receiver

LEMMA RouterOthers ==
  /\ Router!Init <=> R!Init
  /\ \A d \in Detector, c \in Concentration :
       Router!ForwardReading(d, c) <=> R!ForwardReading(d, c)
  /\ Router!ReceiveAlarm <=> R!ReceiveAlarm
  /\ Router!Stop <=> R!Stop
  /\ \A d \in Detector : Router!Ungraded(d) <=> R!Ungraded(d)
  /\ \A c : Router!getAlarmLevel(c) = R!getAlarmLevel(c)
<1>1. Router!Init <=> R!Init
  BY DEF Router!Init, R!Init
<1>2. \A d \in Detector, c \in Concentration :
        Router!ForwardReading(d, c) <=> R!ForwardReading(d, c)
  BY DEF Router!ForwardReading, R!ForwardReading, Router!memVars, R!memVars,
     Router!dbVars, R!dbVars, Router!smsVars, R!smsVars, Router!receiverVars,
     R!receiverVars
<1>3. Router!ReceiveAlarm <=> R!ReceiveAlarm
  BY DEF Router!ReceiveAlarm, R!ReceiveAlarm, Router!memVars, R!memVars,
     Router!dbVars, R!dbVars, Router!smsVars, R!smsVars, Router!receiverVars,
     R!receiverVars, Router!ghostVars, R!ghostVars
<1>4. Router!Stop <=> R!Stop
  BY DEF Router!Stop, R!Stop, Router!memVars, R!memVars, Router!dbVars, R!dbVars,
     Router!smsVars, R!smsVars, Router!receiverVars, R!receiverVars,
     Router!ghostVars, R!ghostVars
<1>5. /\ \A d \in Detector : Router!Ungraded(d) <=> R!Ungraded(d)
      /\ \A c : Router!getAlarmLevel(c) = R!getAlarmLevel(c)
  BY DEF Router!Ungraded, R!Ungraded, Router!getAlarmLevel, R!getAlarmLevel
<1> QED
  BY <1>1, <1>2, <1>3, <1>4, <1>5

\* The readings in flight, and the last one of each detector.
Message == [nr : Nat, device : Detector, conc : Concentration \cup {Invalid}]
Last == [nr : Nat, conc : Nat \cup {Invalid}]
Fate == {"processed", "flying", "dropped", "overtaken"}

ReportTypes ==
  /\ epoch \in Nat /\ reports \in Nat
  /\ reported \in [Detector -> Last]
  /\ fate \in [Detector -> Fate]
  /\ flying \subseteq Message
  /\ \A m \in flying : m.nr <= reports

\* Steps that leave AlarmRouter alone.
RouterRests == UNCHANGED <<routerVars, running, constVars, epoch>>

LEMMA RestingRouter ==
  ASSUME RouterRests
  PROVE  UNCHANGED R!vars
BY DEF RouterRests, routerVars, constVars, R!vars

\* Every step but a restart is a step of AlarmRouter or leaves it alone.
LEMMA RouterSteps ==
  ASSUME ReportTypes, [Next]_vars
  PROVE  Restart \/ ([R!Next]_R!vars /\ UNCHANGED <<epoch, constVars>>)
<1>1. ASSUME NEW m \in flying, ProcessData(m)
      PROVE  [R!Next]_R!vars /\ UNCHANGED <<epoch, constVars>>
  <2>1. UNCHANGED <<epoch, constVars>>
    BY <1>1 DEF ProcessData, startVars
  <2>2. CASE UNCHANGED <<routerVars, running>>
    BY <2>1, <2>2, RestingRouter DEF RouterRests
  <2>3. CASE Router!ForwardReading(m.device, m.conc)
    <3>1. m.device \in Detector /\ m.conc \in Concentration
      <4>1. m \in Message /\ m.conc > AlarmForwardThreshold
        BY <2>3 DEF ReportTypes, Router!ForwardReading
      <4> QED
        BY <4>1, RouterAssumption DEF Message, Invalid
    <3> QED
      BY <2>1, <2>3, <3>1, RouterOthers DEF R!Next
  <2> QED
    BY <1>1, <2>2, <2>3 DEF ProcessData
<1>2. CASE RouterStep
  BY <1>2, RouterReceiver DEF RouterStep, routerRest, historyVars, startVars, R!Next
<1>3. CASE Hand
  BY <1>3, RouterOthers DEF Hand, historyVars, startVars, R!Next
<1>4. CASE AlarmReceiver \/ CommandProcessor \/ DeviceTask \/ CooldownOver
  <2>1. RouterRests
    BY <1>4 DEF AlarmReceiver, CommandProcessor, DeviceTask, CooldownOver,
       controllerRest, mainVars, historyVars, startVars, RouterRests
  <2> QED
    BY <2>1, RestingRouter DEF RouterRests
<1>5. CASE StopRouter
  BY <1>5, RouterOthers DEF StopRouter, historyVars, startVars, R!Next
<1>6. CASE \/ \E d \in Detector, c \in Concentration \cup {Invalid} : Arrive(d, c)
           \/ StopController \/ CloseChannels \/ MainReturns \/ Panics \/ UNCHANGED vars
  <2>1. RouterRests
    BY <1>6 DEF Arrive, StopController, CloseChannels, MainReturns, Panics, vars,
       mainVars, historyVars, startVars, RouterRests
  <2> QED
    BY <2>1, RestingRouter DEF RouterRests
<1> QED
  BY <1>1, <1>2, <1>3, <1>4, <1>5, <1>6 DEF Next, Main

-------------------------------------------------------------------------------
(* AlarmRouter across restarts *)

\* What remains true of AlarmRouter when the program starts again: the alarms raised
\* before, the first epoch ones, are forgotten, and so are the readings.
RouterInv ==
  /\ R!TypeOK /\ R!AlarmInHand
  /\ R!OpenIsLatest /\ R!NoneForgotten(epoch)
  /\ R!NewestReading /\ R!SettledLevel
  /\ R!TableLags(epoch) /\ R!HeardFirst(epoch)

\* The last accepted reading is the last one that has arrived, if this one has been
\* processed and is above the threshold, and no earlier one came after it.
LastReported ==
  /\ \A d \in Detector :
       \/ last[d] = 0 \/ last[d] = reported[d].conc
       \/ reported[d].conc <= AlarmForwardThreshold \/ fate[d] # "processed"
  /\ \A m \in flying : m.nr = reported[m.device].nr => m.conc = reported[m.device].conc

\* The facts about the constants that the lemmas of AlarmRouter ask for.
LEMMA RouterFacts ==
  /\ Concentration \subseteq Nat /\ AlarmForwardThreshold \in Nat
  /\ Level1Threshold \in Nat \ {0} /\ Level2Threshold \in Nat \ {0}
  /\ Level3Threshold \in Nat \ {0}
  /\ DataChanCap \in Nat /\ AlarmChanCap \in Nat /\ AlarmChanCap # 0
  /\ DBMayFail \in BOOLEAN /\ MaxReadings \in Nat
  /\ 0 \in Nat /\ NoReading \notin R!Reading
BY RouterAssumption, BoundAssumption DEF R!Reading

\* A restart keeps it: it forgets all alarms so far.
LEMMA RouterRestarts ==
  ASSUME RouterInv, Restart
  PROVE  RouterInv' /\ epoch' \in Nat
<1>1. /\ dataChan' = <<>> /\ alarmChan' = <<>> /\ activeAlarms' = [d \in Detector |-> 0]
      /\ alarmHistory' = [d \in Detector |-> <<>>] /\ pc' = "poll"
      /\ reading' = NoReading /\ cur' = 0 /\ stamp' = 0 /\ smsPending' = {}
      /\ last' = [d \in Detector |-> 0] /\ running' = TRUE
      /\ UNCHANGED <<alarms, timestamps, resolved, dbRows, dbResolved, handed, accepted>>
      /\ epoch' = Len(alarms)
  BY DEF Restart
<1>2. UNCHANGED <<acknowledged, dbAcked, smsNoted, smsSent, now, lostAcks>>
  BY DEF Restart, constVars
<1>3. R!AlarmId' = R!AlarmId /\ Len(alarms) \in Nat /\ resolved \subseteq R!AlarmId
  BY <1>1 DEF R!AlarmId, RouterInv, R!TypeOK
<1>4. /\ dataChan' \in Seq(R!Reading) /\ Len(dataChan') = 0
      /\ alarmChan' \in Seq(R!AlarmId') /\ Len(alarmChan') = 0
  BY <1>1, EmptySeq
<1>5. R!TypeOK'
  <2>1. /\ alarms \in Seq([device : Detector, level : 1..3])
        /\ timestamps \in Seq(Nat) /\ Len(timestamps) = Len(alarms)
        /\ acknowledged \subseteq R!AlarmId /\ resolved \subseteq R!AlarmId
        /\ dbRows \subseteq R!AlarmId /\ dbAcked \subseteq dbRows
        /\ dbResolved \subseteq dbRows /\ smsSent \subseteq R!AlarmId
        /\ smsNoted \subseteq [alarm : R!AlarmId, length : Nat]
        /\ lostAcks \subseteq R!AlarmId
        /\ handed \in Seq(R!AlarmId) /\ now \in Nat /\ accepted \in Nat
    BY DEF RouterInv, R!TypeOK
  <2>2. /\ activeAlarms' \in [Detector -> {0} \cup R!AlarmId']
        /\ last' \in [Detector -> Nat]
        /\ alarmHistory' \in [Detector -> Seq(Nat)]
    BY <1>1, EmptySeq
  <2>3. Len(dataChan') <= DataChanCap /\ Len(alarmChan') <= AlarmChanCap
    BY <1>4, RouterFacts
  <2>4. handed' \in Seq(R!AlarmId')
    BY <1>1, <1>3, <2>1
  <2> QED
    BY <1>1, <1>2, <1>3, <1>4, <2>1, <2>2, <2>3, <2>4 DEF R!TypeOK
<1>6. R!AlarmInHand' /\ R!OpenIsLatest'
  BY <1>1 DEF R!AlarmInHand, R!OpenIsLatest
<1>7. R!NoneForgotten(epoch)'
  BY <1>1, <1>3 DEF R!NoneForgotten, R!AlarmId
<1>8. R!NewestReading'
  BY <1>1, <1>4 DEF R!NewestReading
<1>9. R!SettledLevel'
  BY <1>1, RouterFacts DEF R!SettledLevel, R!ActiveLevel, R!getAlarmLevel
<1>10. R!TableLags(epoch)'
  <2>1. /\ ~DBMayFail => dbResolved \subseteq resolved
        /\ resolved \subseteq R!AlarmId
    BY DEF RouterInv, R!TableLags, R!TypeOK
  <2> QED
    BY <1>1, <1>2, <1>3, <2>1 DEF R!TableLags, R!AlarmId
<1>11. R!HeardFirst(epoch)'
  BY <1>1, <1>3, <1>4 DEF R!HeardFirst, R!Ungraded, R!AlarmId
<1> QED
  BY <1>1, <1>3, <1>5, <1>6, <1>7, <1>8, <1>9, <1>10, <1>11 DEF RouterInv

\* Every step keeps it.
LEMMA RouterInvStep ==
  ASSUME RouterInv, ReportTypes, [Next]_vars
  PROVE  RouterInv'
<1>1. CASE Restart
  BY <1>1, RouterRestarts
<1>2. CASE [R!Next]_R!vars /\ UNCHANGED <<epoch, constVars>>
  <2>1. \A e \in Nat : e = epoch => RouterInv'
    <3>1. SUFFICES ASSUME NEW e \in Nat, e = epoch PROVE RouterInv'
      OBVIOUS
    <3>2. /\ R!TypeOK /\ R!AlarmInHand /\ R!OpenIsLatest /\ R!NoneForgotten(e)
          /\ R!NewestReading /\ R!SettledLevel /\ R!TableLags(e) /\ R!HeardFirst(e)
      BY <3>1 DEF RouterInv
    <3>3. R!TypeOK'
      BY <1>2, <3>2, RouterFacts, R!TypeStep
    <3>4. R!OpenIsLatest' /\ R!NoneForgotten(e)'
      BY <1>2, <3>2, RouterFacts, R!OpenAlarmsStep
    <3>5. R!NewestReading' /\ R!SettledLevel'
      BY <1>2, <3>2, RouterFacts, R!SettledStep
    <3>6. R!AlarmInHand' /\ R!TableLags(e)'
      BY <1>2, <3>2, RouterFacts, R!TableStep
    <3>7. R!HeardFirst(e)'
      BY <1>2, <3>2, RouterFacts, R!HeardStep
    <3>8. epoch' = e
      BY <1>2, <3>1
    <3>9. R!NoneForgotten(epoch)' /\ R!TableLags(epoch)' /\ R!HeardFirst(epoch)'
      BY <3>4, <3>6, <3>7, <3>8 DEF R!NoneForgotten, R!TableLags, R!HeardFirst
    <3> QED
      BY <3>3, <3>4, <3>5, <3>6, <3>9 DEF RouterInv
  <2> QED
    BY <2>1 DEF ReportTypes
<1> QED
  BY <1>1, <1>2, RouterSteps

-------------------------------------------------------------------------------
(* The readings reported *)

LEMMA ArriveStep ==
  ASSUME ReportTypes, LastReported, NEW d \in Detector,
         NEW c \in Concentration \cup {Invalid}, Arrive(d, c)
  PROVE  ReportTypes' /\ LastReported'
<1> DEFINE m == [nr |-> reports', device |-> d, conc |-> c]
<1>1. /\ reports' = reports + 1 /\ epoch' = epoch /\ last' = last
      /\ flying' = flying \cup {m}
      /\ reported' = [reported EXCEPT ![d] = [nr |-> reports', conc |-> c]]
      /\ fate' = [fate EXCEPT ![d] = "flying"]
  BY DEF Arrive, startVars, routerVars
<1>2. reports \in Nat /\ reports' \in Nat /\ c \in Nat \cup {Invalid}
  BY <1>1, RouterFacts DEF ReportTypes
<1>3. m \in Message /\ m.nr = reports' /\ m.device = d /\ m.conc = c
  BY <1>2 DEF Message
<1> HIDE DEF m
<1>4. [nr |-> reports', conc |-> c] \in Last
  BY <1>2 DEF Last
<1>5. reported' \in [Detector -> Last]
  BY <1>1, <1>4 DEF ReportTypes
<1>6. fate' \in [Detector -> Fate]
  BY <1>1 DEF ReportTypes, Fate
<1>7. flying' \subseteq Message /\ \A k \in flying' : k.nr <= reports'
  <2>1. \A k \in flying : k \in Message /\ k.nr \in Nat /\ k.nr <= reports
    BY DEF ReportTypes, Message
  <2> QED
    BY <1>1, <1>2, <1>3, <2>1
<1>8. ReportTypes'
  BY <1>1, <1>2, <1>5, <1>6, <1>7 DEF ReportTypes
<1>9. /\ reported'[d].nr = reports' /\ reported'[d].conc = c /\ fate'[d] = "flying"
      /\ \A e \in Detector : e # d => reported'[e] = reported[e] /\ fate'[e] = fate[e]
  BY <1>1 DEF ReportTypes
<1>10. ASSUME NEW e \in Detector
       PROVE  \/ last'[e] = 0 \/ last'[e] = reported'[e].conc
              \/ reported'[e].conc <= AlarmForwardThreshold \/ fate'[e] # "processed"
  BY <1>1, <1>9 DEF LastReported
<1>11. ASSUME NEW k \in flying', k.nr = reported'[k.device].nr
       PROVE  k.conc = reported'[k.device].conc
  <2>1. CASE k = m
    BY <1>3, <1>9, <2>1
  <2>2. CASE k \in flying
    <3>1. k.device \in Detector /\ k.nr \in Nat /\ k.nr <= reports
      BY <2>2 DEF ReportTypes, Message
    <3>2. k.nr # reports'
      BY <1>1, <1>2, <3>1
    <3>3. k.device # d
      BY <1>9, <1>11, <3>2
    <3> QED
      BY <1>9, <1>11, <2>2, <3>1, <3>3 DEF LastReported
  <2> QED
    BY <1>1, <2>1, <2>2
<1> QED
  BY <1>8, <1>10, <1>11 DEF LastReported

LEMMA ProcessStep ==
  ASSUME R!TypeOK, ReportTypes, LastReported, NEW m \in flying, ProcessData(m)
  PROVE  ReportTypes' /\ LastReported'
<1> DEFINE d == m.device
<1>1. /\ reports' = reports /\ epoch' = epoch /\ reported' = reported
      /\ flying' = flying \ {m}
  BY DEF ProcessData, startVars
<1>2. d \in Detector /\ m.nr \in Nat
  BY DEF ReportTypes, Message
<1>3. last \in [Detector -> Nat]
  BY DEF R!TypeOK
<1>4. \/ /\ m.conc <= AlarmForwardThreshold /\ last' = last
         /\ EndsWith(m, "processed")
      \/ last' = last /\ EndsWith(m, "dropped")
      \/ /\ last' = [last EXCEPT ![d] = m.conc] /\ Overtaken(m)
         /\ fate' = [fate EXCEPT ![d] = "overtaken"]
      \/ /\ last' = [last EXCEPT ![d] = m.conc] /\ ~Overtaken(m)
         /\ EndsWith(m, "processed")
  BY DEF ProcessData, routerVars, Router!ForwardReading
<1>5. /\ \E f \in Fate : fate' = [fate EXCEPT ![d] = f] \/ fate' = fate
      /\ \A e \in Detector : e # d => fate'[e] = fate[e] /\ last'[e] = last[e]
  BY <1>2, <1>3, <1>4 DEF EndsWith, Fate, ReportTypes
<1>6. ReportTypes'
  <2>1. fate' \in [Detector -> Fate]
    BY <1>5 DEF ReportTypes
  <2> QED
    BY <1>1, <2>1 DEF ReportTypes
<1>7. \/ last'[d] = 0 \/ last'[d] = reported[d].conc
      \/ reported[d].conc <= AlarmForwardThreshold \/ fate'[d] # "processed"
  <2>1. m.nr = reported[d].nr => m.conc = reported[d].conc
    BY DEF LastReported
  <2>2. /\ fate \in [Detector -> Fate]
        /\ \/ last[d] = 0 \/ last[d] = reported[d].conc
           \/ reported[d].conc <= AlarmForwardThreshold \/ fate[d] # "processed"
    BY <1>2 DEF LastReported, ReportTypes
  <2> QED
    BY <1>2, <1>3, <1>4, <2>1, <2>2 DEF EndsWith, Overtaken
<1>8. \A e \in Detector :
        \/ last'[e] = 0 \/ last'[e] = reported[e].conc
        \/ reported[e].conc <= AlarmForwardThreshold \/ fate'[e] # "processed"
  BY <1>5, <1>7 DEF LastReported
<1> QED
  BY <1>1, <1>6, <1>8 DEF LastReported

LEMMA ReportStep ==
  ASSUME R!TypeOK, ReportTypes, LastReported, [Next]_vars
  PROVE  ReportTypes' /\ LastReported'
<1>1. CASE \E d \in Detector, c \in Concentration \cup {Invalid} : Arrive(d, c)
  BY <1>1, ArriveStep
<1>2. CASE \E m \in flying : ProcessData(m)
  BY <1>2, ProcessStep
<1>3. CASE Restart
  <2>1. /\ last' = [d \in Detector |-> 0] /\ fate' = [d \in Detector |-> "processed"]
        /\ reported' = [d \in Detector |-> [nr |-> 0, conc |-> 0]]
        /\ flying' = {} /\ reports' = reports
        /\ epoch' = Len(alarms) /\ Len(alarms) \in Nat
    BY <1>3 DEF Restart, R!TypeOK
  <2>2. [nr |-> 0, conc |-> 0] \in Last
    BY DEF Last
  <2> QED
    BY <2>1, <2>2 DEF ReportTypes, LastReported, Fate
<1>4. ASSUME UNCHANGED <<last, historyVars>> PROVE ReportTypes' /\ LastReported'
  BY <1>4 DEF historyVars, startVars, ReportTypes, LastReported
<1>5. RouterStep => UNCHANGED <<last, historyVars>>
  BY DEF RouterStep, routerRest, Router!Receiver, Router!Poll, Router!Receive,
     Router!ReceiveTimeout, Router!ResolveAlarm, Router!ResolveRow, Router!CheckAlarm,
     Router!CreateAlarm, Router!SaveAlarm, Router!TriggerAlarm, Router!ghostVars
<1>6. Hand \/ StopRouter => UNCHANGED <<last, historyVars>>
  BY DEF Hand, StopRouter, Router!ReceiveAlarm, Router!Stop, Router!ghostVars
<1>7. AlarmReceiver \/ CommandProcessor \/ DeviceTask \/ CooldownOver \/ StopController
      \/ CloseChannels \/ MainReturns \/ Panics \/ UNCHANGED vars
        => UNCHANGED <<last, historyVars>>
  BY DEF AlarmReceiver, CommandProcessor, DeviceTask, CooldownOver, StopController,
     CloseChannels, MainReturns, Panics, vars, controllerRest, routerVars
<1> QED
  BY <1>1, <1>2, <1>3, <1>4, <1>5, <1>6, <1>7 DEF Next, Main

\* The table tells the truth, but for the exceptions of TableTellsTruth.
LEMMA TruthFollows ==
  ASSUME RouterInv, ReportTypes, LastReported
  PROVE  TableTellsTruth
<1>1. SUFFICES ASSUME NEW a \in dbRows \ dbResolved,
                      ~Router!Ungraded(alarms[a].device),
                      ~(pc = "resolve" /\ cur = a),
                      ~\E b \in a + 1..Len(alarms) : alarms[b].device = alarms[a].device,
                      ~(a <= epoch), ~(DBMayFail /\ a \in resolved),
                      ~(reported[alarms[a].device].conc <= AlarmForwardThreshold),
                      fate[alarms[a].device] \notin {"flying", "dropped", "overtaken"}
               PROVE  Router!getAlarmLevel(reported[alarms[a].device].conc) = alarms[a].level
  BY DEF TableTellsTruth
<1> DEFINE d == alarms[a].device
<1>2. a \in R!AlarmId /\ d \in Detector
  <2>1. a \in R!AlarmId
    BY DEF RouterInv, R!TypeOK
  <2>2. alarms \in Seq([device : Detector, level : 1..3])
    BY DEF RouterInv, R!TypeOK
  <2>3. alarms[a] \in [device : Detector, level : 1..3]
    BY <2>1, <2>2, ElementOfSeq DEF R!AlarmId
  <2> QED
    BY <2>1, <2>3
<1>3. last[d] = reported[d].conc
  <2>1. last[d] # 0
    BY <1>1, <1>2 DEF RouterInv, R!HeardFirst
  <2>2. fate[d] = "processed"
    BY <1>1, <1>2 DEF ReportTypes, Fate
  <2> QED
    BY <1>1, <1>2, <2>1, <2>2 DEF LastReported
<1>4. a \notin resolved
  BY <1>1 DEF RouterInv, R!TableLags
<1>5. activeAlarms[d] = a
  <2>1. \/ activeAlarms[d] = a
        \/ \E k \in R!AlarmId : k > a /\ alarms[k].device = d
    BY <1>1, <1>2, <1>4 DEF RouterInv, R!NoneForgotten
  <2>2. \A k \in R!AlarmId : k > a => k \in a + 1..Len(alarms)
    BY <1>2 DEF R!AlarmId
  <2> QED
    BY <1>1, <2>1, <2>2
<1>6. R!ActiveLevel(d) = R!getAlarmLevel(last[d])
  BY <1>1, <1>2, RouterOthers DEF RouterInv, R!SettledLevel
<1>7. a # 0
  BY <1>2 DEF R!AlarmId
<1> QED
  BY <1>3, <1>5, <1>6, <1>7, RouterOthers DEF R!ActiveLevel

LEMMA TruthInit == Init => RouterInv /\ ReportTypes /\ LastReported
<1> SUFFICES ASSUME Init PROVE RouterInv /\ ReportTypes /\ LastReported
  OBVIOUS
<1>1. /\ R!Init /\ epoch = 0 /\ reports = 0 /\ flying = {}
      /\ reported = [d \in Detector |-> [nr |-> 0, conc |-> 0]]
      /\ fate = [d \in Detector |-> "processed"]
  BY RouterOthers DEF Init
<1>2. R!TypeOK
  BY <1>1, RouterFacts, R!TypeInit
<1>3. R!AlarmInHand /\ R!OpenIsLatest /\ R!NoneForgotten(epoch)
  BY <1>1 DEF R!Init, R!AlarmInHand, R!OpenIsLatest, R!NoneForgotten, R!AlarmId
<1>4. R!NewestReading /\ R!SettledLevel
  BY <1>1, RouterFacts DEF R!Init, R!NewestReading, R!SettledLevel, R!ActiveLevel,
     R!getAlarmLevel
<1>5. R!TableLags(epoch) /\ R!HeardFirst(epoch)
  BY <1>1 DEF R!Init, R!TableLags, R!HeardFirst, R!AlarmId, R!Ungraded
<1>6. ReportTypes /\ LastReported
  <2>1. [nr |-> 0, conc |-> 0] \in Last
    BY DEF Last
  <2> QED
    BY <1>1, <2>1 DEF R!Init, ReportTypes, LastReported, Fate
<1> QED
  BY <1>2, <1>3, <1>4, <1>5, <1>6 DEF RouterInv

\* The open rows tell the levels of the detectors, but for the exceptions the property
\* lists, however the readings overtake each other, whichever are refused or dropped, and
\* through alarms that replace others, statements that fail, and restarts.
THEOREM TableTellsTruthCorrect == Spec => []TableTellsTruth
<1> DEFINE Inv == RouterInv /\ ReportTypes /\ LastReported
<1>1. Init => Inv
  BY TruthInit
<1>2. Inv /\ [Next]_vars => Inv'
  BY RouterInvStep, ReportStep DEF RouterInv
<1>3. Inv => TableTellsTruth
  BY TruthFollows
<1> QED
  BY <1>1, <1>2, <1>3, PTL DEF Spec

-------------------------------------------------------------------------------
(* EmergencyController *)

E == INSTANCE EmergencyController_proofs WITH
  Level <- 1..3, MaxFaults <- 0, MaxResets <- 0, MaxAlarms <- MaxReadings,
  running <- controlling

\* E says the same as Controller.
LEMMA ControllerReceiver ==
  /\ Controller!AlarmReceiver <=> E!AlarmReceiver
  /\ \A z \in Zone, l \in 1..3 : Controller!ReceiveAlarm(z, l) <=> E!ReceiveAlarm(z, l)
<1>1. Controller!AlarmReceiver <=> E!AlarmReceiver
  BY DEF Controller!AlarmReceiver, E!AlarmReceiver, Controller!Poll, E!Poll,
     Controller!ReceiveTimeout, E!ReceiveTimeout, Controller!SendCommand, E!SendCommand,
     Controller!Panic, E!Panic, Controller!HandleAlarmReturns, E!HandleAlarmReturns,
     Controller!procVars, E!procVars, Controller!resetVars, E!resetVars
<1>2. \A z \in Zone, l \in 1..3 : Controller!ReceiveAlarm(z, l) <=> E!ReceiveAlarm(z, l)
  BY DEF Controller!ReceiveAlarm, E!ReceiveAlarm, Controller!CommandsFor, E!CommandsFor,
     Controller!procVars, E!procVars, Controller!resetVars, E!resetVars
<1> QED
  BY <1>1, <1>2

LEMMA ControllerProcessor == Controller!CommandProcessor <=> E!CommandProcessor
<1>1. /\ \A S, z : Controller!InZone(S, z) = E!InZone(S, z)
      /\ \A kind : Controller!DevicesOf(kind) = E!DevicesOf(kind)
      /\ \A n : Controller!Failures(n) <=> E!Failures(n)
      /\ \A cmd : Controller!OrderOf(cmd) = E!OrderOf(cmd)
      /\ Controller!Device = E!Device
  BY DEF Controller!InZone, E!InZone, Controller!DevicesOf, E!DevicesOf,
     Controller!Failures, E!Failures, Controller!OrderOf, E!OrderOf, Controller!Device,
     E!Device
<1>2. Controller!TakeCommand <=> E!TakeCommand
  BY <1>1 DEF Controller!TakeCommand, E!TakeCommand, Controller!Targets, E!Targets,
     Controller!recvVars, E!recvVars,
     Controller!resetVars, E!resetVars
<1>3. /\ Controller!MarkControlled <=> E!MarkControlled
      /\ Controller!CommandDone <=> E!CommandDone
      /\ Controller!ProcessorExits <=> E!ProcessorExits
  BY <1>1 DEF Controller!MarkControlled, E!MarkControlled, Controller!CommandDone,
     E!CommandDone, Controller!ProcessorExits, E!ProcessorExits, Controller!recvVars,
     E!recvVars, Controller!resetVars, E!resetVars
<1>4. \A d : Controller!CanControl(d) <=> E!CanControl(d)
  BY DEF Controller!CanControl, E!CanControl, Controller!recvVars, E!recvVars,
     Controller!resetVars, E!resetVars
<1> QED
  BY <1>1, <1>2, <1>3, <1>4 DEF Controller!CommandProcessor, E!CommandProcessor

LEMMA ControllerOthers ==
  /\ Controller!Init <=> E!Init
  /\ \A i : Controller!TaskStep(i) <=> E!TaskStep(i)
  /\ \A d : Controller!CooldownOver(d) <=> E!CooldownOver(d)
  /\ Controller!Stop <=> E!Stop
<1>1. \A n : Controller!Failures(n) <=> E!Failures(n)
  BY DEF Controller!Failures, E!Failures
<1>2. \A i : Controller!TaskStep(i) <=> E!TaskStep(i)
  <2>1. \A i : Controller!ControlDevice(i) <=> E!ControlDevice(i)
    BY <1>1 DEF Controller!ControlDevice, E!ControlDevice, Controller!recvVars, E!recvVars,
       Controller!procVars, E!procVars, Controller!resetVars, E!resetVars
  <2>2. \A i : Controller!UpdateRow(i) <=> E!UpdateRow(i)
    BY <1>1 DEF Controller!UpdateRow, E!UpdateRow, Controller!recvVars, E!recvVars,
       Controller!procVars, E!procVars, Controller!resetVars, E!resetVars
  <2>3. \A i : Controller!LogControl(i) <=> E!LogControl(i)
    BY <1>1 DEF Controller!LogControl, E!LogControl, Controller!recvVars, E!recvVars,
       Controller!procVars, E!procVars, Controller!resetVars, E!resetVars
  <2> QED
    BY <2>1, <2>2, <2>3 DEF Controller!TaskStep, E!TaskStep
<1>3. /\ \A d : Controller!CooldownOver(d) <=> E!CooldownOver(d)
      /\ Controller!Stop <=> E!Stop
  BY DEF Controller!CooldownOver, E!CooldownOver, Controller!Stop, E!Stop,
     Controller!recvVars, E!recvVars, Controller!procVars, E!procVars,
     Controller!resetVars, E!resetVars
<1>4. Controller!Init <=> E!Init
  BY DEF Controller!Init, E!Init, Controller!Device, E!Device, Controller!Rest, E!Rest
<1> QED
  BY <1>2, <1>3, <1>4

\* Steps that leave EmergencyController alone.
ControllerRests == UNCHANGED <<controllerVars, controlling, closed, constVars>>

\* Every step but a restart is a step of EmergencyController or leaves it alone, and none
\* that main allows makes it panic: Panics comes first.
LEMMA ControllerSteps ==
  ASSUME E!TypeOK, RouterInv, recvPc # "panic", [Next]_vars
  PROVE  Restart \/ ([E!Next]_E!vars /\ recvPc' # "panic")
<1>1. ASSUME ControllerRests PROVE [E!Next]_E!vars /\ recvPc' # "panic"
  BY <1>1 DEF ControllerRests, controllerVars, constVars, E!vars
<1>2. CASE \/ \E d \in Detector, c \in Concentration \cup {Invalid} : Arrive(d, c)
           \/ \E m \in flying : ProcessData(m)
  BY <1>1, <1>2 DEF Arrive, ProcessData, mainVars, ControllerRests
<1>3. CASE RouterStep
  BY <1>1, <1>3 DEF RouterStep, routerRest, mainVars, ControllerRests
<1>4. CASE Hand
  <2>1. alarms \in Seq([device : Detector, level : 1..3])
    BY DEF RouterInv, R!TypeOK
  <2>2. Head(alarmChan) \in R!AlarmId
    BY <1>4, HeadTailProperties DEF RouterInv, R!TypeOK, Hand, Router!ReceiveAlarm
  <2>3. alarms[Head(alarmChan)] \in [device : Detector, level : 1..3]
    BY <2>1, <2>2, ElementOfSeq DEF R!AlarmId
  <2>4. PICK z \in Zone, l \in 1..3 : Controller!ReceiveAlarm(z, l)
    BY <1>4, <2>3, FireZoneAssumption DEF Hand
  <2>5. E!ReceiveAlarm(z, l)
    BY <2>4, ControllerReceiver
  <2> QED
    BY <2>5 DEF E!Next, E!ReceiveAlarm
<1>5. CASE AlarmReceiver
  <2>1. E!AlarmReceiver /\ ~ControllerSendsOnClosed
    BY <1>5, ControllerReceiver DEF AlarmReceiver
  <2>2. ~E!Panic
    BY <2>1 DEF E!Panic, ControllerSendsOnClosed
  <2>3. recvPc' # "panic"
    BY <2>1, <2>2 DEF E!AlarmReceiver, E!Poll, E!ReceiveTimeout, E!SendCommand,
       E!HandleAlarmReturns
  <2> QED
    BY <2>1, <2>3 DEF E!Next
<1>6. CASE CommandProcessor
  <2>1. E!CommandProcessor
    BY <1>6, ControllerProcessor DEF CommandProcessor
  <2>2. recvPc' = recvPc
    BY <2>1 DEF E!CommandProcessor, E!TakeCommand, E!MarkControlled, E!CommandDone,
       E!ProcessorExits, E!CanControl, E!recvVars
  <2> QED
    BY <2>1, <2>2 DEF E!Next
<1>7. CASE DeviceTask
  <2>1. PICK i \in 1..Len(tasks) : E!TaskStep(i)
    BY <1>7, ControllerOthers, LenProperties DEF DeviceTask, E!TypeOK
  <2>2. recvPc' = recvPc
    BY <2>1 DEF E!TaskStep, E!ControlDevice, E!UpdateRow, E!LogControl, E!recvVars
  <2> QED
    BY <2>1, <2>2 DEF E!Next
<1>8. CASE CooldownOver \/ StopController
  BY <1>8, ControllerOthers DEF CooldownOver, StopController, E!CooldownOver, E!Stop,
     E!recvVars, E!Next, E!Device
<1>9. CASE StopRouter \/ CloseChannels \/ MainReturns \/ Panics \/ UNCHANGED vars
  BY <1>1, <1>9 DEF StopRouter, CloseChannels, MainReturns, Panics, vars, mainVars,
     ControllerRests
<1> QED
  BY <1>2, <1>3, <1>4, <1>5, <1>6, <1>7, <1>8, <1>9 DEF Next, Main

-------------------------------------------------------------------------------
(* The commands of the alarms across restarts *)

\* The commands on their way belong to the alarms received since the last start, and are
\* in the order of the alarms.
WorkInOrder ==
  /\ \A i \in 1..Len(E!Work) : heard < E!Work[i].alarm /\ E!Work[i].alarm <= Len(received)
  /\ \A i, j \in 1..Len(E!Work) : i < j => E!Work[i].alarm <= E!Work[j].alarm

\* A command is processed, or on its way, or lost by a restart.
AskedFollowed ==
  \A i \in 1..Len(asked) :
    /\ asked[i].alarm <= Len(received)
    /\ \/ asked[i].alarm <= heard
       \/ \E j \in 1..Len(handled) : handled[j] = asked[i]
       \/ \E j \in 1..Len(E!Work) : E!Work[j] = asked[i]

\* What is received is what has been handed over, in this order.
ChainInv ==
  /\ R!HandedInOrder /\ E!TypeOK /\ recvPc # "panic"
  /\ Len(handed) = Len(received) /\ heard \in 0..Len(received)
  /\ WorkInOrder /\ AskedFollowed

\* The facts about the constants that the lemmas of EmergencyController ask for.
LEMMA ControllerFacts ==
  /\ ZoneOf \in [Valve \cup Fan -> Zone] /\ Valve \cap Fan = {}
  /\ NoDevice \notin Valve \cup Fan
  /\ 1..3 \subseteq Nat /\ ValveControlLevel \in Nat /\ EvacuationLevel \in Nat
  /\ FanSpeedHighLevel \in Nat
  /\ CommandChanCap \in Nat \ {0} /\ MaxReadings \in Nat /\ 0 \in Nat
BY ControllerAssumption, BoundAssumption

\* Only Hand and a restart touch what both modules have seen of the alarms.
LEMMA HandFrame ==
  ASSUME [Next]_vars
  PROVE  Restart \/ Hand \/ UNCHANGED <<handed, received, heard>>
<1>1. CASE \/ \E d \in Detector, c \in Concentration \cup {Invalid} : Arrive(d, c)
           \/ \E m \in flying : ProcessData(m)
  BY <1>1 DEF Arrive, ProcessData, Router!ForwardReading, routerVars, controllerVars,
     startVars
<1>2. CASE RouterStep
  BY <1>2 DEF RouterStep, Router!Receiver, Router!Poll, Router!Receive,
     Router!ReceiveTimeout, Router!ResolveAlarm, Router!ResolveRow, Router!CheckAlarm,
     Router!CreateAlarm, Router!SaveAlarm, Router!TriggerAlarm, routerRest,
     controllerVars, historyVars, startVars
<1>3. CASE AlarmReceiver
  BY <1>3 DEF AlarmReceiver, Controller!AlarmReceiver, Controller!Poll,
     Controller!ReceiveTimeout, Controller!SendCommand, Controller!Panic,
     Controller!HandleAlarmReturns, controllerRest, routerVars, historyVars, startVars
<1>4. CASE CommandProcessor
  BY <1>4 DEF CommandProcessor, Controller!CommandProcessor, Controller!TakeCommand,
     Controller!MarkControlled, Controller!CommandDone, Controller!ProcessorExits,
     Controller!CanControl, Controller!recvVars, controllerRest, routerVars,
     historyVars, startVars
<1>5. CASE DeviceTask \/ CooldownOver \/ StopController
  BY <1>5 DEF DeviceTask, CooldownOver, StopController, Controller!TaskStep,
     Controller!ControlDevice, Controller!UpdateRow, Controller!LogControl,
     Controller!CooldownOver, Controller!Stop, Controller!recvVars, controllerRest,
     routerVars, historyVars, startVars
<1>6. CASE StopRouter
  BY <1>6 DEF StopRouter, Router!Stop, controllerVars, historyVars, startVars
<1>7. CASE CloseChannels \/ MainReturns \/ Panics \/ UNCHANGED vars
  BY <1>7 DEF CloseChannels, MainReturns, Panics, vars, routerVars, controllerVars,
     historyVars, startVars
<1> QED
  BY <1>1, <1>2, <1>3, <1>4, <1>5, <1>6, <1>7 DEF Next, Main

\* A restart loses the commands on their way.
LEMMA ControllerRestarts ==
  ASSUME RouterInv, ChainInv, Restart
  PROVE  ChainInv'
<1>1. /\ handed \in Seq(R!AlarmId) /\ alarmChan \in Seq(R!AlarmId)
      /\ R!HandedInOrder /\ E!TypeOK
      /\ received \in Seq(E!Alarm) /\ Len(received) \in Nat
      /\ asked \in Seq(E!Command)
  BY LenProperties DEF RouterInv, R!TypeOK, ChainInv, E!TypeOK
<1>2. /\ alarmChan' = <<>> /\ handed' = handed /\ pc' = "poll"
      /\ received' = received /\ heard' = Len(received) /\ asked' = asked
      /\ handled' = handled /\ job' = <<>> /\ commandChan' = <<>> /\ offer' = <<>>
      /\ recvPc' = "poll"
  BY DEF Restart
<1>3. R!HandedInOrder'
  <2>1. handed \o <<>> = handed
    BY <1>1, ConcatEmptySeq
  <2>2. /\ Len(handed \o alarmChan) = Len(handed) + Len(alarmChan)
        /\ Len(handed) \in Nat /\ Len(alarmChan) \in Nat
        /\ \A i \in 1..Len(handed) : (handed \o alarmChan)[i] = handed[i]
    BY <1>1, ConcatProperties, LenProperties
  <2>3. (handed \o alarmChan)' = handed
    BY <1>2, <2>1
  <2>4. \A i, j \in 1..Len(handed) : i < j => handed[i] < handed[j]
    <3>1. SUFFICES ASSUME NEW i \in 1..Len(handed), NEW j \in 1..Len(handed), i < j
                   PROVE  handed[i] < handed[j]
      OBVIOUS
    <3>2. /\ i \in 1..Len(handed \o alarmChan) /\ j \in 1..Len(handed \o alarmChan)
          /\ (handed \o alarmChan)[i] = handed[i] /\ (handed \o alarmChan)[j] = handed[j]
      BY <2>2
    <3> QED
      BY <1>1, <3>1, <3>2 DEF R!HandedInOrder
  <2> QED
    BY <1>2, <2>3, <2>4 DEF R!HandedInOrder
<1>4. E!TypeOK'
  <2>1. /\ tasks' \in Seq(E!Task) /\ Len(tasks') = Len(tasks)
    <3>1. tasks \in Seq(E!Task)
      BY DEF ChainInv, E!TypeOK
    <3>2. tasks' = [i \in 1..Len(tasks) |-> [tasks[i] EXCEPT !.pc = "done"]]
      BY <3>1, LenProperties DEF Restart
    <3>3. \A i \in 1..Len(tasks) : [tasks[i] EXCEPT !.pc = "done"] \in E!Task
      <4>1. \A i \in 1..Len(tasks) : tasks[i] \in E!Task
        BY <3>1, ElementOfSeq
      <4> QED
        BY <4>1 DEF E!Task
    <3> QED
      BY <3>1, <3>2, <3>3, LenProperties, SeqDef
  <2>2. \A S : <<>> \in Seq(S) /\ Len(<<>>) = 0
    BY EmptySeq
  <2>3. UNCHANGED <<constVars, received, told, row, logs, asked, handled, unfound, passed,
                    executed>>
    BY DEF Restart
  <2>4. /\ offer' \in Seq(E!Command) /\ commandChan' \in Seq(E!Command)
        /\ Len(commandChan') <= CommandChanCap
    BY <1>2, <2>2, ControllerFacts
  <2> QED
    <3>1. /\ controlling' = TRUE /\ closed' = FALSE /\ procPc' = "range" /\ left' = {}
          /\ device' = NoDevice /\ activeControls' = [x \in E!Device |-> 0]
          /\ UNCHANGED <<resets, faults, untouched>>
      BY <2>3 DEF Restart, constVars, E!Device
    <3>2. activeControls' \in [E!Device -> 0..Len(tasks')]
      <4>1. 0 \in 0..Len(tasks')
        BY <2>1, LenProperties
      <4> QED
        BY <3>1, <4>1
    <3>3. /\ received \in Seq(E!Alarm) /\ Len(received) <= MaxReadings
          /\ told \in [E!Device -> E!State] /\ row \in [E!Device -> E!State]
          /\ logs \subseteq [task : 1..Len(tasks), success : BOOLEAN]
          /\ faults \in 0..0 /\ asked \in Seq(E!Command) /\ handled \in Seq(E!Command)
          /\ unfound \subseteq E!Command
          /\ passed \subseteq (1..MaxReadings) \X E!Device
          /\ executed \subseteq 1..Len(tasks)
          /\ untouched \subseteq 1..Len(resets)
      BY <1>1 DEF E!TypeOK
    <3>4. /\ resets \in Seq(E!Reset)
          /\ \A r \in 1..Len(resets) :
               /\ resets[r].pc = "forget" <=> resets[r].device \in E!Device
               /\ resets[r].pc \in {"query", "done"} => resets[r].left = {}
               /\ resets[r].pc = "done" => resets[r].table = "fans"
      BY <1>1 DEF E!TypeOK
    <3> QED
      BY <1>2, <2>1, <2>3, <2>4, <3>1, <3>2, <3>3, <3>4 DEF E!TypeOK
<1>5. E!Work' = <<>>
  BY <1>2, EmptySeq, ConcatEmptySeq DEF E!Work
<1>6. WorkInOrder'
  BY <1>5, EmptySeq DEF WorkInOrder
<1>7. AskedFollowed'
  BY <1>1, <1>2 DEF ChainInv, AskedFollowed
<1>8. Len(handed') = Len(received') /\ heard' \in 0..Len(received') /\ recvPc' # "panic"
  BY <1>1, <1>2 DEF ChainInv
<1> QED
  BY <1>3, <1>4, <1>6, <1>7, <1>8 DEF ChainInv

\* u holds the elements of s, then those of t.
Joins(u, s, t) ==
  /\ Len(s) \in Nat /\ Len(t) \in Nat /\ Len(u) = Len(s) + Len(t)
  /\ \A i \in 1..Len(s) : i \in 1..Len(u) /\ u[i] = s[i]
  /\ \A i \in 1..Len(t) : Len(s) + i \in 1..Len(u) /\ u[Len(s) + i] = t[i]
  /\ \A i \in 1..Len(u) : i \in 1..Len(s) \/ \E k \in 1..Len(t) : i = Len(s) + k

LEMMA ConcatElements ==
  ASSUME NEW S, NEW s \in Seq(S), NEW t \in Seq(S)
  PROVE  s \o t \in Seq(S) /\ Joins(s \o t, s, t)
<1>1. /\ s \o t \in Seq(S) /\ Len(s \o t) = Len(s) + Len(t)
      /\ Len(s) \in Nat /\ Len(t) \in Nat
      /\ \A i \in 1..Len(s) + Len(t) :
           (s \o t)[i] = IF i <= Len(s) THEN s[i] ELSE t[i - Len(s)]
  BY ConcatProperties, LenProperties
<1>2. ASSUME NEW i \in 1..Len(t) PROVE (s \o t)[Len(s) + i] = t[i]
  <2>1. /\ Len(s) + i \in 1..Len(s) + Len(t) /\ ~(Len(s) + i <= Len(s))
        /\ (Len(s) + i) - Len(s) = i
    BY <1>1
  <2> QED
    BY <1>1, <2>1
<1>3. ASSUME NEW i \in 1..Len(s \o t), i \notin 1..Len(s)
      PROVE  \E k \in 1..Len(t) : i = Len(s) + k
  <2>1. i - Len(s) \in 1..Len(t) /\ i = Len(s) + (i - Len(s))
    BY <1>1, <1>3
  <2> QED
    BY <2>1
<1>4. \A i \in 1..Len(s) : i \in 1..Len(s \o t) /\ i <= Len(s)
  BY <1>1
<1>5. \A i \in 1..Len(t) : Len(s) + i \in 1..Len(s \o t)
  BY <1>1
<1> QED
  BY <1>1, <1>2, <1>3, <1>4, <1>5 DEF Joins

\* The commands of an alarm name it.
LEMMA CommandsName ==
  ASSUME NEW a \in 1..MaxReadings, NEW l
  PROVE  /\ E!CommandsFor(a, l) \in Seq(E!Command)
         /\ \A i \in 1..Len(E!CommandsFor(a, l)) : E!CommandsFor(a, l)[i].alarm = a
<1> DEFINE valves == [alarm |-> a, kind |-> "close_valves"]
           fans   == [alarm |-> a, kind |-> "start_fans"]
           people == [alarm |-> a, kind |-> "evacuation"]
<1>1. valves \in E!Command /\ fans \in E!Command /\ people \in E!Command
  BY DEF E!Command, E!Kind
<1> HIDE DEF valves, fans, people
<1>2. /\ <<valves, fans>> \in Seq(E!Command) /\ <<people>> \in Seq(E!Command)
      /\ <<>> \in Seq(E!Command)
  BY <1>1, EmptySeq
<1>3. E!CommandsFor(a, l) = (IF l >= ValveControlLevel THEN <<valves, fans>> ELSE <<>>)
                              \o (IF l >= EvacuationLevel THEN <<people>> ELSE <<>>)
  BY DEF E!CommandsFor, valves, fans, people
<1>4. valves.alarm = a /\ fans.alarm = a /\ people.alarm = a
  BY DEF valves, fans, people
<1>5. ASSUME NEW s \in {<<valves, fans>>, <<>>}, NEW t \in {<<people>>, <<>>}
      PROVE  s \o t \in Seq(E!Command) /\ \A i \in 1..Len(s \o t) : (s \o t)[i].alarm = a
  <2>1. /\ s \in Seq(E!Command) /\ t \in Seq(E!Command)
        /\ \A i \in 1..Len(s) : s[i].alarm = a
        /\ \A i \in 1..Len(t) : t[i].alarm = a
    <3>1. /\ Len(<<valves, fans>>) = 2 /\ Len(<<people>>) = 1 /\ Len(<<>>) = 0
          /\ <<valves, fans>>[1] = valves /\ <<valves, fans>>[2] = fans
          /\ <<people>>[1] = people
      OBVIOUS
    <3>2. 1..2 = {1, 2} /\ 1..1 = {1} /\ 1..0 = {}
      OBVIOUS
    <3> QED
      BY <1>2, <1>4, <3>1, <3>2
  <2>2. s \o t \in Seq(E!Command) /\ Joins(s \o t, s, t)
    BY <2>1, ConcatElements
  <2>3. \A i \in 1..Len(s \o t) : (s \o t)[i].alarm = a
    BY <2>1, <2>2 DEF Joins
  <2> QED
    BY <2>2, <2>3
<1>6. /\ (IF l >= ValveControlLevel THEN <<valves, fans>> ELSE <<>>)
            \in {<<valves, fans>>, <<>>}
      /\ (IF l >= EvacuationLevel THEN <<people>> ELSE <<>>) \in {<<people>>, <<>>}
  OBVIOUS
<1> QED
  BY <1>3, <1>5, <1>6

\* An alarm is received: its commands come last.
LEMMA ReceiveFollowed ==
  ASSUME E!TypeOK, WorkInOrder, AskedFollowed, heard \in 0..Len(received),
         heard' = heard, NEW z \in Zone, NEW l \in 1..3, E!ReceiveAlarm(z, l),
         E!Work' = E!Work \o offer', E!Work \in Seq(E!Command)
  PROVE  WorkInOrder' /\ AskedFollowed'
<1> DEFINE n == Len(received) + 1
           new == E!CommandsFor(n, l)
<1>1. /\ received \in Seq(E!Alarm) /\ Len(received) \in Nat /\ n \in 1..MaxReadings
      /\ asked \in Seq(E!Command) /\ heard \in Nat
      /\ [zone |-> z, level |-> l] \in E!Alarm
  BY LenProperties, BoundAssumption DEF E!TypeOK, E!ReceiveAlarm, E!Alarm
<1>2. /\ Len(received') = n /\ offer' = new /\ asked' = asked \o new /\ handled' = handled
      /\ E!Work' = E!Work \o new
  BY <1>1, AppendProperties DEF E!ReceiveAlarm, E!procVars
<1>3. /\ new \in Seq(E!Command)
      /\ \A i \in 1..Len(new) : new[i].alarm = n
  BY <1>1, CommandsName
<1> HIDE DEF new
<1>4. WorkInOrder'
  <2> DEFINE W == E!Work
  <2>0. Joins(W \o new, W, new)
    BY <1>3, ConcatElements
  <2>1. \A i \in 1..Len(W \o new) :
          i \in 1..Len(W) \/ \E k \in 1..Len(new) : i = Len(W) + k
    BY <2>0 DEF Joins
  <2>2. /\ \A i \in 1..Len(W) : (W \o new)[i] = W[i]
        /\ \A i \in 1..Len(new) : (W \o new)[Len(W) + i] = new[i]
        /\ Len(W) \in Nat /\ Len(new) \in Nat
    BY <2>0 DEF Joins
  <2>3. \A i \in 1..Len(W) : W[i].alarm \in 1..MaxReadings
    <3>1. \A i \in 1..Len(W) : W[i] \in E!Command
      BY ElementOfSeq
    <3> QED
      BY <3>1 DEF E!Command
  <2>4. ASSUME NEW i \in 1..Len(W \o new)
        PROVE  heard < (W \o new)[i].alarm /\ (W \o new)[i].alarm <= n
    <3>1. CASE i \in 1..Len(W)
      BY <1>1, <2>2, <2>3, <3>1 DEF WorkInOrder
    <3>2. CASE \E k \in 1..Len(new) : i = Len(W) + k
      BY <1>1, <1>3, <2>2, <3>2
    <3> QED
      BY <2>1, <3>1, <3>2
  <2>5. ASSUME NEW i \in 1..Len(W \o new), NEW j \in 1..Len(W \o new), i < j
        PROVE  (W \o new)[i].alarm <= (W \o new)[j].alarm
    <3>1. CASE j \in 1..Len(W)
      <4>1. i \in 1..Len(W)
        BY <2>1, <2>2, <2>5, <3>1
      <4> QED
        BY <2>2, <2>5, <3>1, <4>1 DEF WorkInOrder
    <3>2. CASE \E k \in 1..Len(new) : j = Len(W) + k
      <4>1. (W \o new)[j].alarm = n
        BY <1>3, <2>2, <3>2
      <4> QED
        BY <2>4, <4>1
    <3> QED
      BY <2>1, <3>1, <3>2
  <2> QED
    BY <1>2, <2>4, <2>5 DEF WorkInOrder
<1>5. AskedFollowed'
  <2> DEFINE W == E!Work
  <2>0. Joins(W \o new, W, new) /\ Joins(asked \o new, asked, new)
    BY <1>1, <1>3, ConcatElements
  <2>1. \A i \in 1..Len(asked \o new) :
          i \in 1..Len(asked) \/ \E k \in 1..Len(new) : i = Len(asked) + k
    BY <2>0 DEF Joins
  <2>2. /\ \A i \in 1..Len(W) : (W \o new)[i] = W[i]
        /\ \A i \in 1..Len(new) : (W \o new)[Len(W) + i] = new[i]
        /\ \A i \in 1..Len(asked) : (asked \o new)[i] = asked[i]
        /\ \A i \in 1..Len(new) : (asked \o new)[Len(asked) + i] = new[i]
        /\ Len(W \o new) = Len(W) + Len(new) /\ Len(W) \in Nat /\ Len(new) \in Nat
    BY <2>0 DEF Joins
  <2>3. \A i \in 1..Len(asked) : asked[i].alarm \in 1..MaxReadings
    <3>1. \A i \in 1..Len(asked) : asked[i] \in E!Command
      BY <1>1, ElementOfSeq
    <3> QED
      BY <3>1 DEF E!Command
  <2>4. ASSUME NEW i \in 1..Len(asked \o new)
        PROVE  /\ (asked \o new)[i].alarm <= n
               /\ \/ (asked \o new)[i].alarm <= heard
                  \/ \E j \in 1..Len(handled) : handled[j] = (asked \o new)[i]
                  \/ \E j \in 1..Len(W \o new) : (W \o new)[j] = (asked \o new)[i]
    <3>1. CASE i \in 1..Len(asked)
      <4>1. \A j \in 1..Len(W) : j \in 1..Len(W \o new)
        BY <2>2
      <4>2. asked[i].alarm <= n
        BY <1>1, <2>3, <3>1 DEF AskedFollowed
      <4> QED
        BY <2>2, <3>1, <4>1, <4>2 DEF AskedFollowed
    <3>2. CASE \E k \in 1..Len(new) : i = Len(asked) + k
      <4>1. PICK k \in 1..Len(new) : i = Len(asked) + k
        BY <3>2
      <4>2. Len(W) + k \in 1..Len(W \o new) /\ (W \o new)[Len(W) + k] = (asked \o new)[i]
        BY <2>2, <4>1
      <4>3. (asked \o new)[i].alarm = n
        BY <1>3, <2>2, <4>1
      <4>4. (asked \o new)[i].alarm <= n
        BY <1>1, <4>3
      <4>5. \E j \in 1..Len(W \o new) : (W \o new)[j] = (asked \o new)[i]
        BY <4>2
      <4> QED
        BY <4>4, <4>5
    <3> QED
      BY <2>1, <3>1, <3>2
  <2> QED
    BY <1>2, <2>4 DEF AskedFollowed
<1> QED
  BY <1>4, <1>5

\* The command in hand comes first.
LEMMA JobFirst ==
  ASSUME E!TypeOK, procPc = "visit"
  PROVE  /\ E!Work \in Seq(E!Command) /\ job \in Seq(E!Command) /\ Len(job) = 1
         /\ 1 \in 1..Len(E!Work) /\ E!Work[1] = job[1] /\ job[1] \in E!Command
<1>1. PICK cmd \in E!Command : job = <<cmd>>
  BY DEF E!TypeOK
<1>2. /\ job \in Seq(E!Command) /\ Len(job) = 1 /\ job[1] = cmd
  BY <1>1
<1>3. /\ commandChan \in Seq(E!Command) /\ offer \in Seq(E!Command)
      /\ job \o commandChan \in Seq(E!Command)
  BY <1>2, ConcatProperties DEF E!TypeOK
<1>4. /\ E!Work \in Seq(E!Command) /\ 1 \in 1..Len(job \o commandChan)
      /\ (job \o commandChan)[1] = job[1]
      /\ E!Work[1] = (job \o commandChan)[1] /\ 1 \in 1..Len(E!Work)
  <2>1. Joins(job \o commandChan, job, commandChan)
    BY <1>2, <1>3, ConcatElements
  <2>2. E!Work \in Seq(E!Command) /\ Joins(E!Work, job \o commandChan, offer)
    BY <1>3, ConcatElements DEF E!Work
  <2>3. 1 \in 1..Len(job \o commandChan) /\ (job \o commandChan)[1] = job[1]
    BY <1>2, <2>1 DEF Joins
  <2>4. 1 \in 1..Len(E!Work) /\ E!Work[1] = (job \o commandChan)[1]
    BY <2>2, <2>3 DEF Joins
  <2> QED
    BY <2>2, <2>3, <2>4
<1> QED
  BY <1>1, <1>2, <1>4

\* A command is processed: it was the first.
LEMMA DoneFollowed ==
  ASSUME E!TypeOK, WorkInOrder, AskedFollowed, heard' = heard, E!CommandDone,
         E!Work = job \o E!Work', E!Work' \in Seq(E!Command)
  PROVE  WorkInOrder' /\ AskedFollowed'
<1> DEFINE W == E!Work
           V == E!Work'
<1>1. /\ W \in Seq(E!Command) /\ job \in Seq(E!Command) /\ Len(job) = 1
      /\ W[1] = job[1] /\ handled \in Seq(E!Command)
  BY JobFirst DEF E!CommandDone, E!TypeOK
<1>2. /\ Len(W) = 1 + Len(V) /\ Len(V) \in Nat
      /\ \A i \in 1..Len(V) : W[1 + i] = V[i]
      /\ \A i \in 1..Len(W) : i \in 1..Len(job) \/ \E k \in 1..Len(V) : i = Len(job) + k
  <2>1. Joins(W, job, V)
    BY <1>1, ConcatElements
  <2> HIDE DEF W, V
  <2> QED
    BY <1>1, <2>1 DEF Joins
<1>3. /\ received' = received /\ asked' = asked /\ handled' = handled \o job
  BY DEF E!CommandDone, E!recvVars
<1>4. /\ Len(handled \o job) = Len(handled) + 1 /\ Len(handled) \in Nat
      /\ \A i \in 1..Len(handled) : (handled \o job)[i] = handled[i]
      /\ \A i \in 1..Len(job) : (handled \o job)[Len(handled) + i] = job[i]
  <2>1. Joins(handled \o job, handled, job)
    BY <1>1, ConcatElements
  <2> QED
    BY <1>1, <2>1 DEF Joins
<1>5. WorkInOrder'
  <2>1. \A i \in 1..Len(V) : 1 + i \in 1..Len(W)
    BY <1>2
  <2>2. ASSUME NEW i \in 1..Len(V)
        PROVE  heard < V[i].alarm /\ V[i].alarm <= Len(received)
    BY <1>2, <2>1 DEF WorkInOrder
  <2>3. ASSUME NEW i \in 1..Len(V), NEW j \in 1..Len(V), i < j
        PROVE  V[i].alarm <= V[j].alarm
    <3>1. 1 + i < 1 + j
      BY <2>3
    <3> QED
      BY <1>2, <2>1, <3>1 DEF WorkInOrder
  <2> QED
    BY <1>3, <2>2, <2>3 DEF WorkInOrder
<1>6. AskedFollowed'
  <2>1. ASSUME NEW i \in 1..Len(asked)
        PROVE  /\ asked[i].alarm <= Len(received)
               /\ \/ asked[i].alarm <= heard
                  \/ \E j \in 1..Len(handled \o job) : (handled \o job)[j] = asked[i]
                  \/ \E j \in 1..Len(V) : V[j] = asked[i]
    <3>1. CASE asked[i].alarm <= heard
      BY <3>1 DEF AskedFollowed
    <3>2. CASE \E j \in 1..Len(handled) : handled[j] = asked[i]
      <4>1. \A j \in 1..Len(handled) : j \in 1..Len(handled \o job)
        BY <1>4
      <4> QED
        BY <1>4, <3>2, <4>1 DEF AskedFollowed
    <3>3. ASSUME NEW j \in 1..Len(W), W[j] = asked[i]
          PROVE  \/ \E k \in 1..Len(handled \o job) : (handled \o job)[k] = asked[i]
                 \/ \E k \in 1..Len(V) : V[k] = asked[i]
      <4>1. CASE j \in 1..Len(job)
        <5>1. j = 1 /\ 1 \in 1..Len(job)
          BY <1>1, <4>1
        <5>2. /\ Len(handled) + 1 \in 1..Len(handled \o job)
              /\ (handled \o job)[Len(handled) + 1] = asked[i]
          BY <1>1, <1>4, <3>3, <5>1
        <5> QED
          BY <5>2
      <4>2. CASE \E k \in 1..Len(V) : j = Len(job) + k
        BY <1>1, <1>2, <3>3, <4>2
      <4> QED
        BY <1>2, <4>1, <4>2
    <3> QED
      BY <3>1, <3>2, <3>3 DEF AskedFollowed
  <2> QED
    BY <1>3, <2>1 DEF AskedFollowed
<1> QED
  BY <1>5, <1>6

\* Every step keeps it.
LEMMA ChainStep ==
  ASSUME RouterInv, ReportTypes, ChainInv, [Next]_vars
  PROVE  ChainInv'
<1>1. CASE Restart
  BY <1>1, ControllerRestarts
<1>2. CASE ~Restart
  <2>1. [R!Next]_R!vars /\ [E!Next]_E!vars /\ recvPc' # "panic"
    BY <1>2, RouterSteps, ControllerSteps DEF ChainInv
  <2>2. R!HandedInOrder'
    BY <2>1, RouterFacts, R!HandedStep DEF RouterInv, ChainInv
  <2>3. E!TypeOK'
    BY <2>1, ControllerFacts, E!TypeStep DEF ChainInv
  <2>4. E!Work \in Seq(E!Command)
    BY ControllerFacts, E!WorkType DEF ChainInv
  <2>5. /\ received \in Seq(E!Alarm) /\ Len(received) \in Nat
        /\ handed \in Seq(R!AlarmId) /\ Len(handed) = Len(received)
        /\ heard \in 0..Len(received)
    BY LenProperties DEF ChainInv, E!TypeOK, RouterInv, R!TypeOK
  <2>6. Len(handed') = Len(received') /\ heard' = heard /\ heard \in 0..Len(received')
    <3>1. CASE UNCHANGED <<handed, received, heard>>
      BY <2>5, <3>1
    <3>2. CASE Hand
      <4>1. /\ handed' = Append(handed, Head(alarmChan)) /\ heard' = heard
            /\ Head(alarmChan) \in R!AlarmId
        BY <3>2, HeadTailProperties
        DEF Hand, Router!ReceiveAlarm, historyVars, startVars, RouterInv, R!TypeOK
      <4>2. \E rec : received' = Append(received, rec)
        BY <3>2 DEF Hand, Controller!ReceiveAlarm
      <4>3. received' \in Seq(E!Alarm)
        BY <2>3 DEF E!TypeOK
      <4>4. Len(handed') = Len(handed) + 1
        BY <2>5, <4>1, AppendProperties
      <4>5. Len(received') = Len(received) + 1
        BY <2>5, <4>2
      <4> QED
        BY <2>5, <4>1, <4>4, <4>5
    <3> QED
      BY <1>2, <3>1, <3>2, HandFrame
  <2>7. WorkInOrder' /\ AskedFollowed'
    <3>1. \/ E!Work' = E!Work /\ UNCHANGED <<received, asked, handled>>
          \/ /\ \E z \in Zone, l \in 1..3 : E!ReceiveAlarm(z, l)
             /\ E!Work' = E!Work \o offer'
          \/ E!CommandDone /\ E!Work = job \o E!Work'
      BY <2>1, ControllerFacts, E!WorkMoves DEF ChainInv
    <3>2. CASE E!Work' = E!Work /\ UNCHANGED <<received, asked, handled>>
      BY <2>6, <3>2 DEF ChainInv, WorkInOrder, AskedFollowed
    <3>3. CASE /\ \E z \in Zone, l \in 1..3 : E!ReceiveAlarm(z, l)
               /\ E!Work' = E!Work \o offer'
      BY <2>4, <2>5, <2>6, <3>3, ReceiveFollowed DEF ChainInv
    <3>4. CASE E!CommandDone /\ E!Work = job \o E!Work'
      <4>1. E!Work' \in Seq(E!Command)
        <5>1. /\ commandChan' \in Seq(E!Command) /\ offer' \in Seq(E!Command)
              /\ job' = <<>> /\ <<>> \in Seq(E!Command)
          BY <2>3, <3>4, EmptySeq DEF E!TypeOK, E!CommandDone
        <5>2. (job \o commandChan)' \in Seq(E!Command)
          BY <5>1, ConcatProperties
        <5> QED
          BY <5>1, <5>2, ConcatProperties DEF E!Work
      <4> QED
        BY <2>6, <3>4, <4>1, DoneFollowed DEF ChainInv
    <3> QED
      BY <3>1, <3>2, <3>3, <3>4
  <2> QED
    BY <2>1, <2>2, <2>3, <2>6, <2>7 DEF ChainInv
<1> QED
  BY <1>1, <1>2

-------------------------------------------------------------------------------
(* How far the alarms have come *)

Stages == [a \in DOMAIN alarms |-> StageOf(a)]

\* How far the k-th alarm handed over has come.
Passed(k) == IF Answered(k) THEN "answered" ELSE IF k > heard THEN "received" ELSE "lost"

IsHanded(a) == \E k \in DOMAIN handed : handed[k] = a
Waits(a) == \E i \in DOMAIN alarmChan : alarmChan[i] = a

\* How far an alarm that is not handed over has come.
Elsewhere(a) ==
  IF Waits(a) THEN "offered"
  ELSE IF cur = a /\ pc = "save" THEN "raised"
  ELSE IF cur = a /\ pc = "trigger" THEN "stored"
  ELSE "lost"

Rising(s) == \A i, j \in 1..Len(s) : i < j => s[i] < s[j]

\* A rising sequence holds a number at one place only.
LEMMA OnePlace ==
  ASSUME NEW s \in Seq(Nat), Rising(s), NEW k \in DOMAIN s, NEW a, s[k] = a
  PROVE  (CHOOSE j \in DOMAIN s : s[j] = a) = k
<1> DEFINE c == CHOOSE j \in DOMAIN s : s[j] = a
<1>1. c \in DOMAIN s /\ s[c] = a
  OBVIOUS
<1> HIDE DEF c
<1>2. DOMAIN s = 1..Len(s) /\ Len(s) \in Nat /\ s[k] \in Nat
  BY LenProperties, ElementOfSeq
<1>3. ~(c < k) /\ ~(k < c)
  BY <1>1, <1>2 DEF Rising
<1>4. c = k
  BY <1>1, <1>2, <1>3
<1> QED
  BY <1>4 DEF c

LEMMA HandedStage ==
  ASSUME handed \in Seq(Nat), Rising(handed), NEW a, NEW k \in DOMAIN handed, handed[k] = a
  PROVE  StageOf(a) = Passed(k)
<1>1. (CHOOSE j \in DOMAIN handed : handed[j] = a) = k
  BY OnePlace
<1> QED
  BY <1>1 DEF StageOf, Passed

LEMMA HandedStageNext ==
  ASSUME handed' \in Seq(Nat), Rising(handed'), NEW a, NEW k \in DOMAIN handed',
         handed'[k] = a
  PROVE  StageOf(a)' = Passed(k)'
<1>1. (CHOOSE j \in DOMAIN handed' : handed'[j] = a) = k
  BY OnePlace
<1> QED
  BY <1>1 DEF StageOf, Passed, Answered

LEMMA OtherStage ==
  ASSUME NEW a
  PROVE  /\ ~IsHanded(a) => StageOf(a) = Elsewhere(a)
         /\ ~IsHanded(a)' => StageOf(a)' = Elsewhere(a)'
BY DEF StageOf, IsHanded, Elsewhere, Waits

LEMMA Wider ==
  ASSUME NEW S, NEW T, S \subseteq T, NEW s \in Seq(S)
  PROVE  s \in Seq(T)
OBVIOUS

\* The alarms that are handed over, wait in the channel and are in hand, in this order.
LEMMA SentOrder ==
  ASSUME RouterInv, ChainInv
  PROVE  /\ handed \in Seq(R!AlarmId) /\ handed \in Seq(Nat) /\ Rising(handed)
         /\ alarmChan \in Seq(R!AlarmId) /\ alarmChan \in Seq(Nat) /\ Rising(alarmChan)
         /\ DOMAIN handed = 1..Len(handed) /\ DOMAIN alarmChan = 1..Len(alarmChan)
         /\ DOMAIN alarms = R!AlarmId /\ Len(alarms) \in Nat
         /\ \A k \in DOMAIN handed, i \in DOMAIN alarmChan : handed[k] < alarmChan[i]
         /\ pc \in {"save", "trigger"} =>
              /\ \A k \in DOMAIN handed : handed[k] < cur
              /\ \A i \in DOMAIN alarmChan : alarmChan[i] < cur
<1> DEFINE sent == handed \o alarmChan
<1>1. /\ handed \in Seq(R!AlarmId) /\ alarmChan \in Seq(R!AlarmId)
      /\ alarms \in Seq([device : Detector, level : 1..3])
      /\ R!HandedInOrder
  BY DEF RouterInv, R!TypeOK, ChainInv
<1>2. DOMAIN alarms = R!AlarmId /\ Len(alarms) \in Nat
  BY <1>1, LenProperties DEF R!AlarmId
<1>3. R!AlarmId \subseteq Nat
  BY <1>2 DEF R!AlarmId
<1>4. handed \in Seq(Nat) /\ alarmChan \in Seq(Nat)
  BY <1>1, <1>3, Wider
<1>5. /\ DOMAIN handed = 1..Len(handed) /\ DOMAIN alarmChan = 1..Len(alarmChan)
      /\ Len(handed) \in Nat /\ Len(alarmChan) \in Nat
  BY <1>1, LenProperties
<1>6. /\ Len(sent) = Len(handed) + Len(alarmChan)
      /\ \A k \in 1..Len(handed) : sent[k] = handed[k]
      /\ \A i \in 1..Len(alarmChan) : sent[Len(handed) + i] = alarmChan[i]
  <2>1. Joins(sent, handed, alarmChan)
    BY <1>1, ConcatElements
  <2> QED
    BY <2>1 DEF Joins
<1>7. /\ \A i, j \in 1..Len(sent) : i < j => sent[i] < sent[j]
      /\ pc \in {"save", "trigger"} => \A i \in 1..Len(sent) : sent[i] < cur
  BY <1>1 DEF R!HandedInOrder
<1> HIDE DEF sent
<1>8. /\ \A k \in 1..Len(handed) : k \in 1..Len(sent)
      /\ \A i \in 1..Len(alarmChan) : Len(handed) + i \in 1..Len(sent)
  BY <1>5, <1>6
<1>9. Rising(handed)
  BY <1>6, <1>7, <1>8 DEF Rising
<1>10. Rising(alarmChan)
  <2>1. SUFFICES ASSUME NEW i \in 1..Len(alarmChan), NEW j \in 1..Len(alarmChan), i < j
                 PROVE  alarmChan[i] < alarmChan[j]
    BY DEF Rising
  <2>2. Len(handed) + i < Len(handed) + j
    BY <1>5, <2>1
  <2> QED
    BY <1>6, <1>7, <1>8, <2>2
<1>11. ASSUME NEW k \in 1..Len(handed), NEW i \in 1..Len(alarmChan)
       PROVE  handed[k] < alarmChan[i]
  <2>1. k < Len(handed) + i
    BY <1>5
  <2> QED
    BY <1>6, <1>7, <1>8, <2>1
<1>12. pc \in {"save", "trigger"} =>
         /\ \A k \in 1..Len(handed) : handed[k] < cur
         /\ \A i \in 1..Len(alarmChan) : alarmChan[i] < cur
  BY <1>6, <1>7, <1>8
<1> QED
  BY <1>1, <1>2, <1>4, <1>5, <1>9, <1>10, <1>11, <1>12

\* An alarm that waits is not handed over yet.
LEMMA WaitsNotHanded ==
  ASSUME RouterInv, ChainInv
  PROVE  \A a : Waits(a) => ~IsHanded(a)
<1>1. SUFFICES ASSUME NEW i \in DOMAIN alarmChan, NEW k \in DOMAIN handed,
                      alarmChan[i] = handed[k]
               PROVE  FALSE
  BY DEF Waits, IsHanded
<1>2. handed[k] < alarmChan[i]
  BY SentOrder
<1>3. handed[k] \in Nat
  <2>1. handed \in Seq(Nat)
    BY SentOrder
  <2> QED
    BY <2>1, LenProperties, ElementOfSeq
<1> QED
  BY <1>1, <1>2, <1>3

\* The same alarms are sent and the same commands processed as before.
LEMMA SameStage ==
  ASSUME UNCHANGED <<handed, alarmChan, asked, handled, heard>>, NEW a,
         (cur' = a /\ pc' = "save") <=> (cur = a /\ pc = "save"),
         (cur' = a /\ pc' = "trigger") <=> (cur = a /\ pc = "trigger")
  PROVE  StageOf(a)' = StageOf(a)
BY DEF StageOf, Answered

\* Nothing moves.
LEMMA StagesRest ==
  ASSUME UNCHANGED <<alarms, dbRows>>, \A a \in DOMAIN alarms : StageOf(a)' = StageOf(a)
  PROVE  UNCHANGED Chain!vars
BY DEF Chain!vars

\* One alarm moves.
LEMMA StageMoves ==
  ASSUME alarms' = alarms, NEW a \in DOMAIN alarms, NEW s, StageOf(a)' = s,
         \A b \in DOMAIN alarms : b # a => StageOf(b)' = StageOf(b)
  PROVE  Stages' = [Stages EXCEPT ![a] = s]
BY DEF Stages

\* A sequence with one element more.
LEMMA OneMore ==
  ASSUME NEW n \in Nat, NEW f, f = [i \in 1..n |-> f[i]],
         NEW g, g = [i \in 1..n + 1 |-> g[i]], NEW s, \A i : i = n + 1 => g[i] = s,
         \A i \in 1..n : g[i] = f[i]
  PROVE  g = Append(f, s)
<1> DEFINE S == {f[i] : i \in 1..n} \cup {s}
<1>1. f \in [1..n -> S]
  OBVIOUS
<1> HIDE DEF S
<1>2. f \in Seq(S) /\ Len(f) = n
  BY <1>1, SeqDef, LenProperties
<1>3. s \in S
  BY DEF S
<1>4. /\ Append(f, s) \in Seq(S) /\ Len(Append(f, s)) = n + 1
      /\ \A i \in 1..n : Append(f, s)[i] = f[i]
      /\ Append(f, s)[n + 1] = s
  BY <1>2, <1>3, AppendProperties
<1>5. Append(f, s) = [i \in 1..n + 1 |-> Append(f, s)[i]]
  BY <1>4, LenProperties
<1>6. \A i \in 1..n + 1 : Append(f, s)[i] = g[i]
  <2>1. \A i \in 1..n + 1 : i \in 1..n \/ i = n + 1
    OBVIOUS
  <2> QED
    BY <1>4, <2>1
<1> QED
  BY <1>5, <1>6

\* createAlarm raises an alarm.
LEMMA RaiseStep ==
  ASSUME RouterInv, ChainInv, Router!CreateAlarm, UNCHANGED <<asked, handled, heard>>
  PROVE  Chain!Raise
<1> DEFINE n == Len(alarms) + 1
<1>1. /\ pc = "create" /\ pc' = "save" /\ cur' = n /\ dbRows' = dbRows
      /\ handed' = handed /\ alarmChan' = alarmChan
      /\ Len(alarms') = n /\ DOMAIN alarms' = 1..n
  <2>1. \E rec : alarms' = Append(alarms, rec)
    BY DEF Router!CreateAlarm
  <2>2. alarms \in Seq([device : Detector, level : 1..3])
    BY DEF RouterInv, R!TypeOK
  <2> QED
    BY <2>1, <2>2 DEF Router!CreateAlarm, Router!dbVars
<1>2. /\ DOMAIN alarms = 1..Len(alarms) /\ Len(alarms) \in Nat
      /\ handed \in Seq(1..Len(alarms)) /\ alarmChan \in Seq(1..Len(alarms))
  BY SentOrder DEF R!AlarmId
<1>3. Chain!At("raised") \cup Chain!At("stored") = {}
  BY <1>1 DEF Chain!At, StageOf
<1>4. \A a \in 1..Len(alarms) : StageOf(a)' = StageOf(a)
  <2>1. \A a \in 1..Len(alarms) : a # n
    BY <1>2
  <2> QED
    BY <1>1, <2>1, SameStage
<1>5. \A a : a = n => StageOf(a)' = "raised"
  <2>1. SUFFICES ASSUME NEW a, a = n PROVE StageOf(a)' = "raised"
    OBVIOUS
  <2>2. ~(a \in 1..Len(alarms))
    BY <1>2, <2>1
  <2>3. \A k \in DOMAIN handed : handed[k] \in 1..Len(alarms)
    BY <1>2, LenProperties, ElementOfSeq
  <2>4. \A i \in DOMAIN alarmChan : alarmChan[i] \in 1..Len(alarms)
    BY <1>2, LenProperties, ElementOfSeq
  <2>5. ~IsHanded(a)' /\ ~Waits(a)'
    BY <1>1, <2>2, <2>3, <2>4 DEF IsHanded, Waits
  <2> QED
    BY <1>1, <2>1, <2>5, OtherStage DEF Elsewhere
<1>6. /\ Stages = [a \in 1..Len(alarms) |-> Stages[a]]
      /\ Stages' = [a \in 1..n |-> Stages'[a]]
      /\ \A a \in 1..Len(alarms) : Stages'[a] = Stages[a]
      /\ \A a : a = n => Stages'[a] = "raised"
  <2>1. /\ \A a \in 1..Len(alarms) : a \in 1..n
        /\ n \in 1..n
    BY <1>2
  <2>2. \A a \in 1..n : Stages'[a] = StageOf(a)'
    BY <1>1 DEF Stages
  <2>3. Stages = [a \in 1..Len(alarms) |-> Stages[a]]
    BY <1>2 DEF Stages
  <2>4. Stages' = [a \in 1..n |-> Stages'[a]]
    BY <1>1 DEF Stages
  <2>5. \A a \in 1..Len(alarms) : Stages[a] = StageOf(a)
    BY <1>2 DEF Stages
  <2> QED
    BY <1>4, <1>5, <2>1, <2>2, <2>3, <2>4, <2>5
<1>7. Stages' = Append(Stages, "raised")
  BY <1>2, <1>6, OneMore
<1> QED
  BY <1>1, <1>3, <1>7 DEF Chain!Raise, Stages

\* saveAlarmToDB tells the database.
LEMMA StoreStep ==
  ASSUME RouterInv, ChainInv, Router!SaveAlarm, UNCHANGED <<asked, handled, heard>>
  PROVE  \E a \in DOMAIN alarms : Chain!Store(a)
<1>1. SUFFICES ASSUME NEW a, a = cur PROVE \E b \in DOMAIN alarms : Chain!Store(b)
  OBVIOUS
<1>2. /\ pc = "save" /\ pc' = "trigger" /\ cur' = a /\ cur = a
      /\ dbRows' \in {dbRows, dbRows \cup {a}}
      /\ handed' = handed /\ alarmChan' = alarmChan /\ alarms' = alarms
  BY <1>1 DEF Router!SaveAlarm, Router!memVars
<1>3. a \in DOMAIN alarms
  <2>1. cur \in R!AlarmId
    BY <1>2 DEF RouterInv, R!TypeOK
  <2> QED
    BY <1>2, <2>1, SentOrder
<1>4. ~IsHanded(a) /\ ~Waits(a)
  <2>1. a \in Nat
    BY <1>3, SentOrder DEF R!AlarmId
  <2>2. /\ \A k \in DOMAIN handed : handed[k] < a
        /\ \A i \in DOMAIN alarmChan : alarmChan[i] < a
    BY <1>2, SentOrder
  <2>3. ~(a < a)
    BY <2>1
  <2> QED
    BY <2>2, <2>3 DEF IsHanded, Waits
<1>5. ~IsHanded(a)' /\ ~Waits(a)'
  BY <1>2, <1>4 DEF IsHanded, Waits
<1>6. StageOf(a) = "raised" /\ StageOf(a)' = "stored"
  BY <1>2, <1>4, <1>5, OtherStage DEF Elsewhere
<1>7. \A b \in DOMAIN alarms : b # a => StageOf(b)' = StageOf(b)
  BY <1>2, SameStage
<1>8. Stages' = [Stages EXCEPT ![a] = "stored"]
  BY <1>2, <1>3, <1>6, <1>7, StageMoves
<1>9. Stages[a] = "raised"
  BY <1>3, <1>6 DEF Stages
<1>10. Chain!Store(a)
  BY <1>2, <1>8, <1>9 DEF Chain!Store, Stages
<1> QED
  BY <1>3, <1>10

\* triggerAlarm offers the alarm, or loses it because others fill the channel.
LEMMA OfferStep ==
  ASSUME RouterInv, ChainInv, Router!TriggerAlarm, UNCHANGED <<asked, handled, heard>>
  PROVE  \E a \in DOMAIN alarms : Chain!Offer(a)
<1>1. SUFFICES ASSUME NEW a, a = cur PROVE \E b \in DOMAIN alarms : Chain!Offer(b)
  OBVIOUS
<1>2. /\ pc = "trigger" /\ pc' = "poll" /\ cur = a
      /\ dbRows' = dbRows /\ handed' = handed /\ alarms' = alarms
      /\ alarmChan' = IF Len(alarmChan) < AlarmChanCap THEN Append(alarmChan, a)
                                                       ELSE alarmChan
  BY <1>1 DEF Router!TriggerAlarm, Router!memVars, Router!dbVars
<1>3. a \in DOMAIN alarms /\ a \in Nat
  <2>1. cur \in R!AlarmId
    BY <1>2 DEF RouterInv, R!TypeOK
  <2> QED
    BY <1>2, <2>1, SentOrder DEF R!AlarmId
<1>4. ~IsHanded(a) /\ ~Waits(a)
  <2>1. /\ \A k \in DOMAIN handed : handed[k] < a
        /\ \A i \in DOMAIN alarmChan : alarmChan[i] < a
    BY <1>2, SentOrder
  <2>2. ~(a < a)
    BY <1>3
  <2> QED
    BY <2>1, <2>2 DEF IsHanded, Waits
<1>5. StageOf(a) = "stored" /\ ~IsHanded(a)'
  BY <1>2, <1>4, OtherStage DEF Elsewhere, IsHanded
<1>6. Stages[a] = "stored"
  BY <1>3, <1>5 DEF Stages
<1>7. CASE Len(alarmChan) < AlarmChanCap
  <2>1. alarmChan' = Append(alarmChan, a)
    BY <1>2, <1>7
  <2>2. /\ DOMAIN alarmChan' = 1..Len(alarmChan) + 1 /\ Len(alarmChan) \in Nat
        /\ DOMAIN alarmChan = 1..Len(alarmChan)
        /\ \A i \in 1..Len(alarmChan) : alarmChan'[i] = alarmChan[i]
        /\ alarmChan'[Len(alarmChan) + 1] = a
    <3>1. alarmChan \in Seq(Nat)
      BY SentOrder
    <3> QED
      BY <1>3, <2>1, <3>1, AppendProperties, LenProperties
  <2>3. Waits(a)' /\ \A b : b # a => (Waits(b)' <=> Waits(b))
    <3>1. /\ \A i \in DOMAIN alarmChan' : i \in DOMAIN alarmChan \/ i = Len(alarmChan) + 1
          /\ \A i \in DOMAIN alarmChan : i \in DOMAIN alarmChan'
          /\ Len(alarmChan) + 1 \in DOMAIN alarmChan'
      BY <2>2
    <3> QED
      BY <2>2, <3>1 DEF Waits
  <2>4. StageOf(a)' = "offered"
    BY <1>5, <2>3, OtherStage DEF Elsewhere
  <2>5. \A b \in DOMAIN alarms : b # a => StageOf(b)' = StageOf(b)
    BY <1>2, <2>3 DEF StageOf, Waits, Answered
  <2>6. Stages' = [Stages EXCEPT ![a] = "offered"]
    BY <1>2, <1>3, <2>4, <2>5, StageMoves
  <2> QED
    BY <1>2, <1>3, <1>6, <2>6 DEF Chain!Offer, Stages
<1>8. CASE ~(Len(alarmChan) < AlarmChanCap)
  <2>1. alarmChan' = alarmChan
    BY <1>2, <1>8
  <2>2. StageOf(a)' = "lost"
    <3>1. ~Waits(a)'
      BY <1>4, <2>1 DEF Waits
    <3> QED
      BY <1>2, <1>5, <3>1, OtherStage DEF Elsewhere
  <2>3. \A b \in DOMAIN alarms : b # a => StageOf(b)' = StageOf(b)
    BY <1>2, <2>1 DEF StageOf, Answered
  <2>4. Stages' = [Stages EXCEPT ![a] = "lost"]
    BY <1>2, <1>3, <2>2, <2>3, StageMoves
  <2>5. Chain!At("offered") # {}
    <3>1. 1 \in DOMAIN alarmChan
      <4>1. alarmChan \in Seq(Nat) /\ DOMAIN alarmChan = 1..Len(alarmChan)
        BY SentOrder
      <4>2. Len(alarmChan) \in Nat
        BY <4>1, LenProperties
      <4> QED
        BY <1>8, <4>1, <4>2, RouterFacts
    <3>2. SUFFICES ASSUME NEW b, b = alarmChan[1] PROVE Chain!At("offered") # {}
      OBVIOUS
    <3>3. Waits(b) /\ b \in DOMAIN alarms
      <4>1. alarmChan \in Seq(R!AlarmId)
        BY SentOrder
      <4>2. alarmChan[1] \in R!AlarmId
        BY <3>1, <4>1, LenProperties, ElementOfSeq
      <4> QED
        BY <3>1, <3>2, <4>2, SentOrder DEF Waits
    <3>4. ~IsHanded(b)
      BY <3>1, <3>2, SentOrder, WaitsNotHanded DEF Waits
    <3>5. StageOf(b) = "offered"
      BY <3>3, <3>4, OtherStage DEF Elsewhere
    <3> QED
      BY <3>3, <3>5 DEF Chain!At
  <2> QED
    BY <1>2, <1>3, <1>6, <2>4, <2>5 DEF Chain!Offer, Stages
<1> QED
  BY <1>7, <1>8

\* New commands of another alarm leave an alarm answered or not.
LEMMA OthersAsked ==
  ASSUME asked \in Seq(E!Command), NEW new \in Seq(E!Command), asked' = asked \o new,
         handled' = handled, NEW k, \A i \in 1..Len(new) : new[i].alarm = k,
         NEW j, j # k
  PROVE  Answered(j)' <=> Answered(j)
<1>1. asked \o new \in Seq(E!Command) /\ Joins(asked \o new, asked, new)
  BY ConcatElements
<1>2. DOMAIN asked = 1..Len(asked) /\ DOMAIN (asked \o new) = 1..Len(asked \o new)
  BY <1>1, LenProperties
<1>3. /\ \A i \in DOMAIN asked : i \in DOMAIN (asked \o new) /\ (asked \o new)[i] = asked[i]
      /\ \A i \in DOMAIN (asked \o new) : (asked \o new)[i].alarm = j => i \in DOMAIN asked
  <2>1. \A i \in 1..Len(asked) : i \in 1..Len(asked \o new) /\ (asked \o new)[i] = asked[i]
    BY <1>1 DEF Joins
  <2>2. \A i \in 1..Len(new) : (asked \o new)[Len(asked) + i].alarm = k
    BY <1>1 DEF Joins
  <2>3. \A i \in 1..Len(asked \o new) :
          i \in 1..Len(asked) \/ \E m \in 1..Len(new) : i = Len(asked) + m
    BY <1>1 DEF Joins
  <2>4. \A i \in 1..Len(asked \o new) : (asked \o new)[i].alarm = j => i \in 1..Len(asked)
    BY <2>2, <2>3
  <2> QED
    BY <1>2, <2>1, <2>4
<1>4. /\ \A i \in DOMAIN asked' : asked'[i].alarm = j => i \in DOMAIN asked
      /\ \A i \in DOMAIN asked : i \in DOMAIN asked' /\ asked'[i] = asked[i]
  BY <1>3
<1> QED
  BY <1>4 DEF Answered

\* alarmReceiver takes the oldest alarm of those offered.
LEMMA ReceiveStep ==
  ASSUME RouterInv, ChainInv, Hand
  PROVE  \E a \in DOMAIN alarms : Chain!Receive(a)
<1>1. SUFFICES ASSUME NEW a, a = Head(alarmChan), NEW k, k = Len(handed) + 1
               PROVE  \E b \in DOMAIN alarms : Chain!Receive(b)
  OBVIOUS
<1>2. /\ alarmChan # <<>> /\ handed' = Append(handed, a) /\ alarmChan' = Tail(alarmChan)
      /\ alarms' = alarms /\ dbRows' = dbRows /\ pc' = pc /\ cur' = cur /\ heard' = heard
  BY <1>1 DEF Hand, Router!ReceiveAlarm, Router!memVars, Router!dbVars,
     Router!receiverVars, historyVars, startVars
<1>3. /\ handed \in Seq(Nat) /\ Rising(handed)
      /\ alarmChan \in Seq(Nat) /\ Rising(alarmChan) /\ alarmChan \in Seq(R!AlarmId)
      /\ DOMAIN handed = 1..Len(handed) /\ DOMAIN alarmChan = 1..Len(alarmChan)
      /\ DOMAIN alarms = R!AlarmId
      /\ \A j \in DOMAIN handed, i \in DOMAIN alarmChan : handed[j] < alarmChan[i]
  BY SentOrder
<1>4. /\ Len(alarmChan) \in Nat \ {0} /\ Len(handed) \in Nat
      /\ a = alarmChan[1] /\ 1 \in DOMAIN alarmChan
      /\ a \in R!AlarmId /\ a \in Nat
      /\ DOMAIN Tail(alarmChan) = 1..Len(alarmChan) - 1
      /\ \A i \in 1..Len(alarmChan) - 1 : Tail(alarmChan)[i] = alarmChan[i + 1]
  <2>1. Len(alarmChan) \in Nat \ {0} /\ Len(handed) \in Nat
    BY <1>2, <1>3, LenProperties, EmptySeq
  <2>2. /\ a = alarmChan[1] /\ a \in R!AlarmId /\ a \in Nat
        /\ Tail(alarmChan) \in Seq(Nat) /\ Len(Tail(alarmChan)) = Len(alarmChan) - 1
        /\ \A i \in 1..Len(Tail(alarmChan)) : Tail(alarmChan)[i] = alarmChan[i + 1]
    BY <1>1, <1>2, <1>3, HeadTailProperties
  <2>3. DOMAIN Tail(alarmChan) = 1..Len(Tail(alarmChan))
    BY <2>2, LenProperties
  <2> QED
    BY <1>3, <2>1, <2>2, <2>3
<1>5. \A j \in DOMAIN handed : handed[j] < a
  BY <1>3, <1>4
<1>6. /\ handed' \in Seq(Nat) /\ DOMAIN handed' = 1..k /\ k \in DOMAIN handed'
      /\ handed'[k] = a /\ Len(handed') = k /\ k \in Nat
      /\ \A j \in DOMAIN handed : j \in DOMAIN handed' /\ handed'[j] = handed[j] /\ j # k
      /\ \A j \in DOMAIN handed' : j \in DOMAIN handed \/ j = k
  <2>1. /\ handed' \in Seq(Nat) /\ Len(handed') = Len(handed) + 1
        /\ handed'[Len(handed) + 1] = a
        /\ \A j \in 1..Len(handed) : handed'[j] = handed[j]
    BY <1>2, <1>3, <1>4, AppendProperties
  <2>2. DOMAIN handed' = 1..k /\ k \in Nat /\ k = Len(handed) + 1
    BY <1>1, <1>4, <2>1, LenProperties
  <2>3. /\ k \in 1..k
        /\ \A j \in 1..Len(handed) : j \in 1..k /\ j # k
        /\ \A j \in 1..k : j \in 1..Len(handed) \/ j = k
    BY <1>4, <2>2
  <2> QED
    BY <1>3, <2>1, <2>2, <2>3
<1>7. Rising(handed')
  <2>1. SUFFICES ASSUME NEW i \in 1..k, NEW j \in 1..k, i < j
                 PROVE  handed'[i] < handed'[j]
    BY <1>6 DEF Rising
  <2>2. i \in DOMAIN handed
    BY <1>1, <1>3, <1>4, <2>1
  <2> QED
    BY <1>3, <1>5, <1>6, <2>1, <2>2 DEF Rising
<1>8. /\ Len(received) = Len(handed) /\ heard \in Nat /\ heard < k
      /\ asked \in Seq(E!Command)
  BY <1>1, <1>4 DEF ChainInv, E!TypeOK
<1>9. PICK new \in Seq(E!Command) :
        asked' = asked \o new /\ \A i \in 1..Len(new) : new[i].alarm = k
  <2>1. PICK l : /\ asked' = asked \o E!CommandsFor(k, l) /\ Len(received) < MaxReadings
    BY <1>1, <1>8
    DEF Hand, Controller!ReceiveAlarm, Controller!CommandsFor, E!CommandsFor
  <2>2. k \in 1..MaxReadings
    BY <1>1, <1>4, <1>8, <2>1, BoundAssumption
  <2> QED
    BY <2>1, <2>2, CommandsName
<1>10. handled' = handled
  BY DEF Hand, Controller!ReceiveAlarm, Controller!procVars
<1>11. ~IsHanded(a) /\ Waits(a)
  BY <1>3, <1>4, WaitsNotHanded DEF Waits
<1>12. StageOf(a) = "offered"
  BY <1>11, OtherStage DEF Elsewhere
<1>13. StageOf(a)' \in {"received", "answered"}
  <2>1. StageOf(a)' = Passed(k)'
    BY <1>6, <1>7, HandedStageNext
  <2>2. k > heard'
    BY <1>2, <1>6, <1>8
  <2> QED
    BY <2>1, <2>2 DEF Passed
<1>14. ASSUME NEW b \in DOMAIN alarms, b # a
       PROVE  StageOf(b)' = StageOf(b)
  <2>1. CASE IsHanded(b)
    <3>1. PICK j \in DOMAIN handed : handed[j] = b
      BY <2>1 DEF IsHanded
    <3>2. StageOf(b) = Passed(j)
      BY <1>3, <3>1, HandedStage
    <3>3. j \in DOMAIN handed' /\ handed'[j] = b /\ j # k
      BY <1>6, <3>1
    <3>4. StageOf(b)' = Passed(j)'
      BY <1>6, <1>7, <3>3, HandedStageNext
    <3>5. Answered(j)' <=> Answered(j)
      BY <1>8, <1>9, <1>10, <3>3, OthersAsked
    <3> QED
      BY <1>2, <3>2, <3>4, <3>5 DEF Passed
  <2>2. CASE ~IsHanded(b)
    <3>1. ~IsHanded(b)'
      BY <1>6, <1>14, <2>2 DEF IsHanded
    <3>2. Waits(b)' <=> Waits(b)
      <4>1. /\ \A i \in 1..Len(alarmChan) - 1 : i + 1 \in DOMAIN alarmChan
            /\ \A i \in DOMAIN alarmChan : i = 1 \/ \E m \in 1..Len(alarmChan) - 1 : i = m + 1
        <5>1. \A i \in DOMAIN alarmChan : i # 1 => i - 1 \in 1..Len(alarmChan) - 1 /\ i = (i - 1) + 1
          BY <1>3, <1>4
        <5> QED
          BY <1>3, <1>4, <5>1
      <4> QED
        BY <1>2, <1>4, <1>14, <4>1 DEF Waits
    <3> QED
      BY <1>2, <2>2, <3>1, <3>2, OtherStage DEF Elsewhere
  <2> QED
    BY <2>1, <2>2
<1>15. \E s \in {"received", "answered"} : Stages' = [Stages EXCEPT ![a] = s]
  BY <1>2, <1>3, <1>4, <1>13, <1>14, StageMoves
<1>16. \A b \in DOMAIN alarms : StageOf(b) = "offered" => a <= b
  <2>1. SUFFICES ASSUME NEW b \in DOMAIN alarms, StageOf(b) = "offered" PROVE a <= b
    OBVIOUS
  <2>2. ~IsHanded(b)
    BY <1>3, <2>1, HandedStage DEF IsHanded, Passed
  <2>3. PICK i \in DOMAIN alarmChan : alarmChan[i] = b
    BY <2>1, <2>2, OtherStage DEF Elsewhere, Waits
  <2>4. b \in Nat
    BY <1>3, <2>3, ElementOfSeq
  <2>5. CASE i = 1
    BY <1>4, <2>3, <2>5
  <2>6. CASE i # 1
    <3>1. 1 < i
      BY <1>3, <1>4, <2>6
    <3> QED
      BY <1>3, <1>4, <2>3, <2>4, <3>1 DEF Rising
  <2> QED
    BY <2>5, <2>6
<1>17. Chain!Receive(a)
  <2>1. Stages[a] = "offered" /\ \A b \in DOMAIN Stages : Stages[b] = "offered" => a <= b
    BY <1>3, <1>4, <1>12, <1>16 DEF Stages
  <2> QED
    BY <1>2, <1>15, <2>1 DEF Chain!Receive, Chain!Oldest, Chain!At, Stages
<1> QED
  BY <1>3, <1>4, <1>17

\* The end of processCommand answers the oldest alarm that is not answered yet, if this
\* was its last command, and no other.
LEMMA AnswerStep ==
  ASSUME RouterInv, ChainInv, E!CommandDone,
         UNCHANGED <<alarms, dbRows, handed, alarmChan, pc, cur, heard>>
  PROVE  (\E a \in DOMAIN alarms : Chain!Answer(a)) \/ UNCHANGED Chain!vars
<1>1. SUFFICES ASSUME NEW k, k = job[1].alarm, NEW a, a = handed[k]
               PROVE  (\E b \in DOMAIN alarms : Chain!Answer(b)) \/ UNCHANGED Chain!vars
  OBVIOUS
<1>2. /\ asked' = asked /\ handled' = handled \o job
  BY DEF E!CommandDone, E!recvVars
<1>3. /\ job \in Seq(E!Command) /\ Len(job) = 1
      /\ 1 \in 1..Len(E!Work) /\ E!Work[1] = job[1] /\ job[1] \in E!Command
      /\ handled \in Seq(E!Command)
      /\ asked \in Seq(E!Command)
  BY JobFirst DEF ChainInv, E!TypeOK, E!CommandDone
<1>4. /\ handed \in Seq(Nat) /\ Rising(handed) /\ handed \in Seq(R!AlarmId)
      /\ DOMAIN handed = 1..Len(handed) /\ DOMAIN alarms = R!AlarmId
      /\ handed' = handed
  BY SentOrder
<1>5. /\ heard < k /\ k \in DOMAIN handed /\ k \in Nat /\ heard \in Nat
      /\ Len(handed) \in Nat
  <2>1. k \in 1..MaxReadings
    BY <1>1, <1>3 DEF E!Command
  <2>2. heard < k /\ k <= Len(received) /\ Len(received) = Len(handed)
    BY <1>1, <1>3 DEF ChainInv, WorkInOrder
  <2>3. Len(handed) \in Nat /\ heard \in 0..Len(received)
    BY <1>4, LenProperties DEF ChainInv
  <2> QED
    BY <1>4, <2>1, <2>2, <2>3, BoundAssumption
<1>6. a \in DOMAIN alarms
  BY <1>1, <1>4, <1>5, ElementOfSeq
<1>7. /\ DOMAIN (handled \o job) = 1..Len(handled) + 1 /\ Len(handled) \in Nat
      /\ DOMAIN handled = 1..Len(handled)
      /\ \A i \in DOMAIN handled : (handled \o job)[i] = handled[i]
      /\ \A i \in DOMAIN handled : i \in DOMAIN (handled \o job)
      /\ \A i \in DOMAIN (handled \o job) : i \in DOMAIN handled \/ i = Len(handled) + 1
      /\ (handled \o job)[Len(handled) + 1] = job[1]
  <2>1. handled \o job \in Seq(E!Command) /\ Joins(handled \o job, handled, job)
    BY <1>3, ConcatElements
  <2>2. DOMAIN handled = 1..Len(handled) /\ DOMAIN (handled \o job) = 1..Len(handled \o job)
    BY <1>3, <2>1, LenProperties
  <2>3. Len(handled \o job) = Len(handled) + 1 /\ Len(handled) \in Nat
    BY <1>3, <2>1 DEF Joins
  <2>4. \A i \in 1..Len(handled) : i \in 1..Len(handled \o job)
                                    /\ (handled \o job)[i] = handled[i]
    BY <2>1 DEF Joins
  <2>5. (handled \o job)[Len(handled) + 1] = job[1]
    BY <1>3, <2>1 DEF Joins
  <2>6. \A i \in 1..Len(handled) + 1 : i \in 1..Len(handled) \/ i = Len(handled) + 1
    BY <2>3
  <2> QED
    BY <2>2, <2>3, <2>4, <2>5, <2>6
<1>8. /\ \A j : Answered(j) => Answered(j)'
      /\ \A j : j # k /\ Answered(j)' => Answered(j)
  BY <1>1, <1>2, <1>7 DEF Answered
<1>9. \A b \in DOMAIN alarms : b # a => StageOf(b)' = StageOf(b)
  <2>1. SUFFICES ASSUME NEW b \in DOMAIN alarms, b # a
                 PROVE  StageOf(b)' = StageOf(b)
    OBVIOUS
  <2>2. CASE IsHanded(b)
    <3>1. PICK j \in DOMAIN handed : handed[j] = b
      BY <2>2 DEF IsHanded
    <3>2. j # k
      BY <1>1, <2>1, <3>1
    <3>3. StageOf(b) = Passed(j) /\ StageOf(b)' = Passed(j)'
      BY <1>4, <3>1, HandedStage, HandedStageNext
    <3> QED
      BY <1>8, <3>2, <3>3 DEF Passed
  <2>3. CASE ~IsHanded(b)
    BY <2>3, OtherStage DEF IsHanded, Waits, Elsewhere
  <2> QED
    BY <2>2, <2>3
<1>10. StageOf(a) = Passed(k) /\ StageOf(a)' = Passed(k)'
  BY <1>1, <1>4, <1>5, HandedStage, HandedStageNext
<1>11. CASE Answered(k)' <=> Answered(k)
  <2>1. StageOf(a)' = StageOf(a)
    BY <1>10, <1>11 DEF Passed
  <2> QED
    BY <1>9, <2>1, StagesRest
<1>12. CASE ~(Answered(k)' <=> Answered(k))
  <2>1. ~Answered(k) /\ Answered(k)'
    BY <1>8, <1>12
  <2>2. StageOf(a) = "received" /\ StageOf(a)' = "answered"
    BY <1>5, <1>10, <2>1 DEF Passed
  <2>3. Stages' = [Stages EXCEPT ![a] = "answered"]
    BY <1>6, <1>9, <2>2, StageMoves
  <2>4. \A b \in DOMAIN alarms : StageOf(b) = "received" => a <= b
    <3>1. SUFFICES ASSUME NEW b \in DOMAIN alarms, StageOf(b) = "received" PROVE a <= b
      OBVIOUS
    <3>2. IsHanded(b)
      BY <3>1, OtherStage DEF Elsewhere
    <3>3. PICK j \in DOMAIN handed : handed[j] = b
      BY <3>2 DEF IsHanded
    <3>4. StageOf(b) = Passed(j)
      BY <1>4, <3>3, HandedStage
    <3>5. ~Answered(j) /\ j > heard
      BY <3>1, <3>4 DEF Passed
    <3>6. PICK i \in DOMAIN asked : /\ asked[i].alarm = j
                                    /\ \A m \in DOMAIN handled : handled[m] # asked[i]
      BY <3>5 DEF Answered
    <3>7. PICK m \in 1..Len(E!Work) : E!Work[m] = asked[i]
      <4>1. i \in 1..Len(asked)
        BY <1>3, LenProperties
      <4>2. ~(asked[i].alarm <= heard)
        BY <1>4, <1>5, <3>5, <3>6
      <4> QED
        BY <1>7, <3>6, <4>1, <4>2 DEF ChainInv, AskedFollowed
    <3>8. k <= j
      <4>1. CASE m = 1
        BY <1>1, <1>3, <1>5, <3>6, <3>7, <4>1
      <4>2. CASE m # 1
        <5>1. 1 < m
          BY <4>2
        <5> QED
          BY <1>1, <1>3, <3>6, <3>7, <5>1 DEF ChainInv, WorkInOrder
      <4> QED
        BY <4>1, <4>2
    <3>9. a = handed[k] /\ b = handed[j] /\ b \in Nat /\ k \in DOMAIN handed
          /\ j \in DOMAIN handed
      BY <1>1, <1>4, <1>5, <3>3, ElementOfSeq
    <3>10. CASE k = j
      BY <3>9, <3>10
    <3>11. CASE k < j
      <4>1. handed[k] < handed[j]
        BY <1>4, <3>9, <3>11 DEF Rising
      <4>2. handed[k] \in Nat
        BY <1>4, <3>9, ElementOfSeq
      <4> QED
        BY <3>9, <4>1, <4>2
    <3> QED
      BY <1>4, <1>5, <3>3, <3>8, <3>10, <3>11
  <2>5. Chain!Answer(a)
    <3>1. Stages[a] = "received" /\ \A b \in DOMAIN Stages : Stages[b] = "received" => a <= b
      BY <1>6, <2>2, <2>4 DEF Stages
    <3> QED
      BY <2>3, <3>1 DEF Chain!Answer, Chain!Oldest, Chain!At, Stages
  <2> QED
    BY <1>6, <2>5
<1> QED
  BY <1>11, <1>12

\* A restart loses all alarms that are not answered.
LEMMA RestartStep ==
  ASSUME RouterInv, ChainInv, Restart
  PROVE  Chain!Restart
<1>1. /\ alarmChan' = <<>> /\ handed' = handed /\ pc' = "poll" /\ cur' = 0
      /\ heard' = Len(received) /\ asked' = asked /\ handled' = handled
      /\ alarms' = alarms /\ dbRows' = dbRows
  BY DEF Restart
<1>2. /\ handed \in Seq(Nat) /\ Rising(handed) /\ DOMAIN handed = 1..Len(handed)
      /\ Len(handed) = Len(received) /\ Len(handed) \in Nat
  BY SentOrder, LenProperties DEF ChainInv
<1>3. ASSUME NEW a \in DOMAIN alarms
      PROVE  StageOf(a)' = IF StageOf(a) = "answered" THEN "answered" ELSE "lost"
  <2>1. CASE IsHanded(a)
    <3>1. PICK k \in DOMAIN handed : handed[k] = a
      BY <2>1 DEF IsHanded
    <3>2. StageOf(a) = Passed(k) /\ StageOf(a)' = Passed(k)'
      BY <1>1, <1>2, <3>1, HandedStage, HandedStageNext
    <3>3. ~(k > heard')
      BY <1>1, <1>2
    <3>4. Answered(k)' <=> Answered(k)
      BY <1>1 DEF Answered
    <3> QED
      BY <3>2, <3>3, <3>4 DEF Passed
  <2>2. CASE ~IsHanded(a)
    <3>1. ~IsHanded(a)' /\ ~Waits(a)'
      BY <1>1, <2>2 DEF IsHanded, Waits
    <3>2. StageOf(a) # "answered"
      BY <2>2, OtherStage DEF Elsewhere
    <3> QED
      BY <1>1, <3>1, <3>2, OtherStage DEF Elsewhere
  <2> QED
    BY <2>1, <2>2
<1>4. Stages' = [a \in DOMAIN Stages |->
                   IF Stages[a] = "answered" THEN "answered" ELSE "lost"]
  BY <1>1, <1>3 DEF Stages
<1> QED
  BY <1>1, <1>4 DEF Chain!Restart, Stages

\* A step that sends no alarm and processes no command.
Quiet ==
  /\ UNCHANGED <<alarms, dbRows, handed, alarmChan, asked, handled, heard>>
  /\ \/ UNCHANGED <<pc, cur>>
     \/ pc \notin {"save", "trigger"} /\ pc' \notin {"save", "trigger"}

LEMMA QuietStep ==
  ASSUME Quiet
  PROVE  UNCHANGED Chain!vars
<1>1. \A a \in DOMAIN alarms : StageOf(a)' = StageOf(a)
  BY SameStage DEF Quiet
<1> QED
  BY <1>1, StagesRest DEF Quiet

\* The step of the receiver of AlarmRouter.
LEMMA RouterChainStep ==
  ASSUME RouterInv, ChainInv, RouterStep
  PROVE  [Chain!Next]_(Chain!vars)
<1>1. Router!Receiver /\ UNCHANGED <<asked, handled, heard>>
  BY DEF RouterStep, routerRest, controllerVars, historyVars, startVars
<1>2. CASE Router!CreateAlarm
  BY <1>1, <1>2, RaiseStep DEF Chain!Next
<1>3. CASE Router!SaveAlarm
  <2>1. \E a \in DOMAIN alarms : Chain!Store(a)
    BY <1>1, <1>3, StoreStep
  <2> QED
    BY <2>1 DEF Chain!Next
<1>4. CASE Router!TriggerAlarm
  <2>1. \E a \in DOMAIN alarms : Chain!Offer(a)
    BY <1>1, <1>4, OfferStep
  <2> QED
    BY <2>1 DEF Chain!Next
<1>5. CASE Router!Poll \/ Router!Receive \/ Router!ReceiveTimeout \/ Router!CheckAlarm
  <2>1. Quiet
    BY <1>1, <1>5 DEF Quiet, Router!Poll, Router!Receive, Router!ReceiveTimeout,
       Router!CheckAlarm, Router!memVars, Router!dbVars
  <2> QED
    BY <2>1, QuietStep
<1>6. CASE Router!ResolveAlarm \/ Router!ResolveRow
  <2>1. Quiet
    BY <1>1, <1>6 DEF Quiet, Router!ResolveAlarm, Router!ResolveRow, Router!memVars,
       Router!dbVars
  <2> QED
    BY <2>1, QuietStep
<1> QED
  BY <1>1, <1>2, <1>3, <1>4, <1>5, <1>6 DEF Router!Receiver

\* Every step of the program is one of ResponseChain or none.
LEMMA ChainNext ==
  ASSUME RouterInv, ChainInv, [Next]_vars
  PROVE  [Chain!Next]_(Chain!vars)
<1>1. CASE \/ \E d \in Detector, c \in Concentration \cup {Invalid} : Arrive(d, c)
           \/ \E m \in flying : ProcessData(m)
  <2>1. Quiet
    BY <1>1 DEF Arrive, ProcessData, Quiet, routerVars, controllerVars, startVars,
       Router!ForwardReading, Router!memVars, Router!dbVars, Router!receiverVars
  <2> QED
    BY <2>1, QuietStep
<1>2. CASE RouterStep
  BY <1>2, RouterChainStep
<1>3. CASE Hand
  <2>1. \E a \in DOMAIN alarms : Chain!Receive(a)
    BY <1>3, ReceiveStep
  <2> QED
    BY <2>1 DEF Chain!Next
<1>4. CASE AlarmReceiver
  <2>1. Quiet
    BY <1>4 DEF AlarmReceiver, Quiet, controllerRest, routerVars, historyVars, startVars,
       Controller!procVars,
       Controller!AlarmReceiver, Controller!Poll, Controller!ReceiveTimeout,
       Controller!SendCommand, Controller!Panic, Controller!HandleAlarmReturns
  <2> QED
    BY <2>1, QuietStep
<1>5. CASE CommandProcessor
  <2>1. E!CommandProcessor /\ UNCHANGED <<alarms, dbRows, handed, alarmChan, pc, cur, heard>>
    BY <1>5, ControllerProcessor
    DEF CommandProcessor, controllerRest, routerVars, historyVars, startVars
  <2>2. CASE E!CommandDone
    BY <2>1, <2>2, AnswerStep DEF Chain!Next
  <2>3. CASE E!TakeCommand \/ E!MarkControlled \/ E!ProcessorExits
             \/ \E d \in E!Device : E!CanControl(d)
    <3>1. Quiet
      BY <2>1, <2>3 DEF Quiet, E!TakeCommand, E!MarkControlled, E!ProcessorExits,
         E!CanControl, E!recvVars
    <3> QED
      BY <3>1, QuietStep
  <2> QED
    BY <2>1, <2>2, <2>3 DEF E!CommandProcessor
<1>6. CASE DeviceTask \/ CooldownOver \/ StopController
  <2>1. Quiet
    BY <1>6 DEF DeviceTask, CooldownOver, StopController, Quiet, controllerRest,
       routerVars, historyVars, startVars, Controller!TaskStep, Controller!ControlDevice,
       Controller!UpdateRow, Controller!LogControl, Controller!CooldownOver,
       Controller!Stop, Controller!recvVars, Controller!procVars
  <2> QED
    BY <2>1, QuietStep
<1>7. CASE StopRouter
  <2>1. Quiet
    BY <1>7 DEF StopRouter, Quiet, Router!Stop, Router!memVars, Router!dbVars,
       Router!receiverVars, controllerVars, historyVars, startVars
  <2> QED
    BY <2>1, QuietStep
<1>8. CASE CloseChannels \/ MainReturns \/ Panics \/ UNCHANGED vars
  <2>1. Quiet
    BY <1>8 DEF CloseChannels, MainReturns, Panics, vars, Quiet, routerVars,
       controllerVars, historyVars, startVars
  <2> QED
    BY <2>1, QuietStep
<1>9. CASE Restart
  BY <1>9, RestartStep DEF Chain!Next
<1> QED
  BY <1>1, <1>2, <1>3, <1>4, <1>5, <1>6, <1>7, <1>8, <1>9 DEF Next, Main

LEMMA ChainInit == Init => ChainInv /\ Chain!Init
<1> SUFFICES ASSUME Init PROVE ChainInv /\ Chain!Init
  OBVIOUS
<1>1. R!Init /\ E!Init /\ heard = 0
  BY RouterOthers, ControllerOthers DEF Init
<1>2. E!TypeOK
  BY <1>1, ControllerFacts, E!TypeInit
<1>3. handed = <<>> /\ alarmChan = <<>> /\ alarms = <<>> /\ dbRows = {} /\ pc = "poll"
  BY <1>1 DEF R!Init
<1>4. /\ received = <<>> /\ recvPc = "poll" /\ asked = <<>> /\ handled = <<>>
      /\ job = <<>> /\ commandChan = <<>> /\ offer = <<>>
  BY <1>1 DEF E!Init
<1>5. R!HandedInOrder
  BY <1>3, EmptySeq, ConcatEmptySeq DEF R!HandedInOrder
<1>6. WorkInOrder /\ AskedFollowed
  <2>1. E!Work = <<>>
    BY <1>4, EmptySeq, ConcatEmptySeq DEF E!Work
  <2> QED
    BY <1>4, <2>1 DEF WorkInOrder, AskedFollowed
<1>7. ChainInv
  BY <1>1, <1>2, <1>3, <1>4, <1>5, <1>6 DEF ChainInv
<1>8. Chain!Init
  BY <1>3 DEF Chain!Init
<1> QED
  BY <1>7, <1>8

\* The modules of main, the channels between them and any restarts keep the promise of
\* ResponseChain: the database is told of an alarm before EmergencyController, which
\* receives and answers the alarms in the order in which they are raised, and an alarm
\* that is lost on the way stays lost.
THEOREM ImplementsChainCorrect == Spec => ImplementsChain
<1> DEFINE Inv == RouterInv /\ ReportTypes /\ LastReported /\ ChainInv
<1>1. Init => Inv /\ Chain!Init
  BY TruthInit, ChainInit
<1>2. Inv /\ [Next]_vars => Inv'
  BY RouterInvStep, ReportStep, ChainStep DEF RouterInv
<1>3. Inv /\ [Next]_vars => [Chain!Next]_(Chain!vars)
  BY ChainNext
<1> QED
  BY <1>1, <1>2, <1>3, PTL DEF Spec, ImplementsChain, Chain!Spec
===============================================================================
