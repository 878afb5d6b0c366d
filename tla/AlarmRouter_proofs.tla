-------------------------- MODULE AlarmRouter_proofs --------------------------
(***************************************************************************)
(* Proofs about AlarmRouter for any detectors, readings, thresholds and    *)
(* channel capacities.                                                     *)
(***************************************************************************)
EXTENDS AlarmRouter, SequenceTheorems, FiniteSetTheorems, WellFoundedInduction, TLAPS

\* A sequence over a set is a sequence over every larger one.
LEMMA SeqMonotone ==
  ASSUME NEW S, NEW T, S \subseteq T, NEW s \in Seq(S)
  PROVE  s \in Seq(T)
OBVIOUS

\* Moving the head of the second sequence to the end of the first.
LEMMA MoveHead ==
  ASSUME NEW S, NEW s \in Seq(S), NEW t \in Seq(S), t # <<>>
  PROVE  Append(s, Head(t)) \o Tail(t) = s \o t
<1> DEFINE a == Append(s, Head(t))
<1>1. /\ Head(t) \in S /\ Tail(t) \in Seq(S) /\ Len(Tail(t)) = Len(t) - 1
      /\ Head(t) = t[1] /\ Len(t) \in Nat \ {0}
      /\ \A i \in 1..(Len(t) - 1) : Tail(t)[i] = t[i + 1]
  OBVIOUS
<1>2. /\ a \in Seq(S) /\ Len(a) = Len(s) + 1 /\ a[Len(s) + 1] = t[1]
      /\ \A i \in 1..Len(s) : a[i] = s[i]
  <2>1. /\ a \in Seq(S) /\ Len(a) = Len(s) + 1 /\ a[Len(s) + 1] = Head(t)
        /\ \A i \in 1..Len(s) : a[i] = s[i]
    BY <1>1, AppendProperties
  <2> QED
    BY <1>1, <2>1
<1> HIDE DEF a
<1>3. /\ a \o Tail(t) \in Seq(S) /\ s \o t \in Seq(S)
      /\ Len(a \o Tail(t)) = Len(s \o t) /\ Len(s \o t) = Len(s) + Len(t)
      /\ Len(s) \in Nat
  <2>1. Len(s) \in Nat
    OBVIOUS
  <2>2. s \o t \in Seq(S) /\ Len(s \o t) = Len(s) + Len(t)
    BY ConcatProperties
  <2>3. a \o Tail(t) \in Seq(S) /\ Len(a \o Tail(t)) = Len(a) + Len(Tail(t))
    BY <1>1, <1>2, ConcatProperties
  <2> QED
    BY <1>1, <1>2, <2>1, <2>2, <2>3
<1>4. ASSUME NEW i \in 1..Len(a \o Tail(t))
      PROVE  (a \o Tail(t))[i] = (s \o t)[i]
  <2>1. /\ (a \o Tail(t))[i] = IF i <= Len(a) THEN a[i] ELSE Tail(t)[i - Len(a)]
        /\ (s \o t)[i] = IF i <= Len(s) THEN s[i] ELSE t[i - Len(s)]
    BY <1>1, <1>2, <1>3, ConcatProperties
  <2>2. CASE i <= Len(s)
    BY <1>2, <1>3, <2>1, <2>2
  <2>3. CASE i = Len(s) + 1
    BY <1>2, <1>3, <2>1, <2>3
  <2>4. CASE i > Len(s) + 1
    BY <1>1, <1>2, <1>3, <2>1, <2>4
  <2> QED
    BY <1>3, <2>2, <2>3, <2>4
<1> QED
  BY <1>3, <1>4, SeqEqual DEF a

\* Appending to the second of two concatenated sequences.
LEMMA ConcatAppend ==
  ASSUME NEW S, NEW s \in Seq(S), NEW t \in Seq(S), NEW e \in S
  PROVE  s \o Append(t, e) = Append(s \o t, e)
<1>1. /\ Append(t, e) = t \o <<e>> /\ <<e>> \in Seq(S) /\ s \o t \in Seq(S)
      /\ Append(s \o t, e) = (s \o t) \o <<e>>
  BY AppendIsConcat, ConcatProperties
<1> QED
  BY <1>1, ConcatAssociative

\* Appending a number above all others keeps a sequence increasing.
LEMMA IncreasingAppend ==
  ASSUME NEW S, S \subseteq Nat, NEW s \in Seq(S), NEW e \in S,
         \A i \in 1..Len(s) : s[i] < e,
         \A i, j \in 1..Len(s) : i < j => s[i] < s[j]
  PROVE  \A i, j \in 1..Len(Append(s, e)) :
           i < j => Append(s, e)[i] < Append(s, e)[j]
<1>1. /\ Len(Append(s, e)) = Len(s) + 1 /\ Len(s) \in Nat
      /\ \A i \in 1..Len(s) : Append(s, e)[i] = s[i]
      /\ Append(s, e)[Len(s) + 1] = e
  BY AppendProperties
<1> QED
  BY <1>1

\* The level of a reading is one of four.
LEMMA LevelRange ==
  ASSUME NEW c
  PROVE  getAlarmLevel(c) \in 0..3
BY DEF getAlarmLevel

\* Every step keeps the types.
LEMMA TypeStep ==
  ASSUME TypeOK, [Next]_vars
  PROVE  TypeOK'
<1> USE ThresholdAssumption, BoundAssumption, NoReadingAssumption
<1> USE DEF TypeOK
<1>a. alarms' = alarms => AlarmId' = AlarmId
  BY DEF AlarmId
<1>1. ASSUME NEW d \in Device, NEW c \in Concentration, ForwardReading(d, c)
      PROVE  TypeOK'
  <2>1. [device |-> d, conc |-> c] \in Reading
    BY DEF Reading
  <2>2. dataChan' \in Seq(Reading) /\ Len(dataChan') <= DataChanCap
    BY <1>1, <2>1 DEF ForwardReading
  <2>3. last' \in [Device -> Nat] /\ accepted' \in Nat
    BY <1>1 DEF ForwardReading
  <2>4. UNCHANGED <<running, alarmChan, memVars, dbVars, receiverVars, smsVars, handed,
                  lostAcks>>
    BY <1>1 DEF ForwardReading
  <2> QED
    BY <1>a, <2>2, <2>3, <2>4
    DEF memVars, dbVars, receiverVars, smsVars
<1>2. CASE ReceiveAlarm
  <2>1. alarmChan' \in Seq(AlarmId) /\ Len(alarmChan') <= AlarmChanCap
    BY <1>2 DEF ReceiveAlarm
  <2>2. handed' \in Seq(AlarmId)
    BY <1>2 DEF ReceiveAlarm
  <2> QED
    BY <1>2, <1>a, <2>1, <2>2
    DEF ReceiveAlarm, memVars, dbVars, receiverVars, smsVars, ghostVars
<1>3. CASE Tick
  BY <1>3, <1>a DEF Tick, memVars, dbVars, receiverVars, ghostVars
<1>4. CASE Poll
  BY <1>4, <1>a DEF Poll, memVars, dbVars, smsVars, ghostVars
<1>5. CASE Receive
  <2>1. Head(dataChan) \in Reading
    BY <1>5 DEF Receive
  <2>2. dataChan' \in Seq(Reading) /\ Len(dataChan') <= DataChanCap
    BY <1>5 DEF Receive
  <2> QED
    BY <1>5, <1>a, <2>1, <2>2 DEF Receive, memVars, dbVars, smsVars, ghostVars
<1>6. CASE ReceiveTimeout
  BY <1>6, <1>a DEF ReceiveTimeout, memVars, dbVars, smsVars, ghostVars
<1>7. CASE ResolveAlarm
  <2>1. reading.device \in Device
    BY <1>7 DEF ResolveAlarm, Reading
  <2>2. activeAlarms[reading.device] # 0
          => activeAlarms[reading.device] \in AlarmId
    BY <2>1
  <2> QED
    BY <1>7, <1>a, <2>1, <2>2 DEF ResolveAlarm, dbVars, smsVars, ghostVars
<1>8. CASE ResolveRow
  BY <1>8, <1>a DEF ResolveRow, memVars, smsVars, ghostVars
<1>9. CASE CheckAlarm
  BY <1>9, <1>a DEF CheckAlarm, memVars, dbVars, smsVars, ghostVars
<1>10. CASE CreateAlarm
  <2> DEFINE alarm == [device |-> reading.device,
                       level  |-> getAlarmLevel(reading.conc)]
  <2>1. reading.device \in Device
    BY <1>10 DEF CreateAlarm, Reading
  <2>2. getAlarmLevel(reading.conc) \in 1..3
    BY <1>10, LevelRange DEF CreateAlarm
  <2>3. alarm \in [device : Device, level : 1..3]
    BY <2>1, <2>2
  <2>4. alarms' \in Seq([device : Device, level : 1..3])
        /\ Len(alarms') = Len(alarms) + 1
    BY <1>10, <2>3 DEF CreateAlarm
  <2>5. AlarmId' = AlarmId \cup {Len(alarms) + 1} /\ Len(alarms) + 1 \in AlarmId'
    BY <2>4 DEF AlarmId
  <2>6. alarmChan' \in Seq(AlarmId') /\ handed' \in Seq(AlarmId')
    BY <1>10, <2>5, SeqMonotone DEF CreateAlarm
  <2>7. timestamps' \in Seq(Nat) /\ Len(timestamps') = Len(alarms')
    <3>1. timestamps' = Append(timestamps, stamp)
      BY <1>10 DEF CreateAlarm
    <3>2. timestamps \in Seq(Nat) /\ stamp \in Nat /\ Len(timestamps) = Len(alarms)
      OBVIOUS
    <3> QED
      BY <2>4, <3>1, <3>2, AppendProperties
  <2>8. alarmHistory' \in [Device -> Seq(Nat)]
    BY <1>10, <2>1 DEF CreateAlarm
  <2>9. activeAlarms' \in [Device -> {0} \cup AlarmId']
    BY <1>10, <2>1, <2>5 DEF CreateAlarm
  <2>10. cur' \in AlarmId' /\ cur' # 0
    BY <1>10, <2>5 DEF CreateAlarm
  <2> QED
    BY <1>10, <2>4, <2>5, <2>6, <2>7, <2>8, <2>9, <2>10
    DEF CreateAlarm, dbVars, smsVars, ghostVars
<1>11. CASE SaveAlarm
  BY <1>11, <1>a DEF SaveAlarm, memVars, smsVars, ghostVars
<1>12. CASE TriggerAlarm
  <2>1. alarmChan' \in Seq(AlarmId) /\ Len(alarmChan') <= AlarmChanCap
    BY <1>12 DEF TriggerAlarm
  <2> QED
    BY <1>12, <1>a, <2>1 DEF TriggerAlarm, memVars, dbVars, ghostVars
<1>13. ASSUME NEW note \in smsNoted, SendAlarmSMS(note)
       PROVE  TypeOK'
  BY <1>13, <1>a DEF SendAlarmSMS, memVars, dbVars, receiverVars, ghostVars
<1>14. ASSUME NEW id \in AlarmId, AcknowledgeAlarm(id)
       PROVE  TypeOK'
  BY <1>14, <1>a DEF AcknowledgeAlarm, receiverVars, smsVars, ghostVars
<1>17. ASSUME NEW id \in smsPending, ReadHistory(id)
       PROVE  TypeOK'
  <2>1. id \in AlarmId /\ UNCHANGED alarms /\ Len(alarmHistory[alarms[id].device]) \in Nat
    <3>1. alarms[id] \in [device : Device, level : 1..3]
      BY ElementOfSeq DEF AlarmId
    <3> QED
      BY <1>17, <3>1 DEF ReadHistory, memVars
  <2>2. smsNoted' \subseteq [alarm : AlarmId, length : Nat] /\ smsPending' \subseteq AlarmId
    BY <1>17, <2>1 DEF ReadHistory
  <2> QED
    BY <1>17, <1>a, <2>1, <2>2 DEF ReadHistory, memVars, dbVars, receiverVars, ghostVars
<1>15. CASE Stop
  BY <1>15, <1>a DEF Stop, memVars, dbVars, receiverVars, smsVars, ghostVars
<1>16. CASE UNCHANGED vars
  BY <1>16, <1>a DEF vars
<1> QED
  BY <1>1, <1>2, <1>3, <1>4, <1>5, <1>6, <1>7, <1>8, <1>9, <1>10, <1>11,
     <1>12, <1>13, <1>14, <1>15, <1>16, <1>17 DEF Next, Receiver

LEMMA TypeInit ==
  ASSUME Init
  PROVE  TypeOK
BY ThresholdAssumption, BoundAssumption, NoReadingAssumption
DEF Init, TypeOK, AlarmId, Reading

\* The channels keep their capacity, and the receiver holds a reading or an alarm exactly
\* while it works on it (dataReceiver).
THEOREM TypeCorrect == Spec => []TypeOK
BY TypeInit, TypeStep, PTL DEF Spec

-------------------------------------------------------------------------------
(* Only three steps touch the open alarms. *)

LEMMA AlarmFrame ==
  ASSUME [Next]_vars
  PROVE  \/ ResolveAlarm
         \/ CheckAlarm
         \/ CreateAlarm
         \/ /\ UNCHANGED <<activeAlarms, alarms, resolved>>
            /\ pc' = "create" => pc = "create" /\ reading' = reading
<1>1. CASE UNCHANGED vars
  BY <1>1 DEF vars
<1>2. CASE Next
  BY <1>2 DEF Next, Receiver, ForwardReading, ReceiveAlarm, Tick, Poll, Receive,
     ReceiveTimeout, ResolveRow, SaveAlarm, TriggerAlarm, ReadHistory, SendAlarmSMS,
     AcknowledgeAlarm, Stop, memVars, receiverVars
<1> QED
  BY <1>1, <1>2

\* OpenAlarms in two parts.  The second leaves out the first e alarms, of which a
\* program that was started again knows nothing.
OpenIsLatest ==
  /\ pc = "create" => NeedsAlarm(reading)
  /\ \A d \in Device : activeAlarms[d] # 0 =>
       /\ alarms[activeAlarms[d]].device = d
       /\ activeAlarms[d] \notin resolved
       /\ \A id \in AlarmId : alarms[id].device = d => id <= activeAlarms[d]

NoneForgotten(e) ==
  \A id \in AlarmId \ resolved :
    \/ id <= e
    \/ activeAlarms[alarms[id].device] = id
    \/ \E k \in AlarmId : k > id /\ alarms[k].device = alarms[id].device

LEMMA OpenAlarmsParts == OpenAlarms <=> OpenIsLatest /\ NoneForgotten(0)
BY DEF OpenAlarms, OpenIsLatest, NoneForgotten, AlarmId

\* Every step keeps the open alarms the latest ones and forgets none.
LEMMA OpenAlarmsStep ==
  ASSUME TypeOK, OpenIsLatest, NEW e \in Nat, NoneForgotten(e), [Next]_vars
  PROVE  OpenIsLatest' /\ NoneForgotten(e)'
<1>1. CASE ResolveAlarm
  <2> DEFINE d0 == reading.device
  <2>1. d0 \in Device /\ UNCHANGED alarms /\ pc' # "create"
    BY <1>1 DEF ResolveAlarm, TypeOK, Reading
  <2>2. CASE activeAlarms[d0] = 0
    BY <1>1, <2>1, <2>2 DEF ResolveAlarm, OpenIsLatest, NoneForgotten, AlarmId
  <2>3. CASE activeAlarms[d0] # 0
    <3>1. activeAlarms' = [activeAlarms EXCEPT ![d0] = 0]
          /\ resolved' = resolved \cup {activeAlarms[d0]}
      BY <1>1, <2>3 DEF ResolveAlarm
    <3>2. AlarmId' = AlarmId
      BY <2>1 DEF AlarmId
    <3>3. ASSUME NEW d \in Device, activeAlarms'[d] # 0
          PROVE  /\ alarms'[activeAlarms'[d]].device = d
                 /\ activeAlarms'[d] \notin resolved'
                 /\ \A id \in AlarmId' :
                      alarms'[id].device = d => id <= activeAlarms'[d]
      BY <3>1, <3>2, <3>3, <2>1, <2>3 DEF OpenIsLatest, NoneForgotten, TypeOK
    <3>4. ASSUME NEW id \in AlarmId' \ resolved'
          PROVE  \/ id <= e
                 \/ activeAlarms'[alarms'[id].device] = id
                 \/ \E k \in AlarmId' :
                      k > id /\ alarms'[k].device = alarms'[id].device
      <4>1. id \in AlarmId \ resolved /\ id # activeAlarms[d0]
        BY <3>1, <3>2
      <4>2. \/ id <= e
            \/ activeAlarms[alarms[id].device] = id
            \/ \E k \in AlarmId : k > id /\ alarms[k].device = alarms[id].device
        BY <4>1 DEF NoneForgotten
      <4>3. activeAlarms[alarms[id].device] = id =>
              activeAlarms'[alarms[id].device] = id
        <5>a. id \in 1..Len(alarms) /\ alarms \in Seq([device : Device, level : 1..3])
          BY <4>1 DEF TypeOK, AlarmId
        <5>b. alarms[id] \in [device : Device, level : 1..3]
          BY <5>a, ElementOfSeq
        <5>c. DOMAIN activeAlarms = Device
          BY DEF TypeOK
        <5>1. DOMAIN activeAlarms = Device /\ alarms[id].device \in Device
          BY <5>b, <5>c
        <5> QED
          BY <4>1, <5>1, <3>1, <2>1
      <4> QED
        BY <4>2, <4>3, <3>2, <2>1
    <3> QED
      BY <2>1, <3>3, <3>4 DEF OpenIsLatest, NoneForgotten
  <2> QED
    BY <2>2, <2>3
<1>2. CASE CheckAlarm
  BY <1>2 DEF CheckAlarm, memVars, OpenIsLatest, NoneForgotten, NeedsAlarm, AlarmId, getAlarmLevel
<1>3. CASE CreateAlarm
  <2> DEFINE d0 == reading.device
             n  == Len(alarms) + 1
  <2>1. d0 \in Device
    BY <1>3 DEF CreateAlarm, TypeOK, Reading
  <2>2. getAlarmLevel(reading.conc) \in 1..3
    BY <1>3, LevelRange DEF CreateAlarm, TypeOK
  <2>3. /\ Len(alarms') = n
        /\ \A i \in AlarmId : alarms'[i] = alarms[i]
        /\ alarms'[n].device = d0
    BY <1>3, <2>1, <2>2 DEF CreateAlarm, TypeOK, AlarmId
  <2>4. AlarmId' = AlarmId \cup {n} /\ n \notin AlarmId
        /\ (\A i \in AlarmId : i < n) /\ n \in Nat \ {0} /\ AlarmId \subseteq Nat
    BY <2>3 DEF TypeOK, AlarmId
  <2>5. activeAlarms' = [activeAlarms EXCEPT ![d0] = n]
        /\ resolved' = resolved /\ pc' = "save"
    BY <1>3 DEF CreateAlarm
  <2>6. ASSUME NEW d \in Device, activeAlarms'[d] # 0
        PROVE  /\ alarms'[activeAlarms'[d]].device = d
               /\ activeAlarms'[d] \notin resolved'
               /\ \A id \in AlarmId' :
                    alarms'[id].device = d => id <= activeAlarms'[d]
    <3>1. CASE d = d0
      BY <3>1, <2>3, <2>4, <2>5 DEF TypeOK
    <3>2. CASE d # d0
      <4>1. DOMAIN activeAlarms = Device /\ activeAlarms'[d] = activeAlarms[d]
        <5>1. DOMAIN activeAlarms = Device
          BY DEF TypeOK
        <5> QED
          BY <5>1, <3>2, <2>5
      <4>2. /\ activeAlarms[d] \in AlarmId
            /\ alarms[activeAlarms[d]].device = d
            /\ activeAlarms[d] \notin resolved
            /\ \A id \in AlarmId : alarms[id].device = d => id <= activeAlarms[d]
        BY <2>6, <4>1 DEF OpenIsLatest, TypeOK, AlarmId
      <4> QED
        BY <3>2, <4>1, <4>2, <2>3, <2>4, <2>5
    <3> QED
      BY <3>1, <3>2
  <2>7. ASSUME NEW id \in AlarmId' \ resolved'
        PROVE  \/ id <= e
                 \/ activeAlarms'[alarms'[id].device] = id
               \/ \E k \in AlarmId' :
                    k > id /\ alarms'[k].device = alarms'[id].device
    <3>1. CASE id = n
      BY <3>1, <2>1, <2>3, <2>5 DEF TypeOK
    <3>2. CASE id # n /\ alarms[id].device = d0
      BY <3>2, <2>3, <2>4
    <3>3. CASE id # n /\ alarms[id].device # d0
      <4>1. id \in AlarmId \ resolved /\ alarms'[id] = alarms[id]
        BY <3>3, <2>3, <2>4, <2>5
      <4>2. alarms[id].device \in Device
        <5>1. alarms \in Seq([device : Device, level : 1..3])
          BY DEF TypeOK
        <5>2. alarms[id] \in [device : Device, level : 1..3]
          BY <4>1, <5>1, ElementOfSeq DEF AlarmId
        <5> QED
          BY <5>2
      <4>3. CASE activeAlarms[alarms[id].device] = id
        <5>1. activeAlarms'[alarms[id].device] = id
          BY <4>2, <4>3, <3>3, <2>5 DEF TypeOK
        <5> QED
          BY <5>1, <4>1
      <4>4. CASE \E k \in AlarmId : k > id /\ alarms[k].device = alarms[id].device
        BY <4>1, <4>4, <2>3, <2>4
      <4> QED
        BY <4>1, <4>3, <4>4 DEF OpenIsLatest, NoneForgotten
    <3> QED
      BY <3>1, <3>2, <3>3
  <2> QED
    BY <2>5, <2>6, <2>7 DEF OpenIsLatest, NoneForgotten
<1>4. CASE /\ UNCHANGED <<activeAlarms, alarms, resolved>>
           /\ pc' = "create" => pc = "create" /\ reading' = reading
  BY <1>4 DEF OpenIsLatest, NoneForgotten, NeedsAlarm, AlarmId
<1> QED
  BY <1>1, <1>2, <1>3, <1>4, AlarmFrame

\* The open alarms are what OpenAlarms says (checkAlarm, createAlarm and
\* resolveAlarm work on the map in separate critical sections).
THEOREM OpenAlarmsCorrect == Spec => []OpenAlarms
<1>1. Init => OpenAlarms
  BY DEF Init, OpenAlarms, AlarmId
<1>2. TypeOK /\ OpenAlarms /\ [Next]_vars => OpenAlarms'
  <2>1. OpenAlarms' <=> OpenIsLatest' /\ NoneForgotten(0)'
    BY DEF OpenAlarms, OpenIsLatest, NoneForgotten, AlarmId
  <2>2. 0 \in Nat
    OBVIOUS
  <2> QED
    BY <2>1, <2>2, OpenAlarmsParts, OpenAlarmsStep
<1> QED
  BY <1>1, <1>2, TypeCorrect, PTL DEF Spec

\* A detector raises the same level twice in a row only after a resolve.
THEOREM NoRepeatedAlarmCorrect == Spec => []NoRepeatedAlarm
<1>1. Init => NoRepeatedAlarm
  BY DEF Init, NoRepeatedAlarm, AlarmId
<1>2. TypeOK /\ OpenAlarms /\ NoRepeatedAlarm /\ [Next]_vars => NoRepeatedAlarm'
  <2> SUFFICES ASSUME TypeOK, OpenAlarms, NoRepeatedAlarm, [Next]_vars
               PROVE  NoRepeatedAlarm'
    OBVIOUS
  <2>1. CASE CreateAlarm
    <3> DEFINE d0 == reading.device
               n  == Len(alarms) + 1
    <3>1. d0 \in Device /\ NeedsAlarm(reading)
      BY <2>1 DEF CreateAlarm, TypeOK, Reading, OpenAlarms
    <3>2. /\ Len(alarms') = n
          /\ \A i \in AlarmId : alarms'[i] = alarms[i]
          /\ alarms'[n].device = d0
          /\ alarms'[n].level = getAlarmLevel(reading.conc)
          /\ resolved' = resolved
      BY <2>1, LevelRange DEF CreateAlarm, TypeOK, AlarmId
    <3>3. AlarmId' = AlarmId \cup {n} /\ n \notin AlarmId
          /\ (\A i \in AlarmId : i < n) /\ n \in Nat /\ AlarmId \subseteq Nat
      BY <3>2 DEF TypeOK, AlarmId
    <3>4. SUFFICES ASSUME NEW j \in AlarmId', NEW i \in AlarmId', i < j,
                          alarms'[i].device = alarms'[j].device,
                          alarms'[i].level = alarms'[j].level,
                          \A k \in (i + 1)..(j - 1) :
                            alarms'[k].device # alarms'[i].device
                   PROVE  i \in resolved'
      BY DEF NoRepeatedAlarm
    <3>5. i \in AlarmId
      BY <3>3, <3>4
    <3>6. CASE j \in AlarmId
      <4>1. \A k \in (i + 1)..(j - 1) : k \in AlarmId
        BY <3>5, <3>6 DEF AlarmId, TypeOK
      <4> QED
        BY <3>2, <3>4, <3>5, <3>6, <4>1 DEF NoRepeatedAlarm
    <3>7. CASE j = n
      <4>1. SUFFICES ASSUME i \notin resolved PROVE FALSE
        BY <3>2
      <4>2. alarms[i].device = d0 /\ alarms[i].level = getAlarmLevel(reading.conc)
        BY <3>2, <3>4, <3>5, <3>7
      <4>3. \A k \in AlarmId : k > i => alarms[k].device # d0
        <5> TAKE k \in AlarmId
        <5> HAVE k > i
        <5>1. k \in (i + 1)..(j - 1)
          BY <3>5, <3>7 DEF AlarmId, TypeOK
        <5> QED
          BY <5>1, <4>2, <3>2, <3>4, <3>5
      <4>4. activeAlarms[d0] = i
        BY <4>1, <4>2, <4>3, <3>5 DEF OpenAlarms
      <4> QED
        BY <4>2, <4>4, <3>1, <3>3, <3>5 DEF NeedsAlarm, AlarmId
    <3> QED
      BY <3>3, <3>6, <3>7
  <2>2. CASE UNCHANGED alarms /\ resolved \subseteq resolved'
    BY <2>2 DEF NoRepeatedAlarm, AlarmId
  <2>3. CreateAlarm \/ (UNCHANGED alarms /\ resolved \subseteq resolved')
    BY AlarmFrame DEF ResolveAlarm, CheckAlarm, memVars
  <2> QED
    BY <2>1, <2>2, <2>3
<1> QED
  BY <1>1, <1>2, TypeCorrect, OpenAlarmsCorrect, PTL DEF Spec

\* The component implements AlarmLifecycle: each step is a Raise, a Resolve, an
\* Acknowledge or invisible.
THEOREM RouterImplementsLifecycle == Spec => ImplementsLifecycle
<1>1. Init => Lifecycle!Init
  BY DEF Init, Lifecycle!Init
<1>2. TypeOK /\ OpenAlarms /\ [Next]_vars => [Lifecycle!Next]_Lifecycle!vars
  <2> SUFFICES ASSUME TypeOK, OpenAlarms, [Next]_vars
               PROVE  [Lifecycle!Next]_Lifecycle!vars
    OBVIOUS
  <2>1. CASE CreateAlarm
    <3>1. reading.device \in Device /\ NeedsAlarm(reading)
      BY <2>1 DEF CreateAlarm, TypeOK, Reading, OpenAlarms
    <3>2. getAlarmLevel(reading.conc) \in Lifecycle!Level
      BY <2>1, LevelRange DEF CreateAlarm, TypeOK, Lifecycle!Level
    <3>3. Lifecycle!Raise(reading.device, getAlarmLevel(reading.conc))
      BY <2>1, <3>1 DEF CreateAlarm, NeedsAlarm, Lifecycle!Raise
    <3> QED
      BY <3>1, <3>2, <3>3 DEF Lifecycle!Next
  <2>2. CASE ResolveAlarm
    <3>1. reading.device \in Device
      BY <2>2 DEF ResolveAlarm, TypeOK, Reading
    <3>2. Lifecycle!Resolve(reading.device) \/ UNCHANGED Lifecycle!vars
      BY <2>2 DEF ResolveAlarm, Lifecycle!Resolve, Lifecycle!vars
    <3> QED
      BY <3>1, <3>2 DEF Lifecycle!Next
  <2>3. ASSUME NEW id \in AlarmId, AcknowledgeAlarm(id)
        PROVE  Lifecycle!Next
    <3>1. PICK d \in Device : activeAlarms[d] = id
      BY <2>3 DEF AcknowledgeAlarm
    <3>2. Lifecycle!Acknowledge(d)
      BY <2>3, <3>1 DEF AcknowledgeAlarm, Lifecycle!Acknowledge, AlarmId
    <3> QED
      BY <3>2 DEF Lifecycle!Next
  <2>4. \/ CreateAlarm \/ ResolveAlarm
        \/ \E id \in AlarmId : AcknowledgeAlarm(id)
        \/ UNCHANGED Lifecycle!vars
    <3>1. CASE UNCHANGED vars
      BY <3>1 DEF vars, Lifecycle!vars
    <3>2. CASE Next
      BY <3>2 DEF Next, Receiver, ForwardReading, ReceiveAlarm, Tick, Poll,
         Receive, ReceiveTimeout, ResolveRow, CheckAlarm, SaveAlarm,
         TriggerAlarm, ReadHistory, SendAlarmSMS, Stop, memVars, Lifecycle!vars
    <3> QED
      BY <3>1, <3>2
  <2> QED
    BY <2>1, <2>2, <2>3, <2>4
<1> QED
  BY <1>1, <1>2, TypeCorrect, OpenAlarmsCorrect, PTL
  DEF Spec, ImplementsLifecycle, Lifecycle!Spec

-------------------------------------------------------------------------------
(* The open alarms follow the readings. *)

\* Every step keeps the open alarms at the level of the last readings.
LEMMA SettledStep ==
  ASSUME TypeOK, NewestReading, SettledLevel, [Next]_vars
  PROVE  NewestReading' /\ SettledLevel'
<1> DEFINE Inv == NewestReading /\ SettledLevel
<1> USE DEF NewestReading, SettledLevel, Ungraded, ActiveLevel
<1>0. dataChan \in Seq(Reading)
  BY DEF TypeOK
<1>1. ASSUME NEW d \in Device, NEW c \in Concentration, ForwardReading(d, c)
      PROVE  Inv'
  <2> DEFINE n == Len(dataChan) + 1
  <2>1. /\ Len(dataChan') = n
        /\ \A i \in 1..Len(dataChan) : dataChan'[i] = dataChan[i]
        /\ dataChan'[n] = [device |-> d, conc |-> c]
    BY <1>0, <1>1 DEF ForwardReading
  <2>2. last' = [last EXCEPT ![d] = c] /\ last'[d] = c
    BY <1>1 DEF ForwardReading, TypeOK
  <2>3. \A e \in Device : e # d => last'[e] = last[e]
    BY <2>2 DEF TypeOK
  <2>4. \A i \in 1..Len(dataChan) : dataChan[i].device \in Device
    <3> TAKE i \in 1..Len(dataChan)
    <3>1. dataChan[i] \in Reading
      BY <1>0, ElementOfSeq
    <3> QED
      BY <3>1 DEF Reading
  <2>5. UNCHANGED <<reading, activeAlarms, alarms>>
    BY <1>1 DEF ForwardReading, memVars, receiverVars
  <2>6. Len(dataChan) \in Nat
    BY <1>0
  <2>7. \A i \in 1..n :
          (\A j \in (i + 1)..n : dataChan'[j].device # dataChan'[i].device)
            => dataChan'[i].conc = last'[dataChan'[i].device]
    <3> SUFFICES ASSUME NEW i \in 1..n,
                        \A j \in (i + 1)..n :
                          dataChan'[j].device # dataChan'[i].device
                 PROVE  dataChan'[i].conc = last'[dataChan'[i].device]
      OBVIOUS
    <3>1. CASE i = n
      BY <3>1, <2>1, <2>2
    <3>2. CASE i # n
      <4>1. i \in 1..Len(dataChan) /\ n \in (i + 1)..n
        BY <3>2, <2>6
      <4>2. dataChan[i].device # d
        BY <4>1, <2>1
      <4>3. \A j \in (i + 1)..Len(dataChan) :
              dataChan[j].device # dataChan[i].device
        BY <4>1, <2>1, <2>6
      <4> QED
        BY <4>1, <4>2, <4>3, <2>1, <2>3, <2>4
    <3> QED
      BY <3>1, <3>2
  <2>8. ASSUME reading' # NoReading,
               \A j \in 1..n : dataChan'[j].device # reading'.device
        PROVE  reading'.conc = last'[reading'.device]
    <3>1. \A j \in 1..Len(dataChan) : dataChan[j].device # reading.device
      BY <2>8, <2>1, <2>5, <2>6
    <3>2. reading.device # d
      BY <2>8, <2>1, <2>5, <2>6
    <3>3. reading.device \in Device
      BY <2>8, <2>5 DEF TypeOK, Reading
    <3> QED
      BY <2>8, <3>1, <3>2, <3>3, <2>3, <2>5
  <2>9. ASSUME NEW e \in Device, ~Ungraded(e)'
        PROVE  ActiveLevel(e)' = getAlarmLevel(last'[e])
    <3>1. e # d
      BY <2>9, <2>1, <2>6
    <3>2. ~Ungraded(e)
      BY <2>9, <2>1, <2>5, <2>6
    <3> QED
      BY <3>1, <3>2, <2>3, <2>5
  <2> QED
    BY <2>1, <2>7, <2>8, <2>9
<1>2. CASE Receive
  <2>1. /\ Len(dataChan) \in Nat /\ Len(dataChan) >= 1
        /\ Len(dataChan') = Len(dataChan) - 1
        /\ \A i \in 1..Len(dataChan') : dataChan'[i] = dataChan[i + 1]
        /\ reading' = dataChan[1]
        /\ UNCHANGED <<activeAlarms, alarms, last>>
    BY <1>0, <1>2 DEF Receive, memVars, ghostVars
  <2>2. reading = NoReading
    BY <1>2 DEF Receive, TypeOK
  <2>3. \A i \in 1..Len(dataChan') :
          (\A j \in (i + 1)..Len(dataChan') :
             dataChan'[j].device # dataChan'[i].device)
            => dataChan'[i].conc = last'[dataChan'[i].device]
    <3> SUFFICES ASSUME NEW i \in 1..Len(dataChan'),
                        \A j \in (i + 1)..Len(dataChan') :
                          dataChan'[j].device # dataChan'[i].device
                 PROVE  dataChan'[i].conc = last'[dataChan'[i].device]
      OBVIOUS
    <3>1. i + 1 \in 1..Len(dataChan) /\ dataChan'[i] = dataChan[i + 1]
      BY <2>1
    <3>2. \A j \in (i + 2)..Len(dataChan) :
            dataChan[j].device # dataChan[i + 1].device
      <4> TAKE j \in (i + 2)..Len(dataChan)
      <4>1. j - 1 \in (i + 1)..Len(dataChan') /\ j - 1 \in 1..Len(dataChan')
        BY <2>1
      <4>2. dataChan'[j - 1] = dataChan[j]
        BY <4>1, <2>1
      <4> QED
        BY <4>1, <4>2, <3>1
    <3>3. (i + 1) + 1 = i + 2
      BY <2>1
    <3> QED
      BY <3>1, <3>2, <3>3, <2>1
  <2>4. (\A j \in 1..Len(dataChan') : dataChan'[j].device # reading'.device)
          => reading'.conc = last'[reading'.device]
    <3> SUFFICES ASSUME \A j \in 1..Len(dataChan') :
                          dataChan'[j].device # reading'.device
                 PROVE  reading'.conc = last'[reading'.device]
      OBVIOUS
    <3>1. \A j \in (1 + 1)..Len(dataChan) :
            dataChan[j].device # dataChan[1].device
      <4> TAKE j \in (1 + 1)..Len(dataChan)
      <4>1. j - 1 \in 1..Len(dataChan') /\ dataChan'[j - 1] = dataChan[j]
        BY <2>1
      <4> QED
        BY <4>1, <2>1
    <3> QED
      BY <3>1, <2>1
  <2>5. \A e \in Device : ~Ungraded(e)' => ~Ungraded(e)
    <3> SUFFICES ASSUME NEW e \in Device, Ungraded(e) PROVE Ungraded(e)'
      OBVIOUS
    <3>1. PICK i \in 1..Len(dataChan) : dataChan[i].device = e
      BY <2>2
    <3>2. CASE i = 1
      <4>1. dataChan[1] # NoReading
        BY <2>1, <1>0, ElementOfSeq, NoReadingAssumption
      <4> QED
        BY <4>1, <3>1, <3>2, <2>1
    <3>3. CASE i # 1
      <4>1. i - 1 \in 1..Len(dataChan') /\ dataChan'[i - 1] = dataChan[i]
        BY <3>3, <2>1
      <4> QED
        BY <4>1, <3>1
    <3> QED
      BY <3>2, <3>3
  <2> QED
    BY <2>1, <2>3, <2>4, <2>5
<1>3. CASE ResolveAlarm
  <2> DEFINE d0 == reading.device
  <2>1. /\ d0 \in Device /\ reading # NoReading /\ reading' = NoReading
        /\ getAlarmLevel(reading.conc) = 0
        /\ UNCHANGED <<dataChan, alarms, last>>
        /\ activeAlarms' = [activeAlarms EXCEPT ![d0] = 0]
    BY <1>3 DEF ResolveAlarm, TypeOK, Reading, ghostVars
  <2>2. ASSUME NEW e \in Device, ~Ungraded(e)'
        PROVE  ActiveLevel(e)' = getAlarmLevel(last'[e])
    <3>1. CASE e = d0
      BY <2>1, <2>2, <3>1 DEF TypeOK
    <3>2. CASE e # d0
      BY <2>1, <2>2, <3>2 DEF TypeOK
    <3> QED
      BY <3>1, <3>2
  <2> QED
    BY <2>1, <2>2
<1>4. CASE CheckAlarm
  <2>1. UNCHANGED <<dataChan, activeAlarms, alarms, last>>
    BY <1>4 DEF CheckAlarm, memVars, ghostVars
  <2>2. CASE reading' = reading
    BY <2>1, <2>2
  <2>3. CASE reading' = NoReading /\ ~NeedsAlarm(reading)
    <3>1. ActiveLevel(reading.device) = getAlarmLevel(reading.conc)
      BY <2>3 DEF NeedsAlarm
    <3> QED
      BY <3>1, <2>1, <2>3
  <2> QED
    BY <1>4, <2>2, <2>3 DEF CheckAlarm
<1>5. CASE CreateAlarm
  <2> DEFINE d0 == reading.device
             n  == Len(alarms) + 1
  <2>1. /\ d0 \in Device /\ reading # NoReading /\ reading' = NoReading
        /\ UNCHANGED <<dataChan, last>>
        /\ activeAlarms' = [activeAlarms EXCEPT ![d0] = n]
    BY <1>5 DEF CreateAlarm, TypeOK, Reading, ghostVars
  <2>2. /\ \A i \in AlarmId : alarms'[i] = alarms[i]
        /\ alarms'[n].level = getAlarmLevel(reading.conc)
        /\ n # 0
    <3>1. Len(alarms) \in Nat /\ alarms \in Seq([device : Device, level : 1..3])
      BY DEF TypeOK
    <3>2. alarms' = Append(alarms, [device |-> d0, level |-> getAlarmLevel(reading.conc)])
      BY <1>5 DEF CreateAlarm
    <3> QED
      BY <3>1, <3>2 DEF AlarmId
  <2>3. ASSUME NEW e \in Device, ~Ungraded(e)'
        PROVE  ActiveLevel(e)' = getAlarmLevel(last'[e])
    <3>1. CASE e = d0
      BY <2>1, <2>2, <2>3, <3>1 DEF TypeOK
    <3>2. CASE e # d0
      <4>1. activeAlarms'[e] = activeAlarms[e] /\ activeAlarms[e] \in {0} \cup AlarmId
        BY <2>1, <3>2 DEF TypeOK
      <4>2. ~Ungraded(e)
        BY <2>1, <2>3, <3>2
      <4> QED
        BY <4>1, <4>2, <2>1, <2>2
    <3> QED
      BY <3>1, <3>2
  <2> QED
    BY <2>1, <2>3
<1>6. CASE UNCHANGED <<dataChan, reading, activeAlarms, alarms, last>>
  BY <1>6
<1>7. \/ \E d \in Device, c \in Concentration : ForwardReading(d, c)
      \/ Receive \/ ResolveAlarm \/ CheckAlarm \/ CreateAlarm
      \/ UNCHANGED <<dataChan, reading, activeAlarms, alarms, last>>
  <2>1. CASE UNCHANGED vars
    BY <2>1 DEF vars
  <2>2. CASE Next
    BY <2>2 DEF Next, Receiver, ReceiveAlarm, Tick, Poll, ReceiveTimeout,
       ResolveRow, SaveAlarm, TriggerAlarm, ReadHistory, SendAlarmSMS, AcknowledgeAlarm,
       Stop, memVars, receiverVars, ghostVars
  <2> QED
    BY <2>1, <2>2
<1> QED
  BY <1>1, <1>2, <1>3, <1>4, <1>5, <1>6, <1>7

\* A level is graded only from the last reading: once the receiver has caught up
\* with a detector, its open alarm has the level of its last reading.
THEOREM SettledLevelCorrect == Spec => [](NewestReading /\ SettledLevel)
<1> DEFINE Inv == NewestReading /\ SettledLevel
<1> USE DEF NewestReading, SettledLevel, Ungraded, ActiveLevel
<1>1. Init => Inv
  BY ThresholdAssumption DEF Init, getAlarmLevel
<1> QED
  BY <1>1, SettledStep, TypeCorrect, OpenAlarmsCorrect, PTL DEF Spec

\* What TableFollowsMemory says of all but the first e alarms.
TableLags(e) ==
  ~DBMayFail =>
    /\ \A id \in AlarmId \ dbRows : id <= e \/ (pc = "save" /\ cur = id)
    /\ \A id \in resolved \ dbResolved : id <= e \/ (pc = "resolve" /\ cur = id)
    /\ dbResolved \subseteq resolved
    /\ \A id \in AlarmId : id <= e \/ (id \in dbAcked <=> id \in acknowledged \ lostAcks)

\* Every step keeps the table one statement behind memory.
LEMMA TableStep ==
  ASSUME TypeOK, AlarmInHand, NEW e \in Nat, TableLags(e), [Next]_vars
  PROVE  AlarmInHand' /\ TableLags(e)'
<1> DEFINE Inv == AlarmInHand /\ TableLags(e)
<1> USE DEF AlarmInHand, TableLags
<1>1. CASE ResolveAlarm
  BY <1>1 DEF ResolveAlarm, dbVars, ghostVars, TypeOK, AlarmId
<1>2. CASE ResolveRow
  BY <1>2 DEF ResolveRow, memVars, ghostVars, TypeOK, AlarmId
<1>3. CASE CreateAlarm
  <2>1. AlarmId' = AlarmId \cup {Len(alarms) + 1} /\ Len(alarms') = Len(alarms) + 1
    BY <1>3 DEF CreateAlarm, TypeOK, AlarmId
  <2>2. Len(alarms) \in Nat /\ Len(alarms) + 1 \notin AlarmId
    BY DEF TypeOK, AlarmId
  <2>3. /\ cur' = Len(alarms) + 1 /\ pc' = "save"
        /\ UNCHANGED <<dbRows, dbAcked, dbResolved, acknowledged, resolved, lostAcks>>
    BY <1>3 DEF CreateAlarm, dbVars, ghostVars
  <2> QED
    BY <1>3, <2>1, <2>2, <2>3 DEF TypeOK, CreateAlarm
<1>4. CASE SaveAlarm
  BY <1>4 DEF SaveAlarm, memVars, ghostVars, TypeOK, AlarmId
<1>5. CASE TriggerAlarm
  BY <1>5 DEF TriggerAlarm, memVars, dbVars, ghostVars, TypeOK, AlarmId
<1>6. ASSUME NEW id \in AlarmId, AcknowledgeAlarm(id) PROVE Inv'
  BY <1>6 DEF AcknowledgeAlarm, receiverVars, TypeOK, AlarmId
<1>7. CASE /\ UNCHANGED <<memVars, dbVars, cur, lostAcks>>
           /\ pc' \in {"save", "trigger", "resolve"} => pc' = pc
           /\ pc \in {"save", "trigger", "resolve"} => pc' = pc
  BY <1>7 DEF memVars, dbVars, AlarmId
<1>8. \/ ResolveAlarm \/ ResolveRow \/ CreateAlarm \/ SaveAlarm \/ TriggerAlarm
      \/ \E id \in AlarmId : AcknowledgeAlarm(id)
      \/ /\ UNCHANGED <<memVars, dbVars, cur, lostAcks>>
         /\ pc' \in {"save", "trigger", "resolve"} => pc' = pc
         /\ pc \in {"save", "trigger", "resolve"} => pc' = pc
  <2>1. CASE UNCHANGED vars
    BY <2>1 DEF vars, memVars, dbVars
  <2>2. CASE Next
    BY <2>2 DEF Next, Receiver, ForwardReading, ReceiveAlarm, Tick, Poll, Receive,
       ReceiveTimeout, CheckAlarm, ReadHistory, SendAlarmSMS, Stop, memVars, dbVars,
       receiverVars, ghostVars
  <2> QED
    BY <2>1, <2>2
<1> QED
  BY <1>1, <1>2, <1>3, <1>4, <1>5, <1>6, <1>7, <1>8

\* Without database errors table alarms lags memory by the pending statement only.
THEOREM TableFollowsMemoryCorrect == Spec => [](AlarmInHand /\ TableFollowsMemory)
<1> DEFINE Inv == AlarmInHand /\ TableFollowsMemory
<1> USE DEF AlarmInHand, TableFollowsMemory
<1>1. Init => Inv
  BY DEF Init, AlarmId
<1>2. TypeOK /\ Inv /\ [Next]_vars => Inv'
  <2>1. /\ TypeOK => (TableFollowsMemory <=> TableLags(0))
        /\ TypeOK' => (TableFollowsMemory' <=> TableLags(0)')
    <3>1. \A n : \A id \in 1..n : ~(id <= 0)
      OBVIOUS
    <3>2. /\ TypeOK => /\ resolved \subseteq AlarmId /\ dbAcked \subseteq AlarmId
                       /\ acknowledged \subseteq AlarmId
          /\ TypeOK' => /\ resolved' \subseteq AlarmId' /\ dbAcked' \subseteq AlarmId'
                        /\ acknowledged' \subseteq AlarmId'
      BY DEF TypeOK
    <3> QED
      BY <3>1, <3>2 DEF TableLags, AlarmId
  <2>2. 0 \in Nat
    OBVIOUS
  <2> HIDE DEF AlarmInHand, TableFollowsMemory
  <2> QED
    BY <2>1, <2>2, TableStep, TypeStep
<1> QED
  BY <1>1, <1>2, TypeCorrect, PTL DEF Spec

\* Every step keeps the order of the alarms handed over.
LEMMA HandedStep ==
  ASSUME TypeOK, AlarmInHand, HandedInOrder, [Next]_vars
  PROVE  HandedInOrder'
<1> DEFINE sent == handed \o alarmChan
<1>0. /\ handed \in Seq(AlarmId) /\ alarmChan \in Seq(AlarmId)
      /\ sent \in Seq(AlarmId)
  BY DEF TypeOK
<1>1. CASE ReceiveAlarm
  <2>1. sent' = sent
    <3>1. /\ handed' = Append(handed, Head(alarmChan))
          /\ alarmChan' = Tail(alarmChan) /\ alarmChan # <<>>
      BY <1>1 DEF ReceiveAlarm
    <3> QED
      BY <1>0, <3>1, MoveHead
  <2> QED
    BY <1>1, <2>1 DEF ReceiveAlarm, receiverVars, HandedInOrder
<1>2. CASE CreateAlarm
  <2>1. sent' = sent /\ cur' = Len(alarms) + 1
    BY <1>2 DEF CreateAlarm
  <2>2. \A i \in 1..Len(sent) : sent[i] \in AlarmId
    BY <1>0, ElementOfSeq
  <2>3. \A i \in 1..Len(sent) : sent[i] < cur'
    <3>1. Len(alarms) \in Nat
      BY DEF TypeOK
    <3>2. \A x \in AlarmId : x < Len(alarms) + 1
      BY <3>1 DEF AlarmId
    <3> QED
      BY <2>1, <2>2, <3>2
  <2>4. \A i, j \in 1..Len(sent) : i < j => sent[i] < sent[j]
    BY DEF HandedInOrder
  <2> QED
    BY <2>1, <2>3, <2>4 DEF HandedInOrder
<1>3. CASE TriggerAlarm
  <2>1. CASE alarmChan' = alarmChan
    BY <1>3, <2>1 DEF TriggerAlarm, HandedInOrder
  <2>2. CASE alarmChan' = Append(alarmChan, cur)
    <3>1. cur \in AlarmId /\ AlarmId \subseteq Nat
      BY <1>3 DEF TriggerAlarm, TypeOK, AlarmId
    <3>2. sent' = Append(sent, cur)
      <4>1. handed' = handed
        BY <1>3 DEF TriggerAlarm
      <4> QED
        BY <1>0, <2>2, <3>1, <4>1, ConcatAppend
    <3>3. /\ pc' = "poll"
          /\ \A i \in 1..Len(sent) : sent[i] < cur
          /\ \A i, j \in 1..Len(sent) : i < j => sent[i] < sent[j]
      BY <1>3 DEF TriggerAlarm, HandedInOrder
    <3>4. \A i, j \in 1..Len(Append(sent, cur)) :
            i < j => Append(sent, cur)[i] < Append(sent, cur)[j]
      BY <1>0, <3>1, <3>3, IncreasingAppend
    <3> QED
      BY <3>2, <3>3, <3>4 DEF HandedInOrder
  <2> QED
    BY <1>3, <2>1, <2>2 DEF TriggerAlarm
<1>4. CASE /\ UNCHANGED <<handed, alarmChan>>
           /\ pc' \in {"save", "trigger"} => pc \in {"save", "trigger"} /\ cur' = cur
  BY <1>4 DEF HandedInOrder
<1>5. \/ ReceiveAlarm \/ CreateAlarm \/ TriggerAlarm
      \/ /\ UNCHANGED <<handed, alarmChan>>
         /\ pc' \in {"save", "trigger"} => pc \in {"save", "trigger"} /\ cur' = cur
  <2>1. CASE UNCHANGED vars
    BY <2>1 DEF vars
  <2>2. CASE Next
    BY <2>2 DEF Next, Receiver, ForwardReading, Tick, Poll, Receive, ReceiveTimeout,
       ResolveAlarm, ResolveRow, CheckAlarm, SaveAlarm, ReadHistory, SendAlarmSMS,
       AcknowledgeAlarm, Stop, receiverVars
  <2> QED
    BY <2>1, <2>2
<1> QED
  BY <1>1, <1>2, <1>3, <1>4, <1>5

\* alarmChan hands the alarms over in the order they were raised, each once.
THEOREM HandedInOrderCorrect == Spec => []HandedInOrder
<1>1. Init => HandedInOrder
  BY DEF Init, HandedInOrder
<1> QED
  BY <1>1, HandedStep, TypeCorrect, TableFollowsMemoryCorrect, PTL DEF Spec

-------------------------------------------------------------------------------
(* Only a detector that has been heard raises alarms *)

\* A detector without an accepted reading has none in the channel or in hand, and has
\* raised none but among the first e alarms.
HeardFirst(e) ==
  \A d \in Device : last[d] = 0 =>
    ~Ungraded(d) /\ \A id \in AlarmId : alarms[id].device = d => id <= e

\* Every step keeps that so.
LEMMA HeardStep ==
  ASSUME TypeOK, NEW e \in Nat, HeardFirst(e), [Next]_vars
  PROVE  HeardFirst(e)'
<1>1. /\ dataChan \in Seq(Reading) /\ Len(dataChan) \in Nat /\ last \in [Device -> Nat]
      /\ reading # NoReading => reading \in Reading
      /\ alarms \in Seq([device : Device, level : 1..3]) /\ Len(alarms) \in Nat
  BY DEF TypeOK
<1>2. ASSUME UNCHANGED <<alarms, last>>,
             \A d \in Device : Ungraded(d)' => Ungraded(d)
      PROVE  HeardFirst(e)'
  BY <1>2 DEF HeardFirst, AlarmId
<1>3. ASSUME NEW d \in Device, NEW c \in Concentration, ForwardReading(d, c)
      PROVE  HeardFirst(e)'
  <2> DEFINE n == Len(dataChan) + 1
  <2>1. /\ Len(dataChan') = n /\ dataChan'[n].device = d
        /\ \A i \in 1..Len(dataChan) : dataChan'[i] = dataChan[i]
    <3>1. [device |-> d, conc |-> c] \in Reading
      BY DEF Reading
    <3> QED
      BY <1>1, <1>3, <3>1, AppendProperties DEF ForwardReading
  <2>2. c # 0 /\ last' = [last EXCEPT ![d] = c] /\ UNCHANGED <<alarms, reading>>
    BY <1>3, ThresholdAssumption DEF ForwardReading, memVars, receiverVars
  <2>3. \A f \in Device : f # d => (Ungraded(f)' => Ungraded(f))
    <3>1. \A i \in 1..n : i = n \/ i \in 1..Len(dataChan)
      BY <1>1
    <3> QED
      BY <2>1, <2>2, <3>1 DEF Ungraded
  <2> QED
    BY <1>1, <2>2, <2>3 DEF HeardFirst, AlarmId
<1>4. CASE Receive
  <2>1. /\ reading' = dataChan[1] /\ Len(dataChan') = Len(dataChan) - 1
        /\ \A i \in 1..Len(dataChan') : dataChan'[i] = dataChan[i + 1]
        /\ Len(dataChan) # 0 /\ UNCHANGED <<alarms, last>>
    BY <1>1, <1>4, HeadTailProperties, EmptySeq DEF Receive, memVars, ghostVars
  <2>2. \A i \in 1..Len(dataChan') : i + 1 \in 1..Len(dataChan)
    BY <1>1, <2>1
  <2>3. 1 \in 1..Len(dataChan)
    BY <1>1, <2>1
  <2>4. \A d \in Device : Ungraded(d)' => Ungraded(d)
    BY <2>1, <2>2, <2>3 DEF Ungraded
  <2> QED
    BY <1>2, <2>1, <2>4
<1>5. CASE CreateAlarm
  <2> DEFINE n == Len(alarms) + 1
             a == [device |-> reading.device, level |-> getAlarmLevel(reading.conc)]
  <2>1. /\ reading # NoReading /\ reading' = NoReading /\ UNCHANGED <<dataChan, last>>
        /\ alarms' = Append(alarms, a)
    BY <1>5 DEF CreateAlarm, TypeOK, ghostVars
  <2>2. a \in [device : Device, level : 1..3]
    BY <1>1, <1>5, <2>1, LevelRange DEF CreateAlarm, TypeOK, Reading
  <2>3. a.device = reading.device /\ reading.device \in Device
    BY <1>1, <2>1 DEF Reading
  <2> HIDE DEF a
  <2>4. /\ Len(alarms') = n /\ alarms'[n] = a
        /\ \A i \in 1..Len(alarms) : alarms'[i] = alarms[i]
    BY <1>1, <2>1, <2>2, AppendProperties
  <2>5. last[reading.device] # 0
    BY <2>1, <2>3 DEF HeardFirst, Ungraded
  <2>6. \A i \in 1..n : i = n \/ i \in 1..Len(alarms)
    BY <1>1
  <2>7. \A d \in Device : Ungraded(d)' => Ungraded(d)
    BY <2>1 DEF Ungraded
  <2> QED
    BY <2>1, <2>3, <2>4, <2>5, <2>6, <2>7 DEF HeardFirst, AlarmId
<1>6. \/ \E d \in Device, c \in Concentration : ForwardReading(d, c)
      \/ Receive \/ CreateAlarm
      \/ UNCHANGED <<alarms, last, dataChan>> /\ reading' \in {reading, NoReading}
  <2>1. CASE UNCHANGED vars
    BY <2>1 DEF vars
  <2>2. CASE Next
    BY <2>2 DEF Next, Receiver, ReceiveAlarm, Tick, Poll, ReceiveTimeout, ResolveAlarm,
       ResolveRow, CheckAlarm, SaveAlarm, TriggerAlarm, ReadHistory, SendAlarmSMS, AcknowledgeAlarm,
       Stop, memVars, receiverVars, ghostVars
  <2> QED
    BY <2>1, <2>2
<1>7. ASSUME UNCHANGED <<alarms, last, dataChan>>, reading' \in {reading, NoReading}
      PROVE  HeardFirst(e)'
  <2>1. \A d \in Device : Ungraded(d)' => Ungraded(d)
    BY <1>7 DEF Ungraded
  <2> QED
    BY <1>2, <1>7, <2>1
<1> QED
  BY <1>3, <1>4, <1>5, <1>6, <1>7

-------------------------------------------------------------------------------
(* The SMS budget *)

\* The alarms of d among the first n raised after x, the first n entries of its history
\* after x, and its announced alarms raised after x.
RaisedSince(d, n, x) ==
  {id \in AlarmId : id <= n /\ alarms[id].device = d /\ timestamps[id] > x}
NotedSince(d, n, x) == {i \in 1..n : alarmHistory[d][i] > x}
SentSince(d, x) == {id \in smsSent : alarms[id].device = d /\ timestamps[id] > x}

Budget == IF SMSMaxPerInterval = 0 THEN 1 ELSE SMSMaxPerInterval

\* The history a goroutine has read omits no alarm of the detector up to its own.
NotesKeepAll ==
  \A note \in smsNoted :
    LET d == alarms[note.alarm].device IN
      /\ note.length <= Len(alarmHistory[d])
      /\ \A x \in Int : Cardinality(RaisedSince(d, note.alarm, x))
                          <= Cardinality(NotedSince(d, note.length, x))

\* The whole history omits none.
HistoryKeepsAll ==
  \A d \in Device, x \in Int :
    Cardinality(RaisedSince(d, Len(alarms), x))
      <= Cardinality(NotedSince(d, Len(alarmHistory[d]), x))

\* Up to an announced alarm its detector has not raised more within the last interval
\* than the budget allows.
SentInBudget ==
  \A id \in smsSent :
    Cardinality(RaisedSince(alarms[id].device, id, now - SMSInterval)) <= Budget

\* The numbers up to n are finite in number.
LEMMA UpToFinite ==
  ASSUME NEW n \in Nat, NEW S, S \subseteq 1..n
  PROVE  IsFiniteSet(S) /\ Cardinality(S) \in Nat /\ Cardinality(S) <= n
<1>1. 1 \in Int /\ n \in Int
  OBVIOUS
<1>2. IsFiniteSet(1..n) /\ Cardinality(1..n) = IF 1 > n THEN 0 ELSE n - 1 + 1
  BY <1>1, FS_Interval
<1>3. (IF 1 > n THEN 0 ELSE n - 1 + 1) = n
  OBVIOUS
<1>4. IsFiniteSet(1..n) /\ Cardinality(1..n) = n /\ S \in SUBSET (1..n)
  BY <1>2, <1>3
<1>5. IsFiniteSet(S) /\ Cardinality(S) <= Cardinality(1..n)
  BY <1>4, FS_Subset
<1> QED
  BY <1>4, <1>5, FS_CardinalityType

\* A set of numbers up to n that is not empty has a greatest one.
LEMMA GreatestUpTo ==
  ASSUME NEW n \in Nat, NEW S, S \subseteq 1..n, S # {}
  PROVE  \E m \in S : \A k \in S : k <= m
<1> DEFINE T == {i \in Nat : n - i \in S}
<1>1. PICK s \in S : TRUE
  OBVIOUS
<1>2. n - s \in T
  BY <1>1
<1>3. PICK t \in T : \A u \in T : ~(<<u, t>> \in OpToRel(<, Nat))
  BY <1>2, NatLessThanWellFounded, WFMin
<1>4. n - t \in S /\ t \in Nat
  BY <1>3
<1>5. ASSUME NEW k \in S PROVE k <= n - t
  <2>1. n - k \in T /\ n - k \in Nat
    BY <1>5
  <2>2. ~(n - k < t)
    BY <1>3, <1>4, <2>1 DEF OpToRel
  <2> QED
    BY <1>4, <1>5, <2>1, <2>2
<1> QED
  BY <1>4, <1>5

\* All these sets are finite.
LEMMA SMSSetsFinite ==
  ASSUME TypeOK, NEW d \in Device, NEW n, NEW x
  PROVE  /\ IsFiniteSet(RaisedSince(d, n, x)) /\ Cardinality(RaisedSince(d, n, x)) \in Nat
         /\ IsFiniteSet(SentSince(d, x)) /\ Cardinality(SentSince(d, x)) \in Nat
         /\ n \in Nat => /\ IsFiniteSet(NotedSince(d, n, x))
                         /\ Cardinality(NotedSince(d, n, x)) \in Nat
                         /\ Cardinality(NotedSince(d, n, x)) <= n
<1>1. Len(alarms) \in Nat /\ smsSent \subseteq 1..Len(alarms)
  BY DEF TypeOK, AlarmId
<1>2. /\ RaisedSince(d, n, x) \subseteq 1..Len(alarms)
      /\ NotedSince(d, n, x) \subseteq 1..n
      /\ SentSince(d, x) \subseteq 1..Len(alarms)
  BY <1>1 DEF RaisedSince, NotedSince, SentSince, AlarmId
<1> QED
  BY <1>1, <1>2, UpToFinite

\* Most steps leave what the budget is about alone.
LEMMA SMSFrame ==
  ASSUME [Next]_vars
  PROVE  \/ CreateAlarm
         \/ /\ UNCHANGED <<alarms, timestamps, alarmHistory>>
            /\ \/ Tick \/ (\E id \in smsPending : ReadHistory(id))
               \/ (\E note \in smsNoted : SendAlarmSMS(note))
               \/ UNCHANGED <<smsNoted, smsSent, now>>
<1>1. CASE UNCHANGED vars
  BY <1>1 DEF vars
<1>2. CASE Next
  BY <1>2 DEF Next, Receiver, ForwardReading, ReceiveAlarm, Tick, Poll, Receive,
     ReceiveTimeout, ResolveAlarm, ResolveRow, CheckAlarm, SaveAlarm, TriggerAlarm,
     ReadHistory, SendAlarmSMS, AcknowledgeAlarm, Stop, memVars, receiverVars, smsVars
<1> QED
  BY <1>1, <1>2

\* The alarms and their times.
LEMMA RaisedTypes ==
  ASSUME TypeOK
  PROVE  \A id \in AlarmId : timestamps[id] \in Nat /\ alarms[id].device \in Device
<1>1. /\ timestamps \in Seq(Nat) /\ AlarmId = 1..Len(timestamps) /\ AlarmId = 1..Len(alarms)
      /\ alarms \in Seq([device : Device, level : 1..3])
  BY DEF TypeOK, AlarmId
<1>2. \A id \in AlarmId : timestamps[id] \in Nat
  BY <1>1, ElementOfSeq
<1>3. \A id \in AlarmId : alarms[id] \in [device : Device, level : 1..3]
  BY <1>1, ElementOfSeq
<1> QED
  BY <1>2, <1>3

\* A new alarm: the alarms before it stay, and it joins the history of its detector.
LEMMA CreateNotes ==
  ASSUME TypeOK, CreateAlarm
  PROVE  /\ Len(alarms') = Len(alarms) + 1 /\ Len(alarms) \in Nat
         /\ AlarmId' = AlarmId \cup {Len(alarms) + 1} /\ Len(alarms) + 1 \notin AlarmId
         /\ \A i \in AlarmId : alarms'[i] = alarms[i] /\ timestamps'[i] = timestamps[i]
         /\ alarms'[Len(alarms) + 1].device = reading.device
         /\ timestamps'[Len(alarms) + 1] = stamp
         /\ reading.device \in Device /\ stamp \in Nat
         /\ \A d \in Device : d # reading.device => alarmHistory'[d] = alarmHistory[d]
         /\ LET h == alarmHistory[reading.device]
                g == alarmHistory'[reading.device]
            IN /\ Len(h) \in Nat /\ Len(g) = Len(h) + 1 /\ g[Len(h) + 1] = stamp
               /\ \A i \in 1..Len(h) : g[i] = h[i]
<1>1. /\ reading.device \in Device /\ getAlarmLevel(reading.conc) \in 1..3 /\ stamp \in Nat
      /\ alarms \in Seq([device : Device, level : 1..3])
      /\ timestamps \in Seq(Nat) /\ Len(timestamps) = Len(alarms) /\ Len(alarms) \in Nat
  BY LevelRange DEF CreateAlarm, TypeOK, Reading
<1> DEFINE a == [device |-> reading.device, level |-> getAlarmLevel(reading.conc)]
<1>2. a \in [device : Device, level : 1..3] /\ a.device = reading.device
  BY <1>1
<1>3. alarms' = Append(alarms, a) /\ timestamps' = Append(timestamps, stamp)
  BY DEF CreateAlarm
<1> HIDE DEF a
<1>4. /\ Len(alarms') = Len(alarms) + 1
      /\ \A i \in 1..Len(alarms) : alarms'[i] = alarms[i]
      /\ alarms'[Len(alarms) + 1] = a
  BY <1>1, <1>2, <1>3, AppendProperties
<1>5. /\ \A i \in 1..Len(alarms) : timestamps'[i] = timestamps[i]
      /\ timestamps'[Len(alarms) + 1] = stamp
  BY <1>1, <1>3, AppendProperties
<1>6. /\ alarmHistory'[reading.device] = Append(alarmHistory[reading.device], stamp)
      /\ alarmHistory[reading.device] \in Seq(Nat)
      /\ \A d \in Device : d # reading.device => alarmHistory'[d] = alarmHistory[d]
  BY <1>1 DEF CreateAlarm, TypeOK
<1>7. /\ Len(alarmHistory[reading.device]) \in Nat
      /\ Len(alarmHistory'[reading.device]) = Len(alarmHistory[reading.device]) + 1
      /\ alarmHistory'[reading.device][Len(alarmHistory[reading.device]) + 1] = stamp
      /\ \A i \in 1..Len(alarmHistory[reading.device]) :
           alarmHistory'[reading.device][i] = alarmHistory[reading.device][i]
  BY <1>1, <1>6, AppendProperties
<1>8. /\ AlarmId = 1..Len(alarms) /\ AlarmId' = 1..(Len(alarms) + 1)
      /\ 1..(Len(alarms) + 1) = (1..Len(alarms)) \cup {Len(alarms) + 1}
      /\ Len(alarms) + 1 \notin 1..Len(alarms)
  BY <1>1, <1>4 DEF AlarmId
<1> QED
  BY <1>1, <1>2, <1>4, <1>5, <1>6, <1>7, <1>8

\* What is said of the first alarms and of the first entries of a history stays true.
LEMMA PrefixesStay ==
  ASSUME TypeOK, [Next]_vars
  PROVE  /\ \A id \in AlarmId : id \in AlarmId' /\ alarms'[id] = alarms[id]
         /\ \A d \in Device, id \in AlarmId, x \in Int :
              RaisedSince(d, id, x)' = RaisedSince(d, id, x)
         /\ \A d \in Device, x \in Int : SentSince(d, x) \subseteq AlarmId
         /\ \A d \in Device : /\ Len(alarmHistory[d]) \in Nat
                              /\ Len(alarmHistory[d]) <= Len(alarmHistory'[d])
         /\ \A d \in Device, n \in Nat, x \in Int :
              n <= Len(alarmHistory[d]) => NotedSince(d, n, x)' = NotedSince(d, n, x)
<1>0. /\ \A d \in Device : Len(alarmHistory[d]) \in Nat
      /\ \A d \in Device, x \in Int : SentSince(d, x) \subseteq AlarmId
      /\ AlarmId \subseteq Nat
  <2>1. /\ alarmHistory \in [Device -> Seq(Nat)] /\ smsSent \subseteq AlarmId
        /\ Len(alarms) \in Nat
    BY DEF TypeOK
  <2>2. \A d \in Device : Len(alarmHistory[d]) \in Nat
    <3> TAKE d \in Device
    <3>1. alarmHistory[d] \in Seq(Nat)
      BY <2>1
    <3> QED
      BY <3>1
  <2>3. \A d \in Device, x \in Int : SentSince(d, x) \subseteq AlarmId
    BY <2>1 DEF SentSince
  <2> QED
    BY <2>1, <2>2, <2>3 DEF AlarmId
<1>1. CASE UNCHANGED <<alarms, timestamps, alarmHistory>>
  BY <1>0, <1>1 DEF RaisedSince, NotedSince, AlarmId
<1>2. CASE CreateAlarm
  <2>1. \A d \in Device, id \in AlarmId, x \in Int :
          RaisedSince(d, id, x)' = RaisedSince(d, id, x)
    <3>1. \A id \in AlarmId : ~(Len(alarms) + 1 <= id)
      BY <1>2, CreateNotes DEF AlarmId
    <3> QED
      BY <1>2, <3>1, CreateNotes DEF RaisedSince
  <2>2. ASSUME NEW d \in Device
        PROVE  /\ Len(alarmHistory[d]) <= Len(alarmHistory'[d])
               /\ \A i \in 1..Len(alarmHistory[d]) : alarmHistory'[d][i] = alarmHistory[d][i]
    <3>1. CASE d = reading.device
      BY <1>2, <3>1, CreateNotes
    <3>2. CASE d # reading.device
      BY <1>0, <1>2, <3>2, CreateNotes
    <3> QED
      BY <3>1, <3>2
  <2>3. \A d \in Device, n \in Nat, x \in Int :
          n <= Len(alarmHistory[d]) => NotedSince(d, n, x)' = NotedSince(d, n, x)
    <3> SUFFICES ASSUME NEW d \in Device, NEW n \in Nat, NEW x \in Int,
                        n <= Len(alarmHistory[d])
                 PROVE  NotedSince(d, n, x)' = NotedSince(d, n, x)
      OBVIOUS
    <3>1. 1..n \subseteq 1..Len(alarmHistory[d])
      BY <1>0
    <3> QED
      BY <2>2, <3>1 DEF NotedSince
  <2> QED
    BY <1>0, <1>2, <2>1, <2>2, <2>3, CreateNotes
<1> QED
  BY <1>1, <1>2, SMSFrame

\* createAlarm notes every alarm in the history of its detector.
LEMMA HistoryStep ==
  ASSUME TypeOK, HistoryKeepsAll, [Next]_vars
  PROVE  HistoryKeepsAll'
<1>1. CASE CreateAlarm
  <2> DEFINE n == Len(alarms) + 1
             d0 == reading.device
             m == Len(alarmHistory[d0]) + 1
             R(d, x) == RaisedSince(d, Len(alarms), x)
             N(d, x) == NotedSince(d, Len(alarmHistory[d]), x)
  <2>1. /\ AlarmId' = AlarmId \cup {n} /\ n \notin AlarmId /\ AlarmId = 1..Len(alarms)
        /\ Len(alarms') = n /\ Len(alarms) \in Nat /\ d0 \in Device /\ stamp \in Nat
    BY <1>1, CreateNotes DEF AlarmId
  <2>2. SUFFICES ASSUME NEW d \in Device, NEW x \in Int
                 PROVE  Cardinality(R(d, x)') <= Cardinality(N(d, x)')
    BY DEF HistoryKeepsAll
  <2>3. Len(alarmHistory[d]) \in Nat
    BY DEF TypeOK
  <2>4. /\ Cardinality(R(d, x)) <= Cardinality(N(d, x))
        /\ IsFiniteSet(R(d, x)) /\ Cardinality(R(d, x)) \in Nat
        /\ IsFiniteSet(N(d, x)) /\ Cardinality(N(d, x)) \in Nat
    BY <2>3, SMSSetsFinite DEF HistoryKeepsAll
  <2>5. R(d, x)' = R(d, x) \cup {i \in {n} : d = d0 /\ stamp > x}
    <3>1. R(d, x) = {id \in AlarmId : alarms[id].device = d /\ timestamps[id] > x}
      BY <2>1 DEF RaisedSince
    <3>2. R(d, x)' = {id \in AlarmId' : alarms'[id].device = d /\ timestamps'[id] > x}
      <4>1. \A id \in AlarmId' : id <= Len(alarms')
        BY <2>1
      <4> QED
        BY <4>1 DEF RaisedSince
    <3> QED
      BY <1>1, <2>1, <3>1, <3>2, CreateNotes
  <2>6. CASE d = d0
    <3>1. /\ Len(alarmHistory'[d]) = m /\ alarmHistory'[d][m] = stamp
          /\ \A i \in 1..Len(alarmHistory[d]) : alarmHistory'[d][i] = alarmHistory[d][i]
      BY <1>1, <2>6, CreateNotes
    <3>2. 1..m = (1..Len(alarmHistory[d])) \cup {m} /\ m \notin 1..Len(alarmHistory[d])
      BY <2>3, <2>6
    <3> HIDE DEF m
    <3>3. N(d, x)' = N(d, x) \cup {i \in {m} : stamp > x} /\ m \notin N(d, x)
      BY <3>1, <3>2 DEF NotedSince
    <3>4. n \notin R(d, x)
      BY <2>1 DEF RaisedSince
    <3>5. CASE stamp > x
      <4>1. R(d, x)' = R(d, x) \cup {n} /\ N(d, x)' = N(d, x) \cup {m}
        BY <2>5, <2>6, <3>3, <3>5
      <4>2. /\ Cardinality(R(d, x)') = Cardinality(R(d, x)) + 1
            /\ Cardinality(N(d, x)') = Cardinality(N(d, x)) + 1
        BY <2>4, <3>3, <3>4, <4>1, FS_AddElement
      <4> HIDE DEF R, N
      <4> QED
        BY <2>4, <4>2
    <3>6. CASE ~(stamp > x)
      <4>1. R(d, x)' = R(d, x) /\ N(d, x)' = N(d, x)
        BY <2>5, <3>3, <3>6
      <4> HIDE DEF R, N
      <4> QED
        BY <2>4, <4>1
    <3> QED
      BY <3>5, <3>6
  <2>7. CASE d # d0
    <3>1. alarmHistory'[d] = alarmHistory[d]
      BY <1>1, <2>7, CreateNotes
    <3>2. N(d, x)' = N(d, x)
      BY <3>1 DEF NotedSince
    <3>3. R(d, x)' = R(d, x)
      BY <2>5, <2>7
    <3> HIDE DEF R, N
    <3> QED
      BY <2>4, <3>2, <3>3
  <2> QED
    BY <2>6, <2>7
<1>2. CASE UNCHANGED <<alarms, timestamps, alarmHistory>>
  BY <1>2 DEF HistoryKeepsAll, RaisedSince, NotedSince, AlarmId
<1> QED
  BY <1>1, <1>2, SMSFrame

\* Every history read omits no alarm up to the goroutine's own.
LEMMA NotesStep ==
  ASSUME TypeOK, HistoryKeepsAll, NotesKeepAll, [Next]_vars
  PROVE  NotesKeepAll'
<1> DEFINE Kept(note) ==
      LET d == alarms[note.alarm].device IN
        /\ note.length <= Len(alarmHistory[d])
        /\ \A x \in Int : Cardinality(RaisedSince(d, note.alarm, x))
                            <= Cardinality(NotedSince(d, note.length, x))
<1>1. smsNoted \subseteq [alarm : AlarmId, length : Nat] /\ smsPending \subseteq AlarmId
  BY DEF TypeOK
<1>2. ASSUME NEW note \in [alarm : AlarmId, length : Nat], Kept(note)
      PROVE  Kept(note)'
  <2> DEFINE d == alarms[note.alarm].device
  <2>1. d \in Device /\ note.alarm \in AlarmId /\ note.length \in Nat
    BY RaisedTypes
  <2>2. d' = d
    BY <2>1, PrefixesStay
  <2>3. note.length <= Len(alarmHistory'[d])
    <3>1. /\ Len(alarmHistory[d]) \in Nat /\ Len(alarmHistory[d]) <= Len(alarmHistory'[d])
          /\ note.length <= Len(alarmHistory[d])
      BY <1>2, <2>1, PrefixesStay
    <3>2. Len(alarmHistory'[d]) \in Nat
      <4>1. alarmHistory' \in [Device -> Seq(Nat)]
        BY TypeStep DEF TypeOK
      <4> HIDE DEF d
      <4> QED
        BY <2>1, <4>1
    <3> QED
      BY <2>1, <3>1, <3>2
  <2>4. ASSUME NEW x \in Int
        PROVE  Cardinality(RaisedSince(d, note.alarm, x)')
                 <= Cardinality(NotedSince(d, note.length, x)')
    <3>1. /\ RaisedSince(d, note.alarm, x)' = RaisedSince(d, note.alarm, x)
          /\ NotedSince(d, note.length, x)' = NotedSince(d, note.length, x)
      BY <1>2, <2>1, <2>2, PrefixesStay DEF RaisedSince, NotedSince
    <3> QED
      BY <1>2, <3>1
  <2> QED
    BY <2>2, <2>3, <2>4 DEF RaisedSince, NotedSince
<1>3. ASSUME NEW id \in smsPending, ReadHistory(id)
      PROVE  Kept([alarm |-> id, length |-> Len(alarmHistory[alarms[id].device])])
  <2> DEFINE d == alarms[id].device
             h == Len(alarmHistory[d])
  <2>1. id \in AlarmId /\ d \in Device /\ h \in Nat /\ Len(alarms) \in Nat
    BY <1>1, RaisedTypes DEF TypeOK
  <2>2. ASSUME NEW x \in Int
        PROVE  Cardinality(RaisedSince(d, id, x)) <= Cardinality(NotedSince(d, h, x))
    <3>1. RaisedSince(d, id, x) \subseteq RaisedSince(d, Len(alarms), x)
      BY <2>1 DEF RaisedSince, AlarmId
    <3>2. Cardinality(RaisedSince(d, id, x)) <= Cardinality(RaisedSince(d, Len(alarms), x))
      BY <2>1, <3>1, SMSSetsFinite, FS_Subset
    <3>3. Cardinality(RaisedSince(d, Len(alarms), x)) <= Cardinality(NotedSince(d, h, x))
      BY <2>1 DEF HistoryKeepsAll
    <3>4. /\ Cardinality(RaisedSince(d, id, x)) \in Nat
          /\ Cardinality(RaisedSince(d, Len(alarms), x)) \in Nat
          /\ Cardinality(NotedSince(d, h, x)) \in Nat
      BY <2>1, SMSSetsFinite
    <3> QED
      BY <3>2, <3>3, <3>4
  <2> HIDE DEF d, h
  <2> QED
    BY <2>1, <2>2 DEF d, h
<1>4. \A note \in smsNoted : Kept(note)
  BY DEF NotesKeepAll
<1>5. \A note \in smsNoted' :
        \/ note \in smsNoted
        \/ \E id \in smsPending :
             /\ ReadHistory(id)
             /\ note = [alarm |-> id, length |-> Len(alarmHistory[alarms[id].device])]
  BY SMSFrame DEF CreateAlarm, Tick, ReadHistory, SendAlarmSMS, smsVars
<1>6. ASSUME NEW note \in smsNoted' PROVE Kept(note)'
  <2>1. CASE note \in smsNoted
    BY <1>1, <1>2, <1>4, <2>1
  <2>2. CASE note \notin smsNoted
    <3>1. PICK id \in smsPending :
            /\ ReadHistory(id)
            /\ note = [alarm |-> id, length |-> Len(alarmHistory[alarms[id].device])]
      BY <1>5, <2>2
    <3>2. note \in [alarm : AlarmId, length : Nat]
      <4>1. id \in AlarmId
        BY <1>1
      <4>2. alarms[id].device \in Device
        BY <4>1, RaisedTypes
      <4>3. alarmHistory \in [Device -> Seq(Nat)]
        BY DEF TypeOK
      <4>4. Len(alarmHistory[alarms[id].device]) \in Nat
        BY <4>2, <4>3, LenProperties
      <4> QED
        BY <3>1, <4>1, <4>4
    <3>3. Kept(note)
      BY <1>3, <3>1
    <3> QED
      BY <1>2, <3>2, <3>3
  <2> QED
    BY <2>1, <2>2
<1> QED
  BY <1>6 DEF NotesKeepAll

\* Every announcement is within the budget, and remains so.
LEMMA SentStep ==
  ASSUME TypeOK, NotesKeepAll, SentInBudget, [Next]_vars
  PROVE  SentInBudget'
<1>1. /\ Budget \in Nat \ {0} /\ SMSInterval \in Nat /\ now \in Nat
      /\ SMSMaxPerInterval \in Nat /\ SMSMaxPerInterval <= Budget
      /\ smsSent \subseteq AlarmId /\ smsNoted \subseteq [alarm : AlarmId, length : Nat]
  BY BoundAssumption DEF Budget, TypeOK
<1>2. now' \in {now, now + 1}
  BY SMSFrame DEF CreateAlarm, Tick, ReadHistory, SendAlarmSMS, smsVars
<1>3. ASSUME NEW id \in smsSent' \cap AlarmId,
             Cardinality(RaisedSince(alarms[id].device, id, now - SMSInterval)) <= Budget
      PROVE  Cardinality(RaisedSince(alarms[id].device, id, now - SMSInterval)') <= Budget
  <2> DEFINE d == alarms[id].device
             x == now - SMSInterval
             y == now' - SMSInterval
  <2>1. d \in Device /\ d' = d /\ x \in Int /\ y \in Int /\ x <= y
    <3>1. d \in Device /\ d' = d
      BY <1>3, RaisedTypes, PrefixesStay
    <3>2. x \in Int /\ y \in Int /\ x <= y
      <4>1. \A i, j, k \in Nat : i <= j => i - k \in Int /\ j - k \in Int /\ i - k <= j - k
        OBVIOUS
      <4>2. now \in Nat /\ now' \in Nat /\ now <= now'
        BY <1>1, <1>2
      <4> QED
        BY <1>1, <4>1, <4>2
    <3> QED
      BY <3>1, <3>2
  <2>2. RaisedSince(d, id, y) \subseteq RaisedSince(d, id, x)
    <3>1. \A k \in AlarmId : timestamps[k] \in Nat
      BY RaisedTypes
    <3> HIDE DEF x, y
    <3> QED
      BY <2>1, <3>1 DEF RaisedSince
  <2>3. RaisedSince(d, id, x)' = RaisedSince(d, id, y)
    <3>1. \A dd \in Device, z \in Int :
            {k \in AlarmId' : k <= id /\ alarms'[k].device = dd /\ timestamps'[k] > z}
              = RaisedSince(dd, id, z)
      BY PrefixesStay DEF RaisedSince
    <3>2. RaisedSince(d, id, x)'
            = {k \in AlarmId' : k <= id /\ alarms'[k].device = d' /\ timestamps'[k] > y}
      BY DEF RaisedSince
    <3> HIDE DEF x, y, d
    <3> QED
      BY <2>1, <3>1, <3>2
  <2>4. /\ Cardinality(RaisedSince(d, id, y)) <= Cardinality(RaisedSince(d, id, x))
        /\ Cardinality(RaisedSince(d, id, y)) \in Nat
        /\ Cardinality(RaisedSince(d, id, x)) \in Nat
    BY <2>1, <2>2, SMSSetsFinite, FS_Subset
  <2>5. Cardinality(RaisedSince(d, id, x)) <= Budget
    BY <1>3
  <2> HIDE DEF x, y, d
  <2>6. Cardinality(RaisedSince(d, id, y)) <= Budget
    BY <1>1, <2>4, <2>5
  <2> QED
    BY <2>3, <2>6 DEF x, d
<1>4. ASSUME NEW note \in smsNoted, shouldSendSMS(note)
      PROVE  Cardinality(RaisedSince(alarms[note.alarm].device, note.alarm, now - SMSInterval))
               <= Budget
  <2> DEFINE d == alarms[note.alarm].device
             x == now - SMSInterval
             r == Cardinality(RaisedSince(d, note.alarm, x))
             c == Cardinality(NotedSince(d, note.length, x))
  <2>1. d \in Device /\ x \in Int /\ note.length \in Nat
    BY <1>1, RaisedTypes
  <2>2. r <= c
    BY <2>1 DEF NotesKeepAll
  <2>3. r \in Nat /\ c \in Nat /\ c <= note.length
    BY <2>1, SMSSetsFinite
  <2>4. note.length >= 2 => c <= SMSMaxPerInterval
    BY <1>4 DEF shouldSendSMS, NotedSince
  <2> HIDE DEF r, c
  <2>5. r <= Budget
    BY <1>1, <2>1, <2>2, <2>3, <2>4
  <2> QED
    BY <2>5 DEF r
<1>5. \A id \in smsSent' :
        \/ id \in smsSent
        \/ \E note \in smsNoted : shouldSendSMS(note) /\ id = note.alarm
  BY SMSFrame DEF CreateAlarm, Tick, ReadHistory, SendAlarmSMS, smsVars
<1>6. \A id \in smsSent' :
        /\ id \in AlarmId
        /\ Cardinality(RaisedSince(alarms[id].device, id, now - SMSInterval)) <= Budget
  BY <1>1, <1>4, <1>5 DEF SentInBudget
<1> QED
  BY <1>3, <1>6 DEF SentInBudget

\* If up to each announced alarm the budget is kept, it is kept by all of them: take the
\* latest.
LEMMA BudgetFollows ==
  ASSUME TypeOK, SentInBudget
  PROVE  SMSBudget
<1>1. /\ Budget \in Nat /\ smsSent \subseteq AlarmId /\ AlarmId = 1..Len(alarms)
      /\ Len(alarms) \in Nat
  BY BoundAssumption DEF Budget, TypeOK, AlarmId
<1>2. ASSUME NEW d \in Device
      PROVE  Cardinality(SentSince(d, now - SMSInterval)) <= Budget
  <2> DEFINE S == SentSince(d, now - SMSInterval)
  <2>1. CASE S = {}
    BY <1>1, <2>1, FS_EmptySet
  <2>2. CASE S # {}
    <3>1. S \subseteq 1..Len(alarms)
      BY <1>1 DEF SentSince
    <3>2. PICK m \in S : \A k \in S : k <= m
      BY <1>1, <2>2, <3>1, GreatestUpTo
    <3>3. m \in smsSent /\ alarms[m].device = d
      BY <3>2 DEF SentSince
    <3>4. S \subseteq RaisedSince(d, m, now - SMSInterval)
      BY <1>1, <3>2 DEF SentSince, RaisedSince
    <3>5. /\ Cardinality(S) <= Cardinality(RaisedSince(d, m, now - SMSInterval))
          /\ Cardinality(S) \in Nat
          /\ Cardinality(RaisedSince(d, m, now - SMSInterval)) \in Nat
      BY <3>4, SMSSetsFinite, FS_Subset
    <3>6. Cardinality(RaisedSince(d, m, now - SMSInterval)) <= Budget
      BY <3>3 DEF SentInBudget
    <3> QED
      BY <1>1, <3>5, <3>6
  <2> QED
    BY <2>1, <2>2
<1> QED
  BY <1>2 DEF SMSBudget, SentSince, Budget

\* Of the alarms a detector raised within SMSInterval at most SMSMaxPerInterval have been
\* announced, whenever the clock ticks between createAlarm, the read of the history and
\* the decision (shouldSendSMS).
THEOREM SMSBudgetCorrect == Spec => []SMSBudget
<1>1. Init => HistoryKeepsAll
  <2> SUFFICES ASSUME Init, NEW d \in Device, NEW x \in Int
               PROVE  Cardinality(RaisedSince(d, Len(alarms), x))
                        <= Cardinality(NotedSince(d, Len(alarmHistory[d]), x))
    BY DEF HistoryKeepsAll
  <2>1. RaisedSince(d, Len(alarms), x) = {} /\ NotedSince(d, Len(alarmHistory[d]), x) = {}
    BY DEF Init, RaisedSince, NotedSince, AlarmId
  <2> QED
    BY <2>1, FS_EmptySet
<1>2. Init => NotesKeepAll /\ SentInBudget
  BY DEF Init, NotesKeepAll, SentInBudget
<1> QED
  BY <1>1, <1>2, HistoryStep, NotesStep, SentStep, BudgetFollows, TypeCorrect, PTL DEF Spec

-------------------------------------------------------------------------------
\* The whole strengthening holds in every reachable state.
THEOREM IndInvCorrect == Spec => []IndInv
BY TypeCorrect, OpenAlarmsCorrect, NoRepeatedAlarmCorrect, SettledLevelCorrect,
   TableFollowsMemoryCorrect, HandedInOrderCorrect, PTL DEF IndInv
===============================================================================
