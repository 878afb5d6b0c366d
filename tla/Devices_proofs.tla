---------------------------- MODULE Devices_proofs ----------------------------
(***************************************************************************)
(* Proofs about the two ends of the MQTT link to the devices: LaserReceiver,*)
(* for any messages, thresholds and capacities, and MQTTService, for any   *)
(* commands, devices, number of retries and of repeated deliveries.        *)
(***************************************************************************)
EXTENDS LaserReceiver, MQTTService, SequenceTheorems, FiniteSetTheorems, TLAPS

-------------------------------------------------------------------------------
(***************************************************************************)
(* LaserReceiver                                                           *)
(***************************************************************************)

\* The messages that are counted as received but not as valid or invalid.
Underway == At({"validate", "judge"})

\* The messages counted under reason r.
FailedFor(r) == {m \in At({"done"}) : verdict[m] = r}

\* The verdict of a message says "valid" until it is validated, and a message that is
\* not valid is not forwarded.
VerdictFollows ==
  \A m \in Message :
    /\ pc[m] \notin {"judge", "done"} => verdict[m] = "valid"
    /\ pc[m] = "judge" /\ verdict[m] = "valid" => ConcentrationOf[m] <= MaxValidConcentration

\* A message is written exactly when it is found valid, and offered after that.
WrittenFollows ==
  \A m \in Message :
    /\ m \in written => /\ pc[m] \in {"alarm", "leak", "done", "panic"}
                        /\ ConcentrationOf[m] <= MaxValidConcentration
    /\ pc[m] \in {"alarm", "leak"} => m \in written
    /\ pc[m] = "alarm" => ConcentrationOf[m] > AlarmForwardThreshold

\* What has been offered to AlarmRouter and LeakLocator when a message has come past it.
OfferFollows ==
  \A m \in Message :
    /\ m \in written /\ ConcentrationOf[m] > AlarmForwardThreshold
         /\ pc[m] \notin {"alarm", "panic"} => Reached(m, "alarm", alarmDataChan)
    /\ m \in written /\ pc[m] = "done" => Reached(m, "leak", leakDataChan)
    /\ Reached(m, "alarm", alarmDataChan) =>
         m \in written /\ ConcentrationOf[m] > AlarmForwardThreshold

\* The inductive invariant.
LRIndInv == LRTypeOK /\ VerdictFollows /\ WrittenFollows /\ OfferFollows /\ StatsAddUp

-------------------------------------------------------------------------------
(* Sets of messages and channels *)

\* Counting one more message, or one less.
LEMMA OneMore ==
  ASSUME NEW S, S \subseteq Message, NEW m \in Message
  PROVE  /\ Cardinality(S) \in Nat
         /\ m \notin S => Cardinality(S \cup {m}) = Cardinality(S) + 1
         /\ m \in S => Cardinality(S) = Cardinality(S \ {m}) + 1
<1>1. IsFiniteSet(S)
  BY ReceiverAssumption, FS_Subset
<1>2. Cardinality(S) \in Nat
  BY <1>1, FS_CardinalityType
<1>3. m \notin S => Cardinality(S \cup {m}) = Cardinality(S) + 1
  BY <1>1, FS_AddElement
<1>4. m \in S => Cardinality(S \ {m}) = Cardinality(S) - 1
  BY <1>1, FS_RemoveElement
<1> QED
  BY <1>2, <1>3, <1>4

\* Where the messages are after one of them has moved.
LEMMA AtMoves ==
  ASSUME NEW m \in Message, NEW l, pc \in [Message -> PC], Goto(m, l), NEW CONSTANT S
  PROVE  At(S)' = IF l \in S THEN At(S) \cup {m} ELSE At(S) \ {m}
BY DEF At, Goto

\* A message that is sent is in the channel.
LEMMA SendReaches ==
  ASSUME NEW q \in Seq(Message), NEW m \in Message
  PROVE  /\ Append(q, m) \in Seq(Message) /\ Len(Append(q, m)) = Len(q) + 1
         /\ SeqRange(Append(q, m)) = SeqRange(q) \cup {m}
<1>1. /\ Append(q, m) \in Seq(Message) /\ Len(Append(q, m)) = Len(q) + 1 /\ Len(q) \in Nat
      /\ \A i \in 1..Len(q) : Append(q, m)[i] = q[i]
      /\ Append(q, m)[Len(q) + 1] = m
  BY AppendProperties, LenProperties
<1>2. 1..Len(q) + 1 = 1..Len(q) \cup {Len(q) + 1}
  BY <1>1
<1> QED
  BY <1>1, <1>2 DEF SeqRange

\* A message that is received was the first in the channel.
LEMMA TakeReaches ==
  ASSUME NEW q \in Seq(Message), q # <<>>
  PROVE  /\ Head(q) \in Message /\ Tail(q) \in Seq(Message) /\ Len(Tail(q)) <= Len(q)
         /\ SeqRange(q) = SeqRange(Tail(q)) \cup {Head(q)}
<1>1. /\ Head(q) \in Message /\ Tail(q) \in Seq(Message) /\ Len(Tail(q)) = Len(q) - 1
      /\ Len(q) \in Nat \ {0} /\ Head(q) = q[1]
      /\ \A i \in 1..(Len(q) - 1) : Tail(q)[i] = q[i + 1]
  OBVIOUS
<1>2. SeqRange(q) \subseteq SeqRange(Tail(q)) \cup {Head(q)}
  <2>1. ASSUME NEW i \in 1..Len(q) PROVE q[i] \in SeqRange(Tail(q)) \cup {Head(q)}
    <3>1. CASE i = 1
      BY <1>1, <3>1
    <3>2. CASE i # 1
      <4>1. i - 1 \in 1..Len(Tail(q)) /\ Tail(q)[i - 1] = q[i]
        BY <1>1, <3>2
      <4> QED
        BY <4>1 DEF SeqRange
    <3> QED
      BY <3>1, <3>2
  <2> QED
    BY <2>1 DEF SeqRange
<1>3. SeqRange(Tail(q)) \cup {Head(q)} \subseteq SeqRange(q)
  <2>1. \A i \in 1..Len(Tail(q)) : i + 1 \in 1..Len(q) /\ Tail(q)[i] = q[i + 1]
    BY <1>1
  <2>2. 1 \in 1..Len(q)
    BY <1>1
  <2> QED
    BY <1>1, <2>1, <2>2 DEF SeqRange
<1> QED
  BY <1>1, <1>2, <1>3

-------------------------------------------------------------------------------
(* Types and offers *)

\* Every step keeps the types.
LEMMA LRTypeStep ==
  ASSUME LRTypeOK, [LRNext]_LRvars
  PROVE  LRTypeOK'
<1>0. /\ pc \in [Message -> PC] /\ dropped \subseteq Message \X {"alarm", "leak"}
      /\ alarmDataChan \in Seq(Message) /\ Len(alarmDataChan) <= AlarmDataCap
      /\ leakDataChan \in Seq(Message) /\ Len(leakDataChan) <= LeakDataCap
  BY DEF LRTypeOK
<1>1. ASSUME NEW m \in Message, Arrive(m) \/ Route(m) \/ CheckRunning(m)
      PROVE  LRTypeOK'
  BY <1>1 DEF LRTypeOK, Arrive, Route, CheckRunning, Goto, PC, statVars, chanVars
<1>2. ASSUME NEW m \in Message, CountReceived(m) PROVE LRTypeOK'
  BY <1>2 DEF LRTypeOK, CountReceived, Goto, PC, statVars, chanVars
<1>3. ASSUME NEW m \in Message, Validate(m) PROVE LRTypeOK'
  BY <1>3 DEF LRTypeOK, Validate, validate, Goto, PC, Verdict, FailReason, statVars, chanVars
<1>4. ASSUME NEW m \in Message, CountValid(m) PROVE LRTypeOK'
  BY <1>4 DEF LRTypeOK, CountValid, Goto, PC, statVars, chanVars
<1>5. ASSUME NEW m \in Message, CountInvalid(m) PROVE LRTypeOK'
  <2>1. verdict[m] \in FailReason
    BY <1>5 DEF LRTypeOK, CountInvalid, Verdict
  <2> QED
    BY <1>5, <2>1 DEF LRTypeOK, CountInvalid, Goto, PC, statVars, chanVars
<1>6. ASSUME NEW m \in Message, ForwardAlarm(m) PROVE LRTypeOK'
  <2>0. /\ Append(alarmDataChan, m) \in Seq(Message)
        /\ Len(Append(alarmDataChan, m)) = Len(alarmDataChan) + 1
    BY <1>0, SendReaches
  <2>1. alarmDataChan' \in Seq(Message) /\ Len(alarmDataChan') <= AlarmDataCap
    <3>1. Len(alarmDataChan) \in Nat
      BY <1>0, LenProperties
    <3>2. \/ alarmDataChan' = alarmDataChan
          \/ Len(alarmDataChan) < AlarmDataCap /\ alarmDataChan' = Append(alarmDataChan, m)
      BY <1>6 DEF ForwardAlarm
    <3> DEFINE q == Append(alarmDataChan, m)
    <3>3. Len(alarmDataChan) < AlarmDataCap => Len(q) <= AlarmDataCap
      BY <2>0, <3>1, ReceiverAssumption
    <3>4. q \in Seq(Message)
      BY <2>0
    <3> HIDE DEF q
    <3> QED
      BY <1>0, <3>2, <3>3, <3>4 DEF q
  <2>2. pc' \in [Message -> PC]
    BY <1>0, <1>6 DEF ForwardAlarm, Goto, PC
  <2>3. dropped' \subseteq Message \X {"alarm", "leak"}
    BY <1>0, <1>6 DEF ForwardAlarm
  <2> QED
    BY <1>6, <2>1, <2>2, <2>3 DEF LRTypeOK, ForwardAlarm, statVars
<1>7. ASSUME NEW m \in Message, ForwardLeak(m) PROVE LRTypeOK'
  <2>0. /\ Append(leakDataChan, m) \in Seq(Message)
        /\ Len(Append(leakDataChan, m)) = Len(leakDataChan) + 1
    BY <1>0, SendReaches
  <2>1. leakDataChan' \in Seq(Message) /\ Len(leakDataChan') <= LeakDataCap
    <3>1. Len(leakDataChan) \in Nat
      BY <1>0, LenProperties
    <3>2. \/ leakDataChan' = leakDataChan
          \/ Len(leakDataChan) < LeakDataCap /\ leakDataChan' = Append(leakDataChan, m)
      BY <1>7 DEF ForwardLeak
    <3> DEFINE q == Append(leakDataChan, m)
    <3>3. Len(leakDataChan) < LeakDataCap => Len(q) <= LeakDataCap
      BY <2>0, <3>1, ReceiverAssumption
    <3>4. q \in Seq(Message)
      BY <2>0
    <3> HIDE DEF q
    <3> QED
      BY <1>0, <3>2, <3>3, <3>4 DEF q
  <2>2. pc' \in [Message -> PC]
    BY <1>0, <1>7 DEF ForwardLeak, Goto, PC
  <2>3. dropped' \subseteq Message \X {"alarm", "leak"}
    BY <1>0, <1>7 DEF ForwardLeak
  <2> QED
    BY <1>7, <2>1, <2>2, <2>3 DEF LRTypeOK, ForwardLeak, statVars
<1>8. CASE TakeAlarmData
  <2>1. /\ Head(alarmDataChan) \in Message /\ alarmDataChan' \in Seq(Message)
        /\ Len(alarmDataChan') <= Len(alarmDataChan)
        /\ Len(alarmDataChan) \in Nat /\ Len(alarmDataChan') \in Nat
    BY <1>8, TakeReaches, LenProperties DEF LRTypeOK, TakeAlarmData
  <2> QED
    BY <1>8, <2>1, ReceiverAssumption DEF LRTypeOK, TakeAlarmData, statVars
<1>9. CASE TakeLeakData
  <2>1. /\ Head(leakDataChan) \in Message /\ leakDataChan' \in Seq(Message)
        /\ Len(leakDataChan') <= Len(leakDataChan)
        /\ Len(leakDataChan) \in Nat /\ Len(leakDataChan') \in Nat
    BY <1>9, TakeReaches, LenProperties DEF LRTypeOK, TakeLeakData
  <2>2. /\ UNCHANGED <<running, open, now, pc, verdict, statVars, alarmDataChan, written,
                       legacy, dropped>>
        /\ taken' = taken \cup {<<Head(leakDataChan), "leak">>}
    BY <1>9 DEF TakeLeakData
  <2>3. taken' \subseteq Message \X {"alarm", "leak"} /\ Len(leakDataChan') <= LeakDataCap
    BY <2>1, <2>2, ReceiverAssumption DEF LRTypeOK
  <2> QED
    BY <2>1, <2>2, <2>3 DEF LRTypeOK, statVars
<1>10. CASE Tick \/ Stop \/ CloseChannels
  <2>1. /\ UNCHANGED <<pc, verdict, totalReceived, validCount, invalidCount, errorCount,
                       alarmDataChan, leakDataChan, written, legacy, dropped, taken>>
    BY <1>10 DEF Tick, Stop, CloseChannels, statVars, chanVars
  <2>2. running' \in BOOLEAN /\ open' \in BOOLEAN /\ (running' => open')
    <3>1. running \in BOOLEAN /\ open \in BOOLEAN /\ (running => open)
      BY DEF LRTypeOK
    <3>2. CASE Tick
      BY <3>1, <3>2 DEF Tick
    <3>3. CASE Stop
      BY <3>1, <3>3 DEF Stop
    <3>4. CASE CloseChannels
      BY <3>1, <3>4 DEF CloseChannels
    <3> QED
      BY <1>10, <3>2, <3>3, <3>4
  <2>3. now' \in Nat
    BY <1>10 DEF LRTypeOK, Tick, Stop, CloseChannels
  <2> QED
    BY <2>1, <2>2, <2>3 DEF LRTypeOK
<1>11. CASE UNCHANGED LRvars
  BY <1>11 DEF LRTypeOK, LRvars
<1> QED
  BY <1>1, <1>2, <1>3, <1>4, <1>5, <1>6, <1>7, <1>8, <1>9, <1>10, <1>11
  DEF LRNext, ProcessMessage

\* A message is written and judged in its order.
LEMMA WrittenStep ==
  ASSUME LRTypeOK, VerdictFollows, WrittenFollows, [LRNext]_LRvars
  PROVE  VerdictFollows' /\ WrittenFollows'
<1>1. pc \in [Message -> PC] /\ verdict \in [Message -> Verdict]
  BY DEF LRTypeOK
<1>2. ASSUME NEW m \in Message,
             Arrive(m) \/ Route(m) \/ CheckRunning(m) \/ CountReceived(m)
      PROVE  VerdictFollows' /\ WrittenFollows'
  BY <1>1, <1>2
  DEF Arrive, Route, CheckRunning, CountReceived, Goto, VerdictFollows, WrittenFollows
<1>3. ASSUME NEW m \in Message, Validate(m) PROVE VerdictFollows' /\ WrittenFollows'
  <2>1. validate(m) = "valid" => ConcentrationOf[m] <= MaxValidConcentration
    BY ReceiverAssumption DEF validate
  <2>2. /\ pc[m] = "validate" /\ Goto(m, "judge") /\ written' = written
        /\ verdict' = [verdict EXCEPT ![m] = validate(m)]
    BY <1>3 DEF Validate
  <2> QED
    BY <1>1, <2>1, <2>2 DEF Goto, VerdictFollows, WrittenFollows
<1>4. ASSUME NEW m \in Message, CountValid(m) PROVE VerdictFollows' /\ WrittenFollows'
  BY <1>1, <1>4 DEF CountValid, Goto, VerdictFollows, WrittenFollows
<1>5. ASSUME NEW m \in Message, CountInvalid(m) PROVE VerdictFollows' /\ WrittenFollows'
  BY <1>1, <1>5 DEF CountInvalid, Goto, VerdictFollows, WrittenFollows
<1>6. ASSUME NEW m \in Message, ForwardAlarm(m) \/ ForwardLeak(m)
      PROVE  VerdictFollows' /\ WrittenFollows'
  BY <1>1, <1>6 DEF ForwardAlarm, ForwardLeak, Goto, VerdictFollows, WrittenFollows
<1>7. CASE TakeAlarmData \/ TakeLeakData \/ Tick \/ Stop \/ CloseChannels
  BY <1>7 DEF TakeAlarmData, TakeLeakData, Tick, Stop, CloseChannels, VerdictFollows,
              WrittenFollows
<1>8. CASE UNCHANGED LRvars
  BY <1>8 DEF LRvars, VerdictFollows, WrittenFollows
<1> QED
  BY <1>2, <1>3, <1>4, <1>5, <1>6, <1>7, <1>8 DEF LRNext, ProcessMessage

\* What has been offered stays offered.
LEMMA OfferStep ==
  ASSUME LRTypeOK, WrittenFollows, OfferFollows, [LRNext]_LRvars
  PROVE  OfferFollows'
<1> DEFINE Alarmed(m) == Reached(m, "alarm", alarmDataChan)
           Leaked(m) == Reached(m, "leak", leakDataChan)
<1>1. /\ pc \in [Message -> PC]
      /\ alarmDataChan \in Seq(Message) /\ leakDataChan \in Seq(Message)
      /\ \A m \in Message :
           /\ m \in written /\ ConcentrationOf[m] > AlarmForwardThreshold
                /\ pc[m] \notin {"alarm", "panic"} => Alarmed(m)
           /\ m \in written /\ pc[m] = "done" => Leaked(m)
           /\ Alarmed(m) => m \in written /\ ConcentrationOf[m] > AlarmForwardThreshold
  BY DEF LRTypeOK, OfferFollows
<1>2. ASSUME UNCHANGED <<alarmDataChan, leakDataChan, dropped, taken>>
      PROVE  \A m \in Message : (Alarmed(m)' <=> Alarmed(m)) /\ (Leaked(m)' <=> Leaked(m))
  BY <1>2 DEF Reached
<1>3. ASSUME NEW m \in Message,
             \/ Arrive(m) \/ Route(m) \/ CheckRunning(m) \/ CountReceived(m)
             \/ Validate(m) \/ CountInvalid(m)
      PROVE  OfferFollows'
  <2>1. UNCHANGED <<alarmDataChan, leakDataChan, dropped, taken, written>>
    BY <1>3 DEF Arrive, Route, CheckRunning, CountReceived, Validate, CountInvalid, chanVars
  <2>2. m \notin written
    BY <1>3
    DEF Arrive, Route, CheckRunning, CountReceived, Validate, CountInvalid, WrittenFollows
  <2>3. \A e \in Message : e # m => pc'[e] = pc[e]
    BY <1>1, <1>3
    DEF Arrive, Route, CheckRunning, CountReceived, Validate, CountInvalid, Goto
  <2> QED
    BY <1>1, <1>2, <2>1, <2>2, <2>3 DEF OfferFollows
<1>4. ASSUME NEW m \in Message, CountValid(m) PROVE OfferFollows'
  <2>1. /\ UNCHANGED <<alarmDataChan, leakDataChan, dropped, taken>>
        /\ written' = written \cup {m}
        /\ pc' = [pc EXCEPT ![m] = IF ConcentrationOf[m] > AlarmForwardThreshold
                                   THEN "alarm" ELSE "leak"]
    BY <1>4 DEF CountValid, Goto, chanVars
  <2>2. \A e \in Message : (Alarmed(e)' <=> Alarmed(e)) /\ (Leaked(e)' <=> Leaked(e))
    BY <1>2, <2>1
  <2> QED
    BY <1>1, <2>1, <2>2 DEF OfferFollows
<1>5. ASSUME NEW m \in Message, ForwardAlarm(m) PROVE OfferFollows'
  <2>1. /\ pc[m] = "alarm" /\ m \in written /\ ConcentrationOf[m] > AlarmForwardThreshold
        /\ written' = written
        /\ \A e \in Message : e # m => pc'[e] = pc[e]
        /\ pc'[m] \in {"panic", "leak"}
    BY <1>1, <1>5 DEF ForwardAlarm, Goto, WrittenFollows
  <2>2. \A e \in Message : /\ Leaked(e)' <=> Leaked(e)
                           /\ Alarmed(e) => Alarmed(e)'
                           /\ Alarmed(e)' => Alarmed(e) \/ e = m
                           /\ e = m /\ pc'[m] = "leak" => Alarmed(e)'
    <3>1. SeqRange(Append(alarmDataChan, m)) = SeqRange(alarmDataChan) \cup {m}
      BY <1>1, SendReaches
    <3>2. /\ UNCHANGED <<leakDataChan, taken>> /\ dropped \subseteq dropped'
          /\ dropped' \subseteq dropped \cup {<<m, "alarm">>}
          /\ \/ pc'[m] = "panic" /\ UNCHANGED <<alarmDataChan, dropped>>
             \/ alarmDataChan' = Append(alarmDataChan, m)
             \/ alarmDataChan' = alarmDataChan /\ <<m, "alarm">> \in dropped'
      BY <1>1, <1>5 DEF ForwardAlarm, Goto
    <3>3. \A e \in Message : Leaked(e)' <=> Leaked(e)
      BY <3>2 DEF Reached
    <3>4. \A e \in Message : (Alarmed(e) => Alarmed(e)')
                             /\ (e = m /\ pc'[m] = "leak" => Alarmed(e)')
      BY <3>1, <3>2 DEF Reached
    <3>5. \A e \in Message : Alarmed(e)' => Alarmed(e) \/ e = m
      <4>1. \A e : e # m => <<e, "alarm">> # <<m, "alarm">>
        OBVIOUS
      <4>2. \A e : e # m /\ <<e, "alarm">> \in dropped' => <<e, "alarm">> \in dropped
        BY <3>2, <4>1
      <4>3. \A e : e # m /\ e \in SeqRange(alarmDataChan)' => e \in SeqRange(alarmDataChan)
        BY <3>1, <3>2
      <4> QED
        BY <3>2, <4>2, <4>3 DEF Reached
    <3> QED
      BY <3>3, <3>4, <3>5
  <2> QED
    BY <1>1, <2>1, <2>2 DEF OfferFollows
<1>6. ASSUME NEW m \in Message, ForwardLeak(m) PROVE OfferFollows'
  <2>1. /\ pc[m] = "leak" /\ m \in written /\ written' = written
        /\ \A e \in Message : e # m => pc'[e] = pc[e]
        /\ pc'[m] \in {"panic", "done"}
    BY <1>1, <1>6 DEF ForwardLeak, Goto, WrittenFollows
  <2>2. \A e \in Message : /\ Alarmed(e)' <=> Alarmed(e)
                           /\ Leaked(e) => Leaked(e)'
                           /\ e = m /\ pc'[m] = "done" => Leaked(e)'
    <3>1. SeqRange(Append(leakDataChan, m)) = SeqRange(leakDataChan) \cup {m}
      BY <1>1, SendReaches
    <3>2. /\ UNCHANGED <<alarmDataChan, taken>> /\ dropped \subseteq dropped'
          /\ dropped' \subseteq dropped \cup {<<m, "leak">>}
          /\ \/ pc'[m] = "panic" /\ UNCHANGED <<leakDataChan, dropped>>
             \/ leakDataChan' = Append(leakDataChan, m)
             \/ leakDataChan' = leakDataChan /\ <<m, "leak">> \in dropped'
      BY <1>1, <1>6 DEF ForwardLeak, Goto
    <3>3. \A e \in Message : Alarmed(e)' <=> Alarmed(e)
      BY <3>2 DEF Reached
    <3>4. \A e \in Message : (Leaked(e) => Leaked(e)')
                             /\ (e = m /\ pc'[m] = "done" => Leaked(e)')
      BY <3>1, <3>2 DEF Reached
    <3> QED
      BY <3>3, <3>4
  <2> QED
    BY <1>1, <2>1, <2>2 DEF OfferFollows
<1>7. CASE TakeAlarmData \/ TakeLeakData
  <2>1. pc' = pc /\ written' = written
    BY <1>7 DEF TakeAlarmData, TakeLeakData
  <2>2. \A e \in Message : (Alarmed(e)' <=> Alarmed(e)) /\ (Leaked(e)' <=> Leaked(e))
    <3>1. CASE TakeAlarmData
      BY <1>1, <3>1, TakeReaches DEF TakeAlarmData, Reached
    <3>2. CASE TakeLeakData
      BY <1>1, <3>2, TakeReaches DEF TakeLeakData, Reached
    <3> QED
      BY <1>7, <3>1, <3>2
  <2> QED
    BY <1>1, <2>1, <2>2 DEF OfferFollows
<1>8. CASE Tick \/ Stop \/ CloseChannels \/ UNCHANGED LRvars
  <2>1. UNCHANGED <<alarmDataChan, leakDataChan, dropped, taken, written, pc>>
    BY <1>8 DEF Tick, Stop, CloseChannels, chanVars, LRvars
  <2> QED
    BY <1>1, <1>2, <2>1 DEF OfferFollows
<1> QED
  BY <1>3, <1>4, <1>5, <1>6, <1>7, <1>8 DEF LRNext, ProcessMessage

-------------------------------------------------------------------------------
(* The statistics *)

\* The counters count the messages in the states their goroutines are in.
LEMMA StatsStep ==
  ASSUME LRTypeOK, VerdictFollows, WrittenFollows, StatsAddUp, [LRNext]_LRvars
  PROVE  StatsAddUp'
<1>1. /\ pc \in [Message -> PC] /\ verdict \in [Message -> Verdict]
      /\ totalReceived \in Nat /\ validCount \in Nat /\ invalidCount \in Nat
      /\ errorCount \in [FailReason -> Nat] /\ written \subseteq Message
      /\ Underway \subseteq Message /\ Cardinality(Underway) \in Nat
  <2>1. Underway \subseteq Message
    BY DEF Underway, At
  <2>2. Cardinality(Underway) \in Nat
    BY <2>1, ReceiverAssumption, FS_Subset, FS_CardinalityType
  <2> QED
    BY <2>1, <2>2 DEF LRTypeOK
<1>2. /\ totalReceived = validCount + invalidCount + Cardinality(Underway)
      /\ \A r \in FailReason : errorCount[r] = Cardinality(FailedFor(r))
      /\ validCount = Cardinality(written)
  BY DEF StatsAddUp, Underway, FailedFor
<1>3. ASSUME /\ totalReceived' = validCount' + invalidCount' + Cardinality(Underway')
             /\ \A r \in FailReason : errorCount'[r] = Cardinality(FailedFor(r)')
             /\ validCount' = Cardinality(written')
      PROVE  StatsAddUp'
  BY <1>3 DEF StatsAddUp, Underway, FailedFor
\* A message whose verdict is "valid" is counted under no reason.
<1>4. ASSUME NEW m \in Message, NEW l, Goto(m, l), verdict' = verdict, verdict[m] = "valid"
      PROVE  \A r \in FailReason : FailedFor(r)' = FailedFor(r)
  <2>1. At({"done"})' = IF l = "done" THEN At({"done"}) \cup {m} ELSE At({"done"}) \ {m}
    BY <1>1, <1>4 DEF At, Goto
  <2>2. "valid" \notin FailReason
    BY DEF FailReason
  <2> QED
    BY <1>4, <2>1, <2>2 DEF FailedFor
<1>5. ASSUME NEW m \in Message, NEW l, Goto(m, l), l \notin {"validate", "judge"},
             m \notin Underway
      PROVE  Underway' = Underway
  BY <1>1, <1>5 DEF Underway, At, Goto
<1>6. \A m \in Message : m \in Underway <=> pc[m] \in {"validate", "judge"}
  BY DEF Underway, At
<1>7. ASSUME NEW m \in Message,
             \/ Arrive(m) \/ Route(m) \/ CheckRunning(m) \/ ForwardAlarm(m) \/ ForwardLeak(m)
      PROVE  StatsAddUp'
  <2>1. PICK l : Goto(m, l) /\ l \notin {"validate", "judge"}
    BY <1>7 DEF Arrive, Route, CheckRunning, ForwardAlarm, ForwardLeak
  <2>2. /\ UNCHANGED <<verdict, totalReceived, validCount, invalidCount, errorCount, written>>
        /\ pc[m] \in {"absent", "route", "check", "alarm", "leak"}
    BY <1>7 DEF Arrive, Route, CheckRunning, ForwardAlarm, ForwardLeak, statVars
  <2>3. verdict[m] = "valid" /\ m \notin Underway
    BY <1>6, <2>2 DEF VerdictFollows
  <2>4. Underway' = Underway /\ \A r \in FailReason : FailedFor(r)' = FailedFor(r)
    BY <1>4, <1>5, <2>1, <2>2, <2>3
  <2> QED
    BY <1>2, <1>3, <2>2, <2>4
<1>8. ASSUME NEW m \in Message, CountReceived(m) PROVE StatsAddUp'
  <2>1. /\ Goto(m, "validate") /\ pc[m] = "count" /\ totalReceived' = totalReceived + 1
        /\ UNCHANGED <<verdict, validCount, invalidCount, errorCount, written>>
    BY <1>8 DEF CountReceived
  <2>2. verdict[m] = "valid" /\ m \notin Underway
    BY <1>6, <2>1 DEF VerdictFollows
  <2>3. Underway' = Underway \cup {m}
    BY <1>1, <2>1, AtMoves DEF Underway
  <2>4. Cardinality(Underway') = Cardinality(Underway) + 1
    BY <1>1, <2>2, <2>3, OneMore
  <2>5. \A r \in FailReason : FailedFor(r)' = FailedFor(r)
    BY <1>4, <2>1, <2>2
  <2> QED
    BY <1>1, <1>2, <1>3, <2>1, <2>4, <2>5
<1>9. ASSUME NEW m \in Message, Validate(m) PROVE StatsAddUp'
  <2>1. /\ Goto(m, "judge") /\ pc[m] = "validate"
        /\ \A e \in Message : e # m => verdict'[e] = verdict[e]
        /\ UNCHANGED <<totalReceived, validCount, invalidCount, errorCount, written>>
    BY <1>1, <1>9 DEF Validate, statVars
  <2>2. Underway' = Underway
    BY <1>1, <2>1 DEF Underway, At, Goto
  <2>3. \A r \in FailReason : FailedFor(r)' = FailedFor(r)
    BY <1>1, <2>1 DEF FailedFor, At, Goto
  <2> QED
    BY <1>2, <1>3, <2>1, <2>2, <2>3
<1>10. ASSUME NEW m \in Message, CountValid(m) PROVE StatsAddUp'
  <2>1. PICK l \in {"alarm", "leak"} : Goto(m, l)
    BY <1>10 DEF CountValid
  <2>2. /\ pc[m] = "judge" /\ verdict[m] = "valid"
        /\ validCount' = validCount + 1 /\ written' = written \cup {m}
        /\ UNCHANGED <<verdict, totalReceived, invalidCount, errorCount>>
    BY <1>10 DEF CountValid
  <2>3. m \in Underway /\ m \notin written
    BY <1>6, <2>2 DEF WrittenFollows
  <2>4. Underway' = Underway \ {m}
    BY <1>1, <2>1, AtMoves DEF Underway
  <2>5. /\ Cardinality(Underway) = Cardinality(Underway') + 1
        /\ Cardinality(written') = Cardinality(written) + 1
    BY <1>1, <2>2, <2>3, <2>4, OneMore
  <2>6. \A r \in FailReason : FailedFor(r)' = FailedFor(r)
    BY <1>4, <2>1, <2>2
  <2>7. Cardinality(Underway') \in Nat
    BY <1>1, <2>4, OneMore
  <2> QED
    BY <1>1, <1>2, <1>3, <2>2, <2>5, <2>6, <2>7
<1>11. ASSUME NEW m \in Message, CountInvalid(m) PROVE StatsAddUp'
  <2>1. /\ Goto(m, "done") /\ pc[m] = "judge" /\ verdict[m] # "valid"
        /\ invalidCount' = invalidCount + 1
        /\ errorCount' = [errorCount EXCEPT ![verdict[m]] = @ + 1]
        /\ UNCHANGED <<verdict, totalReceived, validCount, written>>
    BY <1>11 DEF CountInvalid
  <2>2. m \in Underway /\ verdict[m] \in FailReason
    BY <1>1, <1>6, <2>1 DEF Verdict
  <2>3. Underway' = Underway \ {m} /\ At({"done"})' = At({"done"}) \cup {m}
    BY <1>1, <2>1, AtMoves DEF Underway
  <2>4. Cardinality(Underway) = Cardinality(Underway') + 1 /\ Cardinality(Underway') \in Nat
    BY <1>1, <2>2, <2>3, OneMore
  <2>5. ASSUME NEW r \in FailReason PROVE errorCount'[r] = Cardinality(FailedFor(r)')
    <3>1. FailedFor(r) \subseteq Message /\ m \notin FailedFor(r)
      BY <2>1 DEF FailedFor, At
    <3>2. CASE r = verdict[m]
      <4>1. FailedFor(r)' = FailedFor(r) \cup {m}
        BY <2>1, <2>3, <3>2 DEF FailedFor
      <4>2. Cardinality(FailedFor(r)') = Cardinality(FailedFor(r)) + 1
        BY <3>1, <4>1, OneMore
      <4> QED
        BY <1>1, <1>2, <2>1, <3>2, <4>2
    <3>3. CASE r # verdict[m]
      <4>1. FailedFor(r)' = FailedFor(r)
        BY <2>1, <2>3, <3>3 DEF FailedFor
      <4> QED
        BY <1>1, <1>2, <2>1, <3>3, <4>1
    <3> QED
      BY <3>2, <3>3
  <2> QED
    BY <1>1, <1>2, <1>3, <2>1, <2>4, <2>5
<1>12. CASE \/ TakeAlarmData \/ TakeLeakData \/ Tick \/ Stop \/ CloseChannels
            \/ UNCHANGED LRvars
  <2>1. UNCHANGED <<pc, verdict, totalReceived, validCount, invalidCount, errorCount, written>>
    BY <1>12 DEF TakeAlarmData, TakeLeakData, Tick, Stop, CloseChannels, statVars, LRvars
  <2> QED
    BY <2>1 DEF StatsAddUp, At
<1> QED
  BY <1>7, <1>8, <1>9, <1>10, <1>11, <1>12 DEF LRNext, ProcessMessage

-------------------------------------------------------------------------------
(* The theorems *)

\* Every reachable state satisfies the inductive invariant.
THEOREM LRIndInvCorrect == LRSpec => []LRIndInv
<1>1. ASSUME LRInit PROVE LRIndInv
  <2>1. LRTypeOK
    <3>1. <<>> \in Seq(Message) /\ Len(<<>>) = 0
      BY EmptySeq
    <3>2. AlarmDataCap >= 0 /\ LeakDataCap >= 0
      BY ReceiverAssumption
    <3> QED
      BY <1>1, <3>1, <3>2 DEF LRInit, LRTypeOK, PC, Verdict
  <2>2. VerdictFollows /\ WrittenFollows /\ OfferFollows
    BY <1>1 DEF LRInit, VerdictFollows, WrittenFollows, OfferFollows, Reached, SeqRange
  <2>3. StatsAddUp
    <3>1. At({"validate", "judge"}) = {} /\ At({"done"}) = {} /\ written = {}
      BY <1>1 DEF LRInit, At
    <3>2. \A r \in FailReason : {m \in At({"done"}) : verdict[m] = r} = {}
      BY <3>1
    <3>3. Cardinality({}) = 0
      BY FS_EmptySet
    <3>4. /\ totalReceived = 0 /\ validCount = 0 /\ invalidCount = 0
          /\ \A r \in FailReason : errorCount[r] = 0
      BY <1>1 DEF LRInit
    <3> QED
      BY <3>1, <3>2, <3>3, <3>4 DEF StatsAddUp
  <2> QED
    BY <2>1, <2>2, <2>3 DEF LRIndInv
<1>2. ASSUME LRIndInv, [LRNext]_LRvars PROVE LRIndInv'
  BY <1>2, LRTypeStep, WrittenStep, OfferStep, StatsStep DEF LRIndInv
<1> QED
  BY <1>1, <1>2, PTL DEF LRSpec

\* The variables keep their types, and the channels to their capacity.
THEOREM LRTypeCorrect == LRSpec => []LRTypeOK
<1>1. LRIndInv => LRTypeOK
  BY DEF LRIndInv
<1> QED
  BY <1>1, LRIndInvCorrect, PTL

\* Whenever GetStats looks, the counters differ only by the messages between their
\* two critical sections (ProcessData).
THEOREM StatsAddUpCorrect == LRSpec => []StatsAddUp
<1>1. LRIndInv => StatsAddUp
  BY DEF LRIndInv
<1> QED
  BY <1>1, LRIndInvCorrect, PTL

\* Every valid reading is offered to each module that is to see it, and nothing else
\* reaches AlarmRouter (ProcessData, ProcessData).
THEOREM OfferedToAllCorrect == LRSpec => []OfferedToAll
<1>1. LRIndInv => OfferedToAll
  BY DEF LRIndInv, OfferFollows, WrittenFollows, OfferedToAll
<1> QED
  BY <1>1, LRIndInvCorrect, PTL

-------------------------------------------------------------------------------
(***************************************************************************)
(* MQTTService                                                             *)
(***************************************************************************)

\* The handler's message is a report while it has one.
LEMMA ReportType ==
  ASSUME TypeOK, handlerPc # "idle"
  PROVE  report[1] \in Report /\ report[1].cmd \in Command
BY DEF TypeOK, Report

\* Publishing keeps the types of the topic queues and of the counter.
LEMMA PublishType ==
  ASSUME TypeOK, NEW c \in Command, PublishTo(c)
  PROVE  toDevice' \in [Device -> Seq(Command)] /\ published' \in [Command -> Nat]
<1>1. toDevice[TargetOf[c]] \in Seq(Command)
  BY TargetAssumption DEF TypeOK
<1>2. Append(toDevice[TargetOf[c]], c) \in Seq(Command)
  BY <1>1
<1>3. published' \in [Command -> Nat]
  BY DEF TypeOK, PublishTo
<1> QED
  BY <1>2, <1>3, TargetAssumption DEF TypeOK, PublishTo

\* So does starting a callback.
LEMMA StartType ==
  ASSUME TypeOK, NEW c \in Command, NEW k \in Callback, Start(c, k)
  PROVE  /\ callbacks' \in [Command -> [Callback -> Nat]]
         /\ callbacks'[c][k] = callbacks[c][k] + 1
         /\ \A d \in Command, j \in Callback :
              (d # c \/ j # k) => callbacks'[d][j] = callbacks[d][j]
<1>1. callbacks[c] \in [Callback -> Nat] /\ callbacks[c][k] \in Nat
  BY DEF TypeOK
<1>2. callbacks' = [callbacks EXCEPT ![c] = [callbacks[c] EXCEPT ![k] = @ + 1]]
  BY DEF Start
<1>3. [callbacks[c] EXCEPT ![k] = @ + 1] \in [Callback -> Nat]
  BY <1>1
<1> QED
  BY <1>1, <1>2, <1>3 DEF TypeOK

\* The initial values have the right types.
LEMMA TypeInit ==
  ASSUME Init
  PROVE  TypeOK
BY TargetAssumption, RetryAssumption, NoCommandAssumption
DEF Init, TypeOK, CommandStatus, Callback

\* Every step keeps the types.
LEMMA TypeStep ==
  ASSUME TypeOK, [Next]_vars
  PROVE  TypeOK'
<1> USE TargetAssumption, RetryAssumption, NoCommandAssumption
<1>1. ASSUME NEW c \in Command,
             Register(c) \/ PublishDone(c) \/ PublishFailed(c) \/ Elapse(c)
      PROVE  TypeOK'
  BY <1>1 DEF TypeOK, Register, PublishDone, PublishFailed, Elapse, MarkSent,
              CommandStatus, loopVars, handlerVars, netVars
<1>2. ASSUME NEW c \in Command, Publish(c) PROVE TypeOK'
  <2>1. toDevice' \in [Device -> Seq(Command)] /\ published' \in [Command -> Nat]
    BY <1>2, PublishType DEF Publish
  <2> QED
    BY <1>2, <2>1 DEF TypeOK, Publish, loopVars, handlerVars
<1>3. CASE Snapshot
  BY <1>3 DEF TypeOK, Snapshot, handlerVars, netVars
<1>4. ASSUME NEW c \in Command, CheckExists(c) PROVE TypeOK'
  BY <1>4 DEF TypeOK, CheckExists, handlerVars, netVars
<1>5. CASE EndOfPass
  BY <1>5 DEF TypeOK, EndOfPass, handlerVars, netVars
<1>6. CASE SkipCommand
  BY <1>6 DEF TypeOK, SkipCommand, handlerVars, netVars
<1>7. CASE Retry
  BY <1>7 DEF TypeOK, Retry, Overdue, handlerVars, netVars
<1>8. CASE GiveUp
  <2>1. loopCmd \in Command /\ "OnTimeout" \in Callback
    BY <1>8 DEF TypeOK, GiveUp, Overdue, Callback
  <2>2. callbacks' \in [Command -> [Callback -> Nat]]
    BY <1>8, <2>1, StartType DEF GiveUp
  <2> QED
    BY <1>8, <2>1, <2>2
    DEF TypeOK, GiveUp, Overdue, CommandStatus, handlerVars, netVars
<1>9. CASE RetryPublish
  <2>1. loopCmd \in Command
    BY <1>9 DEF TypeOK, RetryPublish
  <2>2. toDevice' \in [Device -> Seq(Command)] /\ published' \in [Command -> Nat]
    BY <1>9, <2>1, PublishType DEF RetryPublish
  <2> QED
    BY <1>9, <2>1, <2>2 DEF TypeOK, RetryPublish, handlerVars
<1>10. CASE RetryDone
  BY <1>10 DEF TypeOK, RetryDone, MarkSent, CommandStatus, handlerVars, netVars
<1>11. CASE RemoveByLoop
  BY <1>11 DEF TypeOK, RemoveByLoop, handlerVars, netVars
<1>12. CASE HandleStatus
  <2>1. Head(fromDevice) \in Report /\ Tail(fromDevice) \in Seq(Report)
    BY <1>12 DEF TypeOK, HandleStatus
  <2> QED
    BY <1>12, <2>1 DEF TypeOK, HandleStatus, handlerVars, loopVars
<1>13. CASE Conclude
  <2>1. report[1] \in Report /\ report[1].cmd \in Command
    BY <1>13, ReportType DEF Conclude
  <2>2. "OnConfirm" \in Callback /\ "OnError" \in Callback
    BY DEF Callback
  <2>3. callbacks' \in [Command -> [Callback -> Nat]]
    BY <1>13, <2>1, <2>2, StartType DEF Conclude
  <2>4. status' \in [Command -> CommandStatus]
    BY <1>13, <2>1 DEF TypeOK, Conclude, CommandStatus
  <2> QED
    BY <1>13, <2>3, <2>4 DEF TypeOK, Conclude, loopVars, netVars
<1>14. CASE RemoveByHandler
  BY <1>14 DEF TypeOK, RemoveByHandler, loopVars, netVars
<1>15. ASSUME NEW d \in Device, LoseCommand(d) PROVE TypeOK'
  BY <1>15 DEF TypeOK, LoseCommand, loopVars, handlerVars
<1>16. ASSUME NEW d \in Device, Execute(d) \/ Refuse(d) PROVE TypeOK'
  <2> DEFINE c == Head(toDevice[d])
  <2>1. c \in Command /\ Tail(toDevice[d]) \in Seq(Command)
    BY <1>16 DEF TypeOK, Execute, Refuse
  <2>2. /\ [cmd |-> c, success |-> TRUE] \in Report
        /\ [cmd |-> c, success |-> FALSE] \in Report
    BY <2>1 DEF Report
  <2> HIDE DEF c
  <2>3. fromDevice' \in Seq(Report)
    <3>1. \/ fromDevice' = fromDevice
          \/ fromDevice' = Append(fromDevice, [cmd |-> c, success |-> TRUE])
          \/ fromDevice' = Append(fromDevice, [cmd |-> c, success |-> FALSE])
      BY <1>16 DEF Execute, Refuse, c
    <3>2. fromDevice \in Seq(Report)
      BY DEF TypeOK
    <3> QED
      BY <2>2, <3>1, <3>2
  <2>4. toDevice' \in [Device -> Seq(Command)]
    BY <1>16, <2>1 DEF TypeOK, Execute, Refuse, c
  <2>5. applied' \in [Command -> Nat]
    <3>1. applied' = applied \/ applied' = [applied EXCEPT ![c] = @ + 1]
      BY <1>16 DEF Execute, Refuse, c
    <3>2. applied \in [Command -> Nat]
      BY DEF TypeOK
    <3> QED
      BY <2>1, <3>1, <3>2
  <2>6. redelivered' \in Nat
    BY <1>16 DEF TypeOK, Execute, Refuse
  <2> QED
    BY <1>16, <2>3, <2>4, <2>5, <2>6
    DEF TypeOK, Execute, Refuse, loopVars, handlerVars
<1>17. CASE UNCHANGED vars
  BY <1>17 DEF TypeOK, vars
<1> QED
  BY <1>1, <1>2, <1>3, <1>4, <1>5, <1>6, <1>7, <1>8, <1>9, <1>10, <1>11, <1>12,
     <1>13, <1>14, <1>15, <1>16, <1>17 DEF Next, RetryLoop, Handler

\* Every variable keeps its type, whatever the interleaving of the callers, the
\* retry loop and the status handler.
THEOREM TypeCorrect == Spec => []TypeOK
BY TypeInit, TypeStep, PTL DEF Spec

\* Only GiveUp and Conclude start callbacks.
LEMMA CallbackFrame ==
  ASSUME [Next]_vars
  PROVE  callbacks' = callbacks \/ GiveUp \/ Conclude
BY DEF Next, vars, Register, Publish, PublishDone, PublishFailed, RetryLoop,
       Snapshot, CheckExists, EndOfPass, SkipCommand, Retry, RetryPublish,
       RetryDone, RemoveByLoop, Handler, HandleStatus, RemoveByHandler, Elapse,
       LoseCommand, Execute, Refuse

\* Only the steps of the handler change what it has in hand.
LEMMA HandlerFrame ==
  ASSUME [Next]_vars
  PROVE  UNCHANGED handlerVars \/ HandleStatus \/ Conclude \/ RemoveByHandler
BY DEF Next, vars, Register, Publish, PublishDone, PublishFailed, RetryLoop,
       Snapshot, CheckExists, EndOfPass, SkipCommand, Retry, GiveUp, RetryPublish,
       RetryDone, RemoveByLoop, Handler, Elapse, LoseCommand, Execute, Refuse,
       handlerVars

\* Only Register adds a command to the map, and no caller starts over.
LEMMA MapFrame ==
  ASSUME TypeOK, [Next]_vars, NEW c \in Command
  PROVE  /\ c \in pending' => c \in pending \/ Register(c)
         /\ caller'[c] = "idle" => caller[c] = "idle" /\ ~Register(c)
BY DEF TypeOK, Next, vars, Register, Publish, PublishDone, PublishFailed,
       RetryLoop, Snapshot, CheckExists, EndOfPass, SkipCommand, Retry, GiveUp,
       Overdue, RetryPublish, RetryDone, RemoveByLoop, Handler, HandleStatus,
       Conclude, RemoveByHandler, Elapse, LoseCommand, Execute, Refuse

\* Only the steps of the loop change what it has in hand.
LEMMA LoopFrame ==
  ASSUME [Next]_vars
  PROVE  UNCHANGED <<loopPc, loopCmd>> \/ RetryLoop
BY DEF Next, vars, Register, Publish, PublishDone, PublishFailed, Handler,
       HandleStatus, Conclude, RemoveByHandler, Elapse, LoseCommand, Execute,
       Refuse, loopVars

\* Starting OnTimeout is no report, and a report no OnTimeout.
LEMMA StartReports ==
  ASSUME TypeOK, NEW c \in Command, NEW d \in Command, NEW k \in Callback,
         Start(c, k)
  PROVE  /\ Reports(d) \in Nat /\ Reports(d)' \in Nat
         /\ Reports(d)' = Reports(d) + (IF c = d /\ k # "OnTimeout" THEN 1 ELSE 0)
         /\ callbacks[d]["OnTimeout"] \in Nat
         /\ callbacks'[d]["OnTimeout"]
              = callbacks[d]["OnTimeout"]
                + (IF c = d /\ k = "OnTimeout" THEN 1 ELSE 0)
<1>1. /\ "OnConfirm" \in Callback /\ "OnError" \in Callback
      /\ "OnTimeout" \in Callback
      /\ k = "OnConfirm" \/ k = "OnError" \/ k = "OnTimeout"
  BY DEF Callback
<1>2. \A j \in Callback : callbacks[d][j] \in Nat
  BY DEF TypeOK
<1>3. \A j \in Callback : callbacks'[d][j]
         = callbacks[d][j] + (IF c = d /\ k = j THEN 1 ELSE 0)
  BY <1>2, StartType
<1> QED
  BY <1>1, <1>2, <1>3 DEF Reports

\* A command nobody has issued stays unknown to the loop and the handler.
LEMMA UnissuedStep ==
  ASSUME TypeOK, Unissued, [Next]_vars
  PROVE  Unissued'
<1> USE NoCommandAssumption
<1> SUFFICES ASSUME NEW c \in Command, caller'[c] = "idle"
             PROVE  /\ c \notin pending' /\ c \notin todo' /\ loopCmd' # c
                    /\ ~Handling(c)'
  BY DEF Unissued
<1>1. /\ caller[c] = "idle" /\ ~Register(c) /\ c \notin pending
      /\ c \notin todo /\ loopCmd # c /\ ~Handling(c)
  BY MapFrame DEF Unissued
<1>2. c \notin pending'
  BY <1>1, MapFrame
<1>3. c \notin todo' /\ loopCmd' # c
  <2>1. CASE RetryLoop
    BY <1>1, <2>1 DEF RetryLoop, Snapshot, CheckExists, EndOfPass, SkipCommand,
                      Retry, GiveUp, RetryPublish, RetryDone, RemoveByLoop
  <2>2. CASE UNCHANGED <<todo, loopCmd>>
    BY <1>1, <2>2
  <2> QED
    BY <2>1, <2>2
    DEF Next, vars, Register, Publish, PublishDone, PublishFailed, Handler,
        HandleStatus, Conclude, RemoveByHandler, Elapse, LoseCommand, Execute,
        Refuse, loopVars
<1>4. ~Handling(c)'
  <2>1. CASE HandleStatus
    BY <1>1, <2>1 DEF HandleStatus, Handling, handlerVars
  <2>2. CASE UNCHANGED handlerVars
    BY <1>1, <2>2 DEF Handling, handlerVars
  <2>3. CASE Conclude
    BY <1>1, <2>3 DEF Conclude, Handling
  <2>4. CASE RemoveByHandler
    BY <2>4 DEF RemoveByHandler, Handling
  <2> QED
    BY <2>1, <2>2, <2>3, <2>4, HandlerFrame
<1> QED
  BY <1>2, <1>3, <1>4

\* The lookups under the mutex guard the callbacks: what the handler or the loop
\* has found under the lock was not concluded by itself before.
LEMMA UnconcludedStep ==
  ASSUME TypeOK, Unissued, Unconcluded, ReportedOnce, [Next]_vars
  PROVE  Unconcluded' /\ ReportedOnce'
<1> SUFFICES ASSUME NEW c \in Command
             PROVE  /\ (\/ caller'[c] = "idle"
                        \/ c \in pending' /\ ~(handlerPc' = "remove" /\ Handling(c)')
                        \/ handlerPc' = "found" /\ Handling(c)')
                       => Reports(c)' = 0
                    /\ (\/ caller'[c] = "idle"
                        \/ c \in pending' /\ ~(loopPc' = "remove" /\ loopCmd' = c)
                        \/ loopPc' = "inspect" /\ loopCmd' = c)
                       => callbacks'[c]["OnTimeout"] = 0
                    /\ Reports(c)' <= 1 /\ callbacks'[c]["OnTimeout"] <= 1
  BY DEF Unconcluded, ReportedOnce
<1>1. /\ (\/ caller[c] = "idle"
          \/ c \in pending /\ ~(handlerPc = "remove" /\ Handling(c))
          \/ handlerPc = "found" /\ Handling(c))
         => Reports(c) = 0
      /\ (\/ caller[c] = "idle"
          \/ c \in pending /\ ~(loopPc = "remove" /\ loopCmd = c)
          \/ loopPc = "inspect" /\ loopCmd = c)
         => callbacks[c]["OnTimeout"] = 0
      /\ Reports(c) <= 1 /\ callbacks[c]["OnTimeout"] <= 1
  BY DEF Unconcluded, ReportedOnce
<1>2. /\ c \in pending' => c \in pending \/ caller[c] = "idle"
      /\ caller'[c] = "idle" => caller[c] = "idle"
  BY MapFrame DEF Register
<1>3. CASE GiveUp
  <2>1. /\ loopCmd \in Command /\ "OnTimeout" \in Callback
        /\ Start(loopCmd, "OnTimeout") /\ loopPc = "inspect"
        /\ loopPc' = "remove" /\ loopCmd' = loopCmd
    BY <1>3 DEF TypeOK, GiveUp, Overdue, Callback
  <2>2. /\ Reports(c)' = Reports(c) /\ callbacks[c]["OnTimeout"] \in Nat
        /\ callbacks'[c]["OnTimeout"]
             = callbacks[c]["OnTimeout"] + (IF loopCmd = c THEN 1 ELSE 0)
    BY <2>1, StartReports
  <2>3. /\ pending' = pending /\ caller' = caller /\ UNCHANGED handlerVars
    BY <1>3 DEF GiveUp
  <2>4. loopCmd = c => caller[c] # "idle"
    BY DEF Unissued
  <2> QED
    BY <1>1, <2>1, <2>2, <2>3, <2>4 DEF Handling, handlerVars
<1>4. CASE Conclude
  <2> DEFINE r == report[1].cmd
  <2>1. r \in Command
    BY <1>4, ReportType DEF Conclude
  <2>2. \E k \in {"OnConfirm", "OnError"} : Start(r, k)
    BY <1>4 DEF Conclude
  <2>3. /\ callbacks'[c]["OnTimeout"] = callbacks[c]["OnTimeout"]
        /\ Reports(c)' = Reports(c) + (IF r = c THEN 1 ELSE 0)
        /\ Reports(c) \in Nat
    <3>1. PICK k \in {"OnConfirm", "OnError"} : Start(r, k)
      BY <2>2
    <3>2. k \in Callback /\ k # "OnTimeout"
      BY DEF Callback
    <3> HIDE DEF r
    <3>3. callbacks[c]["OnTimeout"] \in Nat
      BY DEF TypeOK, Callback
    <3> QED
      BY <2>1, <3>1, <3>2, <3>3, StartReports
  <2>4. /\ pending' = pending /\ caller' = caller /\ UNCHANGED <<loopPc, loopCmd>>
        /\ handlerPc = "found" /\ handlerPc' = "remove" /\ report' = report
    BY <1>4 DEF Conclude, loopVars
  <2>5. r = c => caller[c] # "idle"
    BY <2>4 DEF Unissued, Handling
  <2> QED
    BY <1>1, <2>3, <2>4, <2>5 DEF Handling
<1>5. CASE callbacks' = callbacks
  <2>1. Reports(c)' = Reports(c)
    BY <1>5 DEF Reports
  <2>2. (\/ c \in pending' /\ ~(handlerPc' = "remove" /\ Handling(c)')
         \/ handlerPc' = "found" /\ Handling(c)')
        => \/ caller[c] = "idle"
           \/ c \in pending /\ ~(handlerPc = "remove" /\ Handling(c))
           \/ handlerPc = "found" /\ Handling(c)
    <3>1. CASE UNCHANGED handlerVars
      BY <1>2, <3>1 DEF Handling, handlerVars
    <3>2. CASE HandleStatus
      BY <1>2, <3>2 DEF HandleStatus, Handling, handlerVars
    <3>3. CASE Conclude
      BY <1>2, <3>3 DEF Conclude, Handling
    <3>4. CASE RemoveByHandler
      BY <1>2, <3>4 DEF RemoveByHandler, Handling
    <3> QED
      BY <3>1, <3>2, <3>3, <3>4, HandlerFrame
  <2>3. (\/ c \in pending' /\ ~(loopPc' = "remove" /\ loopCmd' = c)
         \/ loopPc' = "inspect" /\ loopCmd' = c)
        => \/ caller[c] = "idle"
           \/ c \in pending /\ ~(loopPc = "remove" /\ loopCmd = c)
           \/ loopPc = "inspect" /\ loopCmd = c
    <3>1. CASE UNCHANGED <<loopPc, loopCmd>>
      BY <1>2, <3>1
    <3>2. CASE RetryLoop
      BY <1>2, <3>2 DEF RetryLoop, Snapshot, CheckExists, EndOfPass, SkipCommand,
           Retry, GiveUp, Overdue, RetryPublish, RetryDone, RemoveByLoop
    <3> QED
      BY <3>1, <3>2, LoopFrame
  <2> QED
    BY <1>1, <1>2, <1>5, <2>1, <2>2, <2>3
<1> QED
  BY <1>3, <1>4, <1>5, CallbackFrame

\* Every publication is accounted for by the caller or by a counted retry.
LEMMA PublishedStep ==
  ASSUME TypeOK, Unconcluded, PublishedOncePerTry, RetriesBounded, [Next]_vars
  PROVE  PublishedOncePerTry' /\ RetriesBounded'
<1> USE RetryAssumption, NoCommandAssumption
<1> DEFINE inLoop(c) == IF loopPc = "publish" /\ loopCmd = c THEN 1 ELSE 0
           toCome(c) == IF caller[c] \in {"idle", "send"} THEN 1 ELSE 0
<1> SUFFICES ASSUME NEW c \in Command
             PROVE  /\ published'[c] + inLoop(c)' + toCome(c)' = 1 + retries'[c]
                    /\ retries'[c] <= MaxRetries
                    /\ published'[c] <= 1 + MaxRetries
                    /\ callbacks'[c]["OnTimeout"] > 0 => retries'[c] = MaxRetries
  BY DEF PublishedOncePerTry, RetriesBounded
<1>1. /\ published[c] + inLoop(c) + toCome(c) = 1 + retries[c]
      /\ retries[c] <= MaxRetries
      /\ published[c] \in Nat /\ retries[c] \in Nat
      /\ callbacks[c]["OnTimeout"] > 0 => retries[c] = MaxRetries
  BY DEF TypeOK, PublishedOncePerTry, RetriesBounded
<1>2. /\ published'[c] + inLoop(c)' + toCome(c)' = 1 + retries'[c]
      /\ retries'[c] <= MaxRetries
      /\ published'[c] \in Nat /\ retries'[c] \in Nat
  <2>1. ASSUME NEW d \in Command, Publish(d)
        PROVE  <1>2
    BY <1>1, <2>1 DEF TypeOK, Publish, PublishTo, loopVars
  <2>2. CASE RetryPublish
    BY <1>1, <2>2 DEF TypeOK, RetryPublish, PublishTo
  <2>3. CASE Retry
    BY <1>1, <2>3 DEF TypeOK, Retry, Overdue
  <2>4. CASE RetryLoop /\ ~RetryPublish /\ ~Retry
    BY <1>1, <2>4
    DEF RetryLoop, Snapshot, CheckExists, EndOfPass, SkipCommand, GiveUp, Overdue,
        RetryDone, RemoveByLoop
  <2>5. ASSUME NEW d \in Command, Register(d) \/ PublishDone(d) \/ PublishFailed(d)
        PROVE  <1>2
    BY <1>1, <2>5 DEF TypeOK, Register, PublishDone, PublishFailed, loopVars
  <2>6. CASE UNCHANGED <<published, retries, caller, loopPc, loopCmd>>
    BY <1>1, <2>6
  <2> QED
    BY <2>1, <2>2, <2>3, <2>4, <2>5, <2>6
    DEF Next, vars, Handler, HandleStatus, Conclude, RemoveByHandler, Elapse,
        LoseCommand, Execute, Refuse, loopVars
<1>3. callbacks'[c]["OnTimeout"] > 0 => retries'[c] = MaxRetries
  <2>1. CASE GiveUp
    <3>1. /\ loopCmd \in Command /\ "OnTimeout" \in Callback
          /\ Start(loopCmd, "OnTimeout") /\ retries' = retries
          /\ retries[loopCmd] >= MaxRetries
      BY <2>1 DEF TypeOK, GiveUp, Overdue, Callback
    <3>2. loopCmd # c => callbacks'[c]["OnTimeout"] = callbacks[c]["OnTimeout"]
      BY <3>1, StartType
    <3> QED
      BY <1>1, <3>1, <3>2
  <2>2. CASE Conclude
    <3>1. callbacks'[c]["OnTimeout"] = callbacks[c]["OnTimeout"]
      <4>1. report[1].cmd \in Command /\ {"OnConfirm", "OnError", "OnTimeout"} \subseteq Callback
        BY <2>2, ReportType DEF Conclude, Callback
      <4> QED
        BY <2>2, <4>1, StartType DEF Conclude
    <3> QED
      BY <1>1, <2>2, <3>1 DEF Conclude
  <2>3. CASE callbacks' = callbacks /\ retries' = retries
    BY <1>1, <2>3
  <2>4. CASE Retry
    <3>1. callbacks[loopCmd]["OnTimeout"] = 0 /\ loopCmd \in Command
      BY <2>4 DEF TypeOK, Retry, Overdue, Unconcluded
    <3>2. loopCmd # c => retries'[c] = retries[c]
      BY <2>4 DEF TypeOK, Retry
    <3> QED
      BY <1>1, <2>4, <3>1, <3>2 DEF Retry
  <2> QED
    BY <2>1, <2>2, <2>3, <2>4
    DEF Next, vars, Register, Publish, PublishDone, PublishFailed, RetryLoop,
        Snapshot, CheckExists, EndOfPass, SkipCommand, RetryPublish, RetryDone,
        RemoveByLoop, Handler, HandleStatus, RemoveByHandler, Elapse, LoseCommand,
        Execute, Refuse
<1>4. inLoop(c)' \in {0, 1} /\ toCome(c)' \in {0, 1}
  OBVIOUS
<1> HIDE DEF inLoop, toCome
<1>5. published'[c] <= 1 + MaxRetries
  BY <1>2, <1>4
<1> QED
  BY <1>2, <1>3, <1>5

\* A success in a status message is true of the device.
LEMMA TrueReportsStep ==
  ASSUME TypeOK, TypeOK', TrueReports, ConfirmedWasApplied, [Next]_vars
  PROVE  TrueReports' /\ ConfirmedWasApplied'
<1>1. \A c \in Command : applied[c] \in Nat /\ applied'[c] >= applied[c]
  <2>1. ASSUME NEW d \in Device, Execute(d)
        PROVE  <1>1
    <3>1. toDevice[d] \in Seq(Command) /\ applied \in [Command -> Nat]
      BY DEF TypeOK
    <3>2. /\ Head(toDevice[d]) \in Command
          /\ applied' = [applied EXCEPT ![Head(toDevice[d])] = @ + 1]
      BY <2>1, <3>1 DEF Execute
    <3> QED
      BY <3>1, <3>2
  <2>2. CASE applied' = applied
    BY <2>2 DEF TypeOK
  <2> QED
    BY <2>1, <2>2
    DEF Next, vars, Register, Publish, PublishDone, PublishFailed, RetryLoop,
        Snapshot, CheckExists, EndOfPass, SkipCommand, Retry, GiveUp, RetryPublish,
        RetryDone, RemoveByLoop, Handler, HandleStatus, Conclude, RemoveByHandler,
        Elapse, LoseCommand, Refuse, netVars
<1>2. /\ fromDevice \in Seq(Report)
      /\ \A i \in 1..Len(fromDevice) : fromDevice[i] \in Report
      /\ \A m \in Report : m.cmd \in Command
      /\ Len(fromDevice) \in Nat
  <2>1. fromDevice \in Seq(Report)
    BY DEF TypeOK
  <2>2. /\ Len(fromDevice) \in Nat
        /\ \A i \in 1..Len(fromDevice) : fromDevice[i] \in Report
    BY <2>1
  <2>3. \A m \in Report : m.cmd \in Command
    BY DEF Report
  <2> QED
    BY <2>1, <2>2, <2>3
<1>3. \A i \in 1..Len(fromDevice) :
        fromDevice[i].success => applied'[fromDevice[i].cmd] > 0
  <2>1. SUFFICES ASSUME NEW i \in 1..Len(fromDevice), fromDevice[i].success
                 PROVE  applied'[fromDevice[i].cmd] > 0
    OBVIOUS
  <2>2. fromDevice[i].cmd \in Command /\ applied[fromDevice[i].cmd] > 0
    BY <1>2, <2>1 DEF TrueReports
  <2>3. /\ applied[fromDevice[i].cmd] \in Nat
        /\ applied'[fromDevice[i].cmd] >= applied[fromDevice[i].cmd]
    BY <1>1, <2>2
  <2>4. applied'[fromDevice[i].cmd] \in Nat
    <3>1. applied' \in [Command -> Nat]
      BY DEF TypeOK
    <3> QED
      BY <2>2, <3>1
  <2> QED
    BY <2>2, <2>3, <2>4
<1>4. \A i \in 1..Len(fromDevice') :
        fromDevice'[i].success => applied'[fromDevice'[i].cmd] > 0
  <2>1. CASE fromDevice' = fromDevice
    BY <1>3, <2>1
  <2>2. CASE HandleStatus
    <3>1. /\ fromDevice # <<>> /\ fromDevice' = Tail(fromDevice)
          /\ Len(fromDevice') = Len(fromDevice) - 1
          /\ \A i \in 1..Len(fromDevice') : fromDevice'[i] = fromDevice[i + 1]
      BY <1>2, <2>2 DEF HandleStatus
    <3> QED
      BY <1>2, <1>3, <3>1
  <2>3. ASSUME NEW m \in Report, fromDevice' = Append(fromDevice, m),
               m.success => applied'[m.cmd] > 0
        PROVE  <1>4
    <3>1. /\ Len(fromDevice') = Len(fromDevice) + 1
          /\ fromDevice'[Len(fromDevice) + 1] = m
          /\ \A i \in 1..Len(fromDevice) : fromDevice'[i] = fromDevice[i]
      BY <1>2, <2>3
    <3> QED
      BY <1>2, <1>3, <2>3, <3>1
  <2>4. ASSUME NEW d \in Device, Execute(d), fromDevice' # fromDevice
        PROVE  <1>4
    <3> DEFINE c == Head(toDevice[d])
    <3>1. toDevice[d] \in Seq(Command) /\ toDevice[d] # <<>>
      BY <2>4 DEF TypeOK, Execute
    <3>2. c \in Command
      BY <3>1
    <3>3. /\ applied' = [applied EXCEPT ![c] = @ + 1]
          /\ fromDevice' = Append(fromDevice, [cmd |-> c, success |-> TRUE])
      BY <2>4 DEF Execute
    <3> HIDE DEF c
    <3>4. applied[c] \in Nat /\ applied'[c] = applied[c] + 1
      <4>1. applied \in [Command -> Nat]
        BY DEF TypeOK
      <4> QED
        BY <3>2, <3>3, <4>1
    <3>5. [cmd |-> c, success |-> TRUE] \in Report
      BY <3>2 DEF Report
    <3> QED
      BY <2>3, <3>3, <3>4, <3>5
  <2>5. ASSUME NEW d \in Device, Refuse(d)
        PROVE  <1>4
    <3>1. toDevice[d] \in Seq(Command) /\ toDevice[d] # <<>>
      BY <2>5 DEF TypeOK, Refuse
    <3>2. [cmd |-> Head(toDevice[d]), success |-> FALSE] \in Report
      BY <3>1 DEF Report
    <3> QED
      BY <2>3, <2>5, <3>2 DEF Refuse
  <2> QED
    BY <2>1, <2>2, <2>4, <2>5
    DEF Next, vars, Register, Publish, PublishDone, PublishFailed, RetryLoop,
        Snapshot, CheckExists, EndOfPass, SkipCommand, Retry, GiveUp, RetryPublish,
        RetryDone, RemoveByLoop, Handler, Conclude, RemoveByHandler, Elapse,
        LoseCommand, netVars
<1>5. \A c \in Command : applied[c] > 0 => applied'[c] > 0
  <2>1. \A c \in Command : applied[c] \in Nat /\ applied'[c] \in Nat
    BY DEF TypeOK
  <2> QED
    BY <1>1, <2>1
<1>6. handlerPc' # "idle" /\ report'[1].success => applied'[report'[1].cmd] > 0
  <2>1. CASE HandleStatus
    <3>1. fromDevice # <<>> /\ Head(fromDevice) = fromDevice[1] /\ 1 \in 1..Len(fromDevice)
      BY <1>2, <2>1 DEF HandleStatus
    <3>2. handlerPc' # "idle" => report' = <<Head(fromDevice)>>
      BY <2>1 DEF HandleStatus, handlerVars
    <3> QED
      BY <1>3, <3>1, <3>2
  <2>2. CASE RemoveByHandler
    BY <2>2 DEF RemoveByHandler
  <2>3. CASE Conclude \/ UNCHANGED handlerVars
    <3>1. report' = report /\ (handlerPc' # "idle" => handlerPc # "idle")
      BY <2>3 DEF Conclude, handlerVars
    <3> QED
      BY <1>5, <3>1, ReportType DEF TrueReports
  <2> QED
    BY <2>1, <2>2, <2>3, HandlerFrame
<1>7. ConfirmedWasApplied'
  <2> SUFFICES ASSUME NEW c \in Command, callbacks'[c]["OnConfirm"] > 0
               PROVE  applied'[c] > 0
    BY DEF ConfirmedWasApplied
  <2> {"OnConfirm", "OnError", "OnTimeout"} \subseteq Callback
    BY DEF Callback
  <2>1. CASE callbacks'[c]["OnConfirm"] = callbacks[c]["OnConfirm"]
    BY <1>5, <2>1 DEF ConfirmedWasApplied
  <2>2. CASE GiveUp
    <3>1. loopCmd \in Command /\ Start(loopCmd, "OnTimeout")
      BY <2>2 DEF TypeOK, GiveUp, Overdue
    <3> QED
      BY <2>1, <3>1, StartType
  <2>3. CASE Conclude
    <3>1. report[1].cmd \in Command /\ handlerPc # "idle"
      BY <2>3, ReportType DEF Conclude
    <3>2. CASE report[1].success /\ Start(report[1].cmd, "OnConfirm")
      <4>1. applied'[report[1].cmd] > 0
        BY <1>5, <3>1, <3>2 DEF TrueReports
      <4> QED
        BY <2>1, <3>1, <3>2, <4>1, StartType
    <3>3. CASE Start(report[1].cmd, "OnError")
      BY <2>1, <3>1, <3>3, StartType
    <3> QED
      BY <2>3, <3>2, <3>3 DEF Conclude
  <2> QED
    BY <2>1, <2>2, <2>3, CallbackFrame
<1> QED
  BY <1>4, <1>6, <1>7 DEF TrueReports

\* The inductive invariant and, with it, every safety property the runs check.
THEOREM IndInvCorrect == Spec => []IndInv
<1>1. Init => IndInv
  <2> SUFFICES ASSUME Init PROVE IndInv
    OBVIOUS
  <2>1. TypeOK
    BY TypeInit
  <2>2. \A c \in Command : Reports(c) = 0 /\ \A k \in Callback : callbacks[c][k] = 0
    BY DEF Init, Reports, Callback
  <2> QED
    BY <2>1, <2>2, NoCommandAssumption, RetryAssumption
    DEF Init, IndInv, Unconcluded, Unissued, PublishedOncePerTry, TrueReports,
        ReportedOnce, ConfirmedWasApplied, RetriesBounded, Handling, Callback
<1>2. IndInv /\ [Next]_vars => IndInv'
  BY TypeStep, UnissuedStep, UnconcludedStep, PublishedStep, TrueReportsStep
  DEF IndInv
<1> QED
  BY <1>1, <1>2, PTL DEF Spec

\* A command is answered at most once and given up at most once, in spite of
\* retries and redeliveries.
THEOREM ReportedOnceCorrect == Spec => []ReportedOnce
<1>1. IndInv => ReportedOnce
  BY DEF IndInv
<1> QED
  BY <1>1, IndInvCorrect, PTL

\* OnConfirm never runs for a command the device has not executed.
THEOREM ConfirmedWasAppliedCorrect == Spec => []ConfirmedWasApplied
<1>1. IndInv => ConfirmedWasApplied
  BY DEF IndInv
<1> QED
  BY <1>1, IndInvCorrect, PTL

\* A command is published at most 1 + MaxRetries times and given up only after
\* the last retry.
THEOREM RetriesBoundedCorrect == Spec => []RetriesBounded
<1>1. IndInv => RetriesBounded
  BY DEF IndInv
<1> QED
  BY <1>1, IndInvCorrect, PTL

\* The safety half of AcceptedIsConcluded: a command SendReliableCommand has accepted
\* leaves pendingCommands only after one of its callbacks was started, whoever removes
\* it, so the retry loop or the handler still knows a command that is open.
Concluded(c) == \E k \in Callback : callbacks[c][k] > 0

NeverForgotten ==
  \A c \in Command : caller[c] = "accepted" /\ c \notin pending => Concluded(c)

\* Whoever is about to remove a command, and whoever made its status final, has
\* started a callback.
RemovedConcluded ==
  \A c \in Command :
    /\ caller[c] \in {"send", "wait", "accepted"} /\ c \notin pending => Concluded(c)
    /\ status[c] \in {"confirmed", "failed"} => Concluded(c)
    /\ loopPc = "remove" /\ loopCmd = c => Concluded(c)
    /\ handlerPc = "remove" /\ Handling(c) => Concluded(c)

\* A started callback concludes its command, and no step undoes that.
LEMMA StartConcludes ==
  ASSUME TypeOK, NEW c \in Command, NEW k \in Callback, Start(c, k)
  PROVE  Concluded(c)' /\ \A d \in Command : Concluded(d) => Concluded(d)'
<1>1. \A d \in Command, j \in Callback : callbacks[d][j] \in Nat
  BY DEF TypeOK
<1>2. \A d \in Command : \A j \in Callback :
         callbacks'[d][j] = callbacks[d][j] + (IF c = d /\ k = j THEN 1 ELSE 0)
  BY StartType
<1>3. callbacks'[c][k] > 0
  BY <1>1, <1>2
<1>4. \A d \in Command, j \in Callback : callbacks[d][j] > 0 => callbacks'[d][j] > 0
  BY <1>1, <1>2
<1> QED
  BY <1>3, <1>4 DEF Concluded

LEMMA GiveUpConcludes ==
  ASSUME TypeOK, GiveUp
  PROVE  \A d \in Command : d = loopCmd \/ Concluded(d) => Concluded(d)'
<1>1. PICK c \in Command : c = loopCmd /\ Start(c, "OnTimeout")
  BY DEF GiveUp, Overdue, TypeOK
<1>2. "OnTimeout" \in Callback
  BY DEF Callback
<1> QED
  BY <1>1, <1>2, StartConcludes

LEMMA ConcludeConcludes ==
  ASSUME TypeOK, Conclude
  PROVE  \A d \in Command : d = report[1].cmd \/ Concluded(d) => Concluded(d)'
<1>1. PICK c \in Command : c = report[1].cmd
  BY ReportType DEF Conclude
<1>2. PICK k \in Callback : Start(c, k)
  BY <1>1 DEF Conclude, Callback
<1> QED
  BY <1>1, <1>2, StartConcludes

LEMMA ConcludedStays ==
  ASSUME TypeOK, [Next]_vars, NEW c \in Command, Concluded(c)
  PROVE  Concluded(c)'
<1>1. CASE callbacks' = callbacks
  BY <1>1 DEF Concluded
<1> QED
  BY <1>1, CallbackFrame, GiveUpConcludes, ConcludeConcludes

LEMMA RemovedConcludedStep ==
  ASSUME TypeOK, Unissued, RemovedConcluded, [Next]_vars
  PROVE  RemovedConcluded'
<1> SUFFICES ASSUME NEW c \in Command
             PROVE  /\ caller'[c] \in {"send", "wait", "accepted"} /\ c \notin pending'
                         => Concluded(c)'
                    /\ status'[c] \in {"confirmed", "failed"} => Concluded(c)'
                    /\ loopPc' = "remove" /\ loopCmd' = c => Concluded(c)'
                    /\ handlerPc' = "remove" /\ Handling(c)' => Concluded(c)'
  BY DEF RemovedConcluded
<1>1. Concluded(c) => Concluded(c)'
  BY ConcludedStays
<1>2. ASSUME status'[c] \in {"confirmed", "failed"} PROVE Concluded(c)'
  <2>1. CASE status'[c] = status[c]
    BY <1>1, <1>2, <2>1 DEF RemovedConcluded
  <2>2. CASE Conclude /\ c = report[1].cmd
    BY <2>2, ConcludeConcludes
  <2>3. status'[c] = status[c] \/ (Conclude /\ c = report[1].cmd)
    BY <1>2 DEF TypeOK, Next, vars, Register, Publish, PublishDone, PublishFailed, MarkSent,
       RetryLoop, Snapshot, CheckExists, EndOfPass, SkipCommand, Retry, GiveUp, RetryPublish,
       RetryDone, RemoveByLoop, Handler, HandleStatus, Conclude, RemoveByHandler, Elapse,
       LoseCommand, Execute, Refuse
  <2> QED
    BY <2>1, <2>2, <2>3
<1>3. ASSUME loopPc' = "remove", loopCmd' = c PROVE Concluded(c)'
  <2>1. CASE UNCHANGED <<loopPc, loopCmd>>
    BY <1>1, <1>3, <2>1 DEF RemovedConcluded
  <2>2. CASE SkipCommand
    BY <1>1, <1>3, <2>2 DEF SkipCommand, RemovedConcluded
  <2>3. CASE GiveUp
    BY <1>3, <2>3, GiveUpConcludes DEF GiveUp
  <2>4. UNCHANGED <<loopPc, loopCmd>> \/ SkipCommand \/ GiveUp
    BY <1>3, LoopFrame DEF RetryLoop, Snapshot, CheckExists, EndOfPass, Retry, RetryPublish,
       RetryDone, RemoveByLoop
  <2> QED
    BY <2>1, <2>2, <2>3, <2>4
<1>4. ASSUME handlerPc' = "remove", Handling(c)' PROVE Concluded(c)'
  <2>1. CASE UNCHANGED handlerVars
    BY <1>1, <1>4, <2>1 DEF RemovedConcluded, handlerVars, Handling
  <2>2. CASE Conclude
    BY <1>4, <2>2, ConcludeConcludes DEF Conclude, Handling
  <2>3. UNCHANGED handlerVars \/ Conclude
    BY <1>4, HandlerFrame DEF HandleStatus, RemoveByHandler, handlerVars
  <2> QED
    BY <2>1, <2>2, <2>3
<1>5. ASSUME caller'[c] \in {"send", "wait", "accepted"}, c \notin pending'
      PROVE  Concluded(c)'
  <2>1. CASE c \in pending
    <3>1. \/ RemoveByLoop /\ loopCmd = c
          \/ RemoveByHandler /\ report[1].cmd = c
      BY <1>5, <2>1 DEF TypeOK, Next, vars, Register, Publish, PublishDone, PublishFailed,
         RetryLoop, Snapshot, CheckExists, EndOfPass, SkipCommand, Retry, GiveUp,
         RetryPublish, RetryDone, RemoveByLoop, Handler, HandleStatus, Conclude,
         RemoveByHandler, Elapse, LoseCommand, Execute, Refuse
    <3> QED
      BY <1>1, <3>1 DEF RemoveByLoop, RemoveByHandler, RemovedConcluded, Handling
  <2>2. CASE c \notin pending
    <3>1. caller[c] \in {"send", "wait", "accepted"}
      BY <1>5 DEF TypeOK, Next, vars, Register, Publish, PublishDone, PublishFailed,
         RetryLoop, Snapshot, CheckExists, EndOfPass, SkipCommand, Retry, GiveUp,
         RetryPublish, RetryDone, RemoveByLoop, Handler, HandleStatus, Conclude,
         RemoveByHandler, Elapse, LoseCommand, Execute, Refuse
    <3> QED
      BY <1>1, <2>2, <3>1 DEF RemovedConcluded
  <2> QED
    BY <2>1, <2>2
<1> QED
  BY <1>2, <1>3, <1>4, <1>5

THEOREM NeverForgottenCorrect == Spec => []NeverForgotten
<1>1. Init => RemovedConcluded
  BY DEF Init, RemovedConcluded
<1>2. IndInv /\ RemovedConcluded /\ [Next]_vars => RemovedConcluded'
  BY RemovedConcludedStep DEF IndInv
<1>3. RemovedConcluded => NeverForgotten
  BY DEF RemovedConcluded, NeverForgotten
<1> QED
  BY <1>1, <1>2, <1>3, IndInvCorrect, PTL DEF Spec
===============================================================================
