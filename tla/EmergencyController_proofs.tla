---------------------- MODULE EmergencyController_proofs ----------------------
(***************************************************************************)
(* Proofs about EmergencyController for any zones, devices and levels, and *)
(* any number of alarms, resets and failures.                              *)
(***************************************************************************)
EXTENDS EmergencyController, SequenceTheorems, TLAPS

\* Every command of s is one of an alarm that has been received.
Known(s) == \A k \in 1..Len(s) : s[k].alarm <= Len(received)

CommandsKnown ==
  Known(handled) /\ Known(job) /\ Known(commandChan) /\ Known(offer)

\* The command in hand has left no device behind without an answer.
JobAnswered ==
  \A k \in 1..Len(job) :
    job[k] \notin unfound =>
      \A d \in Targets(job[k]) :
        d \in left \/ d = device \/ Answered(job[k].alarm, d)

\* A goroutine knows whether the broker has accepted its order.
TaskShape ==
  \A i \in 1..Len(tasks) :
    /\ tasks[i].success <=> i \in executed
    /\ tasks[i].pc = "control" => ~tasks[i].success
    /\ tasks[i].pc = "update" => tasks[i].success

\* The devices a reset has still to take off cooldown, if its queries succeed.
ToForget(c) ==
  c.left \cup {c.device} \cup
  (IF c.table = "valves" THEN IF c.pc = "query" THEN Device ELSE Fan
                         ELSE IF c.pc = "query" THEN Fan ELSE {})

\* The devices of its zone that are still on cooldown lie before it.
ResetSweeps ==
  \A r \in untouched : \A d \in Device :
    ZoneOf[d] = resets[r].zone /\ activeControls[d] # 0 => d \in ToForget(resets[r])

\* The inductive invariant.
IndInv ==
  /\ TypeOK
  /\ CommandsInOrder /\ CommandsKnown
  /\ ZoneAnswered /\ JobAnswered
  /\ TaskShape /\ RowsAndLogsBacked
  /\ ResetSweeps

-------------------------------------------------------------------------------
(* What one step does to the parts several proofs look at. *)

\* A device has a zone, and its rest state is an order.
LEMMA DeviceFacts ==
  ASSUME NEW d \in Device
  PROVE  ZoneOf[d] \in Zone /\ Rest(d) \in {"open", "stop"} /\ d # NoDevice
BY DeviceAssumption DEF Device, Rest

\* The devices a command is for.
LEMMA TargetsInDevice ==
  ASSUME NEW kind \in Kind, NEW z
  PROVE  InZone(DevicesOf(kind), z) \subseteq Device
BY DEF InZone, DevicesOf, Kind, Device

\* The goroutine of task i becomes t, and no other changes.
LEMMA TaskBecomes ==
  ASSUME tasks \in Seq(Task), NEW i \in 1..Len(tasks), NEW t \in Task,
         tasks' = [tasks EXCEPT ![i] = t]
  PROVE  /\ tasks' \in Seq(Task) /\ Len(tasks') = Len(tasks) /\ tasks'[i] = t
         /\ \A j \in 1..Len(tasks) : j # i => tasks'[j] = tasks[j]
BY ExceptSeq

\* What a step of the goroutine of task i changes in it.
LEMMA TaskMoves ==
  ASSUME TypeOK, NEW i \in 1..Len(tasks), TaskStep(i)
  PROVE  /\ tasks' \in Seq(Task) /\ Len(tasks') = Len(tasks)
         /\ \A j \in 1..Len(tasks) : /\ tasks'[j].alarm = tasks[j].alarm
                                     /\ tasks'[j].device = tasks[j].device
                                     /\ tasks'[j].order = tasks[j].order
                                     /\ j # i => tasks'[j] = tasks[j]
         /\ tasks[i].pc # "done" /\ tasks[i] \in Task
         /\ ControlDevice(i) =>
              \/ /\ tasks'[i].success /\ tasks'[i].pc = "update"
                 /\ executed' = executed \cup {i}
                 /\ told' = [told EXCEPT ![tasks[i].device] = tasks[i].order]
              \/ /\ tasks'[i].success = tasks[i].success /\ tasks'[i].pc = "log"
                 /\ UNCHANGED <<told, executed>>
         /\ UpdateRow(i) =>
              tasks'[i].pc = "log" /\ tasks'[i].success = tasks[i].success
         /\ LogControl(i) =>
              tasks'[i].pc = "done" /\ tasks'[i].success = tasks[i].success
<1>1. tasks \in Seq(Task) /\ tasks[i] \in Task
  BY ElementOfSeq DEF TypeOK
<1> DEFINE u == [tasks[i] EXCEPT !.success = TRUE, !.pc = "update"]
           l == [tasks[i] EXCEPT !.pc = "log"]
           e == [tasks[i] EXCEPT !.pc = "done"]
<1>2. /\ u \in Task /\ l \in Task /\ e \in Task
      /\ u.success /\ u.pc = "update" /\ l.pc = "log" /\ e.pc = "done"
      /\ l.success = tasks[i].success /\ e.success = tasks[i].success
      /\ u.alarm = tasks[i].alarm /\ u.device = tasks[i].device /\ u.order = tasks[i].order
      /\ l.alarm = tasks[i].alarm /\ l.device = tasks[i].device /\ l.order = tasks[i].order
      /\ e.alarm = tasks[i].alarm /\ e.device = tasks[i].device /\ e.order = tasks[i].order
  BY <1>1 DEF Task
<1>3. /\ ControlDevice(i) =>
           \/ /\ tasks' = [tasks EXCEPT ![i] = u] /\ executed' = executed \cup {i}
              /\ told' = [told EXCEPT ![tasks[i].device] = tasks[i].order]
           \/ tasks' = [tasks EXCEPT ![i] = l] /\ UNCHANGED <<told, executed>>
      /\ UpdateRow(i) => tasks' = [tasks EXCEPT ![i] = l]
      /\ LogControl(i) => tasks' = [tasks EXCEPT ![i] = e]
  BY DEF ControlDevice, UpdateRow, LogControl
<1>4. tasks[i].pc # "done"
  BY DEF TaskStep, ControlDevice, UpdateRow, LogControl
<1>5. ASSUME NEW t \in Task, tasks' = [tasks EXCEPT ![i] = t],
             t.alarm = tasks[i].alarm, t.device = tasks[i].device, t.order = tasks[i].order
      PROVE  /\ tasks' \in Seq(Task) /\ Len(tasks') = Len(tasks) /\ tasks'[i] = t
             /\ \A j \in 1..Len(tasks) : /\ tasks'[j].alarm = tasks[j].alarm
                                         /\ tasks'[j].device = tasks[j].device
                                         /\ tasks'[j].order = tasks[j].order
                                         /\ j # i => tasks'[j] = tasks[j]
  BY <1>1, <1>5, TaskBecomes
<1> HIDE DEF u, l, e
<1>6. CASE ControlDevice(i)
  BY <1>1, <1>2, <1>3, <1>4, <1>5, <1>6 DEF ControlDevice, UpdateRow, LogControl
<1>7. CASE UpdateRow(i)
  BY <1>1, <1>2, <1>3, <1>4, <1>5, <1>7 DEF ControlDevice, UpdateRow, LogControl
<1>8. CASE LogControl(i)
  BY <1>1, <1>2, <1>3, <1>4, <1>5, <1>8 DEF ControlDevice, UpdateRow, LogControl
<1> QED
  BY <1>6, <1>7, <1>8 DEF TaskStep

\* The task a device is marked for.
NewTask == [alarm |-> job[1].alarm, device |-> device, order |-> OrderOf(job[1]),
            success |-> FALSE, pc |-> "control"]

LEMMA NewTaskType ==
  ASSUME TypeOK, MarkControlled
  PROVE  /\ NewTask \in Task /\ tasks' = Append(tasks, NewTask)
         /\ NewTask.device = device /\ device \in Device /\ ~NewTask.success
         /\ NewTask.pc = "control" /\ NewTask.alarm = job[1].alarm
<1>1. PICK cmd \in Command : job = <<cmd>>
  BY DEF MarkControlled, TypeOK
<1>2. device \in Device /\ job[1] \in Command
  BY <1>1 DEF MarkControlled, TypeOK
<1>3. OrderOf(job[1]) \in Order
  BY DEF OrderOf, Order
<1>4. NewTask \in Task
  BY <1>2, <1>3 DEF NewTask, Task, Command
<1> QED
  BY <1>2, <1>4 DEF NewTask, MarkControlled

\* The call of ResetZone r becomes c, and no other changes.
LEMMA ResetBecomes ==
  ASSUME resets \in Seq(Reset), NEW r \in 1..Len(resets), NEW c \in Reset,
         resets' = [resets EXCEPT ![r] = c]
  PROVE  /\ resets' \in Seq(Reset) /\ Len(resets') = Len(resets) /\ resets'[r] = c
         /\ \A q \in 1..Len(resets) : q # r => resets'[q] = resets[q]
BY ExceptSeq

\* What a step of a call of ResetZone makes of it.
NextQuery(c)   == [c EXCEPT !.table = "fans", !.pc = "query"]
Returned(c)    == [c EXCEPT !.pc = "done"]
Forgotten(c)   == [c EXCEPT !.device = NoDevice, !.pc = "control"]
Told(c, d)     == [c EXCEPT !.left = @ \ {d}, !.device = d, !.pc = "forget"]
NotFound(c)    == [c EXCEPT !.pc = "control"]
Found(c)       == [c EXCEPT !.pc = "control",
                            !.left = InZone(IF c.table = "valves" THEN Valve ELSE Fan,
                                            c.zone)]

\* The part of TypeOK about one call.
CallShape(c) ==
  /\ c.pc = "forget" <=> c.device \in Device
  /\ c.pc \in {"query", "done"} => c.left = {}
  /\ c.pc = "done" => c.table = "fans"

LEMMA ResetMoves ==
  ASSUME TypeOK, NEW r \in 1..Len(resets), ResetStep(r)
  PROVE  /\ resets' \in Seq(Reset) /\ Len(resets') = Len(resets)
         /\ \A q \in 1..Len(resets) : q # r => resets'[q] = resets[q]
         /\ resets[r] \in Reset /\ resets'[r].zone = resets[r].zone
         /\ ResetQuery(r) =>
              \/ resets'[r] = Found(resets[r]) /\ UNCHANGED untouched
              \/ resets'[r] = NotFound(resets[r]) /\ untouched' = untouched \ {r}
         /\ \A d \in Device : ResetControl(r, d) => resets'[r] = Told(resets[r], d)
         /\ ResetForget(r) => resets'[r] = Forgotten(resets[r])
         /\ ResetLoopEnds(r) => resets'[r] = IF resets[r].table = "valves"
                                             THEN NextQuery(resets[r])
                                             ELSE Returned(resets[r])
<1> DEFINE c == resets[r]
<1>1. resets \in Seq(Reset) /\ c \in Reset
  BY ElementOfSeq DEF TypeOK
<1>2. \A z : InZone(Valve, z) \subseteq Device /\ InZone(Fan, z) \subseteq Device
  BY DEF InZone, Device
<1>3. /\ NextQuery(c) \in Reset /\ Returned(c) \in Reset /\ Forgotten(c) \in Reset
      /\ NotFound(c) \in Reset /\ Found(c) \in Reset
      /\ NextQuery(c).zone = c.zone /\ Returned(c).zone = c.zone
      /\ Forgotten(c).zone = c.zone /\ NotFound(c).zone = c.zone
      /\ Found(c).zone = c.zone
  BY <1>1, <1>2 DEF Reset, NextQuery, Returned, Forgotten, NotFound, Found
<1>4. \A d \in Device : Told(c, d) \in Reset /\ Told(c, d).zone = c.zone
  BY <1>1 DEF Reset, Told
<1>5. /\ ResetQuery(r) =>
           \/ resets' = [resets EXCEPT ![r] = Found(c)] /\ UNCHANGED untouched
           \/ resets' = [resets EXCEPT ![r] = NotFound(c)] /\ untouched' = untouched \ {r}
      /\ \A d \in Device : ResetControl(r, d) => resets' = [resets EXCEPT ![r] = Told(c, d)]
      /\ ResetForget(r) => resets' = [resets EXCEPT ![r] = Forgotten(c)]
      /\ ResetLoopEnds(r) =>
           resets' = [resets EXCEPT ![r] = IF c.table = "valves" THEN NextQuery(c)
                                                               ELSE Returned(c)]
  BY DEF ResetQuery, ResetControl, ResetForget, ResetLoopEnds,
         NextQuery, Returned, Forgotten, NotFound, Found, Told
<1> HIDE DEF c
<1>6. ASSUME NEW n \in Reset, n.zone = c.zone, resets' = [resets EXCEPT ![r] = n]
      PROVE  /\ resets' \in Seq(Reset) /\ Len(resets') = Len(resets) /\ resets'[r] = n
             /\ \A q \in 1..Len(resets) : q # r => resets'[q] = resets[q]
             /\ resets'[r].zone = c.zone
  BY <1>1, <1>6, ResetBecomes
<1>7. PICK n \in Reset : n.zone = c.zone /\ resets' = [resets EXCEPT ![r] = n]
  BY <1>3, <1>4, <1>5 DEF ResetStep
<1>8. /\ resets' \in Seq(Reset) /\ Len(resets') = Len(resets)
      /\ \A q \in 1..Len(resets) : q # r => resets'[q] = resets[q]
      /\ resets'[r].zone = c.zone
  BY <1>6, <1>7
<1>9. \A m \in Reset : m.zone = c.zone /\ resets' = [resets EXCEPT ![r] = m]
                       => resets'[r] = m
  BY <1>6
<1>10. /\ ResetQuery(r) => \/ resets'[r] = Found(c) /\ UNCHANGED untouched
                           \/ resets'[r] = NotFound(c) /\ untouched' = untouched \ {r}
       /\ \A d \in Device : ResetControl(r, d) => resets'[r] = Told(c, d)
       /\ ResetForget(r) => resets'[r] = Forgotten(c)
       /\ ResetLoopEnds(r) => resets'[r] = IF c.table = "valves" THEN NextQuery(c)
                                                               ELSE Returned(c)
  BY <1>3, <1>4, <1>5, <1>9
<1> QED
  BY <1>1, <1>8, <1>10 DEF c

\* A new call of ResetZone comes last.
LEMMA ResetBegins ==
  ASSUME TypeOK, NEW z \in Zone, BeginReset(z)
  PROVE  /\ resets' \in Seq(Reset) /\ Len(resets') = Len(resets) + 1
         /\ Len(resets) \in Nat
         /\ resets'[Len(resets')] = [zone |-> z, table |-> "valves", left |-> {},
                                    device |-> NoDevice, pc |-> "query"]
         /\ \A q \in 1..Len(resets) : resets'[q] = resets[q]
<1>1. [zone |-> z, table |-> "valves", left |-> {}, device |-> NoDevice, pc |-> "query"]
        \in Reset
  BY DEF Reset
<1> QED
  BY <1>1, AppendProperties, LenProperties DEF TypeOK, BeginReset

\* A new task comes last.
LEMMA TaskStarts ==
  ASSUME tasks \in Seq(Task), NEW t \in Task, tasks' = Append(tasks, t)
  PROVE  /\ tasks' \in Seq(Task)
         /\ Len(tasks') = Len(tasks) + 1
         /\ tasks'[Len(tasks')] = t
         /\ \A j \in 1..Len(tasks) : tasks'[j] = tasks[j]
BY AppendProperties, LenProperties

\* An alarm calls for commands of its own.
LEMMA CommandsForAlarm ==
  ASSUME NEW a \in 1..MaxAlarms, NEW level
  PROVE  /\ CommandsFor(a, level) \in Seq(Command)
         /\ \A k \in 1..Len(CommandsFor(a, level)) : CommandsFor(a, level)[k].alarm = a
<1> DEFINE c(kind) == [alarm |-> a, kind |-> kind]
           s == IF level >= ValveControlLevel
                THEN <<c("close_valves"), c("start_fans")>> ELSE <<>>
           t == IF level >= EvacuationLevel THEN <<c("evacuation")>> ELSE <<>>
<1>1. \A kind \in Kind : c(kind) \in Command /\ c(kind).alarm = a
  BY DEF Command
<1> HIDE DEF c
<1>2. /\ s \in Seq(Command) /\ \A k \in 1..Len(s) : s[k].alarm = a
      /\ t \in Seq(Command) /\ \A k \in 1..Len(t) : t[k].alarm = a
  BY <1>1 DEF Kind
<1>3. CommandsFor(a, level) = s \o t
  BY DEF CommandsFor, c
<1> HIDE DEF s, t
<1>4. /\ s \o t \in Seq(Command)
      /\ \A k \in 1..Len(s \o t) : (s \o t)[k].alarm = a
  BY <1>2, ConcatProperties, LenProperties
<1> QED
  BY <1>3, <1>4

\* Every call keeps its shape, and a new one has it.
LEMMA CallShapeStep ==
  ASSUME TypeOK, NEW r \in 1..Len(resets), ResetStep(r)
  PROVE  \A q \in 1..Len(resets') : CallShape(resets'[q])
<1> DEFINE c == resets[r]
<1>1. /\ Len(resets') = Len(resets) /\ c \in Reset
      /\ \A q \in 1..Len(resets) : q # r => resets'[q] = resets[q]
  BY ResetMoves
<1>2. \A q \in 1..Len(resets) : CallShape(resets[q])
  BY DEF TypeOK, CallShape
<1>3. CallShape(c) /\ NoDevice \notin Device
  BY <1>2, DeviceAssumption DEF Device
<1>4. CASE ResetQuery(r)
  <2>1. c.pc = "query"
    BY <1>4 DEF ResetQuery
  <2>2. CallShape(Found(c)) /\ CallShape(NotFound(c))
    BY <1>1, <1>3, <2>1 DEF CallShape, Found, NotFound, Reset
  <2> QED
    BY <1>1, <1>2, <1>4, <2>2, ResetMoves
<1>5. ASSUME NEW d \in Device, ResetControl(r, d)
      PROVE  \A q \in 1..Len(resets') : CallShape(resets'[q])
  <2>1. CallShape(Told(c, d))
    BY <1>1 DEF CallShape, Told, Reset
  <2>2. resets'[r] = Told(c, d)
    BY <1>5, ResetMoves
  <2> QED
    BY <1>1, <1>2, <2>1, <2>2
<1>6. CASE ResetForget(r)
  <2>1. CallShape(Forgotten(c))
    BY <1>1, <1>3 DEF CallShape, Forgotten, Reset
  <2> QED
    BY <1>1, <1>2, <1>6, <2>1, ResetMoves
<1>7. CASE ResetLoopEnds(r)
  <2>1. c.pc = "control" /\ c.left = {}
    BY <1>7 DEF ResetLoopEnds
  <2>2. CallShape(NextQuery(c)) /\ (c.table # "valves" => CallShape(Returned(c)))
    BY <1>1, <1>3, <2>1 DEF CallShape, NextQuery, Returned, Reset
  <2> QED
    BY <1>1, <1>2, <1>7, <2>2, ResetMoves
<1> QED
  BY <1>4, <1>5, <1>6, <1>7 DEF ResetStep

LEMMA CallShapeBegins ==
  ASSUME TypeOK, NEW z \in Zone, BeginReset(z)
  PROVE  \A q \in 1..Len(resets') : CallShape(resets'[q])
<1> DEFINE c == [zone |-> z, table |-> "valves", left |-> {}, device |-> NoDevice,
                 pc |-> "query"]
<1>1. /\ Len(resets') = Len(resets) + 1 /\ Len(resets) \in Nat
      /\ resets'[Len(resets')] = c
      /\ \A q \in 1..Len(resets) : resets'[q] = resets[q]
  BY ResetBegins
<1>2. \A q \in 1..Len(resets) : CallShape(resets[q])
  BY DEF TypeOK, CallShape
<1>3. CallShape(c)
  BY DeviceAssumption DEF Device, CallShape
<1>4. \A q \in 1..Len(resets') : q \in 1..Len(resets) \/ q = Len(resets')
  BY <1>1
<1> HIDE DEF c
<1> QED
  BY <1>1, <1>2, <1>3, <1>4

\* The numbers of the elements when there is one more.
LEMMA OneMore ==
  ASSUME NEW n \in Nat
  PROVE  1..n \subseteq 1..(n + 1) /\ n + 1 \in 1..(n + 1)
OBVIOUS

-------------------------------------------------------------------------------
(* Types *)

\* The initial values have the right types.
LEMMA TypeInit ==
  ASSUME Init
  PROVE  TypeOK
<1>1. \A d \in Device : Rest(d) \in State
  BY DeviceFacts DEF State
<1>2. \A S : <<>> \in Seq(S) /\ Len(<<>>) = 0
  BY EmptySeq
<1>3. told \in [Device -> State] /\ row \in [Device -> State]
  BY <1>1 DEF Init
<1>4. /\ logs \subseteq [task : 1..Len(tasks), success : BOOLEAN]
      /\ activeControls \in [Device -> 0..Len(tasks)]
  BY <1>2 DEF Init
<1>5. /\ received \in Seq(Alarm) /\ Len(received) <= MaxAlarms
      /\ commandChan \in Seq(Command) /\ Len(commandChan) <= CommandChanCap
  BY <1>2, BoundAssumption DEF Init
<1>6. /\ offer \in Seq(Command) /\ asked \in Seq(Command)
      /\ handled \in Seq(Command) /\ tasks \in Seq(Task)
  BY <1>2 DEF Init
<1>7. /\ resets \in Seq(Reset) /\ 1..Len(resets) = {}
      /\ faults \in 0..MaxFaults
  BY <1>2, BoundAssumption DEF Init
<1> QED
  BY <1>3, <1>4, <1>5, <1>6, <1>7 DEF Init, TypeOK

\* Every step keeps the types.
LEMMA TypeStep ==
  ASSUME TypeOK, [Next]_vars
  PROVE  TypeOK'
<1> USE BoundAssumption DEF TypeOK
<1>1. ASSUME NEW z \in Zone, NEW l \in Level, ReceiveAlarm(z, l) PROVE TypeOK'
  <2>1. Len(received) \in Nat /\ Len(received) + 1 \in 1..MaxAlarms
    BY <1>1, LenProperties DEF ReceiveAlarm
  <2>2. offer' \in Seq(Command)
    BY <1>1, <2>1, CommandsForAlarm DEF ReceiveAlarm
  <2>3. [zone |-> z, level |-> l] \in Alarm
    BY <1>1 DEF Alarm
  <2>4. received' \in Seq(Alarm) /\ Len(received') <= MaxAlarms
    BY <1>1, <2>1, <2>3, AppendProperties DEF ReceiveAlarm
  <2>5. asked' \in Seq(Command)
    BY <1>1, <2>2, ConcatProperties DEF ReceiveAlarm
  <2> QED
    BY <1>1, <2>2, <2>4, <2>5 DEF ReceiveAlarm, procVars, resetVars
<1>2. CASE Poll \/ ReceiveTimeout \/ Panic \/ HandleAlarmReturns
  BY <1>2 DEF Poll, ReceiveTimeout, Panic, HandleAlarmReturns, procVars, resetVars
<1>3. CASE SendCommand
  <2>1. /\ Head(offer) \in Command /\ Tail(offer) \in Seq(Command)
    BY <1>3, HeadTailProperties DEF SendCommand
  <2>2. commandChan' \in Seq(Command) /\ Len(commandChan') <= CommandChanCap
    BY <1>3, <2>1, AppendProperties, LenProperties DEF SendCommand
  <2> QED
    BY <1>3, <2>1, <2>2 DEF SendCommand, procVars, resetVars
<1>4. CASE TakeCommand
  <2>1. /\ Head(commandChan) \in Command /\ Tail(commandChan) \in Seq(Command)
        /\ Len(Tail(commandChan)) <= CommandChanCap
    BY <1>4, HeadTailProperties, LenProperties DEF TakeCommand
  <2>2. Head(commandChan).kind \in Kind
    BY <2>1 DEF Command
  <2>3. left' \subseteq Device /\ unfound' \subseteq Command
    BY <1>4, <2>1, <2>2, TargetsInDevice DEF TakeCommand, Targets
  <2>4. faults' \in 0..MaxFaults
    BY <1>4 DEF TakeCommand, Failures
  <2> QED
    BY <1>4, <2>1, <2>3, <2>4 DEF TakeCommand, recvVars, resetVars
<1>5. ASSUME NEW d \in Device, CanControl(d) PROVE TypeOK'
  <2>1. PICK cmd \in Command : job = <<cmd>>
    BY <1>5 DEF CanControl
  <2>2. job[1].alarm \in 1..MaxAlarms
    BY <2>1 DEF Command
  <2>3. passed' \subseteq (1..MaxAlarms) \X Device
    BY <1>5, <2>2 DEF CanControl
  <2> QED
    BY <1>5, <2>3 DEF CanControl, recvVars, resetVars
<1>6. CASE MarkControlled
  <2>1. NewTask \in Task /\ tasks' = Append(tasks, NewTask) /\ NewTask.device = device
    BY <1>6, NewTaskType
  <2>2. /\ tasks' \in Seq(Task) /\ Len(tasks') = Len(tasks) + 1
        /\ Len(tasks) \in Nat
    BY <2>1, TaskStarts, LenProperties
  <2>3. /\ logs' \subseteq [task : 1..Len(tasks'), success : BOOLEAN]
        /\ executed' \subseteq 1..Len(tasks')
    <3>1. 1..Len(tasks) \subseteq 1..Len(tasks')
      BY <2>2
    <3> QED
      BY <1>6, <3>1 DEF MarkControlled
  <2>4. activeControls' \in [Device -> 0..Len(tasks')]
    <3>1. 0..Len(tasks) \subseteq 0..Len(tasks') /\ Len(tasks') \in 0..Len(tasks')
      BY <2>2
    <3> QED
      BY <1>6, <3>1 DEF MarkControlled
  <2> QED
    BY <1>6, <2>2, <2>3, <2>4 DEF MarkControlled, recvVars
<1>7. CASE CommandDone
  <2>1. PICK cmd \in Command : job = <<cmd>>
    BY <1>7 DEF CommandDone
  <2>2. handled' \in Seq(Command)
    BY <1>7, <2>1, ConcatProperties DEF CommandDone
  <2> QED
    BY <1>7, <2>2 DEF CommandDone, recvVars, resetVars
<1>8. CASE ProcessorExits
  BY <1>8 DEF ProcessorExits, recvVars, resetVars
<1>9. ASSUME NEW i \in 1..Len(tasks), TaskStep(i) PROVE TypeOK'
  <2>1. tasks' \in Seq(Task) /\ Len(tasks') = Len(tasks) /\ tasks[i] \in Task
    BY <1>9, TaskMoves
  <2>2. /\ tasks[i].device \in Device /\ tasks[i].order \in State
        /\ tasks[i].success \in BOOLEAN
    BY <2>1 DEF Task, State
  <2>3. faults' \in 0..MaxFaults
    BY <1>9 DEF TaskStep, ControlDevice, UpdateRow, LogControl, Failures
  <2>4. CASE ControlDevice(i)
    <3>1. told' \in [Device -> State] /\ executed' \subseteq 1..Len(tasks)
      BY <2>2, <2>4 DEF ControlDevice
    <3> QED
      BY <2>1, <2>3, <2>4, <3>1 DEF ControlDevice, recvVars, procVars, resetVars
  <2>5. CASE UpdateRow(i)
    <3>1. row' \in [Device -> State]
      BY <2>2, <2>5 DEF UpdateRow
    <3> QED
      BY <2>1, <2>3, <2>5, <3>1 DEF UpdateRow, recvVars, procVars, resetVars
  <2>6. CASE LogControl(i)
    <3>1. logs' \subseteq [task : 1..Len(tasks'), success : BOOLEAN]
      BY <2>1, <2>2, <2>6 DEF LogControl
    <3> QED
      BY <2>1, <2>3, <2>6, <3>1 DEF LogControl, recvVars, procVars, resetVars
  <2> QED
    BY <1>9, <2>4, <2>5, <2>6 DEF TaskStep
<1>10. ASSUME NEW z \in Zone, BeginReset(z) PROVE TypeOK'
  <2>1. row' \in [Device -> State]
    BY <1>10, DeviceFacts DEF BeginReset, State
  <2>2. /\ resets' \in Seq(Reset) /\ Len(resets') = Len(resets) + 1
        /\ Len(resets) \in Nat
    BY <1>10, ResetBegins
  <2>3. 1..Len(resets) \subseteq 1..Len(resets') /\ Len(resets') \in 1..Len(resets')
    BY <2>2, OneMore, Zenon
  <2>4. untouched' \subseteq 1..Len(resets')
    BY <1>10, <2>3 DEF BeginReset
  <2>5. \A q \in 1..Len(resets') : CallShape(resets'[q])
    BY <1>10, CallShapeBegins
  <2> QED
    BY <1>10, <2>1, <2>2, <2>4, <2>5 DEF BeginReset, recvVars, procVars, CallShape
<1>11. ASSUME NEW r \in 1..Len(resets), ResetStep(r) PROVE TypeOK'
  <2>1. resets' \in Seq(Reset) /\ Len(resets') = Len(resets)
    BY <1>11, ResetMoves
  <2>3. \A q \in 1..Len(resets') : CallShape(resets'[q])
    BY <1>11, CallShapeStep
  <2>4. faults' \in 0..MaxFaults
    <3>1. CASE ResetQuery(r)
      BY <3>1 DEF ResetQuery, Failures
    <3>2. CASE \E d \in Device : ResetControl(r, d)
      <4>1. PICK n \in {0, 1} : Failures(n)
        BY <3>2 DEF ResetControl
      <4> QED
        BY <4>1 DEF Failures
    <3>3. CASE ResetForget(r) \/ ResetLoopEnds(r)
      BY <3>3 DEF ResetForget, ResetLoopEnds
    <3> QED
      BY <1>11, <3>1, <3>2, <3>3 DEF ResetStep
  <2>5. told' \in [Device -> State]
    <3>1. told' = told \/ \E d \in Device : told' = [told EXCEPT ![d] = Rest(d)]
      BY <1>11 DEF ResetStep, ResetQuery, ResetControl, ResetForget, ResetLoopEnds
    <3>2. \A d \in Device : Rest(d) \in State
      BY DeviceFacts DEF State
    <3> QED
      BY <3>1, <3>2
  <2>6. activeControls' \in [Device -> 0..Len(tasks)]
    <3>1. 0 \in 0..Len(tasks)
      BY LenProperties
    <3> QED
      BY <1>11, <3>1 DEF ResetStep, ResetQuery, ResetControl, ResetForget, ResetLoopEnds
  <2>7. untouched' \subseteq 1..Len(resets')
    BY <1>11, <2>1
    DEF ResetStep, ResetQuery, ResetControl, ResetForget, ResetLoopEnds
  <2>8. /\ UNCHANGED <<running, recvVars, commandChan, closed, procVars, tasks, row, logs,
                       executed>>
    BY <1>11 DEF ResetStep, ResetQuery, ResetControl, ResetForget, ResetLoopEnds
  <2> QED
    BY <2>1, <2>3, <2>4, <2>5, <2>6, <2>7, <2>8
    DEF recvVars, procVars, CallShape
<1>12. ASSUME NEW d \in Device, CooldownOver(d) PROVE TypeOK'
  <2>1. activeControls' \in [Device -> 0..Len(tasks)]
    <3>1. 0 \in 0..Len(tasks)
      BY LenProperties
    <3> QED
      BY <1>12, <3>1 DEF CooldownOver
  <2> QED
    BY <1>12, <2>1 DEF CooldownOver, recvVars, procVars, resetVars
<1>13. CASE Stop
  BY <1>13 DEF Stop, recvVars, procVars, resetVars
<1>14. CASE UNCHANGED vars
  BY <1>14 DEF vars
<1> QED
  BY <1>1, <1>2, <1>3, <1>4, <1>5, <1>6, <1>7, <1>8, <1>9, <1>10, <1>11,
     <1>12, <1>13, <1>14
  DEF Next, AlarmReceiver, CommandProcessor

-------------------------------------------------------------------------------
(* The order of the commands *)

\* Moving the head of t to the end of s moves the border between them.
LEMMA MoveHead ==
  ASSUME NEW S, NEW s \in Seq(S), NEW t \in Seq(S), t # <<>>
  PROVE  Append(s, Head(t)) \o Tail(t) = s \o t
<1>1. Head(t) \in S /\ Tail(t) \in Seq(S) /\ <<Head(t)>> \in Seq(S)
  BY HeadTailProperties
<1>2. t = <<Head(t)>> \o Tail(t)
  BY <1>1, HeadTailProperties, ConcatProperties, SeqEqual, LenProperties
<1>3. Append(s, Head(t)) = s \o <<Head(t)>>
  BY <1>1, AppendIsConcat
<1> QED
  BY <1>1, <1>2, <1>3, ConcatAssociative

\* So does appending behind it.
LEMMA AppendBehind ==
  ASSUME NEW S, NEW s \in Seq(S), NEW t \in Seq(S), NEW e \in S
  PROVE  s \o Append(t, e) = Append(s \o t, e)
<1>1. Append(t, e) = t \o <<e>> /\ <<e>> \in Seq(S)
  BY AppendIsConcat
<1>2. s \o t \in Seq(S)
  BY ConcatProperties
<1>3. Append(s \o t, e) = (s \o t) \o <<e>>
  BY <1>2, AppendIsConcat
<1> QED
  BY <1>1, <1>3, ConcatAssociative

\* The commands the module has still to process, the one in hand first.
Work == job \o commandChan \o offer

LEMMA WorkType ==
  ASSUME TypeOK
  PROVE  /\ handled \in Seq(Command) /\ job \in Seq(Command) /\ commandChan \in Seq(Command)
         /\ offer \in Seq(Command) /\ asked \in Seq(Command) /\ Work \in Seq(Command)
<1>1. /\ handled \in Seq(Command) /\ commandChan \in Seq(Command)
      /\ offer \in Seq(Command) /\ asked \in Seq(Command)
  BY DEF TypeOK
<1>2. job \in Seq(Command)
  <2>1. CASE procPc \in {"visit", "mark"}
    <3>1. PICK cmd \in Command : job = <<cmd>>
      BY <2>1 DEF TypeOK
    <3> QED
      BY <3>1
  <2>2. CASE procPc \notin {"visit", "mark"}
    BY <2>2, EmptySeq DEF TypeOK
  <2> QED
    BY <2>1, <2>2
<1>3. Work \in Seq(Command)
  BY <1>1, <1>2, ConcatProperties DEF Work
<1> QED
  BY <1>1, <1>2, <1>3

\* An alarm adds its commands at the end, and a processed command leaves at the front;
\* on the way from one goroutine to the other commands stay in their order.
LEMMA WorkMoves ==
  ASSUME TypeOK, [Next]_vars
  PROVE  \/ Work' = Work /\ UNCHANGED <<received, asked, handled>>
         \/ /\ \E z \in Zone, l \in Level : ReceiveAlarm(z, l)
            /\ Work' = Work \o offer'
         \/ CommandDone /\ Work = job \o Work'
<1>1. /\ handled \in Seq(Command) /\ job \in Seq(Command) /\ commandChan \in Seq(Command)
      /\ offer \in Seq(Command) /\ asked \in Seq(Command)
      /\ job \o commandChan \in Seq(Command)
  BY WorkType, ConcatProperties
<1>2. ASSUME UNCHANGED <<received, asked, handled, job, commandChan, offer>>
      PROVE  Work' = Work /\ UNCHANGED <<received, asked, handled>>
  BY <1>2 DEF Work
<1>3. ASSUME NEW z \in Zone, NEW l \in Level, ReceiveAlarm(z, l)
      PROVE  Work' = Work \o offer'
  <2>1. offer = <<>>
    BY <1>3 DEF TypeOK, ReceiveAlarm
  <2>2. Work = job \o commandChan
    BY <1>1, <2>1, ConcatEmptySeq DEF Work
  <2> QED
    BY <1>3, <2>2 DEF ReceiveAlarm, procVars, Work
<1>4. CASE SendCommand
  <2>1. /\ Head(offer) \in Command /\ Tail(offer) \in Seq(Command)
        /\ <<Head(offer)>> \in Seq(Command)
    BY <1>1, <1>4, HeadTailProperties DEF SendCommand
  <2>2. job \o Append(commandChan, Head(offer)) = Append(job \o commandChan, Head(offer))
    BY <1>1, <2>1, AppendBehind
  <2>3. Append(job \o commandChan, Head(offer)) \o Tail(offer) = Work
    BY <1>1, <1>4, MoveHead DEF SendCommand, Work
  <2> QED
    BY <1>4, <2>2, <2>3 DEF SendCommand, procVars, Work
<1>5. CASE TakeCommand
  <2>1. job = <<>> /\ <<>> \in Seq(Command)
    BY <1>5, EmptySeq DEF TypeOK, TakeCommand
  <2>2. Head(commandChan) \in Command
    BY <1>1, <1>5, HeadTailProperties DEF TakeCommand
  <2>3. job \o <<Head(commandChan)>> = Append(job, Head(commandChan))
        /\ job \o <<Head(commandChan)>> = <<Head(commandChan)>>
    BY <1>1, <2>1, <2>2, AppendIsConcat, ConcatEmptySeq
  <2>4. <<Head(commandChan)>> \o Tail(commandChan) = job \o commandChan
    BY <1>1, <1>5, <2>3, MoveHead DEF TakeCommand
  <2>5. /\ handled' = handled /\ job' = <<Head(commandChan)>> /\ received' = received
        /\ commandChan' = Tail(commandChan) /\ offer' = offer /\ asked' = asked
    BY <1>5 DEF TakeCommand, recvVars
  <2> QED
    BY <2>4, <2>5 DEF Work
<1>6. CASE CommandDone
  <2>1. job' = <<>> /\ commandChan' = commandChan /\ offer' = offer
    BY <1>6 DEF CommandDone, recvVars
  <2>2. Work' = commandChan \o offer
    BY <1>1, <2>1, ConcatEmptySeq DEF Work
  <2>3. Work = job \o (commandChan \o offer)
    <3>1. job \in Seq(Command) /\ commandChan \in Seq(Command) /\ offer \in Seq(Command)
      BY <1>1
    <3>2. (job \o commandChan) \o offer = job \o (commandChan \o offer)
      BY <3>1, ConcatAssociative, SMTT(20)
    <3> QED
      BY <3>2 DEF Work
  <2> QED
    BY <1>6, <2>2, <2>3
<1>7. CASE Poll \/ ReceiveTimeout \/ Panic \/ HandleAlarmReturns
  BY <1>2, <1>7 DEF Poll, ReceiveTimeout, Panic, HandleAlarmReturns, procVars
<1>8. CASE MarkControlled \/ ProcessorExits \/ \E d \in Device : CanControl(d)
  BY <1>2, <1>8 DEF MarkControlled, ProcessorExits, CanControl, recvVars
<1>9. ASSUME NEW i, TaskStep(i)
      PROVE  Work' = Work /\ UNCHANGED <<received, asked, handled>>
  BY <1>2, <1>9 DEF TaskStep, ControlDevice, UpdateRow, LogControl, recvVars, procVars
<1>10. ASSUME NEW z, NEW r, BeginReset(z) \/ ResetStep(r)
       PROVE  Work' = Work /\ UNCHANGED <<received, asked, handled>>
  BY <1>2, <1>10
  DEF BeginReset, ResetStep, ResetQuery, ResetControl, ResetForget, ResetLoopEnds,
      recvVars, procVars
<1>11. CASE Stop \/ \E d \in Device : CooldownOver(d)
  BY <1>2, <1>11 DEF Stop, CooldownOver, recvVars, procVars
<1>12. CASE UNCHANGED vars
  BY <1>2, <1>12 DEF vars
<1> QED
  BY <1>3, <1>4, <1>5, <1>6, <1>7, <1>8, <1>9, <1>10, <1>11, <1>12
  DEF Next, AlarmReceiver, CommandProcessor, SendCommand, TakeCommand, recvVars

\* Every command of the alarms received is processed, in hand, in the channel or
\* still to be sent, in this order, after every step.
LEMMA OrderStep ==
  ASSUME TypeOK, CommandsInOrder, [Next]_vars
  PROVE  CommandsInOrder'
<1> DEFINE front == handled \o job
<1>1. /\ handled \in Seq(Command) /\ commandChan \in Seq(Command)
      /\ offer \in Seq(Command) /\ asked \in Seq(Command)
  BY DEF TypeOK
<1>2. job \in Seq(Command)
  <2>1. CASE procPc \in {"visit", "mark"}
    <3>1. PICK cmd \in Command : job = <<cmd>>
      BY <2>1 DEF TypeOK
    <3> QED
      BY <3>1
  <2>2. CASE procPc \notin {"visit", "mark"}
    BY <2>2, EmptySeq DEF TypeOK
  <2> QED
    BY <2>1, <2>2
<1>3. front \in Seq(Command) /\ front \o commandChan \in Seq(Command)
  BY <1>1, <1>2, ConcatProperties
<1>4. front \o commandChan \o offer = asked
  BY DEF CommandsInOrder
<1>5. ASSUME UNCHANGED <<handled, job, commandChan, offer, asked>>
      PROVE  CommandsInOrder'
  BY <1>5 DEF CommandsInOrder
<1>6. ASSUME NEW z \in Zone, NEW l \in Level, ReceiveAlarm(z, l)
      PROVE  CommandsInOrder'
  <2>1. offer = <<>>
    BY <1>6 DEF TypeOK, ReceiveAlarm
  <2>2. front \o commandChan = asked
    BY <2>1, <1>3, <1>4, ConcatEmptySeq
  <2> QED
    BY <1>6, <2>2 DEF ReceiveAlarm, procVars, CommandsInOrder
<1>7. CASE SendCommand
  <2>1. /\ Head(offer) \in Command /\ Tail(offer) \in Seq(Command)
        /\ <<Head(offer)>> \in Seq(Command)
    BY <1>1, <1>7, HeadTailProperties DEF SendCommand
  <2>2. front \o Append(commandChan, Head(offer))
          = Append(front \o commandChan, Head(offer))
    <3>1. front \in Seq(Command) /\ commandChan \in Seq(Command) /\ Head(offer) \in Command
      BY <1>1, <1>3, <2>1
    <3> QED
      BY <3>1, AppendBehind, SMTT(20)
  <2>3. Append(front \o commandChan, Head(offer)) \o Tail(offer) = asked
    BY <1>1, <1>3, <1>4, <1>7, MoveHead DEF SendCommand
  <2> QED
    BY <1>7, <2>2, <2>3 DEF SendCommand, procVars, CommandsInOrder
<1>8. CASE TakeCommand
  <2>1. job = <<>>
    BY <1>8 DEF TypeOK, TakeCommand
  <2>2. front = handled
    BY <1>1, <2>1, ConcatEmptySeq
  <2>3. Head(commandChan) \in Command
    BY <1>1, <1>8, HeadTailProperties DEF TakeCommand
  <2>4. handled \o <<Head(commandChan)>> = Append(handled, Head(commandChan))
    BY <1>1, <2>3, AppendIsConcat
  <2>5. handled \o <<Head(commandChan)>> \o Tail(commandChan) = front \o commandChan
    BY <1>1, <1>8, <2>2, <2>4, MoveHead DEF TakeCommand
  <2>6. /\ handled' = handled /\ job' = <<Head(commandChan)>>
        /\ commandChan' = Tail(commandChan) /\ offer' = offer /\ asked' = asked
    BY <1>8 DEF TakeCommand, recvVars
  <2> QED
    BY <1>4, <2>5, <2>6 DEF CommandsInOrder
<1>9. CASE CommandDone
  <2>1. handled' \o job' = front
    BY <1>3, <1>9, ConcatEmptySeq DEF CommandDone
  <2>2. commandChan' = commandChan /\ offer' = offer /\ asked' = asked
    BY <1>9 DEF CommandDone, recvVars
  <2> QED
    BY <1>4, <2>1, <2>2 DEF CommandsInOrder
<1>10. CASE Poll \/ ReceiveTimeout \/ Panic \/ HandleAlarmReturns
  BY <1>5, <1>10 DEF Poll, ReceiveTimeout, Panic, HandleAlarmReturns, procVars
<1>11. CASE MarkControlled \/ ProcessorExits \/ \E d \in Device : CanControl(d)
  BY <1>5, <1>11 DEF MarkControlled, ProcessorExits, CanControl, recvVars
<1>12. ASSUME NEW i, TaskStep(i) PROVE CommandsInOrder'
  BY <1>5, <1>12 DEF TaskStep, ControlDevice, UpdateRow, LogControl, recvVars, procVars
<1>13. ASSUME NEW z, NEW r, BeginReset(z) \/ ResetStep(r) PROVE CommandsInOrder'
  BY <1>5, <1>13
  DEF BeginReset, ResetStep, ResetQuery, ResetControl, ResetForget, ResetLoopEnds,
      recvVars, procVars
<1>14. CASE Stop \/ \E d \in Device : CooldownOver(d)
  BY <1>5, <1>14 DEF Stop, CooldownOver, recvVars, procVars
<1>15. CASE UNCHANGED vars
  BY <1>5, <1>15 DEF vars
<1> QED
  BY <1>6, <1>7, <1>8, <1>9, <1>10, <1>11, <1>12, <1>13, <1>14, <1>15
  DEF Next, AlarmReceiver, CommandProcessor

-------------------------------------------------------------------------------
(* The commands and the devices they are for *)

\* What no step takes back: the alarms received, the goroutines started, the
\* answers given and the queries that have failed.
Kept ==
  /\ Len(received) <= Len(received')
  /\ \A a \in 1..Len(received) : received'[a] = received[a]
  /\ Len(tasks) <= Len(tasks')
  /\ \A i \in 1..Len(tasks) : /\ tasks'[i].alarm = tasks[i].alarm
                              /\ tasks'[i].device = tasks[i].device
                              /\ tasks'[i].order = tasks[i].order
                              /\ tasks[i].pc = "log" => tasks'[i].pc \in {"log", "done"}
                              /\ tasks[i].pc = "done" => tasks'[i].pc = "done"
  /\ unfound \subseteq unfound' /\ passed \subseteq passed'
  /\ executed \subseteq executed'

LEMMA KeptByStep ==
  ASSUME TypeOK, [Next]_vars
  PROVE  Kept
<1>1. /\ received \in Seq(Alarm) /\ tasks \in Seq(Task)
      /\ Len(received) \in Nat /\ Len(tasks) \in Nat
  BY LenProperties DEF TypeOK
<1>2. ASSUME UNCHANGED <<received, tasks, executed>>,
             unfound \subseteq unfound', passed \subseteq passed'
      PROVE  Kept
  BY <1>1, <1>2 DEF Kept
<1>3. ASSUME NEW z \in Zone, NEW l \in Level, ReceiveAlarm(z, l) PROVE Kept
  <2>1. [zone |-> z, level |-> l] \in Alarm
    BY DEF Alarm
  <2>2. UNCHANGED <<tasks, executed, unfound, passed>>
    BY <1>3 DEF ReceiveAlarm, procVars
  <2> QED
    BY <1>1, <1>3, <2>1, <2>2, AppendProperties DEF ReceiveAlarm, Kept
<1>4. CASE MarkControlled
  <2>1. /\ Len(tasks') = Len(tasks) + 1
        /\ \A j \in 1..Len(tasks) : tasks'[j] = tasks[j]
    BY <1>1, <1>4, NewTaskType, TaskStarts
  <2>2. UNCHANGED <<received, executed, unfound, passed>>
    BY <1>4 DEF MarkControlled, recvVars
  <2> QED
    BY <1>1, <2>1, <2>2 DEF Kept
<1>5. ASSUME NEW i \in 1..Len(tasks), TaskStep(i) PROVE Kept
  <2>1. UNCHANGED <<received, unfound, passed>> /\ executed \subseteq executed'
    BY <1>5 DEF TaskStep, ControlDevice, UpdateRow, LogControl, recvVars, procVars
  <2>2. /\ Len(tasks') = Len(tasks) /\ tasks[i].pc # "done"
        /\ \A j \in 1..Len(tasks) : /\ tasks'[j].alarm = tasks[j].alarm
                                    /\ tasks'[j].device = tasks[j].device
                                    /\ tasks'[j].order = tasks[j].order
                                    /\ j # i => tasks'[j] = tasks[j]
    BY <1>5, TaskMoves
  <2>3. tasks[i].pc = "log" => tasks'[i].pc = "done"
    BY <1>5, TaskMoves DEF TaskStep, ControlDevice, UpdateRow
  <2> QED
    BY <1>1, <2>1, <2>2, <2>3 DEF Kept
<1>6. CASE \/ TakeCommand \/ CommandDone \/ ProcessorExits
           \/ \E d \in Device : CanControl(d)
  BY <1>2, <1>6 DEF TakeCommand, CommandDone, ProcessorExits, CanControl, recvVars
<1>7. ASSUME NEW z, NEW r, BeginReset(z) \/ ResetStep(r) PROVE Kept
  BY <1>2, <1>7
  DEF BeginReset, ResetStep, ResetQuery, ResetControl, ResetForget, ResetLoopEnds,
      recvVars, procVars
<1>8. CASE Poll \/ ReceiveTimeout \/ Panic \/ HandleAlarmReturns \/ SendCommand
  BY <1>2, <1>8
  DEF Poll, ReceiveTimeout, Panic, HandleAlarmReturns, SendCommand, procVars
<1>9. CASE Stop \/ (\E d \in Device : CooldownOver(d)) \/ UNCHANGED vars
  BY <1>2, <1>9 DEF Stop, CooldownOver, vars, recvVars, procVars
<1> QED
  BY <1>3, <1>4, <1>5, <1>6, <1>7, <1>8, <1>9
  DEF Next, AlarmReceiver, CommandProcessor

\* A device that was answered stays so.
LEMMA AnsweredStays ==
  ASSUME TypeOK, Kept, NEW a, NEW d, Answered(a, d)
  PROVE  Answered(a, d)'
<1>1. CASE <<a, d>> \in passed
  BY <1>1 DEF Kept, Answered
<1>2. ASSUME NEW i \in 1..Len(tasks), tasks[i].device = d, tasks[i].alarm = a
      PROVE  Answered(a, d)'
  <2>1. i \in 1..Len(tasks')
    BY LenProperties DEF TypeOK, Kept
  <2> QED
    BY <1>2, <2>1 DEF Kept, Answered
<1> QED
  BY <1>1, <1>2 DEF Answered

\* A command of a received alarm is always for the same devices.
LEMMA TargetsStay ==
  ASSUME TypeOK, Kept, NEW cmd \in Command, cmd.alarm <= Len(received)
  PROVE  Targets(cmd)' = Targets(cmd) /\ cmd.alarm <= Len(received')
<1>1. cmd.alarm \in 1..Len(received) /\ Len(received) \in Nat
  BY LenProperties DEF TypeOK, Command
<1>2. received'[cmd.alarm] = received[cmd.alarm]
  BY <1>1 DEF Kept
<1>3. cmd.alarm <= Len(received')
  BY <1>1 DEF Kept
<1> QED
  BY <1>2, <1>3 DEF Targets, InZone

\* Known commands stay known.
LEMMA KnownStays ==
  ASSUME TypeOK, Kept, NEW s \in Seq(Command), Known(s)
  PROVE  \A k \in 1..Len(s) : s[k].alarm <= Len(received')
<1>1. \A k \in 1..Len(s) : s[k] \in Command
  BY ElementOfSeq
<1> QED
  BY <1>1, TargetsStay DEF Known

\* The job is a sequence of at most one command.
LEMMA JobType ==
  ASSUME TypeOK
  PROVE  /\ job \in Seq(Command)
         /\ job = <<>> \/ \E cmd \in Command : job = <<cmd>>
<1>1. CASE procPc \in {"visit", "mark"}
  <2>1. PICK cmd \in Command : job = <<cmd>>
    BY <1>1 DEF TypeOK
  <2> QED
    BY <2>1
<1>2. CASE procPc \notin {"visit", "mark"}
  BY <1>2, EmptySeq DEF TypeOK
<1> QED
  BY <1>1, <1>2

\* Commands come into being with their alarm and then only change places.
LEMMA CommandsKnownStep ==
  ASSUME TypeOK, CommandsKnown, Kept, [Next]_vars
  PROVE  CommandsKnown'
<1> USE DEF CommandsKnown
<1>1. /\ handled \in Seq(Command) /\ commandChan \in Seq(Command)
      /\ offer \in Seq(Command) /\ job \in Seq(Command)
  BY JobType DEF TypeOK
<1> DEFINE N == Len(received')
           Old(s) == \A k \in 1..Len(s) : s[k].alarm <= N
<1>2. Old(handled) /\ Old(job) /\ Old(commandChan) /\ Old(offer)
  BY <1>1, KnownStays
<1>3. Len(received) \in Nat /\ \A a \in Nat : a <= Len(received) => a <= N
  BY LenProperties DEF TypeOK, Kept
<1>4. ASSUME UNCHANGED <<handled, job, commandChan, offer>> PROVE CommandsKnown'
  BY <1>2, <1>4 DEF Known
<1>5. ASSUME NEW z \in Zone, NEW l \in Level, ReceiveAlarm(z, l) PROVE CommandsKnown'
  <2>1. Len(received) + 1 \in 1..MaxAlarms
    BY <1>3, <1>5, BoundAssumption DEF ReceiveAlarm
  <2>2. N = Len(received) + 1
    <3>1. [zone |-> z, level |-> l] \in Alarm
      BY DEF Alarm
    <3> QED
      BY <1>5, <3>1, AppendProperties DEF ReceiveAlarm, TypeOK
  <2>3. \A k \in 1..Len(offer') : offer'[k].alarm <= N
    BY <1>3, <1>5, <2>1, <2>2, CommandsForAlarm DEF ReceiveAlarm
  <2> QED
    BY <1>2, <1>5, <2>3 DEF ReceiveAlarm, procVars, Known
<1>6. CASE SendCommand
  <2>1. /\ Head(offer) \in Command /\ Head(offer).alarm <= N
        /\ \A k \in 1..Len(Tail(offer)) : Tail(offer)[k].alarm <= N
    <3>1. /\ Head(offer) = offer[1] /\ 1 \in 1..Len(offer) /\ offer[1] \in Command
          /\ Len(Tail(offer)) = Len(offer) - 1
          /\ \A k \in 1..Len(Tail(offer)) : Tail(offer)[k] = offer[k + 1]
          /\ Len(offer) \in Nat
      BY <1>1, <1>6, HeadTailProperties, LenProperties, ElementOfSeq DEF SendCommand
    <3>2. \A k \in 1..Len(Tail(offer)) : k + 1 \in 1..Len(offer)
      BY <3>1
    <3> QED
      BY <1>2, <3>1, <3>2
  <2>2. ASSUME NEW k \in 1..Len(commandChan') PROVE commandChan'[k].alarm <= N
    <3>1. commandChan' = Append(commandChan, Head(offer)) /\ Len(commandChan) \in Nat
      BY <1>1, <1>6, LenProperties DEF SendCommand
    <3>2. k \in 1..Len(commandChan) \/ k = Len(commandChan) + 1
      BY <1>1, <2>1, <3>1, AppendProperties
    <3> QED
      BY <1>1, <1>2, <2>1, <3>1, <3>2, AppendProperties
  <2> QED
    BY <1>2, <1>6, <2>1, <2>2 DEF SendCommand, procVars, Known
<1>7. CASE TakeCommand
  <2>1. /\ Head(commandChan).alarm <= N
        /\ \A k \in 1..Len(Tail(commandChan)) : Tail(commandChan)[k].alarm <= N
    BY <1>1, <1>2, <1>7, HeadTailProperties, LenProperties DEF TakeCommand
  <2> QED
    BY <1>2, <1>7, <2>1 DEF TakeCommand, recvVars, Known
<1>8. CASE CommandDone
  <2>1. \A k \in 1..Len(handled \o job) : (handled \o job)[k].alarm <= N
    BY <1>1, <1>2, ConcatProperties, LenProperties
  <2>2. /\ handled' = handled \o job /\ job' = <<>>
        /\ commandChan' = commandChan /\ offer' = offer
    BY <1>8 DEF CommandDone, recvVars
  <2> QED
    BY <1>2, <2>1, <2>2 DEF Known
<1>9. CASE Poll \/ ReceiveTimeout \/ Panic \/ HandleAlarmReturns
  BY <1>4, <1>9 DEF Poll, ReceiveTimeout, Panic, HandleAlarmReturns, procVars
<1>10. CASE MarkControlled \/ ProcessorExits \/ \E d \in Device : CanControl(d)
  BY <1>4, <1>10 DEF MarkControlled, ProcessorExits, CanControl, recvVars
<1>11. ASSUME NEW i, TaskStep(i) PROVE CommandsKnown'
  BY <1>4, <1>11 DEF TaskStep, ControlDevice, UpdateRow, LogControl, recvVars, procVars
<1>12. ASSUME NEW z, NEW r, BeginReset(z) \/ ResetStep(r) PROVE CommandsKnown'
  BY <1>4, <1>12
  DEF BeginReset, ResetStep, ResetQuery, ResetControl, ResetForget, ResetLoopEnds,
      recvVars, procVars
<1>13. CASE Stop \/ \E d \in Device : CooldownOver(d)
  BY <1>4, <1>13 DEF Stop, CooldownOver, recvVars, procVars
<1>14. CASE UNCHANGED vars
  BY <1>4, <1>14 DEF vars
<1> QED
  BY <1>5, <1>6, <1>7, <1>8, <1>9, <1>10, <1>11, <1>12, <1>13, <1>14
  DEF Next, AlarmReceiver, CommandProcessor

\* A command passes over a device only when it is on cooldown.
LEMMA JobStep ==
  ASSUME TypeOK, CommandsKnown, JobAnswered, Kept, [Next]_vars
  PROVE  JobAnswered'
<1> DEFINE Waits(a, d) == d \in left' \/ d = device' \/ Answered(a, d)'
<1>1. ASSUME NEW k \in 1..Len(job)
      PROVE  /\ job[k] \in Command /\ job[k].alarm <= Len(received)
             /\ Targets(job[k])' = IF job' = job THEN Targets(job[k]) ELSE Targets(job[k])'
             /\ \A d \in Targets(job[k]) : d # NoDevice
  <2>1. job[k] \in Command /\ job[k].alarm <= Len(received)
    BY JobType, ElementOfSeq DEF CommandsKnown, Known
  <2>2. \A cmd \in Command : cmd = job[k] => Targets(cmd)' = Targets(cmd)
    BY <2>1, TargetsStay
  <2>3. job' = job => Targets(job[k])' = Targets(job[k])
    BY <2>1, <2>2 DEF Targets
  <2>4. \A d \in Targets(job[k]) : d # NoDevice
    BY <2>1, TargetsInDevice, DeviceFacts DEF Targets, Command
  <2> QED
    BY <2>1, <2>3, <2>4
<1>2. ASSUME job' = job,
             \A k \in 1..Len(job) : \A d \in left \cup ({device} \ {NoDevice}) :
               Waits(job[k].alarm, d)
      PROVE  JobAnswered'
  <2>1. SUFFICES ASSUME NEW k \in 1..Len(job), job[k] \notin unfound',
                        NEW d \in Targets(job[k])
                 PROVE  Waits(job[k].alarm, d)
    BY <1>1, <1>2 DEF JobAnswered
  <2>2. d \in left \/ d = device \/ Answered(job[k].alarm, d)
    BY <2>1 DEF JobAnswered, Kept
  <2> QED
    BY <1>1, <1>2, <2>1, <2>2, AnsweredStays
<1>3. ASSUME UNCHANGED procVars PROVE JobAnswered'
  BY <1>2, <1>3 DEF procVars
<1>4. CASE TakeCommand
  <2> DEFINE cmd == Head(commandChan)
  <2>1. job' = <<cmd>> /\ received' = received
    BY <1>4 DEF TakeCommand, recvVars
  <2>2. cmd \in unfound' \/ left' = Targets(cmd)
    BY <1>4 DEF TakeCommand
  <2> QED
    BY <2>1, <2>2 DEF JobAnswered, Targets, InZone
<1>5. ASSUME NEW d \in Device, CanControl(d) PROVE JobAnswered'
  <2>1. /\ device = NoDevice /\ job' = job /\ left' = left \ {d}
        /\ job = <<job[1]>>
    BY <1>5 DEF TypeOK, CanControl
  <2>2. d = device' \/ <<job[1].alarm, d>> \in passed'
    BY <1>5 DEF CanControl
  <2>3. \A k \in 1..Len(job) : Waits(job[k].alarm, d)
    BY <2>1, <2>2 DEF Answered
  <2> QED
    BY <1>2, <2>1, <2>3
<1>6. CASE MarkControlled
  <2>1. /\ tasks' = Append(tasks, NewTask) /\ NewTask \in Task
        /\ NewTask.device = device /\ NewTask.alarm = job[1].alarm
    BY <1>6, NewTaskType
  <2>2. /\ Len(tasks') \in 1..Len(tasks')
        /\ tasks'[Len(tasks')] = NewTask
    BY <2>1, TaskStarts, LenProperties DEF TypeOK
  <2>3. \A d : d = device => Answered(job[1].alarm, d)'
    <3>1. ASSUME NEW d, d = device PROVE Answered(job[1].alarm, d)'
      <4> DEFINE n == Len(tasks')
      <4>1. n \in 1..n /\ tasks'[n].device = d /\ tasks'[n].alarm = job[1].alarm
        BY <2>1, <2>2, <3>1
      <4>2. job' = job
        BY <1>6 DEF MarkControlled
      <4> QED
        BY <4>1, <4>2 DEF Answered
    <3> QED
      BY <3>1
  <2>4. job' = job /\ left' = left /\ job = <<job[1]>>
    BY <1>6 DEF MarkControlled, TypeOK
  <2>5. \A k \in 1..Len(job) : \A d \in left \cup {device} : Waits(job[k].alarm, d)
    BY <2>3, <2>4
  <2> QED
    BY <1>2, <2>4, <2>5
<1>7. CASE CommandDone
  BY <1>7 DEF CommandDone, JobAnswered
<1>8. CASE ProcessorExits
  BY <1>2, <1>8 DEF ProcessorExits
<1>9. CASE AlarmReceiver \/ \E z \in Zone, l \in Level : ReceiveAlarm(z, l)
  BY <1>3, <1>9
  DEF AlarmReceiver, Poll, ReceiveTimeout, SendCommand, Panic, HandleAlarmReturns,
      ReceiveAlarm
<1>10. ASSUME NEW i, TaskStep(i) PROVE JobAnswered'
  BY <1>3, <1>10 DEF TaskStep, ControlDevice, UpdateRow, LogControl
<1>11. ASSUME NEW z, NEW r, BeginReset(z) \/ ResetStep(r) PROVE JobAnswered'
  BY <1>3, <1>11
  DEF BeginReset, ResetStep, ResetQuery, ResetControl, ResetForget, ResetLoopEnds
<1>12. CASE Stop \/ (\E d \in Device : CooldownOver(d)) \/ UNCHANGED vars
  BY <1>3, <1>12 DEF Stop, CooldownOver, vars, procVars
<1> QED
  BY <1>4, <1>5, <1>6, <1>7, <1>8, <1>9, <1>10, <1>11, <1>12
  DEF Next, CommandProcessor

\* The two parts of ZoneAnswered.
HandledAnswered ==
  \A k \in 1..Len(handled) :
    handled[k] \notin unfound =>
      \A d \in Targets(handled[k]) : Answered(handled[k].alarm, d)

CooldownInForce == \A d \in Device : activeControls[d] # 0 => InForce(d)

\* A command is over when no device is left to visit.
LEMMA HandledStep ==
  ASSUME TypeOK, CommandsKnown, JobAnswered, HandledAnswered, Kept, [Next]_vars
  PROVE  HandledAnswered'
<1>1. ASSUME NEW cmd \in Command, cmd.alarm <= Len(received),
             \A d \in Targets(cmd) : Answered(cmd.alarm, d)
      PROVE  \A d \in InZone(DevicesOf(cmd.kind), received'[cmd.alarm].zone) :
               Answered(cmd.alarm, d)'
  <2>1. Targets(cmd)' = Targets(cmd)
    BY <1>1, TargetsStay
  <2> QED
    BY <1>1, <2>1, AnsweredStays DEF Targets
<1>2. ASSUME NEW k \in 1..Len(handled), handled[k] \notin unfound'
      PROVE  \A d \in InZone(DevicesOf(handled[k].kind),
                             received'[handled[k].alarm].zone) :
               \A a : a = handled[k].alarm => Answered(a, d)'
  <2>1. handled[k] \in Command /\ handled[k].alarm <= Len(received)
    BY ElementOfSeq DEF TypeOK, CommandsKnown, Known
  <2>2. \A d \in Targets(handled[k]) : Answered(handled[k].alarm, d)
    BY <1>2 DEF HandledAnswered, Kept
  <2>3. \A cmd \in Command : cmd = handled[k] =>
          \A d \in InZone(DevicesOf(cmd.kind), received'[cmd.alarm].zone) :
            Answered(cmd.alarm, d)'
    BY <1>1, <2>1, <2>2
  <2> QED
    BY <2>1, <2>3 DEF Answered
<1>3. ASSUME handled' = handled PROVE HandledAnswered'
  <2>1. SUFFICES ASSUME NEW k \in 1..Len(handled), handled[k] \notin unfound',
                        NEW d \in InZone(DevicesOf(handled[k].kind),
                                         received'[handled[k].alarm].zone)
                 PROVE  \A a : a = handled[k].alarm => Answered(a, d)'
    BY <1>3 DEF HandledAnswered, Targets, Answered
  <2> QED
    BY <1>2, <2>1
<1>4. CASE CommandDone
  <2>1. PICK cmd \in Command : job = <<cmd>>
    BY <1>4 DEF TypeOK, CommandDone
  <2>2. cmd.alarm <= Len(received)
    BY <2>1 DEF CommandsKnown, Known
  <2>3. handled' = Append(handled, cmd)
    BY <1>4, <2>1, AppendIsConcat DEF CommandDone, TypeOK
  <2>4. \A d \in Targets(cmd) : d # NoDevice
    BY TargetsInDevice, DeviceFacts DEF Targets, Command
  <2>5. ASSUME cmd \notin unfound' PROVE \A d \in Targets(cmd) : Answered(cmd.alarm, d)
    BY <1>4, <2>1, <2>4, <2>5 DEF JobAnswered, CommandDone, TypeOK, Kept
  <2>6. ASSUME cmd \notin unfound'
        PROVE  \A d \in InZone(DevicesOf(cmd.kind), received'[cmd.alarm].zone) :
                 Answered(cmd.alarm, d)'
    BY <1>1, <2>2, <2>5, <2>6
  <2>7. SUFFICES ASSUME NEW k \in 1..Len(handled'), handled'[k] \notin unfound',
                        NEW d \in InZone(DevicesOf(handled'[k].kind),
                                         received'[handled'[k].alarm].zone)
                 PROVE  \A a : a = handled'[k].alarm => Answered(a, d)'
    BY DEF HandledAnswered, Targets, Answered
  <2>8. /\ Len(handled') = Len(handled) + 1 /\ handled'[Len(handled) + 1] = cmd
        /\ \A j \in 1..Len(handled) : handled'[j] = handled[j]
        /\ Len(handled) \in Nat
    BY <2>3, AppendProperties, LenProperties DEF TypeOK
  <2>9. CASE k \in 1..Len(handled)
    BY <1>2, <2>7, <2>8, <2>9
  <2>10. CASE k = Len(handled) + 1
    BY <2>6, <2>7, <2>8, <2>10 DEF Answered
  <2> QED
    BY <2>7, <2>8, <2>9, <2>10
<1>6. CASE AlarmReceiver \/ \E z \in Zone, l \in Level : ReceiveAlarm(z, l)
  BY <1>3, <1>6
  DEF AlarmReceiver, Poll, ReceiveTimeout, SendCommand, Panic, HandleAlarmReturns,
      ReceiveAlarm, procVars
<1>7. CASE \/ TakeCommand \/ MarkControlled \/ ProcessorExits
           \/ \E d \in Device : CanControl(d)
  BY <1>3, <1>7 DEF TakeCommand, MarkControlled, ProcessorExits, CanControl
<1>8. ASSUME NEW i, TaskStep(i) PROVE HandledAnswered'
  BY <1>3, <1>8 DEF TaskStep, ControlDevice, UpdateRow, LogControl, procVars
<1>9. ASSUME NEW z, NEW r, BeginReset(z) \/ ResetStep(r) PROVE HandledAnswered'
  BY <1>3, <1>9
  DEF BeginReset, ResetStep, ResetQuery, ResetControl, ResetForget, ResetLoopEnds,
      procVars
<1>10. CASE Stop \/ (\E d \in Device : CooldownOver(d)) \/ UNCHANGED vars
  BY <1>3, <1>10 DEF Stop, CooldownOver, vars, procVars
<1> QED
  BY <1>4, <1>6, <1>7, <1>8, <1>9, <1>10 DEF Next, CommandProcessor

\* Call r of ResetZone has told d and is about to take it off cooldown.
Forgetting(r, d) == resets[r].pc = "forget" /\ resets[r].device = d

\* The order behind a cooldown stays in force while neither the device, nor the
\* task, nor a reset that holds the device changes.
LEMMA InForceStays ==
  ASSUME NEW d \in Device, InForce(d), activeControls'[d] = activeControls[d],
         tasks'[activeControls[d]].device = tasks[activeControls[d]].device,
         \/ tasks'[activeControls[d]].success = tasks[activeControls[d]].success
         \/ told'[d] # Rest(d),
         told'[d] = told[d] \/ told'[d] # Rest(d),
         \A r \in 1..Len(resets) :
           Forgetting(r, d) => r \in 1..Len(resets') /\ Forgetting(r, d)'
  PROVE  InForce(d)'
BY DEF InForce, Forgetting

\* A device is marked together with the start of its order, told to rest only by a
\* reset that will forget it, and forgotten only after that.
LEMMA CooldownStep ==
  ASSUME TypeOK, TaskShape, CooldownInForce, [Next]_vars
  PROVE  CooldownInForce'
<1>1. /\ tasks \in Seq(Task) /\ Len(tasks) \in Nat
      /\ resets \in Seq(Reset) /\ Len(resets) \in Nat
      /\ activeControls \in [Device -> 0..Len(tasks)]
      /\ told \in [Device -> State]
  BY LenProperties DEF TypeOK
<1>2. ASSUME NEW d \in Device, activeControls[d] # 0
      PROVE  activeControls[d] \in 1..Len(tasks) /\ InForce(d)
  BY <1>1, <1>2 DEF CooldownInForce
<1>3. ASSUME UNCHANGED <<activeControls, tasks, told, resets>> PROVE CooldownInForce'
  BY <1>2, <1>3, InForceStays DEF CooldownInForce, Forgetting
<1>4. CASE MarkControlled
  <2>1. /\ tasks' \in Seq(Task) /\ Len(tasks') = Len(tasks) + 1
        /\ tasks'[Len(tasks')] = NewTask
        /\ \A j \in 1..Len(tasks) : tasks'[j] = tasks[j]
    BY <1>1, <1>4, NewTaskType, TaskStarts
  <2>2. /\ activeControls' = [activeControls EXCEPT ![device] = Len(tasks')]
        /\ told' = told /\ resets' = resets
    BY <1>4 DEF MarkControlled
  <2>3. ASSUME NEW d \in Device, activeControls'[d] # 0 PROVE InForce(d)'
    <3>1. CASE d = device
      <4>1. activeControls'[d] = Len(tasks')
        BY <1>1, <2>2, <3>1
      <4> QED
        BY <1>4, <2>1, <3>1, <4>1, NewTaskType DEF InForce
    <3>2. CASE d # device
      <4>1. activeControls'[d] = activeControls[d]
        BY <1>1, <2>2, <3>2
      <4>2. activeControls[d] \in 1..Len(tasks) /\ InForce(d)
        BY <1>2, <2>3, <4>1
      <4> QED
        BY <2>1, <2>2, <4>1, <4>2, InForceStays DEF Forgetting
    <3> QED
      BY <3>1, <3>2
  <2> QED
    BY <2>3 DEF CooldownInForce
<1>5. ASSUME NEW i \in 1..Len(tasks), TaskStep(i) PROVE CooldownInForce'
  <2>1. activeControls' = activeControls /\ resets' = resets
    BY <1>5 DEF TaskStep, ControlDevice, UpdateRow, LogControl, resetVars
  <2>2. \A j \in 1..Len(tasks) : /\ tasks'[j].device = tasks[j].device
                                 /\ j # i => tasks'[j] = tasks[j]
    BY <1>5, TaskMoves
  <2>3. tasks[i].device \in Device /\ tasks[i].order \in Order
    BY <1>5, TaskMoves DEF Task
  <2>4. tasks[i].order # Rest(tasks[i].device)
    BY <2>3, DeviceFacts DEF Order
  <2>5. \/ tasks'[i].success = tasks[i].success /\ told' = told
        \/ told' = [told EXCEPT ![tasks[i].device] = tasks[i].order]
    <3>1. CASE ControlDevice(i)
      BY <1>5, <3>1, TaskMoves
    <3>2. CASE UpdateRow(i) \/ LogControl(i)
      BY <1>5, <3>2, TaskMoves DEF UpdateRow, LogControl
    <3> QED
      BY <1>5, <3>1, <3>2 DEF TaskStep
  <2>6. ASSUME NEW d \in Device, activeControls[d] # 0 PROVE InForce(d)'
    <3>1. activeControls[d] \in 1..Len(tasks) /\ InForce(d)
      BY <1>2, <2>6
    <3>2. told'[d] = told[d] \/ told'[d] # Rest(d)
      BY <1>1, <2>4, <2>5
    <3>3. \/ tasks'[activeControls[d]].success = tasks[activeControls[d]].success
          \/ told'[d] # Rest(d)
      <4>1. CASE activeControls[d] # i
        BY <2>2, <3>1, <4>1
      <4>2. CASE activeControls[d] = i
        <5>1. tasks[i].device = d
          BY <3>1, <4>2 DEF InForce
        <5> QED
          BY <1>1, <2>4, <2>5, <4>2, <5>1
      <4> QED
        BY <4>1, <4>2
    <3>4. tasks'[activeControls[d]].device = tasks[activeControls[d]].device
      BY <2>2, <3>1
    <3> QED
      BY <2>1, <3>1, <3>2, <3>3, <3>4, InForceStays DEF Forgetting
  <2> QED
    BY <2>1, <2>6 DEF CooldownInForce
<1>6. ASSUME NEW z \in Zone, BeginReset(z) PROVE CooldownInForce'
  <2>1. \A r \in 1..Len(resets) : r \in 1..Len(resets') /\ resets'[r] = resets[r]
    <3>1. /\ Len(resets') = Len(resets) + 1
          /\ \A r \in 1..Len(resets) : resets'[r] = resets[r]
      BY <1>6, ResetBegins
    <3> QED
      BY <1>1, <3>1
  <2>2. UNCHANGED <<activeControls, tasks, told>>
    BY <1>6 DEF BeginReset
  <2> QED
    BY <1>2, <2>1, <2>2, InForceStays DEF CooldownInForce, Forgetting
<1>7. ASSUME NEW r \in 1..Len(resets), ResetStep(r) PROVE CooldownInForce'
  <2>1. /\ Len(resets') = Len(resets)
        /\ \A q \in 1..Len(resets) : q # r => resets'[q] = resets[q]
        /\ resets[r] \in Reset
    BY <1>7, ResetMoves
  <2>2. tasks' = tasks
    BY <1>7 DEF ResetStep, ResetQuery, ResetControl, ResetForget, ResetLoopEnds
  <2>3. CASE ResetQuery(r) \/ ResetLoopEnds(r)
    <3>1. UNCHANGED <<activeControls, told>> /\ resets[r].pc # "forget"
      BY <2>3 DEF ResetQuery, ResetLoopEnds
    <3>2. \A d \in Device, q \in 1..Len(resets) : Forgetting(q, d) =>
            q \in 1..Len(resets') /\ Forgetting(q, d)'
      BY <2>1, <3>1 DEF Forgetting
    <3> QED
      BY <1>2, <2>2, <3>1, <3>2, InForceStays DEF CooldownInForce
  <2>4. ASSUME NEW e \in Device, ResetControl(r, e) PROVE CooldownInForce'
    <3>1. /\ activeControls' = activeControls /\ resets[r].pc # "forget"
          /\ told' = told \/ told' = [told EXCEPT ![e] = Rest(e)]
      BY <2>4 DEF ResetControl
    <3>2. \A d \in Device, q \in 1..Len(resets) : Forgetting(q, d) =>
            q \in 1..Len(resets') /\ Forgetting(q, d)'
      BY <2>1, <3>1 DEF Forgetting
    <3>3. resets'[r] = Told(resets[r], e)
      BY <1>7, <2>4, ResetMoves
    <3>4. resets'[r].pc = "forget" /\ resets'[r].device = e
      BY <2>1, <3>3 DEF Told, Reset
    <3>5. ASSUME NEW d \in Device, activeControls[d] # 0 PROVE InForce(d)'
      <4>1. CASE d = e
        BY <1>2, <2>1, <2>2, <3>1, <3>4, <3>5, <4>1 DEF InForce
      <4>2. CASE d # e
        <5>1. told'[d] = told[d]
          BY <1>1, <3>1, <4>2
        <5> QED
          BY <1>2, <2>2, <3>1, <3>2, <3>5, <5>1, InForceStays
      <4> QED
        BY <4>1, <4>2
    <3> QED
      BY <3>1, <3>5 DEF CooldownInForce
  <2>5. CASE ResetForget(r)
    <3> DEFINE e == resets[r].device
    <3>1. /\ told' = told
          /\ activeControls' = [activeControls EXCEPT ![e] = 0]
      BY <2>5 DEF ResetForget
    <3>2. ASSUME NEW d \in Device, activeControls'[d] # 0 PROVE InForce(d)'
      <4>1. d # e /\ activeControls'[d] = activeControls[d]
        BY <1>1, <3>1, <3>2
      <4>2. \A q \in 1..Len(resets) : Forgetting(q, d) =>
              q \in 1..Len(resets') /\ Forgetting(q, d)'
        BY <2>1, <4>1 DEF Forgetting
      <4> QED
        BY <1>2, <2>2, <3>1, <3>2, <4>1, <4>2, InForceStays
    <3> QED
      BY <3>2 DEF CooldownInForce
  <2> QED
    BY <1>7, <2>3, <2>4, <2>5 DEF ResetStep
<1>8. ASSUME NEW e \in Device, CooldownOver(e) PROVE CooldownInForce'
  <2>1. /\ activeControls' = [activeControls EXCEPT ![e] = 0]
        /\ UNCHANGED <<tasks, told, resets>>
    BY <1>8 DEF CooldownOver, resetVars
  <2>2. ASSUME NEW d \in Device, activeControls'[d] # 0 PROVE InForce(d)'
    <3>1. activeControls'[d] = activeControls[d]
      BY <1>1, <2>1, <2>2
    <3> QED
      BY <1>2, <2>1, <2>2, <3>1, InForceStays DEF Forgetting
  <2> QED
    BY <2>2 DEF CooldownInForce
<1>9. CASE AlarmReceiver \/ \E z \in Zone, l \in Level : ReceiveAlarm(z, l)
  BY <1>3, <1>9
  DEF AlarmReceiver, Poll, ReceiveTimeout, SendCommand, Panic, HandleAlarmReturns,
      ReceiveAlarm, resetVars
<1>10. CASE \/ TakeCommand \/ CommandDone \/ ProcessorExits
            \/ \E d \in Device : CanControl(d)
  BY <1>3, <1>10 DEF TakeCommand, CommandDone, ProcessorExits, CanControl, resetVars
<1>11. CASE Stop \/ UNCHANGED vars
  BY <1>3, <1>11 DEF Stop, vars, resetVars
<1> QED
  BY <1>4, <1>5, <1>6, <1>7, <1>8, <1>9, <1>10, <1>11 DEF Next, CommandProcessor

-------------------------------------------------------------------------------
(* Rows and logs *)

\* The broker's answer moves a goroutine on and is remembered by it.
LEMMA TaskShapeStep ==
  ASSUME TypeOK, TaskShape, [Next]_vars
  PROVE  TaskShape'
<1>1. tasks \in Seq(Task) /\ Len(tasks) \in Nat /\ executed \subseteq 1..Len(tasks)
  BY LenProperties DEF TypeOK
<1>2. ASSUME UNCHANGED <<tasks, executed>> PROVE TaskShape'
  BY <1>2 DEF TaskShape
<1>3. CASE MarkControlled
  <2>1. /\ Len(tasks') = Len(tasks) + 1 /\ tasks'[Len(tasks')] = NewTask
        /\ \A j \in 1..Len(tasks) : tasks'[j] = tasks[j]
        /\ ~NewTask.success /\ NewTask.pc = "control"
    BY <1>1, <1>3, NewTaskType, TaskStarts
  <2>2. executed' = executed /\ Len(tasks') \notin executed
    BY <1>1, <1>3, <2>1 DEF MarkControlled
  <2> QED
    BY <1>1, <2>1, <2>2 DEF TaskShape
<1>4. ASSUME NEW i \in 1..Len(tasks), TaskStep(i) PROVE TaskShape'
  <2>1. /\ Len(tasks') = Len(tasks)
        /\ \A j \in 1..Len(tasks) : j # i => tasks'[j] = tasks[j]
    BY <1>4, TaskMoves
  <2>2. CASE ControlDevice(i)
    <3>1. \/ tasks'[i].success /\ tasks'[i].pc = "update" /\ executed' = executed \cup {i}
          \/ /\ tasks'[i].success = tasks[i].success /\ tasks'[i].pc = "log"
             /\ executed' = executed
      BY <1>4, <2>2, TaskMoves
    <3> QED
      BY <2>1, <3>1 DEF TaskShape
  <2>3. CASE UpdateRow(i)
    <3>1. tasks'[i].pc = "log" /\ tasks'[i].success = tasks[i].success
      BY <1>4, <2>3, TaskMoves
    <3>2. executed' = executed
      BY <2>3 DEF UpdateRow
    <3> QED
      BY <2>1, <3>1, <3>2 DEF TaskShape
  <2>4. CASE LogControl(i)
    <3>1. tasks'[i].pc = "done" /\ tasks'[i].success = tasks[i].success
      BY <1>4, <2>4, TaskMoves
    <3>2. executed' = executed
      BY <2>4 DEF LogControl
    <3> QED
      BY <2>1, <3>1, <3>2 DEF TaskShape
  <2> QED
    BY <1>4, <2>2, <2>3, <2>4 DEF TaskStep
<1>5. CASE AlarmReceiver \/ \E z \in Zone, l \in Level : ReceiveAlarm(z, l)
  BY <1>2, <1>5
  DEF AlarmReceiver, Poll, ReceiveTimeout, SendCommand, Panic, HandleAlarmReturns,
      ReceiveAlarm
<1>6. CASE \/ TakeCommand \/ CommandDone \/ ProcessorExits
           \/ \E d \in Device : CanControl(d)
  BY <1>2, <1>6 DEF TakeCommand, CommandDone, ProcessorExits, CanControl
<1>7. ASSUME NEW z, NEW r, BeginReset(z) \/ ResetStep(r) PROVE TaskShape'
  BY <1>2, <1>7
  DEF BeginReset, ResetStep, ResetQuery, ResetControl, ResetForget, ResetLoopEnds
<1>8. CASE Stop \/ (\E d \in Device : CooldownOver(d)) \/ UNCHANGED vars
  BY <1>2, <1>8 DEF Stop, CooldownOver, vars
<1> QED
  BY <1>3, <1>4, <1>5, <1>6, <1>7, <1>8 DEF Next, CommandProcessor

\* The row of d shows an order the broker has accepted from task i.
Backs(i, d) ==
  /\ tasks[i].device = d /\ tasks[i].order = row[d] /\ tasks[i].pc \in {"log", "done"}

\* A row is written only by a goroutine whose order was accepted, and its log
\* only by its last step.
LEMMA RowsStep ==
  ASSUME TypeOK, TaskShape, RowsAndLogsBacked, Kept, [Next]_vars
  PROVE  RowsAndLogsBacked'
<1>1. /\ tasks \in Seq(Task) /\ Len(tasks) \in Nat
      /\ logs \subseteq [task : 1..Len(tasks), success : BOOLEAN]
      /\ row \in [Device -> State] /\ executed \subseteq 1..Len(tasks)
  BY LenProperties DEF TypeOK
<1>2. \A i \in 1..Len(tasks) :
        /\ tasks'[i].device = tasks[i].device /\ tasks'[i].order = tasks[i].order
        /\ tasks[i].pc \in {"log", "done"} => tasks'[i].pc \in {"log", "done"}
        /\ tasks[i].pc = "done" => tasks'[i].pc = "done"
  BY <1>1 DEF Kept
<1>3. \A l \in logs : /\ l.task \in 1..Len(tasks) /\ tasks[l.task].pc = "done"
                      /\ l.success <=> l.task \in executed
  BY <1>1 DEF RowsAndLogsBacked
<1>4. ASSUME NEW d \in Device, row[d] # Rest(d)
      PROVE  \E i \in executed : Backs(i, d)
  BY <1>4 DEF RowsAndLogsBacked, Backs
<1>5. ASSUME \A d \in Device :
               row'[d] # Rest(d) => \/ row'[d] = row[d]
                                    \/ \E i \in executed' : Backs(i, d)'
      PROVE  \A d \in Device : row'[d] # Rest(d) =>
               \E i \in executed' : /\ tasks'[i].device = d
                                    /\ tasks'[i].order = row'[d]
                                    /\ tasks'[i].pc \in {"log", "done"}
  <2>1. SUFFICES ASSUME NEW d \in Device, row'[d] # Rest(d), row'[d] = row[d]
                 PROVE  \E i \in executed' : Backs(i, d)'
    BY <1>5 DEF Backs
  <2>2. PICK i \in executed : Backs(i, d)
    BY <1>4, <2>1
  <2>3. i \in executed' /\ i \in 1..Len(tasks)
    BY <1>1 DEF Kept
  <2> QED
    BY <1>2, <2>1, <2>2, <2>3 DEF Backs
<1>6. ASSUME logs' = logs, executed' = executed,
             \A d \in Device : row'[d] # Rest(d) => \/ row'[d] = row[d]
                                                    \/ \E i \in executed' : Backs(i, d)'
      PROVE  RowsAndLogsBacked'
  BY <1>2, <1>3, <1>5, <1>6 DEF RowsAndLogsBacked
<1>7. ASSUME NEW i \in 1..Len(tasks), ControlDevice(i) PROVE RowsAndLogsBacked'
  <2>1. row' = row /\ logs' = logs /\ tasks[i].pc = "control"
    BY <1>7 DEF ControlDevice
  <2>2. executed' = executed \/ executed' = executed \cup {i}
    BY <1>7 DEF ControlDevice
  <2>3. \A l \in logs' : l.task # i
    BY <1>3, <2>1
  <2> QED
    BY <1>2, <1>3, <1>5, <2>1, <2>2, <2>3 DEF RowsAndLogsBacked
<1>8. ASSUME NEW i \in 1..Len(tasks), UpdateRow(i) PROVE RowsAndLogsBacked'
  <2>1. /\ logs' = logs /\ executed' = executed /\ tasks[i].pc = "update"
        /\ row' = row \/ row' = [row EXCEPT ![tasks[i].device] = tasks[i].order]
    BY <1>8 DEF UpdateRow
  <2>2. i \in executed' /\ tasks'[i].pc = "log"
    BY <1>8, <2>1, TaskMoves DEF TaskShape, TaskStep
  <2>3. \A d \in Device : row'[d] = row[d] \/ (row'[d] = tasks[i].order /\ d = tasks[i].device)
    BY <1>1, <2>1
  <2> QED
    BY <1>2, <1>6, <2>1, <2>2, <2>3 DEF Backs
<1>9. ASSUME NEW i \in 1..Len(tasks), LogControl(i) PROVE RowsAndLogsBacked'
  <2>1. /\ row' = row /\ executed' = executed
        /\ logs' \subseteq logs \cup {[task |-> i, success |-> tasks[i].success]}
    BY <1>9 DEF LogControl
  <2>2. tasks'[i].pc = "done"
    BY <1>9, TaskMoves DEF TaskStep
  <2>3. tasks[i].success <=> i \in executed
    BY DEF TaskShape
  <2>4. ASSUME NEW l \in logs'
        PROVE  tasks'[l.task].pc = "done" /\ (l.success <=> l.task \in executed')
    <3>1. CASE l \in logs
      BY <1>2, <1>3, <2>1, <3>1
    <3>2. CASE l = [task |-> i, success |-> tasks[i].success]
      BY <2>1, <2>2, <2>3, <3>2
    <3> QED
      BY <2>1, <3>1, <3>2
  <2> QED
    BY <1>5, <2>1, <2>4 DEF RowsAndLogsBacked
<1>10. ASSUME NEW z, BeginReset(z) PROVE RowsAndLogsBacked'
  BY <1>6, <1>10 DEF BeginReset
<1>11. ASSUME NEW r, ResetStep(r) PROVE RowsAndLogsBacked'
  BY <1>6, <1>11 DEF ResetStep, ResetQuery, ResetControl, ResetForget, ResetLoopEnds
<1>12. CASE AlarmReceiver \/ \E z \in Zone, l \in Level : ReceiveAlarm(z, l)
  BY <1>6, <1>12
  DEF AlarmReceiver, Poll, ReceiveTimeout, SendCommand, Panic, HandleAlarmReturns,
      ReceiveAlarm
<1>13. CASE CommandProcessor
  BY <1>6, <1>13
  DEF CommandProcessor, TakeCommand, MarkControlled, CommandDone, ProcessorExits,
      CanControl
<1>14. CASE Stop \/ (\E d \in Device : CooldownOver(d)) \/ UNCHANGED vars
  BY <1>6, <1>14 DEF Stop, CooldownOver, vars
<1> QED
  BY <1>7, <1>8, <1>9, <1>10, <1>11, <1>12, <1>13, <1>14 DEF Next, TaskStep

-------------------------------------------------------------------------------
(* Resets *)

\* A reset takes the devices it has told off cooldown one after the other, and a
\* command that marks one again makes its zone touched.
LEMMA ResetSweepsStep ==
  ASSUME TypeOK, ResetSweeps, [Next]_vars
  PROVE  ResetSweeps'
<1>1. /\ activeControls \in [Device -> 0..Len(tasks)]
      /\ resets \in Seq(Reset) /\ Len(resets) \in Nat
      /\ untouched \subseteq 1..Len(resets)
  BY LenProperties DEF TypeOK
<1>2. ASSUME \A d \in Device : activeControls'[d] # 0 => activeControls[d] # 0,
             untouched' \subseteq untouched, resets' = resets
      PROVE  ResetSweeps'
  BY <1>2 DEF ResetSweeps
<1>3. CASE MarkControlled
  <2>1. /\ resets' = resets
        /\ untouched' = {r \in untouched : resets[r].zone # ZoneOf[device]}
        /\ \A d \in Device : d # device => activeControls'[d] = activeControls[d]
    BY <1>1, <1>3 DEF MarkControlled
  <2> QED
    BY <2>1 DEF ResetSweeps
<1>4. ASSUME NEW z \in Zone, BeginReset(z) PROVE ResetSweeps'
  <2>1. /\ activeControls' = activeControls
        /\ untouched' = untouched \cup {Len(resets')}
    BY <1>4 DEF BeginReset
  <2>2. /\ resets'[Len(resets')] = [zone |-> z, table |-> "valves", left |-> {},
                                    device |-> NoDevice, pc |-> "query"]
        /\ \A r \in 1..Len(resets) : resets'[r] = resets[r]
    BY <1>4, ResetBegins
  <2>3. Device \subseteq ToForget(resets'[Len(resets')])
    BY <2>2 DEF ToForget
  <2> QED
    BY <1>1, <2>1, <2>2, <2>3 DEF ResetSweeps
<1>5. ASSUME NEW r \in 1..Len(resets), ResetStep(r) PROVE ResetSweeps'
  <2> DEFINE c == resets[r]
  <2>1. /\ \A q \in 1..Len(resets) : q # r => resets'[q] = resets[q]
        /\ c \in Reset /\ resets'[r].zone = c.zone
    BY <1>5, ResetMoves
  <2>2. /\ (c.pc = "forget") = (c.device \in Device)
        /\ c.pc = "query" => c.left = {}
        /\ NoDevice \notin Device
    <3>1. \A q \in 1..Len(resets) :
            /\ resets[q].pc = "forget" <=> resets[q].device \in Device
            /\ resets[q].pc \in {"query", "done"} => resets[q].left = {}
            /\ resets[q].pc = "done" => resets[q].table = "fans"
      BY DEF TypeOK
    <3>2. NoDevice \notin Device
      BY DeviceAssumption DEF Device
    <3> QED
      BY <3>1, <3>2
  <2>3. ASSUME untouched' \subseteq untouched,
               \A d \in Device : activeControls'[d] # 0 => activeControls[d] # 0,
               r \in untouched' => \A d \in Device :
                 ZoneOf[d] = c.zone /\ activeControls'[d] # 0 /\ d \in ToForget(c)
                   => d \in ToForget(resets'[r])
        PROVE  ResetSweeps'
    <3>1. ASSUME NEW q \in untouched', NEW d \in Device, ZoneOf[d] = resets'[q].zone,
                 activeControls'[d] # 0
          PROVE  d \in ToForget(resets'[q])
      <4>1. q \in 1..Len(resets)
        BY <1>1, <2>3, <3>1
      <4>2. ZoneOf[d] = resets[q].zone
        BY <2>1, <3>1, <4>1
      <4>3. d \in ToForget(resets[q])
        BY <2>3, <3>1, <4>2 DEF ResetSweeps
      <4> QED
        BY <2>1, <2>3, <3>1, <4>1, <4>2, <4>3
    <3> QED
      BY <3>1 DEF ResetSweeps
  <2>4. CASE ResetQuery(r)
    <3>1. activeControls' = activeControls /\ c.pc = "query"
      BY <2>4 DEF ResetQuery
    <3>2. CASE resets'[r] = NotFound(c) /\ untouched' = untouched \ {r}
      BY <2>3, <3>1, <3>2
    <3>3. CASE resets'[r] = Found(c) /\ untouched' = untouched
      <4>1. ASSUME NEW d \in Device, ZoneOf[d] = c.zone, d \in ToForget(c)
            PROVE  d \in ToForget(Found(c))
        <5>1. c.left = {} /\ d # c.device
          BY <2>2, <3>1
        <5>2. CASE c.table = "valves"
          BY <2>1, <4>1, <5>2 DEF ToForget, Found, Reset, InZone, Device
        <5>3. CASE c.table # "valves"
          BY <2>1, <3>1, <4>1, <5>1, <5>3 DEF ToForget, Found, Reset, InZone
        <5> QED
          BY <5>2, <5>3
      <4> QED
        BY <2>3, <3>1, <3>3, <4>1
    <3> QED
      BY <1>5, <2>4, <3>2, <3>3, ResetMoves
  <2>5. ASSUME NEW e \in Device, ResetControl(r, e) PROVE ResetSweeps'
    <3>1. activeControls' = activeControls /\ untouched' = untouched /\ c.pc = "control"
      BY <2>5 DEF ResetControl
    <3>2. resets'[r] = Told(c, e)
      BY <1>5, <2>5, ResetMoves
    <3>3. \A d \in Device : d \in ToForget(c) => d \in ToForget(Told(c, e))
      BY <2>1, <2>2, <3>1 DEF ToForget, Told, Reset
    <3> QED
      BY <2>3, <3>1, <3>2, <3>3
  <2>6. CASE ResetForget(r)
    <3>1. /\ untouched' = untouched /\ c.pc = "forget"
          /\ activeControls' = [activeControls EXCEPT ![c.device] = 0]
      BY <2>6 DEF ResetForget
    <3>2. resets'[r] = Forgotten(c)
      BY <1>5, <2>6, ResetMoves
    <3>3. \A d \in Device : activeControls'[d] # 0 =>
            d # c.device /\ activeControls[d] # 0
      BY <1>1, <3>1
    <3>4. \A d \in Device : d # c.device /\ d \in ToForget(c) => d \in ToForget(Forgotten(c))
      BY <2>1, <3>1 DEF ToForget, Forgotten, Reset
    <3> QED
      BY <2>3, <3>1, <3>2, <3>3, <3>4
  <2>7. CASE ResetLoopEnds(r)
    <3>1. /\ activeControls' = activeControls /\ untouched' = untouched
          /\ c.pc = "control" /\ c.left = {}
      BY <2>7 DEF ResetLoopEnds
    <3>2. CASE c.table = "valves"
      <4>1. resets'[r] = NextQuery(c)
        BY <1>5, <2>7, <3>2, ResetMoves
      <4>2. \A d \in Device : d \in ToForget(c) => d \in ToForget(NextQuery(c))
        BY <2>1, <2>2, <3>1, <3>2 DEF ToForget, NextQuery, Reset
      <4> QED
        BY <2>3, <3>1, <4>1, <4>2
    <3>3. CASE c.table # "valves"
      <4>1. resets'[r] = Returned(c)
        BY <1>5, <2>7, <3>3, ResetMoves
      <4>2. \A d \in Device : d \in ToForget(c) => d \in ToForget(Returned(c))
        BY <2>1, <2>2, <3>1, <3>3 DEF ToForget, Returned, Reset
      <4> QED
        BY <2>3, <3>1, <4>1, <4>2
    <3> QED
      BY <3>2, <3>3
  <2> QED
    BY <1>5, <2>4, <2>5, <2>6, <2>7 DEF ResetStep
<1>6. ASSUME NEW e \in Device, CooldownOver(e) PROVE ResetSweeps'
  BY <1>1, <1>2, <1>6 DEF CooldownOver, resetVars
<1>7. CASE AlarmReceiver \/ \E z \in Zone, l \in Level : ReceiveAlarm(z, l)
  BY <1>2, <1>7
  DEF AlarmReceiver, Poll, ReceiveTimeout, SendCommand, Panic, HandleAlarmReturns,
      ReceiveAlarm, resetVars
<1>8. CASE \/ TakeCommand \/ CommandDone \/ ProcessorExits
           \/ \E d \in Device : CanControl(d)
  BY <1>2, <1>8 DEF TakeCommand, CommandDone, ProcessorExits, CanControl, resetVars
<1>9. ASSUME NEW i, TaskStep(i) PROVE ResetSweeps'
  BY <1>2, <1>9 DEF TaskStep, ControlDevice, UpdateRow, LogControl, resetVars
<1>10. CASE Stop \/ UNCHANGED vars
  BY <1>2, <1>10 DEF Stop, vars, resetVars
<1> QED
  BY <1>3, <1>4, <1>5, <1>6, <1>7, <1>8, <1>9, <1>10
  DEF Next, CommandProcessor

\* A reset that has ended has nothing before it.
LEMMA SweptZone ==
  ASSUME TypeOK, ResetSweeps
  PROVE  ResetFreesZone
<1>1. SUFFICES ASSUME NEW r \in untouched, resets[r].pc = "done",
                      NEW d \in InZone(Device, resets[r].zone)
               PROVE  activeControls[d] = 0
  BY DEF ResetFreesZone
<1>2. d \in Device /\ ZoneOf[d] = resets[r].zone
  BY DEF InZone
<1>3. r \in 1..Len(resets)
  BY DEF TypeOK
<1>4. /\ resets[r].left = {} /\ resets[r].device \notin Device
      /\ resets[r].table = "fans"
  BY <1>1, <1>3 DEF TypeOK
<1>5. d \notin ToForget(resets[r])
  BY <1>1, <1>2, <1>4 DEF ToForget
<1> QED
  BY <1>1, <1>2, <1>5 DEF ResetSweeps

-------------------------------------------------------------------------------
(* The theorems *)

\* The invariant that links queue, job, cooldown, tasks, rows and resets holds in
\* every reachable state.
THEOREM IndInvCorrect == Spec => []IndInv
<1>1. ASSUME Init PROVE IndInv
  <2>1. TypeOK
    BY <1>1, TypeInit
  <2>2. CommandsInOrder
    <3>1. \A S : <<>> \o <<>> = <<>>
      BY EmptySeq, ConcatEmptySeq
    <3> QED
      BY <1>1, <3>1 DEF Init, CommandsInOrder
  <2>3. CommandsKnown /\ ZoneAnswered /\ JobAnswered
    BY <1>1 DEF Init, CommandsKnown, Known, ZoneAnswered, JobAnswered
  <2>4. TaskShape /\ RowsAndLogsBacked /\ ResetSweeps
    BY <1>1 DEF Init, TaskShape, RowsAndLogsBacked, ResetSweeps
  <2> QED
    BY <2>1, <2>2, <2>3, <2>4 DEF IndInv
<1>2. ASSUME IndInv, [Next]_vars PROVE IndInv'
  <2>1. Kept /\ TypeOK'
    BY <1>2, KeptByStep, TypeStep DEF IndInv
  <2>2. CommandsInOrder' /\ CommandsKnown'
    BY <1>2, <2>1, OrderStep, CommandsKnownStep DEF IndInv
  <2>3. ZoneAnswered' /\ JobAnswered'
    <3>1. HandledAnswered /\ CooldownInForce
      BY <1>2 DEF IndInv, ZoneAnswered, HandledAnswered, CooldownInForce
    <3>2. HandledAnswered' /\ CooldownInForce' /\ JobAnswered'
      BY <1>2, <2>1, <3>1, HandledStep, CooldownStep, JobStep DEF IndInv
    <3> QED
      BY <3>2 DEF ZoneAnswered, HandledAnswered, CooldownInForce
  <2>4. TaskShape' /\ RowsAndLogsBacked' /\ ResetSweeps'
    BY <1>2, <2>1, TaskShapeStep, RowsStep, ResetSweepsStep DEF IndInv
  <2> QED
    BY <2>1, <2>2, <2>3, <2>4 DEF IndInv
<1> QED
  BY <1>1, <1>2, PTL DEF Spec

\* Every command of the alarms received is processed once and in their order
\* (handleAlarm, commandChan, commandProcessor).
THEOREM CommandsInOrderCorrect == Spec => []CommandsInOrder
<1>1. IndInv => CommandsInOrder
  BY DEF IndInv
<1> QED
  BY <1>1, IndInvCorrect, PTL

\* However commands, goroutines, resets, expired cooldowns and failures interleave,
\* a processed command has left no device of its zone without an answer, and no
\* device is on cooldown without the order that put it there (processCommand,
\* canControl, ResetZone).
THEOREM ZoneAnsweredCorrect == Spec => []ZoneAnswered
<1>1. IndInv => ZoneAnswered
  BY DEF IndInv
<1> QED
  BY <1>1, IndInvCorrect, PTL

\* However statements and orders fail, the tables show no order that the broker has
\* not accepted, and the logs tell truly whether it has (closeZoneValves,
\* startZoneFans, ResetZone).
THEOREM RowsAndLogsBackedCorrect == Spec => []RowsAndLogsBacked
<1>1. IndInv => RowsAndLogsBacked
  BY DEF IndInv
<1> QED
  BY <1>1, IndInvCorrect, PTL

\* A reset that no command has run into leaves its zone without a cooldown, however
\* many other resets run beside it (ResetZone, markControlled).
THEOREM ResetFreesZoneCorrect == Spec => []ResetFreesZone
<1>1. IndInv => ResetFreesZone
  BY SweptZone DEF IndInv
<1> QED
  BY <1>1, IndInvCorrect, PTL
===============================================================================
