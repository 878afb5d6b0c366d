--------------------------- MODULE LegacyPath_proofs ---------------------------
(***************************************************************************)
(* Proofs about LegacyPath for any devices, zones, readings and failures.  *)
(***************************************************************************)
EXTENDS LegacyPath, SequenceTheorems, TLAPS

\* The alarm of a check is its own: same device, and the level it was created for.
ChecksOwnAlarms ==
  \A c \in DOMAIN checks :
    LET a == checks[c].alarm IN
    /\ a # 0 => alarms[a].device = checks[c].device
    /\ a # 0 /\ checks[c].level # 0 => alarms[a].level = checks[c].level

\* The open alarm of a device is one of its own.
OpenIsOwn ==
  \A d \in Device : activeAlarms[d] # 0 => alarms[activeAlarms[d]].device = d

\* No check of its device was started after c.
IsLast(c) ==
  \A x \in DOMAIN checks : checks[x].device = checks[c].device => x <= c

\* The checks of a device have a last one.
LastExists ==
  \A c \in DOMAIN checks : \E e \in DOMAIN checks :
    checks[e].device = checks[c].device /\ IsLast(e)

\* While operations on a device do not overlap, only its last check runs.
OnlyLastRuns ==
  \A c \in DOMAIN checks :
    checks[c].device \notin overlapped /\ checks[c].pc # "done" => IsLast(c)

\* The last check has settled the level of its device, or will.
LastSettles ==
  \A d \in Device \ overlapped, c \in DOMAIN checks :
    checks[c].device = d /\ IsLast(c) =>
      /\ checks[c].pc \notin {"look", "create", "resolve"} => LevelOf(d) = checks[c].level
      /\ checks[c].pc = "create" => Engine!Changes(d, checks[c].level)

\* A check runs that works on alarm a at p.
WorkedOn(a, p) == \E c \in DOMAIN checks : checks[c].alarm = a /\ checks[c].pc = p

\* The rows say of an alarm what memory says, or a check is about to make them.
RowsSettle ==
  \A a \in DOMAIN alarms \ failed :
    alarms[a].device \notin overlapped =>
      /\ a \in rows \/ WorkedOn(a, "insert")
      /\ a \in resolvedRows => a \in resolved
      /\ a \in resolved => a \in resolvedRows \/ WorkedOn(a, "update")
      /\ a \in ackRows <=> a \in acknowledged

\* An alarm is triggered only after the attempt to insert it, and its row is updated
\* only after it is resolved in memory.
StatementsFollow ==
  \A c \in DOMAIN checks :
    /\ checks[c].pc = "trigger" => checks[c].alarm \in rows \cup failed
    /\ checks[c].pc = "update" => checks[c].alarm \in resolved

\* An entry names an alarm for which its device was ordered.
CooldownOrdered ==
  \A d \in Valve \cup Fan :
    activeControls[d] # 0 =>
      activeControls[d] \in DOMAIN alarms /\ <<activeControls[d], d>> \in ordered

\* The order behind an entry is in force.
CooldownInForce == \A d \in Valve \cup Fan : activeControls[d] # 0 => InForce(d)

\* A walk over the valves has only valves, and a fan is ordered to run.
KindsApart ==
  /\ \A w \in walks :
       w.kind = "valve" => w.todo \cup {w.device} \subseteq Valve \cup {NoDevice}
  /\ \A o \in orders : o.device \in Fan => o.speed # 0

\* The devices D are answered for alarm a, or a walk of kind k has the others before it.
BeingAnswered(a, k, D) ==
  \/ \A z \in D : Answered(a, z)
  \/ \E w \in walks : /\ w.alarm = a /\ w.kind = k
                      /\ \A z \in D : Answered(a, z) \/ z \in w.todo \cup {w.device}

\* A device not answered for an alarm lies before a walk.
WalksAnswer ==
  \A c \in DOMAIN checks, k \in Control!Kind :
    LET a == checks[c].alarm IN
    /\ checks[c].pc = "done" /\ checks[c].level >= 2 /\ a # 0
    /\ ~crashed /\ <<k, a>> \notin unanswered
    => BeingAnswered(a, k, Control!DevicesOf(k, FireZone[checks[c].device]))

\* The inductive invariant.
IndInv ==
  /\ TypeOK
  /\ ChecksOwnAlarms /\ OpenIsOwn
  /\ LastExists /\ OnlyLastRuns /\ LastSettles /\ RowsSettle
  /\ StatementsFollow /\ OrdersNameStoredAlarms
  /\ KindsApart /\ CooldownOrdered /\ CooldownInForce /\ WalksAnswer
  /\ RowsBacked

-------------------------------------------------------------------------------
(* What the steps do to the sequences *)

\* Checks and alarms are numbered from 1.
LEMMA Numbered ==
  ASSUME EngineTypeOK
  PROVE  /\ DOMAIN checks = 1..Len(checks) /\ Len(checks) \in Nat
         /\ DOMAIN alarms = 1..Len(alarms) /\ Len(alarms) \in Nat
         /\ \A c \in DOMAIN checks : /\ checks[c] \in CheckRecord
                                     /\ checks[c].device \in Device
                                     /\ checks[c].level \in 0..3
                                     /\ checks[c].alarm \in 0..Len(alarms)
         /\ \A a \in DOMAIN alarms : /\ alarms[a] \in AlarmRecord
                                     /\ alarms[a].device \in Device
                                     /\ alarms[a].level \in 1..3
<1>1. checks \in Seq(CheckRecord) /\ alarms \in Seq(AlarmRecord)
  BY DEF EngineTypeOK
<1>2. /\ DOMAIN checks = 1..Len(checks) /\ Len(checks) \in Nat
      /\ DOMAIN alarms = 1..Len(alarms) /\ Len(alarms) \in Nat
  BY <1>1, LenProperties
<1>3. \A c \in DOMAIN checks : checks[c] \in CheckRecord
  BY <1>1, <1>2, ElementOfSeq
<1>4. \A a \in DOMAIN alarms : alarms[a] \in AlarmRecord
  BY <1>1, <1>2, ElementOfSeq
<1>5. \A c \in DOMAIN checks : checks[c].alarm \in 0..Len(alarms)
  BY <1>2 DEF EngineTypeOK
<1> QED
  BY <1>2, <1>3, <1>4, <1>5 DEF CheckRecord, AlarmRecord

\* Check c moves on to p with alarm a, and no other does.
Moved(c, p, a) ==
  /\ checks' \in Seq(CheckRecord)
  /\ DOMAIN checks' = DOMAIN checks /\ Len(checks') = Len(checks)
  /\ \A e \in DOMAIN checks :
       /\ checks'[e].device = checks[e].device
       /\ checks'[e].level = checks[e].level
       /\ checks'[e].pc = IF e = c THEN p ELSE checks[e].pc
       /\ checks'[e].alarm = IF e = c THEN a ELSE checks[e].alarm

CheckPc == {"look", "create", "insert", "trigger", "resolve", "update", "done"}

LEMMA CheckMoves ==
  ASSUME EngineTypeOK, NEW c \in DOMAIN checks, NEW p \in CheckPc
  PROVE  /\ Engine!Goto(c, p) => Moved(c, p, checks[c].alarm)
         /\ \A a \in Nat : checks' = [checks EXCEPT ![c].pc = p, ![c].alarm = a]
                             => Moved(c, p, a)
<1>1. /\ checks \in Seq(CheckRecord) /\ c \in 1..Len(checks) /\ checks[c] \in CheckRecord
      /\ DOMAIN checks = 1..Len(checks)
  BY Numbered DEF EngineTypeOK
<1>2. ASSUME NEW a \in Nat, checks' = [checks EXCEPT ![c] = [@ EXCEPT !.pc = p, !.alarm = a]]
      PROVE  Moved(c, p, a)
  <2> DEFINE t == [checks[c] EXCEPT !.pc = p, !.alarm = a]
  <2>1. /\ t \in CheckRecord /\ t.pc = p /\ t.alarm = a
        /\ t.device = checks[c].device /\ t.level = checks[c].level
    BY <1>1 DEF CheckRecord, CheckPc
  <2>2. checks' = [checks EXCEPT ![c] = t]
    BY <1>2
  <2> HIDE DEF t
  <2>3. checks' \in Seq(CheckRecord) /\ Len(checks') = Len(checks)
    BY <1>1, <2>1, <2>2, ExceptSeq
  <2>4. \A e \in DOMAIN checks : checks'[e] = IF e = c THEN t ELSE checks[e]
    BY <1>1, <2>1, <2>2, ExceptSeq
  <2> QED
    BY <1>1, <2>1, <2>2, <2>3, <2>4 DEF Moved
<1>3. ASSUME NEW a \in Nat, checks' = [checks EXCEPT ![c].pc = p, ![c].alarm = a]
      PROVE  Moved(c, p, a)
  BY <1>1, <1>2, <1>3 DEF CheckRecord
<1>4. ASSUME Engine!Goto(c, p) PROVE Moved(c, p, checks[c].alarm)
  <2>1. checks[c].alarm \in Nat
    BY <1>1 DEF CheckRecord
  <2>2. [checks[c] EXCEPT !.pc = p]
          = [checks[c] EXCEPT !.pc = p, !.alarm = checks[c].alarm]
    BY <1>1 DEF CheckRecord
  <2> QED
    BY <1>2, <1>4, <2>1, <2>2 DEF Engine!Goto
<1> QED
  BY <1>3, <1>4

\* A new check comes last.
LEMMA CheckStarts ==
  ASSUME EngineTypeOK, NEW d \in Device, NEW l \in ReadingLevel, Engine!GoCheckAlarm(d, l)
  PROVE  LET n == Len(checks) + 1 IN
         /\ checks' \in Seq(CheckRecord)
         /\ DOMAIN checks' = DOMAIN checks \cup {n} /\ n \notin DOMAIN checks
         /\ \A c \in DOMAIN checks : checks'[c] = checks[c] /\ c <= n
         /\ checks'[n].device = d /\ checks'[n].level = l /\ checks'[n].alarm = 0
         /\ checks'[n].pc = IF l = 0 THEN "resolve" ELSE "look"
<1> DEFINE t == [device |-> d, level |-> l, alarm |-> 0,
                 pc |-> IF l = 0 THEN "resolve" ELSE "look"]
<1>1. checks' = Append(checks, t)
  BY DEF Engine!GoCheckAlarm
<1>2. /\ t \in CheckRecord /\ t.device = d /\ t.level = l /\ t.alarm = 0
      /\ t.pc = IF l = 0 THEN "resolve" ELSE "look"
  BY EngineAssumption DEF CheckRecord
<1> HIDE DEF t
<1>3. /\ checks' \in Seq(CheckRecord) /\ Len(checks') = Len(checks) + 1
      /\ \A c \in 1..Len(checks) : checks'[c] = checks[c]
      /\ checks'[Len(checks) + 1] = t
  BY <1>1, <1>2, AppendProperties DEF EngineTypeOK
<1>4. DOMAIN checks' = 1..Len(checks')
  BY <1>3, LenProperties
<1> QED
  BY <1>2, <1>3, <1>4, Numbered

\* A new alarm comes last.
LEMMA AlarmStarts ==
  ASSUME EngineTypeOK, NEW c \in DOMAIN checks, Engine!CreateAlarm(c)
  PROVE  LET n == Len(alarms) + 1 IN
         /\ alarms' \in Seq(AlarmRecord) /\ Len(alarms') = n
         /\ DOMAIN alarms' = DOMAIN alarms \cup {n} /\ n \notin DOMAIN alarms
         /\ \A a \in DOMAIN alarms : alarms'[a] = alarms[a]
         /\ alarms'[n].device = checks[c].device
         /\ alarms'[n].level = checks[c].level /\ checks[c].level \in 1..3
         /\ Moved(c, "insert", n)
<1>0. checks[c].level # 0
  BY DEF EngineTypeOK, Engine!CreateAlarm
<1>1. /\ checks[c].device \in Device /\ checks[c].level \in 1..3
      /\ DOMAIN alarms = 1..Len(alarms) /\ Len(alarms) \in Nat
      /\ alarms \in Seq(AlarmRecord)
  BY <1>0, Numbered DEF EngineTypeOK
<1> DEFINE t == [device |-> checks[c].device, level |-> checks[c].level]
<1>2. t \in AlarmRecord /\ alarms' = Append(alarms, t)
  BY <1>1 DEF AlarmRecord, Engine!CreateAlarm
<1>3. t.device = checks[c].device /\ t.level = checks[c].level
  OBVIOUS
<1> HIDE DEF t
<1>4. /\ alarms' \in Seq(AlarmRecord) /\ Len(alarms') = Len(alarms) + 1
      /\ \A a \in 1..Len(alarms) : alarms'[a] = alarms[a]
      /\ alarms'[Len(alarms) + 1] = t
  BY <1>1, <1>2, AppendProperties
<1>5. DOMAIN alarms' = 1..Len(alarms')
  BY <1>4, LenProperties
<1>6. Moved(c, "insert", Len(alarms) + 1)
  <2>1. /\ checks' = [checks EXCEPT ![c].pc = "insert", ![c].alarm = Len(alarms) + 1]
        /\ Len(alarms) + 1 \in Nat /\ "insert" \in CheckPc
    BY <1>1 DEF Engine!CreateAlarm, CheckPc
  <2> QED
    BY <2>1, CheckMoves
<1> QED
  BY <1>1, <1>3, <1>4, <1>5, <1>6

-------------------------------------------------------------------------------
(* Types *)

\* A step of a check keeps the types of the engine's variables.
LEMMA MovedType ==
  ASSUME EngineTypeOK, NEW c \in DOMAIN checks, NEW p \in CheckPc, NEW a,
         Moved(c, p, a),
         alarms' \in Seq(AlarmRecord), Len(alarms) <= Len(alarms'),
         IF p \in {"look", "create", "resolve"} THEN a = 0
         ELSE a \in 0..Len(alarms') /\ (p # "done" => a # 0),
         p # "done" => (p \in {"resolve", "update"} <=> checks[c].level = 0),
         activeAlarms' \in [Device -> 0..Len(alarms')],
         acknowledged' \cup resolved' \cup rows' \cup ackRows' \cup resolvedRows'
           \cup failed' \subseteq 1..Len(alarms'),
         overlapped' \subseteq Device
  PROVE  EngineTypeOK'
<1>1. Len(alarms) \in Nat /\ Len(alarms') \in Nat
  BY Numbered, LenProperties
<1>2. ASSUME NEW e \in DOMAIN checks
      PROVE  IF checks'[e].pc \in {"look", "create", "resolve"} THEN checks'[e].alarm = 0
             ELSE /\ checks'[e].alarm \in 0..Len(alarms')
                  /\ checks'[e].pc # "done" => checks'[e].alarm # 0
  <2>1. CASE e = c
    BY <2>1 DEF Moved
  <2>2. CASE e # c
    <3>1. IF checks[e].pc \in {"look", "create", "resolve"} THEN checks[e].alarm = 0
          ELSE /\ checks[e].alarm \in 0..Len(alarms)
               /\ checks[e].pc # "done" => checks[e].alarm # 0
      BY DEF EngineTypeOK
    <3>2. checks'[e].pc = checks[e].pc /\ checks'[e].alarm = checks[e].alarm
      BY <2>2 DEF Moved
    <3> QED
      BY <1>1, <3>1, <3>2
  <2> QED
    BY <2>1, <2>2
<1>3. \A e \in DOMAIN checks :
        checks'[e].pc # "done" =>
          (checks'[e].pc \in {"resolve", "update"} <=> checks'[e].level = 0)
  BY DEF Moved, EngineTypeOK
<1> QED
  BY <1>2, <1>3 DEF Moved, EngineTypeOK

\* Every step of the engine keeps the types of its variables.
LEMMA EngineTypeStep ==
  ASSUME EngineTypeOK, [Next]_vars
  PROVE  EngineTypeOK'
<1> DEFINE Ids == 1..Len(alarms)
<1>1. /\ DOMAIN checks = 1..Len(checks) /\ Len(checks) \in Nat
      /\ Len(alarms) \in Nat /\ alarms \in Seq(AlarmRecord)
      /\ activeAlarms \in [Device -> 0..Len(alarms)]
      /\ acknowledged \subseteq Ids /\ resolved \subseteq Ids /\ rows \subseteq Ids
      /\ ackRows \subseteq Ids /\ resolvedRows \subseteq Ids /\ failed \subseteq Ids
      /\ overlapped \subseteq Device
  BY Numbered DEF EngineTypeOK
<1>2. ASSUME NEW d \in Device, NEW l \in ReadingLevel, Engine!GoCheckAlarm(d, l)
      PROVE  EngineTypeOK'
  <2>1. UNCHANGED <<alarms, activeAlarms, acknowledged, resolved, rows, ackRows,
                    resolvedRows, failed>> /\ overlapped' \subseteq Device
    BY <1>1, <1>2 DEF Engine!GoCheckAlarm
  <2>2. /\ checks' \in Seq(CheckRecord)
        /\ DOMAIN checks' = DOMAIN checks \cup {Len(checks) + 1}
        /\ \A c \in DOMAIN checks : checks'[c] = checks[c]
        /\ checks'[Len(checks) + 1].level = l /\ checks'[Len(checks) + 1].alarm = 0
        /\ checks'[Len(checks) + 1].pc = IF l = 0 THEN "resolve" ELSE "look"
    BY <1>2, CheckStarts
  <2>3. \A c \in DOMAIN checks' :
          IF checks'[c].pc \in {"look", "create", "resolve"} THEN checks'[c].alarm = 0
          ELSE /\ checks'[c].alarm \in 0..Len(alarms)
               /\ checks'[c].pc # "done" => checks'[c].alarm # 0
    BY <2>2 DEF EngineTypeOK
  <2>4. \A c \in DOMAIN checks' :
          checks'[c].pc # "done" =>
            (checks'[c].pc \in {"resolve", "update"} <=> checks'[c].level = 0)
    BY <2>2 DEF EngineTypeOK
  <2> QED
    BY <1>1, <2>1, <2>2, <2>3, <2>4 DEF EngineTypeOK
<1>3. ASSUME NEW d \in Device, Engine!AcknowledgeAlarm(d) PROVE EngineTypeOK'
  <2>1. activeAlarms[d] \in Ids
    BY <1>1, <1>3 DEF Engine!AcknowledgeAlarm
  <2>2. /\ acknowledged' \subseteq Ids /\ ackRows' \subseteq Ids /\ failed' \subseteq Ids
        /\ overlapped' \subseteq Device
    BY <1>1, <1>3, <2>1 DEF Engine!AcknowledgeAlarm, Engine!Note
  <2> QED
    BY <1>1, <1>3, <2>2 DEF EngineTypeOK, Engine!AcknowledgeAlarm
<1>4. ASSUME NEW c \in DOMAIN checks, Engine!LookUp(c) PROVE EngineTypeOK'
  <2>1. PICK p \in {"create", "done"} : Engine!Goto(c, p)
    BY <1>4 DEF Engine!LookUp
  <2>2. checks[c].alarm = 0 /\ checks[c].level # 0 /\ p \in CheckPc
    BY <1>4 DEF Engine!LookUp, EngineTypeOK, CheckPc
  <2>3. Moved(c, p, 0)
    BY <2>1, <2>2, CheckMoves
  <2> QED
    BY <1>1, <1>4, <2>2, <2>3, MovedType DEF Engine!LookUp
<1>5. ASSUME NEW c \in DOMAIN checks, Engine!CreateAlarm(c) PROVE EngineTypeOK'
  <2>1. /\ alarms' \in Seq(AlarmRecord) /\ Len(alarms') = Len(alarms) + 1
        /\ Moved(c, "insert", Len(alarms) + 1) /\ checks[c].level # 0
    BY <1>5, AlarmStarts
  <2>2. activeAlarms' \in [Device -> 0..Len(alarms')]
    <3>1. activeAlarms' = [activeAlarms EXCEPT ![checks[c].device] = Len(alarms) + 1]
      BY <1>5 DEF Engine!CreateAlarm
    <3>2. \A x \in 0..Len(alarms) : x \in 0..Len(alarms')
      BY <1>1, <2>1
    <3>3. Len(alarms) + 1 \in 0..Len(alarms')
      BY <1>1, <2>1
    <3> QED
      BY <1>1, <3>1, <3>2, <3>3
  <2>3. UNCHANGED <<acknowledged, resolved, rows, ackRows, resolvedRows, failed, overlapped>>
    BY <1>5 DEF Engine!CreateAlarm
  <2>4. Ids \subseteq 1..Len(alarms') /\ "insert" \in CheckPc
    BY <1>1, <2>1 DEF CheckPc
  <2> QED
    BY <1>1, <2>1, <2>2, <2>3, <2>4, MovedType
<1>6. ASSUME NEW c \in DOMAIN checks, Engine!SaveAlarm(c) PROVE EngineTypeOK'
  <2>1. /\ checks[c].alarm \in Ids /\ checks[c].level # 0 /\ "trigger" \in CheckPc
    BY <1>1, <1>6 DEF Engine!SaveAlarm, EngineTypeOK, CheckPc
  <2>2. Moved(c, "trigger", checks[c].alarm)
    BY <1>6, <2>1, CheckMoves DEF Engine!SaveAlarm
  <2>3. rows' \subseteq Ids /\ failed' \subseteq Ids
    BY <1>1, <1>6, <2>1 DEF Engine!SaveAlarm, Engine!Note
  <2>4. UNCHANGED <<alarms, activeAlarms, acknowledged, resolved, ackRows, resolvedRows,
                    overlapped>>
    BY <1>6 DEF Engine!SaveAlarm
  <2>5. checks[c].alarm \in 0..Len(alarms) /\ checks[c].alarm # 0
    BY <1>1, <2>1
  <2> QED
    BY <1>1, <2>1, <2>2, <2>3, <2>4, <2>5, MovedType
<1>7. ASSUME NEW c \in DOMAIN checks, Engine!ResolveAlarm(c) PROVE EngineTypeOK'
  <2> DEFINE a == activeAlarms[checks[c].device]
             p == IF a = 0 THEN "done" ELSE "update"
  <2>1. /\ checks[c].device \in Device /\ a \in 0..Len(alarms) /\ p \in CheckPc
        /\ checks[c].level = 0
    BY <1>1, <1>7, Numbered DEF CheckPc, Engine!ResolveAlarm, EngineTypeOK
  <2>2. checks' = [checks EXCEPT ![c].pc = p, ![c].alarm = a] /\ a \in Nat
    BY <1>1, <1>7, <2>1 DEF Engine!ResolveAlarm
  <2>3. Moved(c, p, a)
    BY <2>1, <2>2, CheckMoves
  <2>4. activeAlarms' \in [Device -> 0..Len(alarms)] /\ resolved' \subseteq Ids
    BY <1>1, <1>7, <2>1 DEF Engine!ResolveAlarm
  <2>5. UNCHANGED <<alarms, acknowledged, rows, ackRows, resolvedRows, failed, overlapped>>
    BY <1>7 DEF Engine!ResolveAlarm
  <2>6. a \in 0..Len(alarms') /\ p \notin {"look", "create", "resolve"} /\ (p # "done" => a # 0)
    BY <2>1, <2>5
  <2>7. p # "done" => (p \in {"resolve", "update"} <=> checks[c].level = 0)
    BY <2>1
  <2> HIDE DEF a, p
  <2> QED
    BY <1>1, <2>1, <2>3, <2>4, <2>5, <2>6, <2>7, MovedType
<1>8. ASSUME NEW c \in DOMAIN checks, Engine!UpdateResolved(c) PROVE EngineTypeOK'
  <2>1. /\ checks[c].alarm \in Ids /\ "done" \in CheckPc
    BY <1>1, <1>8 DEF Engine!UpdateResolved, EngineTypeOK, CheckPc
  <2>2. Moved(c, "done", checks[c].alarm)
    BY <1>8, <2>1, CheckMoves DEF Engine!UpdateResolved
  <2>3. resolvedRows' \subseteq Ids /\ failed' \subseteq Ids
    BY <1>1, <1>8, <2>1 DEF Engine!UpdateResolved, Engine!Note
  <2>4. UNCHANGED <<alarms, activeAlarms, acknowledged, resolved, rows, ackRows, overlapped>>
    BY <1>8 DEF Engine!UpdateResolved
  <2>5. checks[c].alarm \in 0..Len(alarms')
    BY <1>1, <2>1, <2>4
  <2>6. /\ alarms' \in Seq(AlarmRecord) /\ Len(alarms) <= Len(alarms')
        /\ activeAlarms' \in [Device -> 0..Len(alarms')] /\ overlapped' \subseteq Device
    BY <1>1, <2>4
  <2>7. acknowledged' \cup resolved' \cup rows' \cup ackRows' \cup resolvedRows'
           \cup failed' \subseteq 1..Len(alarms')
    BY <1>1, <2>3, <2>4
  <2> QED
    BY <2>1, <2>2, <2>5, <2>6, <2>7, MovedType
<1>9. ASSUME NEW c \in DOMAIN checks, Engine!TriggerAlarm(c) PROVE EngineTypeOK'
  <2>1. /\ checks[c].alarm \in Ids /\ "done" \in CheckPc
    BY <1>1, <1>9 DEF Engine!TriggerAlarm, EngineTypeOK, CheckPc
  <2>2. Moved(c, "done", checks[c].alarm)
    BY <1>9, <2>1, CheckMoves DEF Engine!TriggerAlarm
  <2> QED
    BY <1>1, <1>9, <2>1, <2>2, MovedType DEF Engine!TriggerAlarm
<1>10. ASSUME UNCHANGED engineVars PROVE EngineTypeOK'
  BY <1>10 DEF EngineTypeOK, engineVars
<1> QED
  BY <1>2, <1>3, <1>4, <1>5, <1>6, <1>7, <1>8, <1>9, <1>10
  DEF Next, EngineStep, Trigger, Engine!CheckStep, vars

\* A walk that goes on keeps the types of the walks.
LEMMA GoOnType ==
  ASSUME walks \subseteq WalkRecord, \A w \in walks : w.pc = "next" <=> w.device = NoDevice,
         NEW w, NEW x \in WalkRecord, x.pc = "next" <=> x.device = NoDevice,
         Control!GoOn(w, x)
  PROVE  walks' \subseteq WalkRecord /\ \A y \in walks' : y.pc = "next" <=> y.device = NoDevice
BY DEF Control!GoOn

\* The walks of an alarm start with devices of their zone.
LEMMA NewWalks ==
  ASSUME NEW a \in Nat, NEW level \in 0..3, NEW zone,
         Control!HandleEmergency(a, level, zone)
  PROVE  \E answered \in SUBSET Control!Kind :
           /\ unanswered' = unanswered \cup {<<k, a>> : k \in Control!Kind \ answered}
           /\ level < 2 => walks' = walks
           /\ level >= 2 =>
                walks' = walks \cup {w \in {Control!Walk(k, zone, a, level) : k \in answered} :
                                       w.todo # {}}
           /\ level >= 2 => \A k \in answered : Control!Walk(k, zone, a, level) \in WalkRecord
<1>1. PICK answered \in SUBSET Control!Kind :
         /\ unanswered' = unanswered \cup {<<k, a>> : k \in Control!Kind \ answered}
         /\ walks' = IF level < 2 THEN walks
                     ELSE walks \cup {w \in {Control!Walk(k, zone, a, level) : k \in answered} :
                                        w.todo # {}}
  BY DEF Control!HandleEmergency
<1>2. ASSUME level >= 2, NEW k \in answered
      PROVE  Control!Walk(k, zone, a, level) \in WalkRecord
  BY <1>2 DEF Control!Walk, WalkRecord, Control!DevicesOf, Control!Kind
<1>3. CASE level < 2
  BY <1>1, <1>3
<1>4. CASE level >= 2
  BY <1>1, <1>2, <1>4
<1> QED
  BY <1>3, <1>4

\* Every step of the control service keeps the types of its variables.
LEMMA ControlTypeStep ==
  ASSUME TypeOK, [Next]_vars
  PROVE  ControlTypeOK'
<1> DEFINE LogRecord == [device : Valve \cup Fan, alarm : Nat, success : BOOLEAN]
<1>1. /\ walks \subseteq WalkRecord
      /\ \A w \in walks : w.pc = "next" <=> w.device = NoDevice
      /\ orders \subseteq OrderRecord
      /\ \A o \in orders : o.pc = "order" => ~o.success
      /\ logs \subseteq LogRecord
      /\ activeControls \in [Valve \cup Fan -> Nat]
      /\ undone \cup unlogged \subseteq Valve \cup Fan
      /\ valveRow \in [Valve -> {"open", "closed"}]
      /\ fanRow \in [Fan -> {0, 75, 100}]
      /\ resets \in Seq([zone : Zone, pc : {"fans", "done"}])
      /\ unanswered \subseteq Control!Kind \X Nat
      /\ crashed \in BOOLEAN
  BY DEF TypeOK, ControlTypeOK
<1>2. ASSUME NEW c \in DOMAIN checks, Trigger(c) PROVE ControlTypeOK'
  <2> DEFINE a == checks[c].alarm
             level == checks[c].level
             zone == FireZone[checks[c].device]
  <2>1. a \in Nat /\ level \in 0..3 /\ Control!HandleEmergency(a, level, zone)
    BY <1>2, Numbered DEF Trigger, TypeOK
  <2>2. PICK answered \in SUBSET Control!Kind :
          /\ unanswered' = unanswered \cup {<<k, a>> : k \in Control!Kind \ answered}
          /\ level < 2 => walks' = walks
          /\ level >= 2 =>
               walks' = walks \cup {w \in {Control!Walk(k, zone, a, level) : k \in answered} :
                                      w.todo # {}}
          /\ level >= 2 => \A k \in answered : Control!Walk(k, zone, a, level) \in WalkRecord
    BY <2>1, NewWalks
  <2>3. \A k : Control!Walk(k, zone, a, level).pc = "next"
               /\ Control!Walk(k, zone, a, level).device = NoDevice
    BY DEF Control!Walk
  <2>4. /\ walks' \subseteq WalkRecord
        /\ \A w \in walks' : w.pc = "next" <=> w.device = NoDevice
    <3>1. CASE level < 2
      BY <1>1, <2>2, <3>1
    <3>2. CASE level >= 2
      BY <1>1, <2>2, <2>3, <3>2
    <3> QED
      BY <2>1, <3>1, <3>2
  <2>5. unanswered' \subseteq Control!Kind \X Nat
    BY <1>1, <2>1, <2>2
  <2>6. UNCHANGED <<activeControls, orders, valveRow, fanRow, logs, resets,
                    undone, unlogged, crashed>>
    BY <2>1 DEF Control!HandleEmergency, Control!historyVars
  <2> QED
    BY <1>1, <2>4, <2>5, <2>6 DEF ControlTypeOK
<1>3. ASSUME NEW w \in walks, Control!LookUp(w) PROVE ControlTypeOK'
  <2>1. w \in WalkRecord /\ w.todo \subseteq Valve \cup Fan /\ w.device = NoDevice
    BY <1>1, <1>3 DEF WalkRecord, Control!LookUp
  <2>2. /\ UNCHANGED <<activeControls, orders, valveRow, fanRow, logs, resets, undone,
                       unanswered, unlogged, crashed>>
        /\ \E d \in w.todo :
             \/ Control!GoOn(w, [w EXCEPT !.todo = @ \ {d}])
             \/ Control!GoOn(w, [w EXCEPT !.pc = "mark", !.device = d, !.todo = @ \ {d}])
    BY <1>3 DEF Control!LookUp
  <2> PICK d \in w.todo :
        \/ Control!GoOn(w, [w EXCEPT !.todo = @ \ {d}])
        \/ Control!GoOn(w, [w EXCEPT !.pc = "mark", !.device = d, !.todo = @ \ {d}])
    BY <2>2
  <2>3. d # NoDevice /\ d \in Valve \cup Fan
    BY <2>1, ControlAssumption
  <2>4. ASSUME NEW x, \/ x = [w EXCEPT !.todo = @ \ {d}]
                      \/ x = [w EXCEPT !.pc = "mark", !.device = d, !.todo = @ \ {d}]
        PROVE  x \in WalkRecord /\ (x.pc = "next" <=> x.device = NoDevice)
    BY <1>3, <2>1, <2>3, <2>4 DEF WalkRecord, Control!LookUp
  <2>5. walks' \subseteq WalkRecord /\ \A y \in walks' : y.pc = "next" <=> y.device = NoDevice
    BY <1>1, <2>2, <2>4, GoOnType
  <2> QED
    BY <1>1, <2>2, <2>5 DEF ControlTypeOK
<1>4. ASSUME NEW w \in walks, Control!MarkAndOrder(w) PROVE ControlTypeOK'
  <2> DEFINE x == [w EXCEPT !.pc = "next", !.device = NoDevice]
             o == [device |-> w.device, alarm |-> w.alarm,
                   speed |-> Control!Speed(w.kind, w.level),
                   pc |-> "order", success |-> FALSE]
  <2>1. w \in WalkRecord /\ w.device \in Valve \cup Fan
    BY <1>1, <1>4 DEF WalkRecord, Control!MarkAndOrder
  <2>2. x \in WalkRecord /\ x.pc = "next" /\ x.device = NoDevice
    BY <2>1 DEF WalkRecord
  <2>3. walks' \subseteq WalkRecord /\ \A y \in walks' : y.pc = "next" <=> y.device = NoDevice
    BY <1>1, <1>4, <2>2, GoOnType DEF Control!MarkAndOrder
  <2>4. Control!Speed(w.kind, w.level) \in {0, 75, 100}
    BY DEF Control!Speed
  <2>5. o \in OrderRecord /\ ~o.success
    BY <2>1, <2>4 DEF OrderRecord, WalkRecord
  <2>6. orders' = orders \cup {o}
    BY <1>4 DEF Control!MarkAndOrder
  <2>7. orders' \subseteq OrderRecord /\ \A y \in orders' : y.pc = "order" => ~y.success
    BY <1>1, <2>5, <2>6
  <2>8. activeControls' \in [Valve \cup Fan -> Nat] /\ undone' \subseteq undone
    BY <1>1, <1>4, <2>1 DEF Control!MarkAndOrder, WalkRecord
  <2>9. UNCHANGED <<valveRow, fanRow, logs, resets, unanswered, unlogged, crashed>>
    BY <1>4 DEF Control!MarkAndOrder
  <2> QED
    BY <1>1, <2>3, <2>7, <2>8, <2>9 DEF ControlTypeOK
<1>5. ASSUME NEW o \in orders, Control!ControlDevice(o) PROVE ControlTypeOK'
  <2>1. o \in OrderRecord
    BY <1>1
  <2>2. PICK accepted \in BOOLEAN :
          orders' = (orders \ {o}) \cup {[o EXCEPT !.pc = "log", !.success = accepted]}
    BY <1>5 DEF Control!ControlDevice, Control!Outcome
  <2>3. [o EXCEPT !.pc = "log", !.success = accepted] \in OrderRecord
    BY <2>1 DEF OrderRecord
  <2>4. [o EXCEPT !.pc = "log", !.success = accepted].pc # "order"
    BY <2>1 DEF OrderRecord
  <2>5. orders' \subseteq OrderRecord /\ \A y \in orders' : y.pc = "order" => ~y.success
    BY <1>1, <2>2, <2>3, <2>4
  <2>6. valveRow' \in [Valve -> {"open", "closed"}]
    BY <1>1, <1>5 DEF Control!ControlDevice
  <2>7. o.speed \in {0, 75, 100}
    BY <2>1 DEF OrderRecord
  <2>8. fanRow' \in [Fan -> {0, 75, 100}]
    BY <1>1, <1>5, <2>7 DEF Control!ControlDevice
  <2>9. undone' \subseteq Valve \cup Fan
    BY <1>1, <1>5, <2>1 DEF Control!ControlDevice, OrderRecord
  <2>10. UNCHANGED <<walks, activeControls, logs, resets, unanswered, unlogged, crashed>>
    BY <1>5 DEF Control!ControlDevice
  <2> QED
    BY <1>1, <2>5, <2>6, <2>8, <2>9, <2>10 DEF ControlTypeOK
<1>6. ASSUME NEW o \in orders, Control!LogControl(o) PROVE ControlTypeOK'
  <2>1. o \in OrderRecord
    BY <1>1
  <2>2. [device |-> o.device, alarm |-> o.alarm, success |-> o.success] \in LogRecord
        /\ o.device \in Valve \cup Fan
    BY <2>1 DEF OrderRecord
  <2>3. logs' \subseteq LogRecord /\ unlogged' \subseteq Valve \cup Fan
    BY <1>1, <1>6, <2>2 DEF Control!LogControl
  <2>4. /\ orders' \subseteq orders
        /\ UNCHANGED <<walks, activeControls, valveRow, fanRow, resets, undone,
                       unanswered, crashed>>
    BY <1>6 DEF Control!LogControl, Control!historyVars
  <2> QED
    BY <1>1, <2>3, <2>4 DEF ControlTypeOK
<1>7. CASE Control!CooldownEnds
  <2>1. activeControls' \in [Valve \cup Fan -> Nat]
    BY <1>1, <1>7 DEF Control!CooldownEnds, Control!Controlled
  <2>2. UNCHANGED <<walks, orders, valveRow, fanRow, logs, resets, undone, unanswered,
                    unlogged, crashed>>
    BY <1>7 DEF Control!CooldownEnds, Control!historyVars
  <2> QED
    BY <1>1, <2>1, <2>2 DEF ControlTypeOK
<1>8. CASE Control!Crash
  <2>1. /\ walks' = {} /\ orders' = {} /\ crashed' = TRUE
        /\ activeControls' \in [Valve \cup Fan -> Nat]
    BY <1>8 DEF Control!Crash, Control!Controlled
  <2>2. UNCHANGED <<valveRow, fanRow, logs, resets, undone, unanswered, unlogged>>
    BY <1>8 DEF Control!Crash, Control!historyVars
  <2> QED
    BY <1>1, <2>1, <2>2 DEF ControlTypeOK
<1>9. ASSUME NEW z \in Zone, Control!ResetValves(z) PROVE ControlTypeOK'
  <2>1. PICK ok \in BOOLEAN :
          /\ resets' = Append(resets, [zone |-> z, pc |-> IF ok THEN "fans" ELSE "done"])
          /\ valveRow' = [v \in Valve |-> IF ok /\ ZoneOf[v] = z THEN "open" ELSE valveRow[v]]
    BY <1>9 DEF Control!ResetValves, Control!Outcome
  <2>2. resets' \in Seq([zone : Zone, pc : {"fans", "done"}])
    <3>1. [zone |-> z, pc |-> IF ok THEN "fans" ELSE "done"]
            \in [zone : Zone, pc : {"fans", "done"}]
      OBVIOUS
    <3> QED
      BY <1>1, <2>1, <3>1, AppendProperties
  <2>3. valveRow' \in [Valve -> {"open", "closed"}]
    BY <1>1, <2>1
  <2>4. undone' \subseteq Valve \cup Fan
    BY <1>1, <1>9 DEF Control!ResetValves
  <2>5. UNCHANGED <<walks, activeControls, orders, fanRow, logs, unanswered, unlogged,
                    crashed>>
    BY <1>9 DEF Control!ResetValves
  <2> QED
    BY <1>1, <2>2, <2>3, <2>4, <2>5 DEF ControlTypeOK
<1>10. ASSUME NEW r \in DOMAIN resets, Control!ResetFans(r) PROVE ControlTypeOK'
  <2> DEFINE t == [resets[r] EXCEPT !.pc = "done"]
  <2>0. DOMAIN resets = 1..Len(resets)
    BY <1>1, LenProperties
  <2>1. r \in 1..Len(resets) /\ resets[r] \in [zone : Zone, pc : {"fans", "done"}]
    BY <1>1, <2>0, ElementOfSeq
  <2>2. t \in [zone : Zone, pc : {"fans", "done"}]
    BY <2>1
  <2>3. resets' = [resets EXCEPT ![r] = t]
    BY <1>10 DEF Control!ResetFans
  <2> HIDE DEF t
  <2>4. resets' \in Seq([zone : Zone, pc : {"fans", "done"}])
    BY <1>1, <2>1, <2>2, <2>3, ExceptSeq
  <2>5. fanRow' \in [Fan -> {0, 75, 100}]
    BY <1>1, <1>10 DEF Control!ResetFans
  <2>6. undone' \subseteq Valve \cup Fan
    BY <1>1, <1>10 DEF Control!ResetFans
  <2>7. UNCHANGED <<walks, activeControls, orders, valveRow, logs, unanswered, unlogged,
                    crashed>>
    BY <1>10 DEF Control!ResetFans
  <2> QED
    BY <1>1, <2>4, <2>5, <2>6, <2>7 DEF ControlTypeOK
<1>11. CASE UNCHANGED controlVars
  BY <1>1, <1>11 DEF controlVars, ControlTypeOK
<1> QED
  BY <1>2, <1>3, <1>4, <1>5, <1>6, <1>7, <1>8, <1>9, <1>10, <1>11
  DEF Next, EngineStep, Control!Next, Control!WalkStep, Control!OrderStep,
      Control!ResetStep, vars

-------------------------------------------------------------------------------
(* The checks of a device and its open alarm *)

\* Where every step of a check takes it.
LEMMA Moves ==
  ASSUME EngineTypeOK, NEW c \in DOMAIN checks
  PROVE  LET d == checks[c].device  a == checks[c].alarm IN
         /\ Engine!LookUp(c) =>
              /\ checks[c].level # 0 /\ a = 0
              /\ Moved(c, IF Engine!Changes(d, checks[c].level) THEN "create" ELSE "done", 0)
         /\ Engine!SaveAlarm(c) => Moved(c, "trigger", a) /\ a \in DOMAIN alarms
         /\ Engine!TriggerAlarm(c) => Moved(c, "done", a) /\ a \in DOMAIN alarms
         /\ Engine!ResolveAlarm(c) =>
              /\ checks[c].level = 0
              /\ Moved(c, IF activeAlarms[d] = 0 THEN "done" ELSE "update", activeAlarms[d])
         /\ Engine!UpdateResolved(c) => Moved(c, "done", a) /\ a \in DOMAIN alarms
<1> DEFINE d == checks[c].device
           a == checks[c].alarm
<1>1. /\ DOMAIN alarms = 1..Len(alarms) /\ Len(alarms) \in Nat /\ d \in Device
      /\ \A p \in CheckPc : Engine!Goto(c, p) => Moved(c, p, a)
  BY Numbered, CheckMoves
<1>2. checks[c].pc \in {"insert", "trigger", "update"} => a \in DOMAIN alarms
  BY <1>1 DEF EngineTypeOK
<1>3. ASSUME Engine!LookUp(c)
      PROVE  /\ checks[c].level # 0 /\ a = 0
             /\ Moved(c, IF Engine!Changes(d, checks[c].level) THEN "create" ELSE "done", 0)
  <2>1. checks[c].level # 0 /\ a = 0
    BY <1>3 DEF Engine!LookUp, EngineTypeOK
  <2>2. Moved(c, IF Engine!Changes(d, checks[c].level) THEN "create" ELSE "done", a)
    BY <1>1, <1>3 DEF Engine!LookUp, CheckPc
  <2> QED
    BY <2>1, <2>2
<1>4. ASSUME Engine!ResolveAlarm(c)
      PROVE  /\ checks[c].level = 0
             /\ Moved(c, IF activeAlarms[d] = 0 THEN "done" ELSE "update", activeAlarms[d])
  <2>1. checks[c].level = 0 /\ activeAlarms[d] \in Nat
    BY <1>1, <1>4 DEF Engine!ResolveAlarm, EngineTypeOK
  <2>2. checks' = [checks EXCEPT
                     ![c].pc = IF activeAlarms[d] = 0 THEN "done" ELSE "update",
                     ![c].alarm = activeAlarms[d]]
    BY <1>4 DEF Engine!ResolveAlarm
  <2>3. (IF activeAlarms[d] = 0 THEN "done" ELSE "update") \in CheckPc
    BY DEF CheckPc
  <2> QED
    BY <2>1, <2>2, <2>3, CheckMoves
<1>5. Engine!SaveAlarm(c) => Moved(c, "trigger", a) /\ a \in DOMAIN alarms
  BY <1>1, <1>2 DEF Engine!SaveAlarm, CheckPc
<1>6. Engine!TriggerAlarm(c) => Moved(c, "done", a) /\ a \in DOMAIN alarms
  BY <1>1, <1>2 DEF Engine!TriggerAlarm, CheckPc
<1>7. Engine!UpdateResolved(c) => Moved(c, "done", a) /\ a \in DOMAIN alarms
  BY <1>1, <1>2 DEF Engine!UpdateResolved, CheckPc
<1> QED
  BY <1>3, <1>4, <1>5, <1>6, <1>7

\* Alarms are given to checks and devices that they belong to.
LEMMA OwnStep ==
  ASSUME EngineTypeOK, ChecksOwnAlarms, OpenIsOwn, [Next]_vars
  PROVE  ChecksOwnAlarms' /\ OpenIsOwn'
<1>1. /\ DOMAIN alarms = 1..Len(alarms) /\ Len(alarms) \in Nat
      /\ \A c \in DOMAIN checks : checks[c].device \in Device
                                  /\ checks[c].alarm \in {0} \cup DOMAIN alarms
      /\ activeAlarms \in [Device -> {0} \cup DOMAIN alarms]
  <2>1. 0..Len(alarms) = {0} \cup 1..Len(alarms)
    BY Numbered
  <2> QED
    BY <2>1, Numbered DEF EngineTypeOK
<1>2. ASSUME NEW c \in DOMAIN checks, NEW p, Moved(c, p, checks[c].alarm),
             UNCHANGED <<alarms, activeAlarms>>
      PROVE  ChecksOwnAlarms' /\ OpenIsOwn'
  <2>1. ChecksOwnAlarms'
    BY <1>2 DEF Moved, ChecksOwnAlarms
  <2>2. OpenIsOwn'
    BY <1>2 DEF OpenIsOwn
  <2> QED
    BY <2>1, <2>2
<1>3. ASSUME NEW d \in Device, NEW l \in ReadingLevel, Engine!GoCheckAlarm(d, l)
      PROVE  ChecksOwnAlarms' /\ OpenIsOwn'
  <2>1. UNCHANGED <<alarms, activeAlarms>>
    BY <1>3 DEF Engine!GoCheckAlarm
  <2>2. ChecksOwnAlarms'
    BY <1>3, <2>1, CheckStarts DEF ChecksOwnAlarms
  <2> QED
    BY <2>1, <2>2 DEF OpenIsOwn
<1>4. ASSUME NEW c \in DOMAIN checks, Engine!LookUp(c)
      PROVE  ChecksOwnAlarms' /\ OpenIsOwn'
  <2>1. PICK p : Moved(c, p, checks[c].alarm)
    BY <1>4, Moves
  <2> QED
    BY <1>2, <1>4, <2>1 DEF Engine!LookUp
<1>5. ASSUME NEW c \in DOMAIN checks,
             Engine!SaveAlarm(c) \/ Engine!TriggerAlarm(c) \/ Engine!UpdateResolved(c)
      PROVE  ChecksOwnAlarms' /\ OpenIsOwn'
  <2>1. PICK p : Moved(c, p, checks[c].alarm)
    BY <1>5, Moves
  <2> QED
    BY <1>2, <1>5, <2>1
    DEF Engine!SaveAlarm, Engine!TriggerAlarm, Engine!UpdateResolved
<1>6. ASSUME NEW c \in DOMAIN checks, Engine!CreateAlarm(c)
      PROVE  ChecksOwnAlarms' /\ OpenIsOwn'
  <2> DEFINE n == Len(alarms) + 1
  <2>1. /\ n \notin DOMAIN alarms /\ n # 0
        /\ \A a \in DOMAIN alarms : alarms'[a] = alarms[a]
        /\ alarms'[n].device = checks[c].device /\ alarms'[n].level = checks[c].level
        /\ Moved(c, "insert", n)
    BY <1>1, <1>6, AlarmStarts
  <2> HIDE DEF n
  <2>2. activeAlarms' = [activeAlarms EXCEPT ![checks[c].device] = n]
    BY <1>6 DEF Engine!CreateAlarm, n
  <2>3. ChecksOwnAlarms'
    <3>1. \A e \in DOMAIN checks : checks[e].alarm # 0 =>
            /\ alarms'[checks[e].alarm] = alarms[checks[e].alarm]
            /\ alarms[checks[e].alarm].device = checks[e].device
            /\ checks[e].level # 0 => alarms[checks[e].alarm].level = checks[e].level
      BY <1>1, <2>1 DEF ChecksOwnAlarms
    <3> QED
      BY <2>1, <3>1 DEF ChecksOwnAlarms, Moved
  <2>4. OpenIsOwn'
    BY <1>1, <2>1, <2>2 DEF OpenIsOwn
  <2> QED
    BY <2>3, <2>4
<1>7. ASSUME NEW c \in DOMAIN checks, Engine!ResolveAlarm(c)
      PROVE  ChecksOwnAlarms' /\ OpenIsOwn'
  <2> DEFINE d == checks[c].device
  <2>1. /\ checks[c].level = 0
        /\ Moved(c, IF activeAlarms[d] = 0 THEN "done" ELSE "update", activeAlarms[d])
    BY <1>7, Moves
  <2>2. alarms' = alarms /\ activeAlarms' = [activeAlarms EXCEPT ![d] = 0]
    BY <1>7 DEF Engine!ResolveAlarm
  <2>3. d \in Device /\ activeAlarms[d] # 0 => alarms[activeAlarms[d]].device = d
    BY <1>1 DEF OpenIsOwn
  <2>4. ChecksOwnAlarms'
    BY <1>1, <2>1, <2>2, <2>3 DEF ChecksOwnAlarms, Moved
  <2> QED
    BY <1>1, <2>2, <2>4 DEF OpenIsOwn
<1>8. ASSUME NEW d \in Device, Engine!AcknowledgeAlarm(d)
      PROVE  ChecksOwnAlarms' /\ OpenIsOwn'
  BY <1>8 DEF Engine!AcknowledgeAlarm, ChecksOwnAlarms, OpenIsOwn
<1>9. ASSUME UNCHANGED engineVars PROVE ChecksOwnAlarms' /\ OpenIsOwn'
  BY <1>9 DEF engineVars, ChecksOwnAlarms, OpenIsOwn
<1> QED
  BY <1>3, <1>4, <1>5, <1>6, <1>7, <1>8, <1>9
  DEF Next, EngineStep, Trigger, Engine!CheckStep, vars

\* Starting a check or moving one on leaves the order of the checks as it is.
LEMMA MovedKeepsLast ==
  ASSUME NEW c, NEW p, NEW a, Moved(c, p, a), NEW e \in DOMAIN checks
  PROVE  IsLast(e)' <=> IsLast(e)
BY DEF Moved, IsLast

\* A device has one last check.
LEMMA LastIsUnique ==
  ASSUME EngineTypeOK, NEW c \in DOMAIN checks, NEW e \in DOMAIN checks,
         checks[c].device = checks[e].device, IsLast(c), IsLast(e)
  PROVE  c = e
<1>1. c <= e /\ e <= c
  BY DEF IsLast
<1> QED
  BY <1>1, Numbered

\* What a step does to the history of overlaps.
LEMMA OverlapGrows ==
  ASSUME [Next]_vars
  PROVE  overlapped \subseteq overlapped'
BY DEF Next, EngineStep, Trigger, Engine!GoCheckAlarm, Engine!AcknowledgeAlarm,
       Engine!CheckStep, Engine!LookUp, Engine!CreateAlarm, Engine!SaveAlarm,
       Engine!TriggerAlarm, Engine!ResolveAlarm, Engine!UpdateResolved, vars, engineVars

\* Every device has a last check, the only one that may run while nothing overlaps.
LEMMA LastStep ==
  ASSUME EngineTypeOK, LastExists, OnlyLastRuns, [Next]_vars
  PROVE  LastExists' /\ OnlyLastRuns'
<1>1. DOMAIN checks = 1..Len(checks) /\ Len(checks) \in Nat
  BY Numbered
<1>2. ASSUME NEW c \in DOMAIN checks, NEW p, NEW a, checks[c].pc # "done",
             Moved(c, p, a), overlapped' = overlapped
      PROVE  LastExists' /\ OnlyLastRuns'
  <2>1. \A e \in DOMAIN checks : IsLast(e)' <=> IsLast(e)
    BY <1>2, MovedKeepsLast
  <2>2. DOMAIN checks' = DOMAIN checks
        /\ \A e \in DOMAIN checks : /\ checks'[e].device = checks[e].device
                                    /\ checks'[e].pc # "done" => checks[e].pc # "done"
    BY <1>2 DEF Moved
  <2>3. LastExists'
    BY <2>1, <2>2 DEF LastExists
  <2>4. OnlyLastRuns'
    BY <1>2, <2>1, <2>2 DEF OnlyLastRuns
  <2> QED
    BY <2>3, <2>4
<1>3. ASSUME NEW d \in Device, NEW l \in ReadingLevel, Engine!GoCheckAlarm(d, l)
      PROVE  LastExists' /\ OnlyLastRuns'
  <2> DEFINE n == Len(checks) + 1
  <2>1. /\ DOMAIN checks' = DOMAIN checks \cup {n}
        /\ \A c \in DOMAIN checks : checks'[c] = checks[c] /\ c <= n
        /\ checks'[n].device = d
    BY <1>3, CheckStarts
  <2>2. n <= n
    BY <1>1
  <2> HIDE DEF n
  <2>3. ASSUME NEW x, x = n PROVE IsLast(x)'
    BY <2>1, <2>2, <2>3 DEF IsLast
  <2>4. ASSUME NEW c \in DOMAIN checks, checks[c].device # d, IsLast(c)
        PROVE  IsLast(c)'
    BY <2>1, <2>4 DEF IsLast
  <2>5. LastExists'
    <3>1. SUFFICES ASSUME NEW c \in DOMAIN checks'
                   PROVE  \E e \in DOMAIN checks' :
                            checks'[e].device = checks'[c].device /\ IsLast(e)'
      BY DEF LastExists
    <3>2. CASE checks'[c].device = d
      BY <2>1, <2>3, <3>2
    <3>3. CASE checks'[c].device # d
      <4>1. c \in DOMAIN checks /\ checks'[c] = checks[c]
        BY <2>1, <3>1, <3>3
      <4>2. PICK e \in DOMAIN checks : checks[e].device = checks[c].device /\ IsLast(e)
        BY <4>1 DEF LastExists
      <4> QED
        BY <2>1, <2>4, <3>3, <4>1, <4>2
    <3> QED
      BY <3>2, <3>3
  <2>6. \A c \in DOMAIN checks : checks[c].device = d /\ checks[c].pc # "done" =>
          d \in overlapped'
    BY <1>3 DEF Engine!GoCheckAlarm, Engine!Running, Engine!Check
  <2>7. OnlyLastRuns'
    <3>1. SUFFICES ASSUME NEW c \in DOMAIN checks', checks'[c].device \notin overlapped',
                          checks'[c].pc # "done"
                   PROVE  IsLast(c)'
      BY DEF OnlyLastRuns
    <3>2. CASE c = n
      BY <2>3, <3>2
    <3>3. CASE c # n
      <4>1. c \in DOMAIN checks /\ checks'[c] = checks[c]
        BY <2>1, <3>1, <3>3
      <4>2. checks[c].device # d
        BY <2>6, <3>1, <4>1
      <4>3. checks[c].device \notin overlapped
        BY <3>1, <4>1, OverlapGrows
      <4>4. IsLast(c)
        BY <3>1, <4>1, <4>3 DEF OnlyLastRuns
      <4> QED
        BY <2>4, <4>1, <4>2, <4>4
    <3> QED
      BY <3>2, <3>3
  <2> QED
    BY <2>5, <2>7
<1>4. ASSUME NEW d \in Device, Engine!AcknowledgeAlarm(d)
      PROVE  LastExists' /\ OnlyLastRuns'
  BY <1>4, OverlapGrows DEF Engine!AcknowledgeAlarm, LastExists, OnlyLastRuns, IsLast
<1>5. ASSUME NEW c \in DOMAIN checks, Engine!CheckStep(c) \/ Engine!TriggerAlarm(c)
      PROVE  LastExists' /\ OnlyLastRuns'
  <2>1. PICK p, a : Moved(c, p, a)
    BY <1>5, Moves, AlarmStarts DEF Engine!CheckStep
  <2>2. checks[c].pc # "done" /\ overlapped' = overlapped
    BY <1>5
    DEF Engine!CheckStep, Engine!LookUp, Engine!CreateAlarm, Engine!SaveAlarm,
        Engine!TriggerAlarm, Engine!ResolveAlarm, Engine!UpdateResolved
  <2> QED
    BY <1>2, <2>1, <2>2
<1>6. ASSUME UNCHANGED engineVars PROVE LastExists' /\ OnlyLastRuns'
  BY <1>6 DEF engineVars, LastExists, OnlyLastRuns, IsLast
<1> QED
  BY <1>3, <1>4, <1>5, <1>6 DEF Next, EngineStep, Trigger, vars

\* A device keeps its level while its entry in the map stays.
LEMMA LevelStays ==
  ASSUME EngineTypeOK, NEW d \in Device, activeAlarms'[d] = activeAlarms[d],
         \A a \in DOMAIN alarms : alarms'[a] = alarms[a]
  PROVE  /\ LevelOf(d)' = LevelOf(d)
         /\ \A l : Engine!Changes(d, l)' <=> Engine!Changes(d, l)
<1>1. activeAlarms[d] # 0 => activeAlarms[d] \in DOMAIN alarms
  BY Numbered DEF EngineTypeOK
<1> QED
  BY <1>1 DEF LevelOf, Engine!Changes

\* The level of a device is settled by its last check.
LEMMA LastSettlesStep ==
  ASSUME EngineTypeOK, OnlyLastRuns, LastSettles, [Next]_vars
  PROVE  LastSettles'
<1>1. /\ activeAlarms \in [Device -> 0..Len(alarms)]
      /\ \A c \in DOMAIN checks : checks[c].device \in Device
      /\ \A a \in DOMAIN alarms : a # 0
  BY Numbered DEF EngineTypeOK
<1>2. ASSUME NEW c \in DOMAIN checks, NEW p, NEW a, Moved(c, p, a), overlapped' = overlapped,
             checks[c].pc # "done",
             \A x \in DOMAIN alarms : alarms'[x] = alarms[x],
             \A d \in Device : d # checks[c].device => activeAlarms'[d] = activeAlarms[d],
             \A d \in Device : d = checks[c].device /\ d \notin overlapped =>
               /\ p \notin {"look", "create", "resolve"} => LevelOf(d)' = checks[c].level
               /\ p = "create" => Engine!Changes(d, checks[c].level)'
      PROVE  LastSettles'
  <2>1. SUFFICES ASSUME NEW e \in DOMAIN checks, NEW d \in Device, d = checks[e].device,
                        d \notin overlapped, IsLast(e)
                 PROVE  /\ checks'[e].pc \notin {"look", "create", "resolve"} =>
                              LevelOf(d)' = checks[e].level
                        /\ checks'[e].pc = "create" => Engine!Changes(d, checks[e].level)'
    <3>1. \A e \in DOMAIN checks : IsLast(e)' <=> IsLast(e)
      BY <1>2, MovedKeepsLast
    <3>2. /\ DOMAIN checks' = DOMAIN checks
          /\ \A e \in DOMAIN checks : /\ checks'[e].device = checks[e].device
                                      /\ checks'[e].level = checks[e].level
      BY <1>2 DEF Moved
    <3> QED
      BY <1>2, <3>1, <3>2 DEF LastSettles
  <2>2. CASE e = c
    BY <1>2, <2>1, <2>2 DEF Moved
  <2>3. CASE e # c
    <3>1. d # checks[c].device
      <4>1. ASSUME d = checks[c].device PROVE FALSE
        <5>1. IsLast(c)
          BY <1>2, <2>1, <4>1 DEF OnlyLastRuns
        <5> QED
          BY <2>1, <2>3, <4>1, <5>1, LastIsUnique
      <4> QED
        BY <4>1
    <3>2. /\ LevelOf(d)' = LevelOf(d)
          /\ \A l : Engine!Changes(d, l)' <=> Engine!Changes(d, l)
      BY <1>2, <3>1, LevelStays
    <3>3. checks'[e].pc = checks[e].pc /\ checks'[e].level = checks[e].level
      BY <1>2, <2>3 DEF Moved
    <3>4. /\ checks[e].pc \notin {"look", "create", "resolve"} => LevelOf(d) = checks[e].level
          /\ checks[e].pc = "create" => Engine!Changes(d, checks[e].level)
      BY <2>1 DEF LastSettles
    <3>5. checks[e].pc = "create" => Engine!Changes(d, checks[e].level)'
      <4>1. \A l : l = checks[e].level => (Engine!Changes(d, l)' <=> Engine!Changes(d, l))
        BY <3>2
      <4> QED
        BY <3>2, <3>3, <3>4 DEF Engine!Changes
    <3> QED
      BY <3>2, <3>3, <3>4, <3>5
  <2> QED
    BY <2>2, <2>3
<1>3. ASSUME NEW c \in DOMAIN checks, Engine!LookUp(c) PROVE LastSettles'
  <2> DEFINE q == IF Engine!Changes(checks[c].device, checks[c].level)
                  THEN "create" ELSE "done"
  <2>1. Moved(c, q, 0) /\ checks[c].level # 0
    BY <1>3, Moves
  <2>2. /\ UNCHANGED <<overlapped, alarms, activeAlarms>> /\ checks[c].pc # "done"
    BY <1>3 DEF Engine!LookUp
  <2>3. ASSUME NEW d \in Device, d = checks[c].device
        PROVE  /\ q \notin {"look", "create", "resolve"} => LevelOf(d)' = checks[c].level
               /\ q = "create" => Engine!Changes(d, checks[c].level)'
    <3>1. checks'[c].level = checks[c].level
      BY <2>1 DEF Moved
    <3> QED
      BY <2>1, <2>2, <2>3, <3>1 DEF Engine!Changes, LevelOf
  <2> HIDE DEF q
  <2> QED
    BY <1>2, <2>1, <2>2, <2>3
<1>4. ASSUME NEW c \in DOMAIN checks, Engine!CreateAlarm(c) PROVE LastSettles'
  <2> DEFINE n == Len(alarms) + 1
  <2>1. /\ \A a \in DOMAIN alarms : alarms'[a] = alarms[a]
        /\ alarms'[n].level = checks[c].level /\ n # 0
        /\ Moved(c, "insert", n)
    BY <1>4, Numbered, AlarmStarts
  <2>2. overlapped' = overlapped /\ checks[c].pc # "done"
        /\ activeAlarms' = [activeAlarms EXCEPT ![checks[c].device] = n]
    BY <1>4 DEF Engine!CreateAlarm
  <2> HIDE DEF n
  <2>3. \A d \in Device : d # checks[c].device => activeAlarms'[d] = activeAlarms[d]
    BY <1>1, <2>2
  <2>4. \A d \in Device : d = checks[c].device => LevelOf(d)' = checks[c].level
    BY <1>1, <2>1, <2>2 DEF LevelOf
  <2> QED
    BY <1>2, <2>1, <2>2, <2>3, <2>4
<1>5. ASSUME NEW c \in DOMAIN checks,
             Engine!SaveAlarm(c) \/ Engine!TriggerAlarm(c) \/ Engine!UpdateResolved(c)
      PROVE  LastSettles'
  <2>1. PICK p \in {"trigger", "done"} : Moved(c, p, checks[c].alarm)
    BY <1>5, Moves
  <2>2. /\ UNCHANGED <<overlapped, alarms, activeAlarms>>
        /\ checks[c].pc \notin {"look", "create", "resolve", "done"}
    BY <1>5 DEF Engine!SaveAlarm, Engine!TriggerAlarm, Engine!UpdateResolved
  <2>3. \A d \in Device : d = checks[c].device /\ d \notin overlapped =>
          LevelOf(d)' = checks[c].level
    <3>1. ASSUME NEW d \in Device, d = checks[c].device, d \notin overlapped
          PROVE  LevelOf(d) = checks[c].level
      BY <2>2, <3>1 DEF LastSettles, OnlyLastRuns
    <3> QED
      BY <2>2, <3>1 DEF LevelOf
  <2> QED
    BY <1>2, <2>1, <2>2, <2>3
<1>6. ASSUME NEW c \in DOMAIN checks, Engine!ResolveAlarm(c) PROVE LastSettles'
  <2>1. PICK p, a : p \in {"update", "done"} /\ Moved(c, p, a)
    BY <1>6, Moves
  <2>2. /\ UNCHANGED <<overlapped, alarms>> /\ checks[c].pc # "done" /\ checks[c].level = 0
        /\ activeAlarms' = [activeAlarms EXCEPT ![checks[c].device] = 0]
    BY <1>6, Moves DEF Engine!ResolveAlarm
  <2>3. \A d \in Device : d # checks[c].device => activeAlarms'[d] = activeAlarms[d]
    BY <1>1, <2>2
  <2>4. \A d \in Device : d = checks[c].device => LevelOf(d)' = checks[c].level
    BY <1>1, <2>2 DEF LevelOf
  <2> QED
    BY <1>2, <2>1, <2>2, <2>3, <2>4
<1>7. ASSUME NEW d \in Device, NEW l \in ReadingLevel, Engine!GoCheckAlarm(d, l)
      PROVE  LastSettles'
  <2> DEFINE n == Len(checks) + 1
  <2>1. /\ DOMAIN checks' = DOMAIN checks \cup {n} /\ n \notin DOMAIN checks
        /\ \A c \in DOMAIN checks : checks'[c] = checks[c]
        /\ checks'[n].pc \in {"look", "resolve"}
    BY <1>7, CheckStarts
  <2>2. UNCHANGED <<alarms, activeAlarms>> /\ overlapped \subseteq overlapped'
    BY <1>7, OverlapGrows DEF Engine!GoCheckAlarm
  <2> HIDE DEF n
  <2>3. \A c \in DOMAIN checks : IsLast(c)' => IsLast(c)
    BY <2>1 DEF IsLast
  <2> QED
    BY <2>1, <2>2, <2>3 DEF LastSettles, LevelOf, Engine!Changes
<1>8. ASSUME NEW d \in Device, Engine!AcknowledgeAlarm(d) PROVE LastSettles'
  BY <1>8, OverlapGrows
  DEF Engine!AcknowledgeAlarm, LastSettles, LevelOf, Engine!Changes, IsLast
<1>9. ASSUME UNCHANGED engineVars PROVE LastSettles'
  BY <1>9 DEF engineVars, LastSettles, LevelOf, Engine!Changes, IsLast
<1> QED
  BY <1>3, <1>4, <1>5, <1>6, <1>7, <1>8, <1>9
  DEF Next, EngineStep, Trigger, Engine!CheckStep, vars

\* What has been created stays as it is, and what has been noted of it stays noted.
LEMMA EngineGrows ==
  ASSUME EngineTypeOK, [Next]_vars
  PROVE  /\ \A a \in DOMAIN alarms : a \in DOMAIN alarms' /\ alarms'[a] = alarms[a]
         /\ rows \subseteq rows' /\ failed \subseteq failed' /\ resolved \subseteq resolved'
<1>1. ASSUME NEW c \in DOMAIN checks, Engine!CreateAlarm(c)
      PROVE  /\ \A a \in DOMAIN alarms : a \in DOMAIN alarms' /\ alarms'[a] = alarms[a]
             /\ UNCHANGED <<rows, failed, resolved>>
  <2>1. \A a \in DOMAIN alarms : a \in DOMAIN alarms' /\ alarms'[a] = alarms[a]
    BY <1>1, AlarmStarts
  <2> QED
    BY <1>1, <2>1 DEF Engine!CreateAlarm
<1>2. ASSUME NEW c \in DOMAIN checks,
             \/ Engine!LookUp(c) \/ Engine!SaveAlarm(c) \/ Engine!TriggerAlarm(c)
             \/ Engine!ResolveAlarm(c) \/ Engine!UpdateResolved(c)
      PROVE  /\ alarms' = alarms
             /\ rows \subseteq rows' /\ failed \subseteq failed' /\ resolved \subseteq resolved'
  BY <1>2 DEF Engine!LookUp, Engine!SaveAlarm, Engine!TriggerAlarm, Engine!ResolveAlarm,
              Engine!UpdateResolved, Engine!Note
<1>3. ASSUME NEW d \in Device,
             \/ \E l \in ReadingLevel : Engine!GoCheckAlarm(d, l)
             \/ Engine!AcknowledgeAlarm(d)
      PROVE  /\ alarms' = alarms
             /\ rows \subseteq rows' /\ failed \subseteq failed' /\ resolved \subseteq resolved'
  BY <1>3 DEF Engine!GoCheckAlarm, Engine!AcknowledgeAlarm, Engine!Note
<1>4. ASSUME UNCHANGED engineVars
      PROVE  UNCHANGED <<alarms, rows, failed, resolved>>
  BY <1>4 DEF engineVars
<1> QED
  BY <1>1, <1>2, <1>3, <1>4 DEF Next, EngineStep, Trigger, Engine!CheckStep, vars

\* A check triggers or updates an alarm only after the step that goes before.
LEMMA StatementsStep ==
  ASSUME EngineTypeOK, StatementsFollow, [Next]_vars
  PROVE  StatementsFollow'
<1>1. rows \subseteq rows' /\ failed \subseteq failed' /\ resolved \subseteq resolved'
  BY EngineGrows
<1>2. ASSUME NEW c \in DOMAIN checks, NEW p, NEW a, Moved(c, p, a),
             p = "trigger" => a \in rows' \cup failed',
             p = "update" => a \in resolved'
      PROVE  StatementsFollow'
  BY <1>1, <1>2 DEF Moved, StatementsFollow
<1>3. ASSUME NEW c \in DOMAIN checks,
             Engine!LookUp(c) \/ Engine!TriggerAlarm(c) \/ Engine!UpdateResolved(c)
      PROVE  StatementsFollow'
  <2>1. PICK p, a : p \in {"create", "done"} /\ Moved(c, p, a)
    BY <1>3, Moves
  <2> QED
    BY <1>2, <2>1
<1>4. ASSUME NEW c \in DOMAIN checks, Engine!CreateAlarm(c) PROVE StatementsFollow'
  BY <1>2, <1>4, AlarmStarts
<1>5. ASSUME NEW c \in DOMAIN checks, Engine!SaveAlarm(c) PROVE StatementsFollow'
  <2>1. Moved(c, "trigger", checks[c].alarm)
    BY <1>5, Moves
  <2>2. checks[c].alarm \in rows' \cup failed'
    BY <1>5 DEF Engine!SaveAlarm, Engine!Note
  <2> QED
    BY <1>2, <2>1, <2>2
<1>6. ASSUME NEW c \in DOMAIN checks, Engine!ResolveAlarm(c) PROVE StatementsFollow'
  <2> DEFINE a == activeAlarms[checks[c].device]
  <2>1. Moved(c, IF a = 0 THEN "done" ELSE "update", a)
    BY <1>6, Moves
  <2>2. a # 0 => a \in resolved'
    BY <1>6 DEF Engine!ResolveAlarm
  <2> QED
    BY <1>2, <2>1, <2>2
<1>7. ASSUME NEW d \in Device, NEW l \in ReadingLevel, Engine!GoCheckAlarm(d, l)
      PROVE  StatementsFollow'
  <2> DEFINE n == Len(checks) + 1
  <2>1. /\ DOMAIN checks' = DOMAIN checks \cup {n}
        /\ \A c \in DOMAIN checks : checks'[c] = checks[c]
        /\ checks'[n].pc \in {"look", "resolve"}
    BY <1>7, CheckStarts
  <2> HIDE DEF n
  <2> QED
    BY <1>1, <2>1 DEF StatementsFollow
<1>8. ASSUME checks' = checks PROVE StatementsFollow'
  BY <1>1, <1>8 DEF StatementsFollow
<1>9. ASSUME NEW d \in Device, Engine!AcknowledgeAlarm(d) PROVE StatementsFollow'
  BY <1>8, <1>9 DEF Engine!AcknowledgeAlarm
<1>10. ASSUME UNCHANGED engineVars PROVE StatementsFollow'
  BY <1>8, <1>10 DEF engineVars
<1> QED
  BY <1>3, <1>4, <1>5, <1>6, <1>7, <1>9, <1>10
  DEF Next, EngineStep, Trigger, Engine!CheckStep, vars

\* A new alarm has nothing noted of it.
LEMMA NewIsUnknown ==
  ASSUME EngineTypeOK, NEW n, n = Len(alarms) + 1
  PROVE  n \notin rows \cup failed \cup resolved \cup resolvedRows \cup ackRows \cup acknowledged
BY Numbered DEF EngineTypeOK

\* The rows of a device say what memory says, or a check is about to make them.
LEMMA RowsSettleStep ==
  ASSUME EngineTypeOK, ChecksOwnAlarms, OpenIsOwn, OnlyLastRuns, RowsSettle,
         StatementsFollow, [Next]_vars
  PROVE  RowsSettle'
<1>1. /\ \A a \in DOMAIN alarms : a \in DOMAIN alarms' /\ alarms'[a] = alarms[a] /\ a # 0
      /\ failed \subseteq failed' /\ overlapped \subseteq overlapped'
      /\ \A c \in DOMAIN checks : checks[c].alarm \in DOMAIN alarms =>
           alarms[checks[c].alarm].device = checks[c].device
  BY Numbered, EngineGrows, OverlapGrows DEF ChecksOwnAlarms
<1>2. ASSUME NEW a \in DOMAIN alarms', a \notin failed',
             alarms'[a].device \notin overlapped', a \in DOMAIN alarms
      PROVE  /\ a \in rows \/ WorkedOn(a, "insert")
             /\ a \in resolvedRows => a \in resolved
             /\ a \in resolved => a \in resolvedRows \/ WorkedOn(a, "update")
             /\ a \in ackRows <=> a \in acknowledged
  BY <1>1, <1>2 DEF RowsSettle
\* Only one check of a serial device works.
<1>3. ASSUME NEW a \in DOMAIN alarms, alarms[a].device \notin overlapped,
             NEW c \in DOMAIN checks, checks[c].pc # "done",
             checks[c].device = alarms[a].device,
             NEW p \in CheckPc \ {"done"}, WorkedOn(a, p)
      PROVE  checks[c].alarm = a /\ checks[c].pc = p
  <2>1. PICK e \in DOMAIN checks : checks[e].alarm = a /\ checks[e].pc = p
    BY <1>3 DEF WorkedOn
  <2>2. checks[e].device = alarms[a].device
    BY <1>1, <2>1
  <2>3. IsLast(c) /\ IsLast(e)
    BY <1>3, <2>1, <2>2 DEF OnlyLastRuns
  <2> QED
    BY <1>3, <2>1, <2>2, <2>3, LastIsUnique
\* What the moved check did not work on is still worked on.
<1>4. ASSUME NEW c \in DOMAIN checks, NEW q, NEW b, Moved(c, q, b),
             NEW a, NEW p, WorkedOn(a, p), checks[c].alarm # a \/ checks[c].pc # p
      PROVE  WorkedOn(a, p)'
  BY <1>4 DEF WorkedOn, Moved
<1>5. ASSUME UNCHANGED <<alarms, rows, resolved, resolvedRows, ackRows, acknowledged>>,
             \A a, p : p \in {"insert", "update"} /\ WorkedOn(a, p) => WorkedOn(a, p)'
      PROVE  RowsSettle'
  BY <1>2, <1>5 DEF RowsSettle
<1>6. ASSUME NEW c \in DOMAIN checks, Engine!LookUp(c) \/ Engine!TriggerAlarm(c)
      PROVE  RowsSettle'
  <2>1. PICK p, a : Moved(c, p, a)
    BY <1>6, Moves
  <2> QED
    BY <1>4, <1>5, <1>6, <2>1 DEF Engine!LookUp, Engine!TriggerAlarm
<1>7. ASSUME NEW c \in DOMAIN checks, Engine!CreateAlarm(c) PROVE RowsSettle'
  <2> DEFINE n == Len(alarms) + 1
  <2>1. Moved(c, "insert", n) /\ DOMAIN alarms' = DOMAIN alarms \cup {n}
    BY <1>7, AlarmStarts
  <2>2. n \notin rows \cup failed \cup resolved \cup resolvedRows \cup ackRows \cup acknowledged
    BY NewIsUnknown
  <2>3. checks[c].pc = "create"
        /\ UNCHANGED <<rows, resolved, resolvedRows, ackRows, acknowledged, failed>>
    BY <1>7 DEF Engine!CreateAlarm
  <2>4. \A a : a = n => WorkedOn(a, "insert")'
    BY <2>1 DEF Moved, WorkedOn
  <2> HIDE DEF n
  <2>5. \A a, p : p \in {"insert", "update"} /\ WorkedOn(a, p) => WorkedOn(a, p)'
    BY <1>4, <2>1, <2>3
  <2> QED
    BY <1>2, <2>1, <2>2, <2>3, <2>4, <2>5 DEF RowsSettle
<1>8. ASSUME NEW c \in DOMAIN checks, Engine!SaveAlarm(c) PROVE RowsSettle'
  <2>1. Moved(c, "trigger", checks[c].alarm) /\ checks[c].pc = "insert"
    BY <1>8, Moves DEF Engine!SaveAlarm
  <2>2. UNCHANGED <<alarms, resolved, resolvedRows, ackRows, acknowledged>>
        /\ rows \subseteq rows' /\ checks[c].alarm \in rows' \cup failed'
    BY <1>8 DEF Engine!SaveAlarm, Engine!Note
  <2>3. \A a : /\ WorkedOn(a, "update") => WorkedOn(a, "update")'
               /\ WorkedOn(a, "insert") => WorkedOn(a, "insert")' \/ a = checks[c].alarm
    BY <1>4, <2>1
  <2> QED
    BY <1>2, <2>2, <2>3 DEF RowsSettle
<1>9. ASSUME NEW c \in DOMAIN checks, Engine!ResolveAlarm(c) PROVE RowsSettle'
  <2> DEFINE b == activeAlarms[checks[c].device]
  <2>1. Moved(c, IF b = 0 THEN "done" ELSE "update", b) /\ checks[c].pc = "resolve"
    BY <1>9, Moves DEF Engine!ResolveAlarm
  <2>2. UNCHANGED <<alarms, rows, resolvedRows, ackRows, acknowledged>>
        /\ resolved' = resolved \cup ({b} \ {0})
    BY <1>9 DEF Engine!ResolveAlarm
  <2>3. \A a : a = b /\ a # 0 => WorkedOn(a, "update")'
    BY <2>1 DEF Moved, WorkedOn
  <2> HIDE DEF b
  <2>4. \A a, p : p \in {"insert", "update"} /\ WorkedOn(a, p) => WorkedOn(a, p)'
    BY <1>4, <2>1
  <2> QED
    BY <1>2, <2>2, <2>3, <2>4 DEF RowsSettle
<1>10. ASSUME NEW c \in DOMAIN checks, Engine!UpdateResolved(c) PROVE RowsSettle'
  <2> DEFINE b == checks[c].alarm
  <2>1. Moved(c, "done", b) /\ checks[c].pc = "update" /\ b \in DOMAIN alarms /\ b \in resolved
    BY <1>10, Moves DEF Engine!UpdateResolved, StatementsFollow
  <2>2. UNCHANGED <<alarms, rows, resolved, ackRows, acknowledged, overlapped>>
    BY <1>10 DEF Engine!UpdateResolved
  <2>3. \/ resolvedRows' = resolvedRows \cup ({b} \cap rows)
        \/ resolvedRows' = resolvedRows /\ b \in failed'
    BY <1>10 DEF Engine!UpdateResolved, Engine!Note
  <2>4. \A a : /\ WorkedOn(a, "insert") => WorkedOn(a, "insert")'
               /\ WorkedOn(a, "update") => WorkedOn(a, "update")' \/ a = b
    BY <1>4, <2>1
  <2>5. ASSUME b \notin failed', alarms[b].device \notin overlapped PROVE b \in rows
    <3>1. b \in rows \/ WorkedOn(b, "insert")
      BY <1>2, <2>1, <2>2, <2>5
    <3>2. checks[c].device = alarms[b].device /\ checks[c].pc # "done"
          /\ "insert" \in CheckPc \ {"done"}
      BY <1>1, <2>1 DEF CheckPc
    <3>3. WorkedOn(b, "insert") => FALSE
      BY <1>3, <2>1, <2>5, <3>2
    <3> QED
      BY <3>1, <3>3
  <2> HIDE DEF b
  <2> QED
    BY <1>2, <2>1, <2>2, <2>3, <2>4, <2>5 DEF RowsSettle
<1>11. ASSUME NEW d \in Device, NEW l \in ReadingLevel, Engine!GoCheckAlarm(d, l)
       PROVE  RowsSettle'
  <2>1. \A c \in DOMAIN checks : c \in DOMAIN checks' /\ checks'[c] = checks[c]
    BY <1>11, CheckStarts
  <2>2. \A a, p : p \in {"insert", "update"} /\ WorkedOn(a, p) => WorkedOn(a, p)'
    BY <2>1 DEF WorkedOn
  <2> QED
    BY <1>5, <1>11, <2>2 DEF Engine!GoCheckAlarm
<1>12. ASSUME NEW d \in Device, Engine!AcknowledgeAlarm(d) PROVE RowsSettle'
  <2> DEFINE b == activeAlarms[d]
  <2>1. b \in DOMAIN alarms /\ alarms[b].device = d
    BY <1>12, Numbered DEF Engine!AcknowledgeAlarm, EngineTypeOK, OpenIsOwn
  <2>2. /\ UNCHANGED <<checks, alarms, rows, resolved, resolvedRows>>
        /\ acknowledged' = acknowledged \cup {b}
        /\ d \notin overlapped' => Engine!Running(d) = {}
    BY <1>12 DEF Engine!AcknowledgeAlarm
  <2>3. \/ ackRows' = ackRows \cup ({b} \cap rows)
        \/ ackRows' = ackRows /\ b \in failed'
    BY <1>12 DEF Engine!AcknowledgeAlarm, Engine!Note
  <2>4. \A a, p : WorkedOn(a, p)' <=> WorkedOn(a, p)
    BY <2>2 DEF WorkedOn
  <2>5. ASSUME b \notin failed', d \notin overlapped' PROVE b \in rows
    <3>1. b \in rows \/ WorkedOn(b, "insert")
      BY <1>2, <2>1, <2>2, <2>5
    <3>2. WorkedOn(b, "insert") => Engine!Running(d) # {}
      BY <1>1, <2>1 DEF WorkedOn, Engine!Running, Engine!Check
    <3> QED
      BY <2>2, <2>5, <3>1, <3>2
  <2> HIDE DEF b
  <2> QED
    BY <1>2, <2>1, <2>2, <2>3, <2>4, <2>5 DEF RowsSettle
<1>13. ASSUME UNCHANGED engineVars PROVE RowsSettle'
  BY <1>5, <1>13 DEF engineVars, WorkedOn
<1> QED
  BY <1>6, <1>7, <1>8, <1>9, <1>10, <1>11, <1>12, <1>13
  DEF Next, EngineStep, Trigger, Engine!CheckStep, vars

\* When nothing of a device runs, what the invariant says of it is SerialDevicesSettle.
LEMMA SettledDevices ==
  ASSUME IndInv
  PROVE  SerialDevicesSettle
<1>1. EngineTypeOK /\ ChecksOwnAlarms /\ LastExists /\ LastSettles /\ RowsSettle
  BY DEF IndInv, TypeOK
<1>2. SUFFICES ASSUME NEW d \in Device \ overlapped, Engine!Running(d) = {}
               PROVE  /\ (\E c \in DOMAIN checks : checks[c].device = d) =>
                            LevelOf(d) = checks[Last(d)].level
                      /\ \A a \in DOMAIN alarms \ failed :
                           alarms[a].device = d =>
                             /\ a \in rows
                             /\ a \in resolvedRows <=> a \in resolved
                             /\ a \in ackRows <=> a \in acknowledged
  BY DEF SerialDevicesSettle
<1>3. \A c \in DOMAIN checks : checks[c].device = d => checks[c].pc = "done"
  BY <1>2 DEF Engine!Running, Engine!Check
<1>4. ASSUME NEW c \in DOMAIN checks, checks[c].device = d
      PROVE  LevelOf(d) = checks[Last(d)].level
  <2>1. \E e \in DOMAIN checks :
          checks[e].device = d /\ \A x \in DOMAIN checks : checks[x].device = d => x <= e
    <3>1. PICK e \in DOMAIN checks : checks[e].device = d /\ IsLast(e)
      BY <1>1, <1>4 DEF LastExists
    <3> QED
      BY <3>1 DEF IsLast
  <2>2. /\ Last(d) \in DOMAIN checks /\ checks[Last(d)].device = d
        /\ \A x \in DOMAIN checks : checks[x].device = d => x <= Last(d)
    BY <2>1 DEF Last
  <2>3. ASSUME NEW e \in DOMAIN checks, e = Last(d) PROVE LevelOf(d) = checks[e].level
    <3>1. IsLast(e) /\ checks[e].device = d
      BY <2>2, <2>3 DEF IsLast
    <3>2. checks[e].pc = "done"
      BY <1>3, <3>1
    <3> QED
      BY <1>1, <3>1, <3>2 DEF LastSettles
  <2> QED
    BY <2>2, <2>3
<1>5. ASSUME NEW a \in DOMAIN alarms \ failed, alarms[a].device = d
      PROVE  /\ a \in rows
             /\ a \in resolvedRows <=> a \in resolved
             /\ a \in ackRows <=> a \in acknowledged
  <2>1. \A p : p # "done" => ~WorkedOn(a, p)
    <3>1. a # 0
      BY <1>1, Numbered
    <3> QED
      BY <1>1, <1>3, <1>5, <3>1 DEF WorkedOn, ChecksOwnAlarms
  <2> QED
    BY <1>1, <1>2, <1>5, <2>1 DEF RowsSettle
<1> QED
  BY <1>4, <1>5

-------------------------------------------------------------------------------
(* The control service *)

\* The control service works only for alarms that an INSERT was made for.
LEMMA OrdersStep ==
  ASSUME TypeOK, ChecksOwnAlarms, StatementsFollow, OrdersNameStoredAlarms, [Next]_vars
  PROVE  OrdersNameStoredAlarms'
<1>0. EngineTypeOK
  BY DEF TypeOK
<1>1. /\ \A a \in rows \cup failed : a \in rows' \cup failed' /\ alarms'[a] = alarms[a]
  <2>1. \A a \in rows \cup failed : a \in DOMAIN alarms
    BY <1>0, Numbered DEF EngineTypeOK
  <2> QED
    BY <1>0, <2>1, EngineGrows
<1> DEFINE Known(a) == a \in rows \cup failed /\ alarms[a].level >= 2
<1>2. ASSUME \A x \in walks' \cup orders' \cup logs' : Known(x.alarm)
      PROVE  OrdersNameStoredAlarms'
  BY <1>1, <1>2 DEF OrdersNameStoredAlarms
<1>3. \A x \in walks \cup orders \cup logs : Known(x.alarm)
  BY DEF OrdersNameStoredAlarms
<1> HIDE DEF Known
<1>4. ASSUME NEW c \in DOMAIN checks, Trigger(c) PROVE OrdersNameStoredAlarms'
  <2> DEFINE a == checks[c].alarm
             zone == FireZone[checks[c].device]
  <2>1. /\ a \in Nat /\ checks[c].level \in 0..3 /\ a \in rows \cup failed /\ a # 0
        /\ Control!HandleEmergency(a, checks[c].level, zone)
    BY <1>0, <1>4, Numbered DEF Trigger, Engine!TriggerAlarm, StatementsFollow, EngineTypeOK
  <2>2. checks[c].level >= 2 => Known(a)
    BY <2>1 DEF ChecksOwnAlarms, Known
  <2>3. \A x \in walks' : x \in walks \/ (checks[c].level >= 2 /\ x.alarm = a)
    <3>1. \A k : Control!Walk(k, zone, a, checks[c].level).alarm = a
      BY DEF Control!Walk
    <3> QED
      BY <2>1, <3>1, NewWalks
  <2>4. UNCHANGED <<orders, logs>>
    BY <2>1 DEF Control!HandleEmergency
  <2> QED
    BY <1>2, <1>3, <2>2, <2>3, <2>4
<1>5. ASSUME NEW w \in walks, Control!LookUp(w) PROVE OrdersNameStoredAlarms'
  <2>0. w \in WalkRecord
    BY DEF TypeOK, ControlTypeOK
  <2>1. \A d : /\ [w EXCEPT !.todo = @ \ {d}].alarm = w.alarm
               /\ [w EXCEPT !.pc = "mark", !.device = d, !.todo = @ \ {d}].alarm = w.alarm
    BY <2>0 DEF WalkRecord
  <2>2. \A x \in walks' : x \in walks \/ x.alarm = w.alarm
    BY <1>5, <2>1 DEF Control!LookUp, Control!GoOn
  <2> QED
    BY <1>2, <1>3, <1>5, <2>2 DEF Control!LookUp
<1>6. ASSUME NEW w \in walks, Control!MarkAndOrder(w) PROVE OrdersNameStoredAlarms'
  <2>0. w \in WalkRecord
    BY DEF TypeOK, ControlTypeOK
  <2>1. \A x \in walks' : x \in walks \/ x.alarm = w.alarm
    <3>1. [w EXCEPT !.pc = "next", !.device = NoDevice].alarm = w.alarm
      BY <2>0 DEF WalkRecord
    <3> QED
      BY <1>6, <3>1 DEF Control!MarkAndOrder, Control!GoOn
  <2>2. \A o \in orders' : o \in orders \/ o.alarm = w.alarm
    BY <1>6 DEF Control!MarkAndOrder
  <2> QED
    BY <1>2, <1>3, <1>6, <2>1, <2>2 DEF Control!MarkAndOrder
<1>7. ASSUME NEW o \in orders, Control!ControlDevice(o) \/ Control!LogControl(o)
      PROVE  OrdersNameStoredAlarms'
  <2>0. o \in OrderRecord
    BY DEF TypeOK, ControlTypeOK
  <2>1. /\ \A x \in orders' : x \in orders \/ x.alarm = o.alarm
        /\ \A x \in logs' : x \in logs \/ x.alarm = o.alarm
    <3>1. CASE Control!ControlDevice(o)
      <4>1. \A s : [o EXCEPT !.pc = "log", !.success = s].alarm = o.alarm
        BY <2>0 DEF OrderRecord
      <4> QED
        BY <3>1, <4>1 DEF Control!ControlDevice
    <3>2. CASE Control!LogControl(o)
      BY <3>2 DEF Control!LogControl
    <3> QED
      BY <1>7, <3>1, <3>2
  <2>3. walks' = walks
    BY <1>7 DEF Control!ControlDevice, Control!LogControl
  <2> QED
    BY <1>2, <1>3, <2>1, <2>3
<1>8. CASE Control!Crash
  BY <1>2, <1>3, <1>8 DEF Control!Crash
<1>9. CASE Control!ResetStep \/ Control!CooldownEnds
  <2>1. UNCHANGED <<walks, orders, logs>>
    BY <1>9 DEF Control!ResetStep, Control!ResetValves, Control!ResetFans,
                Control!CooldownEnds
  <2> QED
    BY <1>2, <1>3, <2>1
<1>10. CASE UNCHANGED controlVars
  BY <1>2, <1>3, <1>10 DEF controlVars
<1> QED
  BY <1>4, <1>5, <1>6, <1>7, <1>8, <1>9, <1>10
  DEF Next, EngineStep, Control!Next, Control!WalkStep, Control!OrderStep, vars

\* What has been ordered and passed stays so.
LEMMA AnsweredStays ==
  ASSUME TypeOK, [Next]_vars
  PROVE  /\ ordered \subseteq ordered'
         /\ \A a, d : Answered(a, d) => Answered(a, d)'
<1>1. ordered \subseteq ordered' /\ passed \subseteq passed'
  <2>1. ASSUME NEW w \in walks, Control!LookUp(w)
        PROVE  ordered \subseteq ordered' /\ passed \subseteq passed'
    BY <2>1 DEF Control!LookUp
  <2>2. ASSUME NEW w \in walks, Control!MarkAndOrder(w)
        PROVE  ordered \subseteq ordered' /\ passed \subseteq passed'
    BY <2>2 DEF Control!MarkAndOrder
  <2>3. ASSUME NEW o \in orders, Control!ControlDevice(o) \/ Control!LogControl(o)
        PROVE  ordered \subseteq ordered' /\ passed \subseteq passed'
    BY <2>3 DEF Control!ControlDevice, Control!LogControl, Control!historyVars
  <2>4. CASE Control!ResetStep \/ Control!CooldownEnds \/ Control!Crash
    BY <2>4 DEF Control!ResetStep, Control!ResetValves, Control!ResetFans,
                Control!CooldownEnds, Control!Crash, Control!historyVars
  <2>5. ASSUME NEW c \in DOMAIN checks, Trigger(c)
        PROVE  ordered \subseteq ordered' /\ passed \subseteq passed'
    BY <2>5 DEF Trigger, Control!HandleEmergency, Control!historyVars
  <2>6. CASE UNCHANGED controlVars
    BY <2>6 DEF controlVars
  <2> QED
    BY <2>1, <2>2, <2>3, <2>4, <2>5, <2>6
    DEF Next, EngineStep, Control!Next, Control!WalkStep, Control!OrderStep, vars
<1>2. DOMAIN alarms \subseteq DOMAIN alarms'
  BY EngineGrows DEF TypeOK
<1> QED
  BY <1>1, <1>2 DEF Answered

\* A walk that goes on keeps to its kind.
LEMMA KindsApartStep ==
  ASSUME TypeOK, KindsApart, [Next]_vars
  PROVE  KindsApart'
<1> DEFINE OfKind(w) ==
             w.kind = "valve" => w.todo \cup {w.device} \subseteq Valve \cup {NoDevice}
           Runs(o) == o.device \in Fan => o.speed # 0
<1>1. /\ \A w \in walks : w \in WalkRecord /\ OfKind(w)
      /\ \A o \in orders : o \in OrderRecord /\ Runs(o)
  BY DEF TypeOK, ControlTypeOK, KindsApart
<1>2. ASSUME \A w \in walks' : w \in walks \/ OfKind(w),
             \A o \in orders' : o \in orders \/ Runs(o)
      PROVE  KindsApart'
  BY <1>1, <1>2 DEF KindsApart
<1>3. ASSUME NEW w \in walks, Control!LookUp(w) PROVE KindsApart'
  <2>1. \A d \in w.todo : /\ OfKind([w EXCEPT !.todo = @ \ {d}])
                          /\ OfKind([w EXCEPT !.pc = "mark", !.device = d, !.todo = @ \ {d}])
    BY <1>1 DEF WalkRecord
  <2>2. \A x \in walks' : x \in walks \/ OfKind(x)
    BY <1>3, <2>1 DEF Control!LookUp, Control!GoOn
  <2>3. orders' = orders
    BY <1>3 DEF Control!LookUp
  <2> QED
    BY <1>2, <2>2, <2>3
<1>4. ASSUME NEW w \in walks, Control!MarkAndOrder(w) PROVE KindsApart'
  <2> DEFINE x == [w EXCEPT !.pc = "next", !.device = NoDevice]
             o == [device |-> w.device, alarm |-> w.alarm,
                   speed |-> Control!Speed(w.kind, w.level),
                   pc |-> "order", success |-> FALSE]
  <2>1. OfKind(x)
    BY <1>1 DEF WalkRecord
  <2>2. Runs(o)
    <3>1. w.device \in Fan => w.kind # "valve"
      BY <1>1, ControlAssumption
    <3> QED
      BY <3>1 DEF Control!Speed
  <2>3. orders' = orders \cup {o} /\ Control!GoOn(w, x)
    BY <1>4 DEF Control!MarkAndOrder
  <2> HIDE DEF x, o
  <2>4. \A y \in walks' : y \in walks \/ y = x
    BY <2>3 DEF Control!GoOn
  <2> QED
    BY <1>2, <2>1, <2>2, <2>3, <2>4
<1>5. ASSUME NEW o \in orders, Control!ControlDevice(o) \/ Control!LogControl(o)
      PROVE  KindsApart'
  <2>1. \A s : Runs([o EXCEPT !.pc = "log", !.success = s])
    BY <1>1 DEF OrderRecord
  <2>2. walks' = walks /\ \A x \in orders' : x \in orders \/ Runs(x)
    <3>1. CASE Control!ControlDevice(o)
      BY <2>1, <3>1 DEF Control!ControlDevice
    <3>2. CASE Control!LogControl(o)
      BY <3>2 DEF Control!LogControl
    <3> QED
      BY <1>5, <3>1, <3>2
  <2> QED
    BY <1>2, <2>2
<1>6. CASE Control!Crash
  BY <1>2, <1>6 DEF Control!Crash
<1>7. CASE Control!ResetStep \/ Control!CooldownEnds
  <2>1. UNCHANGED <<walks, orders>>
    BY <1>7 DEF Control!ResetStep, Control!ResetValves, Control!ResetFans,
                Control!CooldownEnds
  <2> QED
    BY <1>2, <2>1
<1>8. ASSUME NEW c \in DOMAIN checks, Trigger(c) PROVE KindsApart'
  <2> DEFINE a == checks[c].alarm
             level == checks[c].level
             zone == FireZone[checks[c].device]
  <2>1. a \in Nat /\ level \in 0..3 /\ Control!HandleEmergency(a, level, zone)
    BY <1>8, Numbered DEF Trigger, TypeOK
  <2>2. \A k : OfKind(Control!Walk(k, zone, a, level))
    BY DEF Control!Walk, Control!DevicesOf
  <2>3. orders' = orders
    BY <2>1 DEF Control!HandleEmergency
  <2>4. \A w \in walks' : w \in walks \/ \E k : w = Control!Walk(k, zone, a, level)
    BY <2>1, NewWalks
  <2> HIDE DEF a, level, zone
  <2> QED
    BY <1>2, <2>2, <2>3, <2>4
<1>9. CASE UNCHANGED controlVars
  <2>1. UNCHANGED <<walks, orders>>
    BY <1>9 DEF controlVars
  <2> QED
    BY <1>2, <2>1
<1> QED
  BY <1>3, <1>4, <1>5, <1>6, <1>7, <1>8, <1>9
  DEF Next, EngineStep, Control!Next, Control!WalkStep, Control!OrderStep, vars

\* A device goes on cooldown as it is ordered for an alarm that exists.
LEMMA CooldownOrderedStep ==
  ASSUME TypeOK, OrdersNameStoredAlarms, CooldownOrdered, [Next]_vars
  PROVE  CooldownOrdered'
<1>1. /\ ordered \subseteq ordered' /\ DOMAIN alarms \subseteq DOMAIN alarms'
      /\ activeControls \in [Valve \cup Fan -> Nat]
  BY AnsweredStays, EngineGrows DEF TypeOK, ControlTypeOK
<1>2. ASSUME \A d \in Valve \cup Fan :
               activeControls'[d] = 0 \/ activeControls'[d] = activeControls[d]
      PROVE  CooldownOrdered'
  BY <1>1, <1>2 DEF CooldownOrdered
<1>3. ASSUME NEW w \in walks, Control!MarkAndOrder(w) PROVE CooldownOrdered'
  <2>1. w.alarm \in DOMAIN alarms
    BY Numbered DEF OrdersNameStoredAlarms, TypeOK, EngineTypeOK
  <2>2. /\ activeControls' = [activeControls EXCEPT ![w.device] = w.alarm]
        /\ <<w.alarm, w.device>> \in ordered'
    BY <1>3 DEF Control!MarkAndOrder
  <2> QED
    BY <1>1, <2>1, <2>2 DEF CooldownOrdered
<1>4. CASE Control!CooldownEnds \/ Control!Crash
  <2>1. \A d \in Valve \cup Fan :
          activeControls'[d] = 0 \/ activeControls'[d] = activeControls[d]
    BY <1>1, <1>4 DEF Control!CooldownEnds, Control!Crash, Control!Controlled
  <2> QED
    BY <1>2, <2>1
<1>5. ASSUME activeControls' = activeControls PROVE CooldownOrdered'
  BY <1>2, <1>5
<1>6. ASSUME NEW w \in walks, Control!LookUp(w) PROVE activeControls' = activeControls
  BY <1>6 DEF Control!LookUp
<1>7. ASSUME NEW o \in orders, Control!ControlDevice(o) \/ Control!LogControl(o)
      PROVE  activeControls' = activeControls
  BY <1>7 DEF Control!ControlDevice, Control!LogControl
<1>8. CASE Control!ResetStep
  BY <1>5, <1>8 DEF Control!ResetStep, Control!ResetValves, Control!ResetFans
<1>9. ASSUME NEW c \in DOMAIN checks, Trigger(c) PROVE activeControls' = activeControls
  BY <1>9 DEF Trigger, Control!HandleEmergency
<1>10. CASE UNCHANGED controlVars
  BY <1>5, <1>10 DEF controlVars
<1> QED
  BY <1>3, <1>4, <1>5, <1>6, <1>7, <1>8, <1>9, <1>10
  DEF Next, EngineStep, Control!Next, Control!WalkStep, Control!OrderStep, vars

\* The order of a device on cooldown is on its way, or its row tells of it, until a
\* reset comes.
LEMMA CooldownInForceStep ==
  ASSUME TypeOK, KindsApart, CooldownInForce, [Next]_vars
  PROVE  CooldownInForce'
<1> DEFINE Shown(d) == IF d \in Valve THEN valveRow[d] = "closed" ELSE fanRow[d] # 0
           Coming(d) == \E o \in orders : o.device = d /\ o.pc = "order"
<1>0. /\ activeControls \in [Valve \cup Fan -> Nat]
      /\ \A o \in orders : o \in OrderRecord
      /\ valveRow \in [Valve -> {"open", "closed"}] /\ fanRow \in [Fan -> {0, 75, 100}]
  BY DEF TypeOK, ControlTypeOK
<1>1. \A d \in Valve \cup Fan :
        activeControls[d] # 0 => Shown(d) \/ Coming(d) \/ d \in undone
  BY DEF CooldownInForce, InForce
<1>2. ASSUME \A d \in Valve \cup Fan :
               activeControls'[d] # 0 => Shown(d)' \/ Coming(d)' \/ d \in undone'
      PROVE  CooldownInForce'
  BY <1>2 DEF CooldownInForce, InForce
<1>3. ASSUME \A d \in Valve \cup Fan :
               activeControls'[d] = 0 \/ activeControls'[d] = activeControls[d],
             UNCHANGED <<valveRow, fanRow>>,
             \A o \in orders : o.pc = "order" => o \in orders',
             undone \subseteq undone'
      PROVE  CooldownInForce'
  BY <1>1, <1>2, <1>3
<1>4. ASSUME NEW w \in walks, Control!LookUp(w) PROVE CooldownInForce'
  <2>1. UNCHANGED <<activeControls, valveRow, fanRow, orders, undone>>
    BY <1>4 DEF Control!LookUp
  <2> QED
    BY <1>3, <2>1
<1>5. ASSUME NEW w \in walks, Control!MarkAndOrder(w) PROVE CooldownInForce'
  <2> DEFINE o == [device |-> w.device, alarm |-> w.alarm,
                   speed |-> Control!Speed(w.kind, w.level),
                   pc |-> "order", success |-> FALSE]
  <2>1. /\ activeControls' = [activeControls EXCEPT ![w.device] = w.alarm]
        /\ orders' = orders \cup {o} /\ undone' = undone \ {w.device}
        /\ UNCHANGED <<valveRow, fanRow>>
    BY <1>5 DEF Control!MarkAndOrder
  <2>2. o.device = w.device /\ o.pc = "order"
    OBVIOUS
  <2> HIDE DEF o
  <2>3. ASSUME NEW d \in Valve \cup Fan, d # w.device, activeControls'[d] # 0
        PROVE  Shown(d)' \/ Coming(d)' \/ d \in undone'
    BY <1>0, <1>1, <2>1, <2>3
  <2>4. Coming(w.device)'
    BY <2>1, <2>2
  <2> QED
    BY <1>2, <2>3, <2>4
<1>6. ASSUME NEW o \in orders, Control!ControlDevice(o) PROVE CooldownInForce'
  <2>1. o \in OrderRecord /\ o.device \in Valve \cup Fan
        /\ (o.device \in Fan => o.speed # 0)
    BY <1>0 DEF OrderRecord, KindsApart
  <2>2. PICK accepted \in BOOLEAN, ok \in BOOLEAN :
          /\ orders' = (orders \ {o}) \cup {[o EXCEPT !.pc = "log", !.success = accepted]}
          /\ valveRow' = IF ok /\ o.device \in Valve
                           THEN [valveRow EXCEPT ![o.device] = "closed"] ELSE valveRow
          /\ fanRow' = IF ok /\ o.device \in Fan
                         THEN [fanRow EXCEPT ![o.device] = o.speed] ELSE fanRow
          /\ undone' = IF ok THEN undone ELSE undone \cup {o.device}
    BY <1>6 DEF Control!ControlDevice, Control!Outcome
  <2>3. activeControls' = activeControls
    BY <1>6 DEF Control!ControlDevice
  <2>4. Shown(o.device)' \/ o.device \in undone'
    BY <1>0, <2>1, <2>2, ControlAssumption
  <2>5. \A d \in Valve \cup Fan : d # o.device => (Shown(d) <=> Shown(d)')
    BY <1>0, <2>2
  <2>6. \A d : d # o.device => (Coming(d) => Coming(d)')
    BY <2>2
  <2>7. undone \subseteq undone'
    BY <2>2
  <2> HIDE DEF Shown, Coming
  <2> QED
    BY <1>1, <1>2, <2>3, <2>4, <2>5, <2>6, <2>7
<1>7. ASSUME NEW o \in orders, Control!LogControl(o) PROVE CooldownInForce'
  <2>1. o.pc = "log" /\ orders' = orders \ {o}
        /\ UNCHANGED <<activeControls, valveRow, fanRow, undone>>
    BY <1>7 DEF Control!LogControl, Control!historyVars
  <2> QED
    BY <1>3, <2>1
<1>8. CASE Control!CooldownEnds
  <2>1. \A d \in Valve \cup Fan :
          activeControls'[d] = 0 \/ activeControls'[d] = activeControls[d]
    BY <1>0, <1>8 DEF Control!CooldownEnds, Control!Controlled
  <2>2. UNCHANGED <<valveRow, fanRow, orders, undone>>
    BY <1>8 DEF Control!CooldownEnds, Control!historyVars
  <2> QED
    BY <1>3, <2>1, <2>2
<1>9. CASE Control!Crash
  <2>1. \A d \in Valve \cup Fan : activeControls'[d] = 0
    BY <1>9 DEF Control!Crash, Control!Controlled
  <2> QED
    BY <1>2, <2>1
<1>10. ASSUME NEW z \in Zone, Control!ResetValves(z) PROVE CooldownInForce'
  <2>1. PICK ok \in BOOLEAN :
          /\ valveRow' = [v \in Valve |-> IF ok /\ ZoneOf[v] = z THEN "open" ELSE valveRow[v]]
          /\ undone' = undone \cup {v \in Valve : ok /\ ZoneOf[v] = z}
    BY <1>10 DEF Control!ResetValves, Control!Outcome
  <2>2. UNCHANGED <<activeControls, orders, fanRow>>
    BY <1>10 DEF Control!ResetValves
  <2>3. \A d \in Valve \cup Fan : Shown(d) => Shown(d)' \/ d \in undone'
    BY <2>1, <2>2
  <2>4. \A d : Coming(d) => Coming(d)'
    BY <2>2
  <2>5. undone \subseteq undone'
    BY <2>1
  <2> HIDE DEF Shown, Coming
  <2> QED
    BY <1>1, <1>2, <2>2, <2>3, <2>4, <2>5
<1>11. ASSUME NEW r \in DOMAIN resets, Control!ResetFans(r) PROVE CooldownInForce'
  <2>1. PICK ok \in BOOLEAN :
          /\ fanRow' = [f \in Fan |-> IF ok /\ ZoneOf[f] = resets[r].zone
                                        THEN 0 ELSE fanRow[f]]
          /\ undone' = undone \cup {f \in Fan : ok /\ ZoneOf[f] = resets[r].zone}
    BY <1>11 DEF Control!ResetFans, Control!Outcome
  <2>2. UNCHANGED <<activeControls, orders, valveRow>>
    BY <1>11 DEF Control!ResetFans
  <2>3. \A d \in Valve \cup Fan : Shown(d) => Shown(d)' \/ d \in undone'
    BY <2>1, <2>2
  <2>4. \A d : Coming(d) => Coming(d)'
    BY <2>2
  <2>5. undone \subseteq undone'
    BY <2>1
  <2> HIDE DEF Shown, Coming
  <2> QED
    BY <1>1, <1>2, <2>2, <2>3, <2>4, <2>5
<1>12. ASSUME NEW c \in DOMAIN checks, Trigger(c) PROVE CooldownInForce'
  <2>1. UNCHANGED <<activeControls, valveRow, fanRow, orders, undone>>
    BY <1>12 DEF Trigger, Control!HandleEmergency, Control!historyVars
  <2> QED
    BY <1>3, <2>1
<1>13. CASE UNCHANGED controlVars
  <2>1. UNCHANGED <<activeControls, valveRow, fanRow, orders, undone>>
    BY <1>13 DEF controlVars
  <2> QED
    BY <1>3, <2>1
<1> QED
  BY <1>4, <1>5, <1>6, <1>7, <1>8, <1>9, <1>10, <1>11, <1>12, <1>13
  DEF Next, EngineStep, Control!Next, Control!WalkStep, Control!OrderStep,
      Control!ResetStep, vars

\* A walk that goes on leaves no device behind that is not answered.
LEMMA GoOnAnswers ==
  ASSUME NEW w \in walks, NEW x, Control!GoOn(w, x), x.alarm = w.alarm, x.kind = w.kind,
         NEW D, NoDevice \notin D, NEW a, NEW k,
         \A z : Answered(a, z) => Answered(a, z)',
         a = w.alarm =>
           \A z \in D : z \in w.todo \cup {w.device} =>
                          Answered(a, z)' \/ z \in x.todo \cup {x.device},
         BeingAnswered(a, k, D)
  PROVE  BeingAnswered(a, k, D)'
<1>1. CASE \A z \in D : Answered(a, z)
  BY <1>1 DEF BeingAnswered
<1>2. ASSUME NEW v \in walks, v.alarm = a, v.kind = k,
             \A z \in D : Answered(a, z) \/ z \in v.todo \cup {v.device}
      PROVE  BeingAnswered(a, k, D)'
  <2>1. CASE v # w
    <3>1. v \in walks'
      BY <2>1 DEF Control!GoOn
    <3> QED
      BY <1>2, <3>1 DEF BeingAnswered
  <2>2. CASE v = w
    <3>1. \A z \in D : Answered(a, z)' \/ z \in x.todo \cup {x.device}
      BY <1>2, <2>2
    <3>2. CASE x.todo = {} /\ x.device = NoDevice
      BY <3>1, <3>2 DEF BeingAnswered
    <3>3. CASE ~(x.todo = {} /\ x.device = NoDevice)
      <4>1. x \in walks' /\ x.alarm = a /\ x.kind = k
        BY <1>2, <2>2, <3>3 DEF Control!GoOn
      <4> QED
        BY <3>1, <4>1 DEF BeingAnswered
    <3> QED
      BY <3>2, <3>3
  <2> QED
    BY <2>1, <2>2
<1> QED
  BY <1>1, <1>2 DEF BeingAnswered

\* The zone of an alarm is answered, or a walk is still at it.
LEMMA WalksAnswerStep ==
  ASSUME TypeOK, CooldownOrdered, WalksAnswer, [Next]_vars
  PROVE  WalksAnswer'
<1> DEFINE D(c, k) == Control!DevicesOf(k, FireZone[checks[c].device])
           Due(c, k) == /\ checks[c].pc = "done" /\ checks[c].level >= 2
                        /\ checks[c].alarm # 0
                        /\ ~crashed /\ <<k, checks[c].alarm>> \notin unanswered
<1>0. EngineTypeOK /\ \A a, z : Answered(a, z) => Answered(a, z)'
  BY AnsweredStays DEF TypeOK
<1>1. \A c \in DOMAIN checks, k \in Control!Kind :
        Due(c, k) => BeingAnswered(checks[c].alarm, k, D(c, k))
  BY DEF WalksAnswer
<1>2. \A c \in DOMAIN checks, k \in Control!Kind : NoDevice \notin D(c, k)
  BY ControlAssumption DEF Control!DevicesOf
\* Steps that leave the checks alone.
<1>3. ASSUME checks' = checks, unanswered' = unanswered, crashed' = crashed,
             \A c \in DOMAIN checks, k \in Control!Kind :
               BeingAnswered(checks[c].alarm, k, D(c, k)) =>
                 BeingAnswered(checks[c].alarm, k, D(c, k))'
      PROVE  WalksAnswer'
  BY <1>1, <1>3 DEF WalksAnswer
<1>4. ASSUME NEW w \in walks, NEW x, Control!GoOn(w, x), x.alarm = w.alarm, x.kind = w.kind,
             UNCHANGED <<checks, unanswered, crashed>>,
             \A z \in w.todo \cup {w.device} :
               Answered(w.alarm, z)' \/ z \in x.todo \cup {x.device, NoDevice}
      PROVE  WalksAnswer'
  <2>1. ASSUME NEW c \in DOMAIN checks, NEW k \in Control!Kind,
               BeingAnswered(checks[c].alarm, k, D(c, k))
        PROVE  BeingAnswered(checks[c].alarm, k, D(c, k))'
    <3>1. ASSUME NEW a, NEW E, a = checks[c].alarm, E = D(c, k), BeingAnswered(a, k, E)
          PROVE  BeingAnswered(a, k, E)'
      <4>1. NoDevice \notin E
        BY <1>2, <3>1
      <4>2. a = w.alarm =>
              \A z \in E : z \in w.todo \cup {w.device} =>
                             Answered(a, z)' \/ z \in x.todo \cup {x.device}
        BY <1>4, <4>1
      <4> QED
        BY <1>0, <1>4, <3>1, <4>1, <4>2, GoOnAnswers
    <3>2. checks' = checks
      BY <1>4
    <3> QED
      BY <2>1, <3>1, <3>2 DEF BeingAnswered
  <2> QED
    BY <1>3, <1>4, <2>1
<1>5. ASSUME NEW w \in walks, Control!LookUp(w), checks' = checks PROVE WalksAnswer'
  <2>0. w \in WalkRecord /\ w.device = NoDevice
    BY <1>5 DEF TypeOK, ControlTypeOK, Control!LookUp
  <2>1. PICK d \in w.todo :
          IF Control!OnCooldown(d)
          THEN /\ passed' = passed \cup {<<w.alarm, d, activeControls[d]>>}
               /\ Control!GoOn(w, [w EXCEPT !.todo = @ \ {d}])
          ELSE Control!GoOn(w, [w EXCEPT !.pc = "mark", !.device = d, !.todo = @ \ {d}])
    BY <1>5 DEF Control!LookUp
  <2>2. UNCHANGED <<checks, unanswered, crashed>>
    BY <1>5 DEF Control!LookUp
  <2>3. CASE Control!OnCooldown(d)
    <3> DEFINE b == activeControls[d]
    <3>0. b # 0 /\ <<w.alarm, d, b>> \in passed' /\ d \in Valve \cup Fan
      BY <2>0, <2>1, <2>3 DEF Control!OnCooldown, WalkRecord
    <3>1. Answered(w.alarm, d)'
      <4>1. b \in DOMAIN alarms' /\ <<b, d>> \in ordered'
        BY <1>0, <3>0, AnsweredStays, EngineGrows DEF CooldownOrdered
      <4> QED
        BY <3>0, <4>1 DEF Answered
    <3> DEFINE x == [w EXCEPT !.todo = @ \ {d}]
    <3>2. /\ x.alarm = w.alarm /\ x.kind = w.kind /\ x.todo = w.todo \ {d}
          /\ x.device = NoDevice /\ Control!GoOn(w, x)
      BY <2>0, <2>1, <2>3 DEF WalkRecord
    <3> HIDE DEF x
    <3>3. \A z \in w.todo \cup {w.device} :
            Answered(w.alarm, z)' \/ z \in x.todo \cup {x.device, NoDevice}
      BY <2>0, <3>1, <3>2
    <3> QED
      BY <1>4, <2>2, <3>2, <3>3
  <2>4. CASE ~Control!OnCooldown(d)
    <3> DEFINE x == [w EXCEPT !.pc = "mark", !.device = d, !.todo = @ \ {d}]
    <3>2. /\ x.alarm = w.alarm /\ x.kind = w.kind /\ x.todo = w.todo \ {d}
          /\ x.device = d /\ Control!GoOn(w, x)
      BY <2>0, <2>1, <2>4 DEF WalkRecord
    <3> HIDE DEF x
    <3>3. \A z \in w.todo \cup {w.device} :
            Answered(w.alarm, z)' \/ z \in x.todo \cup {x.device, NoDevice}
      BY <2>0, <3>2
    <3> QED
      BY <1>4, <2>2, <3>2, <3>3
  <2> QED
    BY <2>3, <2>4
<1>6. ASSUME NEW w \in walks, Control!MarkAndOrder(w), checks' = checks PROVE WalksAnswer'
  <2>0. w \in WalkRecord
    BY DEF TypeOK, ControlTypeOK
  <2> DEFINE x == [w EXCEPT !.pc = "next", !.device = NoDevice]
  <2>1. /\ x.alarm = w.alarm /\ x.kind = w.kind /\ x.todo = w.todo
        /\ x.device = NoDevice /\ Control!GoOn(w, x)
    BY <1>6, <2>0 DEF WalkRecord, Control!MarkAndOrder
  <2>2. UNCHANGED <<checks, unanswered, crashed>> /\ Answered(w.alarm, w.device)'
    BY <1>6 DEF Control!MarkAndOrder, Answered
  <2> HIDE DEF x
  <2>3. \A z \in w.todo \cup {w.device} :
          Answered(w.alarm, z)' \/ z \in x.todo \cup {x.device, NoDevice}
    BY <2>1, <2>2
  <2> QED
    BY <1>4, <2>1, <2>2, <2>3
<1>7. ASSUME checks' = checks, UNCHANGED <<walks, unanswered, crashed>> PROVE WalksAnswer'
  <2>1. ASSUME NEW c \in DOMAIN checks, NEW k \in Control!Kind,
               BeingAnswered(checks[c].alarm, k, D(c, k))
        PROVE  BeingAnswered(checks[c].alarm, k, D(c, k))'
    BY <1>0, <1>7, <2>1 DEF BeingAnswered
  <2> QED
    BY <1>3, <1>7, <2>1
<1>8. CASE Control!Next /\ UNCHANGED engineVars
  <2>1. checks' = checks
    BY <1>8 DEF engineVars
  <2>2. ASSUME Control!OrderStep \/ Control!ResetStep \/ Control!CooldownEnds
        PROVE  UNCHANGED <<walks, unanswered, crashed>>
    BY <2>2 DEF Control!OrderStep, Control!ControlDevice, Control!LogControl,
                Control!ResetStep, Control!ResetValves, Control!ResetFans,
                Control!CooldownEnds
  <2>3. CASE Control!Crash
    BY <2>3 DEF Control!Crash, WalksAnswer
  <2> QED
    BY <1>5, <1>6, <1>7, <1>8, <2>1, <2>2, <2>3 DEF Control!Next, Control!WalkStep
\* Steps of the engine bring no check with an alarm of level 2 to its end but Trigger.
<1>9. ASSUME UNCHANGED controlVars,
             \A c \in DOMAIN checks', k \in Control!Kind :
               Due(c, k)' => /\ c \in DOMAIN checks /\ Due(c, k)
                             /\ checks'[c].device = checks[c].device
                             /\ checks'[c].alarm = checks[c].alarm
      PROVE  WalksAnswer'
  <2>1. walks' = walks
    BY <1>9 DEF controlVars
  <2>2. ASSUME NEW c \in DOMAIN checks', NEW k \in Control!Kind, Due(c, k)'
        PROVE  BeingAnswered(checks[c].alarm, k, D(c, k))'
    <3>1. /\ c \in DOMAIN checks /\ BeingAnswered(checks[c].alarm, k, D(c, k))
          /\ checks'[c].device = checks[c].device /\ checks'[c].alarm = checks[c].alarm
      BY <1>1, <1>9, <2>2
    <3> QED
      BY <1>0, <2>1, <3>1 DEF BeingAnswered
  <2> QED
    BY <2>2 DEF WalksAnswer
<1>10. CASE EngineStep
  <2>1. UNCHANGED controlVars /\ crashed' = crashed /\ unanswered' = unanswered
    BY <1>10 DEF EngineStep, controlVars
  <2>2. ASSUME NEW c \in DOMAIN checks, Engine!CheckStep(c) PROVE WalksAnswer'
    <3>1. PICK p, a : /\ Moved(c, p, a)
                      /\ p = "done" => a = 0 \/ checks[c].level = 0
      <4>1. Engine!UpdateResolved(c) => checks[c].level = 0
        BY <1>0 DEF Engine!UpdateResolved, EngineTypeOK
      <4> QED
        BY <1>0, <2>2, <4>1, Moves, AlarmStarts DEF Engine!CheckStep
    <3>2. \A e \in DOMAIN checks', k \in Control!Kind : Due(e, k)' => e # c
      BY <3>1 DEF Moved
    <3> QED
      BY <1>9, <2>1, <3>1, <3>2 DEF Moved
  <2>3. ASSUME NEW d \in Device, NEW l \in ReadingLevel, Engine!GoCheckAlarm(d, l)
        PROVE  WalksAnswer'
    <3> DEFINE n == Len(checks) + 1
    <3>1. /\ DOMAIN checks' = DOMAIN checks \cup {n}
          /\ \A c \in DOMAIN checks : checks'[c] = checks[c]
          /\ checks'[n].alarm = 0
      BY <1>0, <2>3, CheckStarts
    <3> HIDE DEF n
    <3> QED
      BY <1>9, <2>1, <3>1
  <2>4. ASSUME NEW d \in Device, Engine!AcknowledgeAlarm(d) PROVE WalksAnswer'
    BY <1>7, <2>1, <2>4 DEF Engine!AcknowledgeAlarm, controlVars
  <2> QED
    BY <1>10, <2>2, <2>3, <2>4 DEF EngineStep
<1>11. ASSUME NEW c \in DOMAIN checks, Trigger(c) PROVE WalksAnswer'
  <2> DEFINE a == checks[c].alarm
             level == checks[c].level
             zone == FireZone[checks[c].device]
  <2>1. a \in Nat /\ level \in 0..3 /\ Control!HandleEmergency(a, level, zone)
        /\ Moved(c, "done", a)
    BY <1>0, <1>11, Numbered, Moves DEF Trigger
  <2>2. PICK answered \in SUBSET Control!Kind :
          /\ unanswered' = unanswered \cup {<<k, a>> : k \in Control!Kind \ answered}
          /\ level < 2 => walks' = walks
          /\ level >= 2 =>
               walks' = walks \cup {w \in {Control!Walk(k, zone, a, level) : k \in answered} :
                                      w.todo # {}}
          /\ level >= 2 => \A k \in answered : Control!Walk(k, zone, a, level) \in WalkRecord
    BY <2>1, NewWalks
  <2>3. walks \subseteq walks' /\ crashed' = crashed
    <3>1. crashed' = crashed
      BY <2>1 DEF Control!HandleEmergency
    <3> QED
      BY <2>1, <2>2, <3>1
  <2>4. ASSUME NEW k \in Control!Kind, level >= 2, <<k, a>> \notin unanswered'
        PROVE  \/ D(c, k) = {}
               \/ \E w \in walks' : w.alarm = a /\ w.kind = k /\ w.todo = D(c, k)
    <3> DEFINE w == Control!Walk(k, zone, a, level)
    <3>1. k \in answered
      BY <2>2, <2>4
    <3>2. w.alarm = a /\ w.kind = k /\ w.todo = D(c, k)
      BY DEF Control!Walk
    <3> HIDE DEF w
    <3>3. w \in {Control!Walk(j, zone, a, level) : j \in answered}
      BY <3>1 DEF w
    <3>4. w.todo # {} => w \in walks'
      BY <2>2, <2>4, <3>3
    <3> QED
      BY <3>2, <3>4
  <2>5. SUFFICES ASSUME NEW e \in DOMAIN checks, NEW k \in Control!Kind, Due(e, k)'
                 PROVE  BeingAnswered(checks[e].alarm, k, D(e, k))'
    <3>1. \A e \in DOMAIN checks, k \in Control!Kind :
            Due(e, k)' => BeingAnswered(checks[e].alarm, k, D(e, k))'
      BY <2>5
    <3>2. DOMAIN checks' = DOMAIN checks
      BY <2>1 DEF Moved
    <3> QED
      BY <3>1, <3>2 DEF WalksAnswer
  <2>6. /\ checks'[e].device = checks[e].device /\ checks'[e].alarm = checks[e].alarm
        /\ checks'[e].level = checks[e].level
        /\ checks'[e].pc = IF e = c THEN "done" ELSE checks[e].pc
    BY <2>1 DEF Moved
  <2>7. CASE e = c
    <3>1. level >= 2 /\ <<k, a>> \notin unanswered'
      BY <2>5, <2>6, <2>7
    <3> QED
      BY <2>4, <2>6, <2>7, <3>1 DEF BeingAnswered
  <2>8. CASE e # c
    <3>1. Due(e, k)
      BY <2>2, <2>3, <2>5, <2>6, <2>8
    <3>2. BeingAnswered(checks[e].alarm, k, D(e, k))
      BY <1>1, <3>1
    <3> QED
      BY <1>0, <2>3, <2>6, <3>2 DEF BeingAnswered
  <2> QED
    BY <2>7, <2>8
<1>12. CASE UNCHANGED vars
  BY <1>7, <1>12 DEF vars, engineVars, controlVars
<1> QED
  BY <1>8, <1>10, <1>11, <1>12 DEF Next

\* The row of d is as it was at the start, or an order that was given stands behind it.
RowIdle(d) == IF d \in Valve THEN valveRow[d] = "open" ELSE fanRow[d] = 0
Backed(d) == \E x \in logs \cup orders : x.device = d /\ x.success

\* A row changes with an order that was accepted, which is logged, or lost on record.
LEMMA RowsBackedStep ==
  ASSUME ControlTypeOK, RowsBacked, [Next]_vars
  PROVE  RowsBacked'
<1>0. /\ orders \subseteq OrderRecord
      /\ \A o \in orders : o.pc = "order" => ~o.success
      /\ valveRow \in [Valve -> {"open", "closed"}] /\ fanRow \in [Fan -> {0, 75, 100}]
  BY DEF ControlTypeOK
<1>1. \A d \in Valve \cup Fan : RowIdle(d) \/ Backed(d) \/ d \in unlogged \/ crashed
  BY DEF RowsBacked, RowIdle, Backed
<1>2. ASSUME \A d \in Valve \cup Fan :
               \/ RowIdle(d)'
               \/ Backed(d)' \/ d \in unlogged' \/ crashed'
      PROVE  RowsBacked'
  BY <1>2 DEF RowsBacked, RowIdle, Backed
<1>3. ASSUME \A d \in Valve \cup Fan : RowIdle(d) => RowIdle(d)',
             logs \cup orders \subseteq logs' \cup orders',
             unlogged \subseteq unlogged', crashed => crashed'
      PROVE  RowsBacked'
  BY <1>1, <1>2, <1>3 DEF Backed
<1>4. ASSUME NEW w \in walks, Control!LookUp(w) \/ Control!MarkAndOrder(w) PROVE RowsBacked'
  <2>1. UNCHANGED <<valveRow, fanRow, logs, unlogged, crashed>> /\ orders \subseteq orders'
    BY <1>4 DEF Control!LookUp, Control!MarkAndOrder
  <2> QED
    BY <1>3, <2>1 DEF RowIdle
<1>5. ASSUME NEW c \in DOMAIN checks, Trigger(c) PROVE RowsBacked'
  <2>1. UNCHANGED <<valveRow, fanRow, logs, orders, unlogged, crashed>>
    BY <1>5 DEF Trigger, Control!HandleEmergency
  <2> QED
    BY <1>3, <2>1 DEF RowIdle
<1>6. CASE UNCHANGED controlVars
  <2>1. UNCHANGED <<valveRow, fanRow, logs, orders, unlogged, crashed>>
    BY <1>6 DEF controlVars
  <2> QED
    BY <1>3, <2>1 DEF RowIdle
<1>7. ASSUME NEW o \in orders, Control!ControlDevice(o) PROVE RowsBacked'
  <2>1. o \in OrderRecord /\ ~o.success /\ o.device \in Valve \cup Fan
    BY <1>0, <1>7 DEF Control!ControlDevice, OrderRecord
  <2>2. PICK accepted \in BOOLEAN, ok \in BOOLEAN :
          /\ ok => accepted
          /\ orders' = (orders \ {o}) \cup {[o EXCEPT !.pc = "log", !.success = accepted]}
          /\ valveRow' = IF ok /\ o.device \in Valve
                           THEN [valveRow EXCEPT ![o.device] = "closed"] ELSE valveRow
          /\ fanRow' = IF ok /\ o.device \in Fan
                         THEN [fanRow EXCEPT ![o.device] = o.speed] ELSE fanRow
    BY <1>7 DEF Control!ControlDevice, Control!Outcome
  <2>3. UNCHANGED <<logs, unlogged, crashed>>
    BY <1>7 DEF Control!ControlDevice
  <2>4. \A d : Backed(d) => Backed(d)'
    BY <2>1, <2>2, <2>3 DEF Backed
  <2>5. ASSUME NEW d \in Valve \cup Fan, RowIdle(d), ~RowIdle(d)' PROVE Backed(d)'
    <3>1. ok /\ d = o.device
      BY <1>0, <2>1, <2>2, <2>5 DEF RowIdle
    <3> DEFINE x == [o EXCEPT !.pc = "log", !.success = accepted]
    <3>2. x.device = o.device /\ x.success = accepted
      BY <2>1 DEF OrderRecord
    <3>3. x \in orders'
      BY <2>2
    <3> HIDE DEF x
    <3> QED
      BY <2>2, <3>1, <3>2, <3>3 DEF Backed
  <2> QED
    BY <1>1, <1>2, <2>3, <2>4, <2>5
<1>8. ASSUME NEW o \in orders, Control!LogControl(o) PROVE RowsBacked'
  <2>1. UNCHANGED <<valveRow, fanRow, crashed>> /\ orders' = orders \ {o}
    BY <1>8 DEF Control!LogControl
  <2> DEFINE x == [device |-> o.device, alarm |-> o.alarm, success |-> o.success]
  <2>2. \/ logs' = logs \cup {x} /\ unlogged' = unlogged
        \/ logs' = logs /\ unlogged' = unlogged \cup {o.device}
    BY <1>8 DEF Control!LogControl
  <2>3. x.device = o.device /\ x.success = o.success
    OBVIOUS
  <2> HIDE DEF x
  <2>4. \A d : Backed(d) => Backed(d)' \/ d \in unlogged'
    BY <2>1, <2>2, <2>3 DEF Backed
  <2>5. unlogged \subseteq unlogged'
    BY <2>2
  <2> QED
    BY <1>1, <1>2, <2>1, <2>4, <2>5 DEF RowIdle
<1>9. CASE Control!CooldownEnds
  <2>1. UNCHANGED <<valveRow, fanRow, logs, orders, unlogged, crashed>>
    BY <1>9 DEF Control!CooldownEnds
  <2> QED
    BY <1>3, <2>1 DEF RowIdle
<1>10. CASE Control!Crash
  BY <1>2, <1>10 DEF Control!Crash
<1>11. CASE Control!ResetStep
  <2>1. UNCHANGED <<logs, orders, unlogged, crashed>>
    BY <1>11 DEF Control!ResetStep, Control!ResetValves, Control!ResetFans
  <2>2. \/ /\ \A v \in Valve : valveRow'[v] = "open" \/ valveRow'[v] = valveRow[v]
           /\ fanRow' = fanRow
        \/ /\ \A f \in Fan : fanRow'[f] = 0 \/ fanRow'[f] = fanRow[f]
           /\ valveRow' = valveRow
    BY <1>11 DEF Control!ResetStep, Control!ResetValves, Control!ResetFans
  <2>3. \A d \in Valve \cup Fan : RowIdle(d) => RowIdle(d)'
    BY <2>2 DEF RowIdle
  <2> QED
    BY <1>3, <2>1, <2>3
<1> QED
  BY <1>4, <1>5, <1>6, <1>7, <1>8, <1>9, <1>10, <1>11
  DEF Next, EngineStep, Control!Next, Control!WalkStep, Control!OrderStep, vars

-------------------------------------------------------------------------------
(* The theorems *)

\* Nothing has happened yet.
LEMMA InvInit ==
  ASSUME Init
  PROVE  IndInv
<1>1. /\ checks = <<>> /\ alarms = <<>> /\ activeAlarms = [d \in Device |-> 0]
      /\ acknowledged = {} /\ resolved = {} /\ rows = {} /\ ackRows = {}
      /\ resolvedRows = {} /\ overlapped = {} /\ failed = {}
      /\ walks = {} /\ orders = {} /\ logs = {}
      /\ activeControls = [d \in Valve \cup Fan |-> 0]
      /\ valveRow = [v \in Valve |-> "open"] /\ fanRow = [f \in Fan |-> 0]
      /\ resets = <<>> /\ undone = {} /\ unanswered = {} /\ unlogged = {}
      /\ crashed = FALSE
  BY DEF Init, Engine!Init, Control!Init, Control!Controlled
<1>2. /\ DOMAIN checks = {} /\ DOMAIN alarms = {} /\ Len(alarms) = 0
      /\ checks \in Seq(CheckRecord) /\ alarms \in Seq(AlarmRecord)
      /\ resets \in Seq([zone : Zone, pc : {"fans", "done"}])
  BY <1>1, EmptySeq
<1>3. EngineTypeOK
  BY <1>1, <1>2 DEF EngineTypeOK
<1>4. ControlTypeOK
  BY <1>1, <1>2 DEF ControlTypeOK
<1>5. /\ ChecksOwnAlarms /\ OpenIsOwn /\ LastExists /\ OnlyLastRuns /\ LastSettles
      /\ RowsSettle /\ StatementsFollow
  BY <1>1, <1>2 DEF ChecksOwnAlarms, OpenIsOwn, LastExists, OnlyLastRuns, LastSettles,
                    RowsSettle, StatementsFollow
<1>6. /\ OrdersNameStoredAlarms /\ KindsApart /\ CooldownOrdered /\ CooldownInForce
      /\ WalksAnswer /\ RowsBacked
  BY <1>1, <1>2 DEF OrdersNameStoredAlarms, KindsApart, CooldownOrdered, CooldownInForce,
                    WalksAnswer, RowsBacked
<1> QED
  BY <1>3, <1>4, <1>5, <1>6 DEF IndInv, TypeOK

\* Every step keeps the inductive invariant.
LEMMA InvStep ==
  ASSUME IndInv, [Next]_vars
  PROVE  IndInv'
<1>1. /\ TypeOK /\ EngineTypeOK /\ ControlTypeOK
      /\ ChecksOwnAlarms /\ OpenIsOwn /\ LastExists /\ OnlyLastRuns /\ LastSettles
      /\ RowsSettle /\ StatementsFollow /\ OrdersNameStoredAlarms
      /\ KindsApart /\ CooldownOrdered /\ CooldownInForce /\ WalksAnswer /\ RowsBacked
  BY DEF IndInv, TypeOK
<1>2. TypeOK'
  BY <1>1, EngineTypeStep, ControlTypeStep DEF TypeOK
<1>3. ChecksOwnAlarms' /\ OpenIsOwn' /\ LastExists' /\ OnlyLastRuns'
  BY <1>1, OwnStep, LastStep
<1>4. LastSettles' /\ RowsSettle' /\ StatementsFollow'
  BY <1>1, LastSettlesStep, RowsSettleStep, StatementsStep
<1>5. OrdersNameStoredAlarms' /\ WalksAnswer' /\ RowsBacked'
  BY <1>1, OrdersStep, WalksAnswerStep, RowsBackedStep
<1>6. KindsApart' /\ CooldownOrdered' /\ CooldownInForce'
  BY <1>1, KindsApartStep, CooldownOrderedStep, CooldownInForceStep
<1> QED
  BY <1>2, <1>3, <1>4, <1>5, <1>6 DEF IndInv

\* Every reachable state satisfies the inductive invariant.
THEOREM IndInvCorrect == Spec => []IndInv
<1>1. Init => IndInv
  BY InvInit
<1>2. IndInv /\ [Next]_vars => IndInv'
  BY InvStep
<1> QED
  BY <1>1, <1>2, PTL DEF Spec

\* The variables of the legacy path keep their types.
THEOREM TypeCorrect == Spec => []TypeOK
<1>1. IndInv => TypeOK
  BY DEF IndInv
<1> QED
  BY <1>1, IndInvCorrect, PTL

\* A device whose checks and acknowledgements never overlapped ends up with the open
\* alarm of its last reading, and its rows with what memory says of the alarms, unless
\* a statement failed (services/alarm.go).
THEOREM SerialDevicesSettleCorrect == Spec => []SerialDevicesSettle
<1>1. IndInv => SerialDevicesSettle
  BY SettledDevices
<1> QED
  BY <1>1, IndInvCorrect, PTL

\* What the control service does names an alarm of level 2 or more whose INSERT has
\* been made.
THEOREM OrdersNameStoredAlarmsCorrect == Spec => []OrdersNameStoredAlarms
<1>1. IndInv => OrdersNameStoredAlarms
  BY DEF IndInv
<1> QED
  BY <1>1, IndInvCorrect, PTL

\* Once the walks of an alarm have ended, every device of its zone has been ordered for
\* it, or was on cooldown then because of an order for an earlier alarm; and the order
\* behind a cooldown is in force (services/emergency.go).
THEOREM ZonesAnsweredCorrect == Spec => []ZonesAnswered
<1>1. WalksAnswer /\ CooldownInForce => ZonesAnswered
  BY DEF WalksAnswer, BeingAnswered, CooldownInForce, ZonesAnswered
<1>2. IndInv => ZonesAnswered
  BY <1>1 DEF IndInv
<1> QED
  BY <1>2, IndInvCorrect, PTL

\* No row says that a device acts unless an order to it was accepted.
THEOREM RowsBackedCorrect == Spec => []RowsBacked
<1>1. IndInv => RowsBacked
  BY DEF IndInv
<1> QED
  BY <1>1, IndInvCorrect, PTL

-------------------------------------------------------------------------------
(* The engine and the life of an alarm *)

\* A check creates an alarm of a new level, or repeats one where checks overlap.
LEMMA CreateRefines ==
  ASSUME IndInv, NEW c \in DOMAIN checks, Engine!CreateAlarm(c)
  PROVE  Lifecycle!Next \/ \E d \in overlapped : RaiseAgain(d)
<1> DEFINE d == checks[c].device
           l == checks[c].level
<1>1. /\ EngineTypeOK /\ OnlyLastRuns /\ LastSettles
  BY DEF IndInv, TypeOK
<1>2. d \in Device /\ l \in Lifecycle!Level
  BY <1>1, Numbered, AlarmStarts DEF Lifecycle!Level
<1>3. /\ alarms' = Append(alarms, [device |-> d, level |-> l])
      /\ activeAlarms' = [activeAlarms EXCEPT ![d] = Len(alarms) + 1]
      /\ UNCHANGED <<acknowledged, resolved>> /\ checks[c].pc = "create"
  BY DEF Engine!CreateAlarm
<1>4. CASE Engine!Changes(d, l)
  <2>1. Lifecycle!Raise(d, l)
    BY <1>3, <1>4 DEF Engine!Changes, Lifecycle!Raise
  <2> QED
    BY <1>2, <2>1 DEF Lifecycle!Next
<1>5. CASE ~Engine!Changes(d, l)
  <2>1. d \in overlapped
    BY <1>1, <1>2, <1>3, <1>5 DEF OnlyLastRuns, LastSettles
  <2>2. LevelOf(d) = l
    BY <1>5 DEF Engine!Changes, LevelOf
  <2>3. RaiseAgain(d)
    BY <1>3, <2>2 DEF RaiseAgain
  <2> QED
    BY <2>1, <2>3
<1> QED
  BY <1>4, <1>5

\* Every step is one of AlarmLifecycle, or repeats an alarm of an overlapped device.
LEMMA LifecycleStep ==
  ASSUME IndInv, [Next]_vars
  PROVE  [Lifecycle!Next \/ \E d \in overlapped : RaiseAgain(d)]_(Lifecycle!vars)
<1>0. EngineTypeOK
  BY DEF IndInv, TypeOK
<1>1. ASSUME NEW c \in DOMAIN checks,
             \/ Engine!LookUp(c) \/ Engine!SaveAlarm(c) \/ Engine!TriggerAlarm(c)
             \/ Engine!UpdateResolved(c)
      PROVE  UNCHANGED Lifecycle!vars
  BY <1>1 DEF Engine!LookUp, Engine!SaveAlarm, Engine!TriggerAlarm,
              Engine!UpdateResolved, Lifecycle!vars
<1>2. ASSUME NEW c \in DOMAIN checks, Engine!ResolveAlarm(c)
      PROVE  Lifecycle!Next \/ UNCHANGED Lifecycle!vars
  <2> DEFINE d == checks[c].device
  <2>1. d \in Device /\ activeAlarms \in [Device -> 0..Len(alarms)]
    BY <1>0, Numbered DEF EngineTypeOK
  <2>2. /\ resolved' = resolved \cup ({activeAlarms[d]} \ {0})
        /\ activeAlarms' = [activeAlarms EXCEPT ![d] = 0]
        /\ UNCHANGED <<alarms, acknowledged>>
    BY <1>2 DEF Engine!ResolveAlarm
  <2>3. CASE activeAlarms[d] = 0
    BY <2>1, <2>2, <2>3 DEF Lifecycle!vars
  <2>4. CASE activeAlarms[d] # 0
    <3>1. Lifecycle!Resolve(d)
      BY <2>2, <2>4 DEF Lifecycle!Resolve
    <3> QED
      BY <2>1, <3>1 DEF Lifecycle!Next
  <2> QED
    BY <2>3, <2>4
<1>3. ASSUME NEW d \in Device, NEW l \in ReadingLevel, Engine!GoCheckAlarm(d, l)
      PROVE  UNCHANGED Lifecycle!vars
  BY <1>3 DEF Engine!GoCheckAlarm, Lifecycle!vars
<1>4. ASSUME NEW d \in Device, Engine!AcknowledgeAlarm(d) PROVE Lifecycle!Next
  BY <1>4 DEF Engine!AcknowledgeAlarm, Lifecycle!Acknowledge, Lifecycle!Next
<1>5. ASSUME UNCHANGED engineVars PROVE UNCHANGED Lifecycle!vars
  BY <1>5 DEF engineVars, Lifecycle!vars
<1> QED
  BY <1>1, <1>2, <1>3, <1>4, <1>5, CreateRefines
  DEF Next, EngineStep, Trigger, Engine!CheckStep, vars

\* Concurrent checks of a device can do nothing to the alarms in memory that
\* AlarmLifecycle does not allow but raise one again (services/alarm.go:57).
THEOREM LifecycleCorrect == Spec => LifecycleButForRepeats
<1>1. Init => Lifecycle!Init
  BY DEF Init, Engine!Init, Lifecycle!Init
<1>2. IndInv /\ [Next]_vars =>
        [Lifecycle!Next \/ \E d \in overlapped : RaiseAgain(d)]_(Lifecycle!vars)
  BY LifecycleStep
<1> QED
  BY <1>1, <1>2, IndInvCorrect, PTL DEF Spec, LifecycleButForRepeats
===============================================================================
