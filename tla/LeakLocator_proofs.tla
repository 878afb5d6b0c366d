-------------------------- MODULE LeakLocator_proofs --------------------------
(***************************************************************************)
(* Proofs about LeakLocator for any detectors, readings, positions and     *)
(* capacities, whatever the localisation algorithm returns.                *)
(***************************************************************************)
EXTENDS LeakLocator, SequenceTheorems, TLAPS

\* The leaks that have been offered to EmergencyController and not dropped.
Sent == handed \o leakChan

\* No leak is listed twice.
ListedOnce ==
  \A i, j \in 1..Len(currentLeaks) : currentLeaks[i] = currentLeaks[j] => i = j

\* The leak about to be merged is neither listed nor sent.
NewestUnseen ==
  detectPc = "merge" =>
    /\ \A i \in 1..Len(currentLeaks) : currentLeaks[i] # Len(leaks)
    /\ \A i \in 1..Len(Sent) : Sent[i] # Len(leaks)

\* Leaks are sent in the order of their IDs.
SentAscends == \A i, j \in 1..Len(Sent) : i < j => Sent[i] < Sent[j]

\* What is sent is stored, or will be.
SentIsStored ==
  ~DBMayFail => \A i \in 1..Len(Sent) : Sent[i] \in saving \cup dbRows

\* The inductive invariant.
IndInv == TypeOK /\ ListedOnce /\ NewestUnseen /\ SentAscends /\ SentIsStored

-------------------------------------------------------------------------------
(* Types *)

LEMMA SeqMonotone ==
  ASSUME NEW S, NEW T, S \subseteq T, NEW s \in Seq(S)
  PROVE  s \in Seq(T)
BY SeqMonotonic

\* A function on 1..n with values in S is a sequence of S.
LEMMA FunctionIsSeq ==
  ASSUME NEW S, NEW n \in Nat, NEW f \in [1..n -> S]
  PROVE  f \in Seq(S) /\ Len(f) = n
<1>1. f \in Seq(S)
  BY SeqDef
<1>2. DOMAIN f = 1..n /\ DOMAIN f = 1..Len(f) /\ Len(f) \in Nat
  BY <1>1, LenProperties
<1> QED
  BY <1>1, <1>2

\* A window with one more reading.
LEMMA PushedType ==
  ASSUME NEW w \in Seq(Concentration), Len(w) <= MaxReadingsPerDetector,
         NEW c \in Concentration
  PROVE  Pushed(w, c) \in Seq(Concentration) /\ Len(Pushed(w, c)) <= MaxReadingsPerDetector
<1>1. /\ Append(w, c) \in Seq(Concentration) /\ Len(Append(w, c)) = Len(w) + 1
      /\ Append(w, c) # <<>> /\ Len(w) \in Nat
  BY AppendProperties, LenProperties
<1>2. /\ Tail(Append(w, c)) \in Seq(Concentration)
      /\ Len(Tail(Append(w, c))) = Len(w)
  BY <1>1, HeadTailProperties
<1> QED
  BY <1>1, <1>2, LocatorAssumption DEF Pushed

\* The list without its i-th leak.
LEMMA RemovedType ==
  ASSUME NEW S, NEW s \in Seq(S), NEW i \in 1..Len(s), NEW t,
         t = [j \in 1..(Len(s) - 1) |-> s[IF j < i THEN j ELSE j + 1]]
  PROVE  /\ t \in Seq(S) /\ Len(t) = Len(s) - 1
         /\ \A j \in 1..Len(t) : t[j] = s[IF j < i THEN j ELSE j + 1]
<1>1. Len(s) \in Nat /\ Len(s) - 1 \in Nat
  BY LenProperties
<1>2. \A j \in 1..(Len(s) - 1) : s[IF j < i THEN j ELSE j + 1] \in S
  BY <1>1, ElementOfSeq
<1>3. t \in [1..(Len(s) - 1) -> S]
  BY <1>2
<1>4. t \in Seq(S) /\ Len(t) = Len(s) - 1
  BY <1>1, <1>3, FunctionIsSeq
<1> QED
  BY <1>4

LEMMA TypeInit == Init => TypeOK
<1> SUFFICES ASSUME Init PROVE TypeOK
  OBVIOUS
<1>1. \A S : <<>> \in Seq(S) /\ Len(<<>>) = 0
  BY EmptySeq
<1> QED
  BY <1>1, LocatorAssumption DEF Init, TypeOK, LeakId

\* Steps other than those that locate a leak leave the IDs alone.
LEMMA SameIds == leaks' = leaks => LeakId' = LeakId
BY DEF LeakId

\* Every step keeps the types.
LEMMA TypeStep ==
  ASSUME TypeOK, [Next]_vars
  PROVE  TypeOK'
<1> USE LocatorAssumption
<1>1. CASE Poll \/ ReceiveTimeout
  BY <1>1, SameIds DEF Poll, ReceiveTimeout, TypeOK, dbVars
<1>2. ASSUME NEW d \in Detector, NEW c \in Concentration, AddReading(d, c) PROVE TypeOK'
  <2>1. /\ readings[d] \in Seq(Concentration) /\ Len(readings[d]) <= MaxReadingsPerDetector
        /\ heard[d] \in 0..MaxReadings
    BY DEF TypeOK
  <2>2. /\ readings' \in [Detector -> Seq(Concentration)]
        /\ \A e \in Detector : Len(readings'[e]) <= MaxReadingsPerDetector
    BY <1>2, <2>1, PushedType DEF AddReading, TypeOK
  <2>3. heard' \in [Detector -> 0..MaxReadings]
    BY <1>2, <2>1 DEF AddReading, TypeOK
  <2> QED
    BY <1>2, <2>2, <2>3, SameIds DEF AddReading, TypeOK, dbVars
<1>3. CASE Tick \/ ReadLatest \/ LocateNothing
  BY <1>3, SameIds DEF Tick, ReadLatest, LocateNothing, TypeOK, dbVars
<1>4. CASE ClearLeaks
  <2>1. currentLeaks' \in Seq(LeakId)
    BY <1>4, EmptySeq DEF ClearLeaks
  <2> QED
    BY <1>4, <2>1, SameIds DEF ClearLeaks, TypeOK, dbVars
<1>5. ASSUME NEW p \in Position, Locate(p) PROVE TypeOK'
  <2>0. leaks \in Seq(Position) /\ leaks' = Append(leaks, p) /\ Len(leaks) \in Nat
    BY <1>5, LenProperties DEF Locate, TypeOK
  <2>1. leaks' \in Seq(Position) /\ Len(leaks') = Len(leaks) + 1 /\ leaks' # <<>>
    BY <2>0, AppendProperties
  <2>2. LeakId \subseteq LeakId'
    BY <2>0, <2>1 DEF LeakId
  <2>3. currentLeaks \in Seq(LeakId') /\ leakChan \in Seq(LeakId') /\ handed \in Seq(LeakId')
    BY <2>2, SeqMonotone DEF TypeOK
  <2> QED
    BY <1>5, <2>1, <2>2, <2>3 DEF Locate, TypeOK, dbVars
<1>6. ASSUME detectPc = "merge" PROVE Len(leaks) \in LeakId
  BY <1>6, LenProperties, EmptySeq, SeqEqual DEF TypeOK, LeakId
<1>7. ASSUME NEW i \in 1..Len(currentLeaks), MergeLeak(i) PROVE TypeOK'
  <2>1. currentLeaks' \in Seq(LeakId)
    <3>1. currentLeaks \in Seq(LeakId) /\ Len(leaks) \in LeakId
      BY <1>6, <1>7 DEF MergeLeak, TypeOK
    <3> QED
      BY <1>7, <3>1, ExceptSeq DEF MergeLeak
  <2> QED
    BY <1>7, <2>1, SameIds DEF MergeLeak, TypeOK, dbVars
<1>8. CASE AddLeak
  <2>1. Len(leaks) \in LeakId
    BY <1>6, <1>8 DEF AddLeak
  <2>2. currentLeaks' \in Seq(LeakId)
    BY <1>8, <2>1, AppendProperties DEF AddLeak, TypeOK
  <2>3. leakChan' \in Seq(LeakId) /\ Len(leakChan') <= LeakChanCap
    BY <1>8, <2>1, AppendProperties, LenProperties DEF AddLeak, TypeOK
  <2> QED
    BY <1>8, <2>1, <2>2, <2>3, SameIds DEF AddLeak, TypeOK, dbVars
<1>9. ASSUME NEW id \in LeakId, SaveLeakSource(id) PROVE TypeOK'
  BY <1>9, SameIds DEF SaveLeakSource, TypeOK
<1>10. ASSUME NEW id \in LeakId, ResolveLeak(id) PROVE TypeOK'
  <2>1. currentLeaks' \in Seq(LeakId)
    BY <1>10, RemovedType DEF ResolveLeak, TypeOK
  <2> QED
    BY <1>10, <2>1, SameIds DEF ResolveLeak, TypeOK
<1>11. CASE ReceiveLeak
  <2>1. /\ Head(leakChan) \in LeakId /\ Tail(leakChan) \in Seq(LeakId)
        /\ Len(Tail(leakChan)) = Len(leakChan) - 1 /\ Len(leakChan) \in Nat
    BY <1>11, HeadTailProperties, LenProperties DEF ReceiveLeak, TypeOK
  <2>2. handed' \in Seq(LeakId)
    BY <1>11, <2>1, AppendProperties DEF ReceiveLeak, TypeOK
  <2> QED
    BY <1>11, <2>1, <2>2, SameIds DEF ReceiveLeak, TypeOK, dbVars
<1>12. CASE Stop
  BY <1>12, SameIds DEF Stop, TypeOK, dbVars
<1>13. CASE UNCHANGED vars
  BY <1>13, SameIds DEF vars, TypeOK, dbVars
<1> QED
  BY <1>1, <1>2, <1>3, <1>4, <1>5, <1>7, <1>8, <1>9, <1>10, <1>11, <1>12,
     <1>13
  DEF Next, DetectionLoop

-------------------------------------------------------------------------------
(* What is sent to EmergencyController *)

\* Taking the next element of a queue leaves what was taken and what is left alone.
LEMMA MoveHead ==
  ASSUME NEW S, NEW s \in Seq(S), NEW t \in Seq(S), t # <<>>
  PROVE  Append(s, Head(t)) \o Tail(t) = s \o t
<1>1. /\ Head(t) \in S /\ Tail(t) \in Seq(S) /\ Len(t) = Len(Tail(t)) + 1
      /\ Head(t) = t[1] /\ \A i \in 1..Len(Tail(t)) : Tail(t)[i] = t[i + 1]
      /\ Len(s) \in Nat /\ Len(Tail(t)) \in Nat
  BY HeadTailProperties, LenProperties
<1> DEFINE a == Append(s, Head(t))
<1>2. /\ a \in Seq(S) /\ Len(a) = Len(s) + 1 /\ a[Len(s) + 1] = Head(t)
      /\ \A i \in 1..Len(s) : a[i] = s[i]
  BY <1>1, AppendProperties
<1> DEFINE l == a \o Tail(t)
<1> DEFINE r == s \o t
<1>3. /\ l \in Seq(S) /\ Len(l) = Len(s) + 1 + Len(Tail(t))
      /\ \A i \in 1..Len(l) : l[i] = IF i <= Len(a) THEN a[i] ELSE Tail(t)[i - Len(a)]
  BY <1>1, <1>2, ConcatProperties
<1>4. /\ r \in Seq(S) /\ Len(r) = Len(s) + Len(t)
      /\ \A i \in 1..Len(r) : r[i] = IF i <= Len(s) THEN s[i] ELSE t[i - Len(s)]
  BY <1>1, ConcatProperties
<1> HIDE DEF a, l, r
<1>5. ASSUME NEW i \in 1..Len(r) PROVE l[i] = r[i]
  <2>1. Len(r) = Len(l) /\ i \in 1..Len(l) /\ i \in Int
    BY <1>1, <1>3, <1>4
  <2>2. l[i] = IF i <= Len(s) + 1 THEN a[i] ELSE Tail(t)[i - (Len(s) + 1)]
    BY <1>2, <1>3, <2>1
  <2>3. r[i] = IF i <= Len(s) THEN s[i] ELSE t[i - Len(s)]
    BY <1>4
  <2>4. CASE i <= Len(s)
    BY <1>1, <1>2, <2>1, <2>2, <2>3, <2>4
  <2>5. CASE i = Len(s) + 1
    BY <1>1, <1>2, <2>1, <2>2, <2>3, <2>5
  <2>6. CASE i > Len(s) + 1
    <3>1. i - (Len(s) + 1) \in 1..Len(Tail(t)) /\ (i - (Len(s) + 1)) + 1 = i - Len(s)
      BY <1>1, <1>3, <2>1, <2>6
    <3>2. Tail(t)[i - (Len(s) + 1)] = t[i - Len(s)]
      BY <1>1, <3>1
    <3>3. ~(i <= Len(s) + 1) /\ ~(i <= Len(s))
      BY <1>1, <2>1, <2>6
    <3> QED
      BY <2>2, <2>3, <3>2, <3>3
  <2> QED
    BY <1>1, <2>1, <2>4, <2>5, <2>6
<1>6. l = r
  BY <1>1, <1>3, <1>4, <1>5, SeqEqual
<1> QED
  BY <1>6 DEF a, l, r

LEMMA SentType == TypeOK => Sent \in Seq(LeakId) /\ Len(Sent) \in Nat
BY ConcatProperties, LenProperties DEF TypeOK, Sent

\* Only a new leak is sent, if the channel is not full.
LEMMA SentStep ==
  ASSUME TypeOK, [Next]_vars
  PROVE  \/ Sent' = Sent
         \/ AddLeak /\ Sent' = Append(Sent, Len(leaks))
<1>1. CASE AddLeak
  <2>1. /\ handed \in Seq(LeakId) /\ leakChan \in Seq(LeakId) /\ handed' = handed
        /\ \/ leakChan' = leakChan
           \/ leakChan' = Append(leakChan, Len(leaks))
    BY <1>1 DEF AddLeak, TypeOK
  <2>2. Len(leaks) \in LeakId
    BY <1>1, LenProperties, EmptySeq, SeqEqual DEF AddLeak, TypeOK, LeakId
  <2>3. handed \o Append(leakChan, Len(leaks)) = Append(handed \o leakChan, Len(leaks))
    BY <2>1, <2>2
  <2> QED
    BY <1>1, <2>1, <2>3 DEF Sent
<1>2. CASE ReceiveLeak
  BY <1>2, MoveHead DEF ReceiveLeak, TypeOK, Sent
<1>3. CASE UNCHANGED <<handed, leakChan>>
  BY <1>3 DEF Sent
<1> QED
  BY <1>1, <1>2, <1>3 DEF Next, DetectionLoop, Poll, ReceiveTimeout, AddReading, Tick,
     ReadLatest, LocateNothing, ClearLeaks, Locate, MergeLeak, SaveLeakSource,
     ResolveLeak, Stop, vars

\* Appending the newest leak.
LEMMA AppendLast ==
  ASSUME NEW S, NEW s \in Seq(S), NEW x
  PROVE  /\ Len(s) \in Nat /\ Len(Append(s, x)) = Len(s) + 1
         /\ Append(s, x)[Len(s) + 1] = x
         /\ \A i \in 1..Len(s) : Append(s, x)[i] = s[i]
BY AppendProperties, LenProperties

LEMMA SentAscendsStep ==
  ASSUME TypeOK, NewestUnseen, SentAscends, [Next]_vars
  PROVE  SentAscends'
<1>1. CASE Sent' = Sent
  BY <1>1 DEF SentAscends
<1>2. CASE AddLeak /\ Sent' = Append(Sent, Len(leaks))
  <2>1. /\ Sent \in Seq(LeakId) /\ Len(Sent) \in Nat /\ Len(leaks) \in Nat
        /\ Len(Sent') = Len(Sent) + 1 /\ Sent'[Len(Sent) + 1] = Len(leaks)
        /\ \A i \in 1..Len(Sent) : Sent'[i] = Sent[i]
    BY <1>2, SentType, AppendLast, LenProperties DEF TypeOK
  <2>2. \A i \in 1..Len(Sent) : Sent[i] \in LeakId /\ Sent[i] # Len(leaks)
    BY <1>2, <2>1, ElementOfSeq DEF NewestUnseen, AddLeak
  <2>3. \A i \in 1..Len(Sent) : Sent[i] \in Int /\ Sent[i] < Len(leaks)
    BY <2>1, <2>2 DEF LeakId
  <2>4. ASSUME NEW i \in 1..Len(Sent'), NEW j \in 1..Len(Sent'), i < j
        PROVE  Sent'[i] < Sent'[j]
    <3>1. i \in 1..Len(Sent)
      BY <2>1, <2>4
    <3>2. CASE j = Len(Sent) + 1
      BY <2>1, <2>3, <3>1, <3>2
    <3>3. CASE j \in 1..Len(Sent)
      BY <2>1, <2>4, <3>1, <3>3 DEF SentAscends
    <3> QED
      BY <2>1, <3>2, <3>3
  <2> QED
    BY <2>4 DEF SentAscends
<1> QED
  BY <1>1, <1>2, SentStep

LEMMA SentIsStoredStep ==
  ASSUME TypeOK, SentIsStored, [Next]_vars
  PROVE  SentIsStored'
<1> SUFFICES ASSUME ~DBMayFail, NEW i \in 1..Len(Sent')
             PROVE  Sent'[i] \in (saving \cup dbRows)'
  BY DEF SentIsStored
<1>1. saving \cup dbRows \subseteq (saving \cup dbRows)'
  BY DEF Next, DetectionLoop, Poll, ReceiveTimeout, AddReading, Tick, ReadLatest,
     LocateNothing, ClearLeaks, Locate, MergeLeak, AddLeak, SaveLeakSource, ResolveLeak,
     ReceiveLeak, Stop, vars, dbVars
<1>2. CASE Sent' = Sent
  BY <1>1, <1>2 DEF SentIsStored
<1>3. CASE AddLeak /\ Sent' = Append(Sent, Len(leaks))
  <2>1. Len(leaks) \in saving'
    BY <1>3 DEF AddLeak
  <2>2. /\ Len(Sent) \in Nat /\ Len(Sent') = Len(Sent) + 1
        /\ Sent'[Len(Sent) + 1] = Len(leaks)
        /\ \A j \in 1..Len(Sent) : Sent'[j] = Sent[j]
    BY <1>3, SentType, AppendLast
  <2>3. CASE i = Len(Sent) + 1
    BY <2>1, <2>2, <2>3
  <2>4. CASE i \in 1..Len(Sent)
    BY <1>1, <2>2, <2>4 DEF SentIsStored
  <2> QED
    BY <2>2, <2>3, <2>4
<1> QED
  BY <1>2, <1>3, SentStep

-------------------------------------------------------------------------------
(* The current leaks *)

\* The entries of currentLeaks after a step are entries from before it or the leak
\* that is being merged.
EntriesKept ==
  \A i \in 1..Len(currentLeaks') :
    \/ \E j \in 1..Len(currentLeaks) : currentLeaks'[i] = currentLeaks[j]
    \/ detectPc = "merge" /\ currentLeaks'[i] = Len(leaks)

\* The steps that change currentLeaks.
LEMMA CurrentChange ==
  ASSUME [Next]_vars
  PROVE  \/ UNCHANGED currentLeaks
         \/ ClearLeaks \/ AddLeak
         \/ \E i \in 1..Len(currentLeaks) : MergeLeak(i)
         \/ \E id \in LeakId : ResolveLeak(id)
BY DEF Next, DetectionLoop, Poll, ReceiveTimeout, AddReading, Tick, ReadLatest,
   LocateNothing, Locate, SaveLeakSource, ReceiveLeak, Stop, vars

\* A step that replaces, adds or removes one leak, or all, lists none twice.
LEMMA ListedOnceStep ==
  ASSUME TypeOK, ListedOnce, NewestUnseen, [Next]_vars
  PROVE  ListedOnce' /\ EntriesKept
<1>0. currentLeaks \in Seq(LeakId) /\ Len(currentLeaks) \in Nat
  BY LenProperties DEF TypeOK
<1>1. CASE UNCHANGED currentLeaks
  BY <1>1 DEF ListedOnce, EntriesKept
<1>2. CASE ClearLeaks
  <2>1. Len(currentLeaks') = 0
    BY <1>2, EmptySeq DEF ClearLeaks
  <2> QED
    BY <2>1 DEF ListedOnce, EntriesKept
<1>3. CASE AddLeak
  <2>1. /\ Len(currentLeaks') = Len(currentLeaks) + 1
        /\ currentLeaks'[Len(currentLeaks) + 1] = Len(leaks)
        /\ \A i \in 1..Len(currentLeaks) : currentLeaks'[i] = currentLeaks[i]
    BY <1>0, <1>3, AppendLast DEF AddLeak
  <2>2. detectPc = "merge" /\ \A i \in 1..Len(currentLeaks) : currentLeaks[i] # Len(leaks)
    BY <1>3 DEF AddLeak, NewestUnseen
  <2>3. \A i \in 1..Len(currentLeaks') : i \in 1..Len(currentLeaks) \/ i = Len(currentLeaks) + 1
    BY <1>0, <2>1
  <2>4. ListedOnce'
    BY <2>1, <2>2, <2>3 DEF ListedOnce
  <2>5. EntriesKept
    BY <2>1, <2>2, <2>3 DEF EntriesKept
  <2> QED
    BY <2>4, <2>5
<1>4. ASSUME NEW k \in 1..Len(currentLeaks), MergeLeak(k) PROVE ListedOnce' /\ EntriesKept
  <2>1. detectPc = "merge" /\ \A i \in 1..Len(currentLeaks) : currentLeaks[i] # Len(leaks)
    BY <1>4 DEF MergeLeak, NewestUnseen
  <2>2. Len(leaks) \in LeakId
    BY <2>1, LenProperties, EmptySeq, SeqEqual DEF TypeOK, LeakId
  <2>3. /\ Len(currentLeaks') = Len(currentLeaks)
        /\ \A i \in 1..Len(currentLeaks) :
             currentLeaks'[i] = IF i = k THEN Len(leaks) ELSE currentLeaks[i]
    BY <1>0, <1>4, <2>2, ExceptSeq DEF MergeLeak
  <2>4. ListedOnce'
    BY <2>1, <2>3 DEF ListedOnce
  <2>5. EntriesKept
    BY <2>1, <2>3 DEF EntriesKept
  <2> QED
    BY <2>4, <2>5
<1>5. ASSUME NEW id \in LeakId, ResolveLeak(id) PROVE ListedOnce' /\ EntriesKept
  <2>1. PICK k \in 1..Len(currentLeaks) :
          currentLeaks' = [j \in 1..(Len(currentLeaks) - 1) |->
                             currentLeaks[IF j < k THEN j ELSE j + 1]]
    BY <1>5 DEF ResolveLeak
  <2>2. /\ Len(currentLeaks') = Len(currentLeaks) - 1
        /\ \A j \in 1..Len(currentLeaks') :
             currentLeaks'[j] = currentLeaks[IF j < k THEN j ELSE j + 1]
    BY <1>0, <2>1, RemovedType
  <2> DEFINE old(j) == IF j < k THEN j ELSE j + 1
  <2>3. \A j \in 1..Len(currentLeaks') :
           old(j) \in 1..Len(currentLeaks) /\ currentLeaks'[j] = currentLeaks[old(j)]
    BY <1>0, <2>2
  <2>4. \A i, j \in 1..Len(currentLeaks') : old(i) = old(j) => i = j
    BY <1>0, <2>2
  <2> HIDE DEF old
  <2>5. ListedOnce'
    BY <2>3, <2>4 DEF ListedOnce
  <2>6. EntriesKept
    BY <2>3 DEF EntriesKept
  <2> QED
    BY <2>5, <2>6
<1> QED
  BY <1>1, <1>2, <1>3, <1>4, <1>5, CurrentChange

\* Only Locate makes a leak the newest; until it is merged, nothing lists or sends it.
LEMMA NewestUnseenStep ==
  ASSUME TypeOK, ListedOnce, NewestUnseen, [Next]_vars
  PROVE  NewestUnseen'
<1> SUFFICES ASSUME detectPc' = "merge"
             PROVE  /\ \A i \in 1..Len(currentLeaks') : currentLeaks'[i] # Len(leaks')
                    /\ \A i \in 1..Len(Sent') : Sent'[i] # Len(leaks')
  BY DEF NewestUnseen
<1>1. Sent' = Sent /\ ~AddLeak /\ ~ClearLeaks /\ ~(\E i \in 1..Len(currentLeaks) : MergeLeak(i))
  BY SentStep DEF AddLeak, ClearLeaks, MergeLeak
<1>2. ASSUME NEW p \in Position, Locate(p)
      PROVE  /\ \A i \in 1..Len(currentLeaks') : currentLeaks'[i] # Len(leaks')
             /\ \A i \in 1..Len(Sent') : Sent'[i] # Len(leaks')
  <2>1. currentLeaks' = currentLeaks /\ leaks' = Append(leaks, p) /\ leaks \in Seq(Position)
    BY <1>2 DEF Locate, TypeOK
  <2>2. Len(leaks') = Len(leaks) + 1 /\ Len(leaks) \in Nat
    BY <2>1, AppendLast
  <2>3. \A i \in 1..Len(currentLeaks) : currentLeaks[i] \in LeakId
    BY ElementOfSeq DEF TypeOK
  <2>4. \A i \in 1..Len(Sent) : Sent[i] \in LeakId
    BY SentType, ElementOfSeq
  <2> QED
    BY <1>1, <2>1, <2>2, <2>3, <2>4 DEF LeakId
<1>3. CASE ~(\E p \in Position : Locate(p))
  <2>1. detectPc = "merge" /\ leaks' = leaks
    BY <1>1, <1>3 DEF Next, DetectionLoop, Poll, ReceiveTimeout, AddReading, Tick,
       ReadLatest, LocateNothing, SaveLeakSource, ResolveLeak, ReceiveLeak, Stop, vars
  <2>2. UNCHANGED currentLeaks \/ \E id \in LeakId : ResolveLeak(id)
    BY <1>1, CurrentChange
  <2>3. \A i \in 1..Len(currentLeaks') :
          \E j \in 1..Len(currentLeaks) : currentLeaks'[i] = currentLeaks[j]
    <3>1. ASSUME NEW id \in LeakId, ResolveLeak(id)
          PROVE  \A i \in 1..Len(currentLeaks') :
                   \E j \in 1..Len(currentLeaks) : currentLeaks'[i] = currentLeaks[j]
      <4>1. PICK k \in 1..Len(currentLeaks) :
              currentLeaks' = [j \in 1..(Len(currentLeaks) - 1) |->
                                 currentLeaks[IF j < k THEN j ELSE j + 1]]
        BY <3>1 DEF ResolveLeak
      <4>2. currentLeaks \in Seq(LeakId) /\ Len(currentLeaks) \in Nat
        BY LenProperties DEF TypeOK
      <4>3. /\ Len(currentLeaks') = Len(currentLeaks) - 1
            /\ \A j \in 1..Len(currentLeaks') :
                 currentLeaks'[j] = currentLeaks[IF j < k THEN j ELSE j + 1]
        BY <4>1, <4>2, RemovedType
      <4> QED
        BY <4>2, <4>3
    <3>2. CASE UNCHANGED currentLeaks
      BY <3>2
    <3> QED
      BY <2>2, <3>1, <3>2
  <2> QED
    BY <1>1, <2>1, <2>3 DEF NewestUnseen
<1> QED
  BY <1>2, <1>3

-------------------------------------------------------------------------------
(* The theorems *)

LEMMA IndInvInit == Init => IndInv
<1> SUFFICES ASSUME Init PROVE IndInv
  OBVIOUS
<1>1. Len(currentLeaks) = 0 /\ Sent = <<>> /\ Len(<<>>) = 0
  BY EmptySeq DEF Init, Sent
<1>2. ListedOnce /\ NewestUnseen /\ SentAscends /\ SentIsStored
  BY <1>1 DEF Init, ListedOnce, NewestUnseen, SentAscends, SentIsStored
<1> QED
  BY <1>2, TypeInit DEF IndInv

LEMMA IndInvStep == IndInv /\ [Next]_vars => IndInv'
BY TypeStep, ListedOnceStep, NewestUnseenStep, SentAscendsStep, SentIsStoredStep DEF IndInv

\* The inductive invariant holds: types, no leak listed twice, the newest leak unseen
\* until it is merged, what is sent in ascending order and stored.
THEOREM IndInvCorrect == Spec => []IndInv
BY IndInvInit, IndInvStep, PTL DEF Spec

\* Every variable of the locator keeps its type, windows and channel their capacity.
THEOREM TypeCorrect == Spec => []TypeOK
<1>1. IndInv => TypeOK
  BY DEF IndInv
<1> QED
  BY <1>1, IndInvCorrect, PTL

\* EmergencyController gets every leak at most once and in the order of detection, and
\* unless statements fail each one is stored or will be.
THEOREM HandedIsStoredCorrect == Spec => []HandedIsStored
<1>1. IndInv => HandedIsStored
  BY DEF IndInv, SentAscends, SentIsStored, Sent, HandedIsStored, SeqRange
<1> QED
  BY <1>1, IndInvCorrect, PTL

\* A leak that was resolved, merged or cleared never becomes current again, whatever
\* the API goroutines do between the detection and the merge.
THEOREM NeverRevivedCorrect == Spec => NeverRevived
<1> DEFINE Unrevived ==
      /\ \A i, j \in 1..Len(currentLeaks') :
           currentLeaks'[i] = currentLeaks'[j] => i = j
      /\ \A id \in LeakId :
           /\ id \notin SeqRange(currentLeaks)
           /\ ~(detectPc = "merge" /\ id = Len(leaks))
           => id \notin SeqRange(currentLeaks')
<1>1. IndInv /\ [Next]_vars => [Unrevived]_vars
  BY ListedOnceStep DEF IndInv, ListedOnce, EntriesKept, SeqRange
<1> HIDE DEF Unrevived
<1>2. Spec => [][Unrevived]_vars
  BY <1>1, IndInvCorrect, PTL DEF Spec
<1> QED
  BY <1>2 DEF NeverRevived, Unrevived
===============================================================================
