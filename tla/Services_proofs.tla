--------------------------- MODULE Services_proofs ----------------------------
(***************************************************************************)
(* Proofs about two services of backend/services: DatabaseService, for any *)
(* calls, points and batch size, and WebSocketService, for any             *)
(* connections, senders and capacity of the channel.                       *)
(***************************************************************************)
EXTENDS DatabaseService, WebSocketService, SequenceTheorems, FiniteSetTheorems,
        TLAPS

-------------------------------------------------------------------------------
(***************************************************************************)
(* DatabaseService                                                         *)
(***************************************************************************)

\* The initial values have the right types.
LEMMA DBTypeInit ==
  ASSUME DBInit
  PROVE  DBTypeOK
BY DEF DBInit, DBTypeOK

\* Every step keeps the types.
LEMMA DBTypeStep ==
  ASSUME DBTypeOK, [DBNext]_DBvars
  PROVE  DBTypeOK'
<1> USE WriterAssumption DEF DBTypeOK
<1>1. ASSUME NEW w \in Writer, WriteSensorData(w) \/ StartFlush(w) PROVE DBTypeOK'
  BY <1>1 DEF WriteSensorData, StartFlush, Flusher
<1>2. CASE TimerFires
  BY <1>2 DEF TimerFires, Flusher
<1>3. ASSUME NEW f \in Flusher, TakeBatch(f) PROVE DBTypeOK'
  BY <1>3 DEF TakeBatch, Return
<1>4. ASSUME NEW f \in Flusher, WritePoint(f) PROVE DBTypeOK'
  BY <1>4 DEF WritePoint, Return
<1>5. CASE Close \/ CloseClient
  BY <1>5 DEF Close, CloseClient, Flusher
<1>6. CASE UNCHANGED DBvars
  BY <1>6 DEF DBvars
<1> QED
  BY <1>1, <1>2, <1>3, <1>4, <1>5, <1>6 DEF DBNext, FlushStep

\* No goroutine is started while it is in flushBatch.
LEMMA StartedStep ==
  ASSUME DBTypeOK, StartedWhenIdle, [DBNext]_DBvars
  PROVE  StartedWhenIdle'
<1> USE WriterAssumption DEF DBTypeOK, StartedWhenIdle
<1>1. ASSUME NEW w \in Writer, WriteSensorData(w) \/ StartFlush(w)
      PROVE  StartedWhenIdle'
  BY <1>1 DEF WriteSensorData, StartFlush, Flusher
<1>2. CASE TimerFires
  BY <1>2 DEF TimerFires, Flusher
<1>3. ASSUME NEW f \in Flusher, FlushStep(f) PROVE StartedWhenIdle'
  BY <1>3 DEF FlushStep, TakeBatch, WritePoint, Return, Flusher
<1>4. CASE Close \/ CloseClient
  BY <1>4 DEF Close, CloseClient, Flusher
<1>5. CASE UNCHANGED DBvars
  BY <1>5 DEF DBvars
<1> QED
  BY <1>1, <1>2, <1>3, <1>4, <1>5 DEF DBNext

\* Goroutines hold points only between taking and writing them.
LEMMA HeldStep ==
  ASSUME DBTypeOK, StartedWhenIdle, HeldWhileWriting, [DBNext]_DBvars
  PROVE  HeldWhileWriting'
<1> USE WriterAssumption DEF DBTypeOK, HeldWhileWriting
<1>1. ASSUME NEW w \in Writer, WriteSensorData(w) \/ StartFlush(w)
      PROVE  HeldWhileWriting'
  BY <1>1 DEF WriteSensorData, StartFlush, StartedWhenIdle, Flusher
<1>2. CASE TimerFires
  BY <1>2 DEF TimerFires, StartedWhenIdle, Flusher
<1>3. ASSUME NEW f \in Flusher, TakeBatch(f) PROVE HeldWhileWriting'
  BY <1>3 DEF TakeBatch, Return
<1>4. ASSUME NEW f \in Flusher, WritePoint(f) PROVE HeldWhileWriting'
  BY <1>4 DEF WritePoint, Return
<1>5. CASE Close \/ CloseClient
  BY <1>5 DEF Close, CloseClient, Flusher
<1>6. CASE UNCHANGED DBvars
  BY <1>6 DEF DBvars
<1> QED
  BY <1>1, <1>2, <1>3, <1>4, <1>5, <1>6 DEF DBNext, FlushStep

\* The client is closed by the last step of Close.
LEMMA ClosedLastStep ==
  ASSUME DBTypeOK, ClientClosedLast, StartedWhenIdle, [DBNext]_DBvars
  PROVE  ClientClosedLast'
<1> USE WriterAssumption DEF DBTypeOK, ClientClosedLast
<1>1. ASSUME NEW w \in Writer, WriteSensorData(w) \/ StartFlush(w)
      PROVE  ClientClosedLast'
  BY <1>1 DEF WriteSensorData, StartFlush, Flusher
<1>2. CASE TimerFires
  BY <1>2 DEF TimerFires, Flusher
<1>3. ASSUME NEW f \in Flusher, FlushStep(f) PROVE ClientClosedLast'
  BY <1>3 DEF FlushStep, TakeBatch, WritePoint, Return, Flusher
<1>4. CASE Close \/ CloseClient
  BY <1>4 DEF Close, CloseClient, Flusher
<1>5. CASE UNCHANGED DBvars
  BY <1>5 DEF DBvars
<1> QED
  BY <1>1, <1>2, <1>3, <1>4, <1>5 DEF DBNext

\* A full batch has a flusher: only a call that has seen it full leaves it full.
LEMMA FullStep ==
  ASSUME DBTypeOK, FullIsFlushed, StartedWhenIdle, [DBNext]_DBvars
  PROVE  FullIsFlushed'
<1> USE WriterAssumption DEF DBTypeOK, FullIsFlushed
<1>1. ASSUME NEW w \in Writer, WriteSensorData(w) PROVE FullIsFlushed'
  BY <1>1 DEF WriteSensorData
<1>2. ASSUME NEW w \in Writer, StartFlush(w) PROVE FullIsFlushed'
  BY <1>2 DEF StartFlush, Flusher
<1>3. CASE TimerFires
  BY <1>3 DEF TimerFires, Flusher
<1>4. ASSUME NEW f \in Flusher, TakeBatch(f) PROVE FullIsFlushed'
  <2>1. batchPoints' = {}
    BY <1>4 DEF TakeBatch
  <2>2. Cardinality(batchPoints') = 0
    BY <2>1, FS_EmptySet
  <2> QED
    BY <2>2
<1>5. ASSUME NEW f \in Flusher, WritePoint(f) PROVE FullIsFlushed'
  BY <1>5 DEF WritePoint, Return
<1>6. CASE Close \/ CloseClient
  BY <1>6 DEF Close, CloseClient, Flusher
<1>7. CASE UNCHANGED DBvars
  BY <1>7 DEF DBvars
<1> QED
  BY <1>1, <1>2, <1>3, <1>4, <1>5, <1>6, <1>7 DEF DBNext, FlushStep

\* A step that leaves every point where it is.
Quiet == UNCHANGED <<batchPoints, points, stored, lost, promised, Added>>

\* The calls that have added their points stay the same when none of them starts.
LEMMA AddedFrame ==
  ASSUME DBTypeOK, writerPc' \in [Writer -> {"idle", "full", "done"}],
         \A w \in Writer : writerPc'[w] = "idle" <=> writerPc[w] = "idle"
  PROVE  Added' = Added
<1>1. {v \in Writer : writerPc'[v] # "idle"} = {v \in Writer : writerPc[v] # "idle"}
  OBVIOUS
<1> QED
  BY <1>1 DEF Added

\* Only a call, a goroutine that takes a batch and one that writes it move points.
LEMMA Movers ==
  ASSUME DBTypeOK, DBTypeOK', [DBNext]_DBvars
  PROVE  \/ \E w \in Writer : WriteSensorData(w)
         \/ \E f \in Flusher : TakeBatch(f) /\ batchPoints # {} /\ Added' = Added
         \/ \E f \in Flusher : WritePoint(f) /\ Added' = Added
         \/ Quiet
<1>1. ASSUME NEW w \in Writer, StartFlush(w) PROVE Quiet
  <2>1. \A v \in Writer : writerPc'[v] = "idle" <=> writerPc[v] = "idle"
    BY <1>1 DEF DBTypeOK, StartFlush
  <2> QED
    BY <1>1, <2>1, AddedFrame DEF DBTypeOK, StartFlush, Quiet
<1>2. ASSUME writerPc' = writerPc PROVE Added' = Added
  BY <1>2 DEF Added
<1>3. CASE TimerFires \/ Close \/ CloseClient
  BY <1>2, <1>3 DEF TimerFires, Close, CloseClient, Quiet
<1>4. ASSUME NEW f \in Flusher, TakeBatch(f)
      PROVE  Added' = Added /\ (batchPoints = {} => Quiet)
  BY <1>2, <1>4 DEF TakeBatch, Quiet
<1>5. ASSUME NEW f \in Flusher, WritePoint(f) PROVE Added' = Added
  BY <1>2, <1>5 DEF WritePoint
<1>6. CASE UNCHANGED DBvars
  BY <1>2, <1>6 DEF DBvars, Quiet
<1> QED
  BY <1>1, <1>3, <1>4, <1>5, <1>6 DEF DBNext, FlushStep

\* Where the points are after a call.
LEMMA AddedPlaces ==
  ASSUME DBTypeOK, NEW w \in Writer, WriteSensorData(w)
  PROVE  /\ \A p \in Point, x \in Place :
              IsIn(p, x)' <=> IsIn(p, x) \/ (x = "batch" /\ p \in PointsOf[w])
         /\ \A p \in Point : p \in Added' <=> p \in Added \/ p \in PointsOf[w]
         /\ \A p \in PointsOf[w] : p \notin Added
<1> USE WriterAssumption DEF DBTypeOK
<1>1. \A v \in Writer : writerPc'[v] # "idle" <=> writerPc[v] # "idle" \/ v = w
  BY DEF WriteSensorData
<1>2. \A p \in Point : p \in Added' <=> p \in Added \/ p \in PointsOf[w]
  BY <1>1 DEF Added, WriteSensorData
<1>3. \A p \in PointsOf[w] : p \notin Added
  BY DEF Added, WriteSensorData
<1>4. \A p \in Point, x \in Place :
        IsIn(p, x)' <=> IsIn(p, x) \/ (x = "batch" /\ p \in PointsOf[w])
  BY DEF IsIn, Place, WriteSensorData
<1> QED
  BY <1>2, <1>3, <1>4

\* Where they are after a goroutine has taken the batch.
LEMMA TakenPlaces ==
  ASSUME DBTypeOK, HeldWhileWriting, NEW f \in Flusher, TakeBatch(f), batchPoints # {}
  PROVE  \A p \in Point, x \in Place :
           IsIn(p, x)' <=> \/ x = f /\ IsIn(p, "batch")
                           \/ x # "batch" /\ IsIn(p, x)
<1> USE WriterAssumption DEF DBTypeOK
<1>1. points[f] = {}
  BY DEF HeldWhileWriting, TakeBatch
<1> QED
  BY <1>1 DEF TakeBatch, IsIn, Place, Flusher

\* Where they are after it has handed them to the client.
LEMMA WrittenPlaces ==
  ASSUME DBTypeOK, NEW f \in Flusher, WritePoint(f),
         NEW s, s = (IF clientOpen THEN "stored" ELSE "lost")
  PROVE  \A p \in Point, x \in Place :
           IsIn(p, x)' <=> \/ x = s /\ IsIn(p, f)
                           \/ x # f /\ IsIn(p, x)
<1> USE WriterAssumption DEF DBTypeOK
<1>1. \A p \in Point, g \in Flusher : IsIn(p, g)' <=> g # f /\ IsIn(p, g)
  BY DEF WritePoint, IsIn, Flusher
<1>2. \A p \in Point : IsIn(p, "batch")' <=> IsIn(p, "batch")
  BY DEF WritePoint, IsIn, Flusher
<1>3. \A p \in Point :
        IsIn(p, "stored")' <=> IsIn(p, "stored") \/ (s = "stored" /\ IsIn(p, f))
  BY DEF WritePoint, IsIn, Flusher
<1>4. \A p \in Point :
        IsIn(p, "lost")' <=> IsIn(p, "lost") \/ (s = "lost" /\ IsIn(p, f))
  BY DEF WritePoint, IsIn, Flusher
<1> QED
  BY <1>1, <1>2, <1>3, <1>4 DEF Place, Flusher

\* Every point stays in exactly one place.
LEMMA ConservedStep ==
  ASSUME DBTypeOK, DBTypeOK', HeldWhileWriting, PointsConserved, [DBNext]_DBvars
  PROVE  PointsConserved'
<1>1. ASSUME NEW w \in Writer, WriteSensorData(w) PROVE PointsConserved'
  <2>1. stored' = stored
    BY <1>1 DEF WriteSensorData
  <2> QED
    BY <1>1, <2>1, AddedPlaces DEF PointsConserved, Place
<1>2. ASSUME NEW f \in Flusher, TakeBatch(f), batchPoints # {}, Added' = Added
      PROVE  PointsConserved'
  <2>1. stored' = stored /\ f \in Place /\ "batch" \in Place
    BY <1>2 DEF TakeBatch, Place
  <2> QED
    BY <1>2, <2>1, TakenPlaces DEF PointsConserved
<1>3. ASSUME NEW f \in Flusher, WritePoint(f), Added' = Added
      PROVE  PointsConserved'
  <2> DEFINE s == IF clientOpen THEN "stored" ELSE "lost"
  <2>1. /\ s \in Place /\ f \in Place /\ s # f
        /\ "stored" \in Place /\ "stored" # f
    BY WriterAssumption DEF Place, Flusher
  <2>2. \A p \in Point, x \in Place :
          IsIn(p, x)' <=> (x = s /\ IsIn(p, f)) \/ (x # f /\ IsIn(p, x))
    BY <1>3, WrittenPlaces
  <2>3. ASSUME NEW p \in Point PROVE stored'[p] <= 1
    <3>1. IsIn(p, f) => ~IsIn(p, "stored")
      BY <2>1 DEF PointsConserved
    <3>2. p \in points[f] => stored[p] = 0
      BY <3>1 DEF IsIn, DBTypeOK
    <3>3. stored[p] \in Nat /\ stored[p] <= 1
      BY DEF DBTypeOK, PointsConserved
    <3> QED
      BY <1>3, <3>2, <3>3 DEF WritePoint
  <2> HIDE DEF s
  <2> QED
    BY <1>3, <2>1, <2>2, <2>3 DEF PointsConserved
<1>4. CASE Quiet
  BY <1>4 DEF Quiet, PointsConserved, IsIn
<1> QED
  BY <1>1, <1>2, <1>3, <1>4, Movers

\* What Close took over stays in its hands until it is stored, once.
LEMMA PromiseStep ==
  ASSUME DBTypeOK, DBTypeOK', PointsConserved, HeldWhileWriting, ClientClosedLast,
         PromiseInHand, [DBNext]_DBvars
  PROVE  PromiseInHand'
<1> USE DEF DBTypeOK, PromiseInHand
<1>1. ASSUME NEW w \in Writer, WriteSensorData(w) PROVE PromiseInHand'
  BY <1>1 DEF WriteSensorData
<1>2. ASSUME NEW f \in Flusher, TakeBatch(f), batchPoints # {}
      PROVE  PromiseInHand'
  <2>1. f = "closer" => points["closer"] = {}
    BY <1>2 DEF TakeBatch, HeldWhileWriting
  <2> QED
    BY <1>2, <2>1 DEF TakeBatch, Flusher
<1>3. ASSUME NEW f \in Flusher, WritePoint(f) PROVE PromiseInHand'
  <2>1. ASSUME NEW p \in Point, p \in points[f] PROVE stored[p] = 0
    <3>1. IsIn(p, f) /\ f \in Place /\ "stored" \in Place /\ "stored" # f
      BY <2>1, WriterAssumption DEF IsIn, Place, Flusher
    <3>2. ~IsIn(p, "stored")
      BY <3>1 DEF PointsConserved
    <3> QED
      BY <3>2 DEF IsIn
  <2>2. f = "closer" => clientOpen
    BY <1>3 DEF WritePoint, ClientClosedLast
  <2>3. ASSUME NEW p \in promised
        PROVE  p \in points'["closer"] \/ stored'[p] = 1
    <3>1. CASE p \in points["closer"]
      BY <1>3, <2>1, <2>2, <2>3, <3>1 DEF WritePoint, Flusher
    <3>2. CASE stored[p] = 1
      BY <1>3, <2>1, <2>3, <3>2 DEF WritePoint
    <3> QED
      BY <2>3, <3>1, <3>2
  <2> QED
    BY <1>3, <2>3 DEF WritePoint
<1>4. CASE Quiet
  BY <1>4 DEF Quiet
<1> QED
  BY <1>1, <1>2, <1>3, <1>4, Movers

\* The strengthening holds initially: there are no points yet.
LEMMA InitInv ==
  ASSUME DBInit
  PROVE  DBIndInv
<1> USE WriterAssumption DEF DBInit
<1>1. DBTypeOK
  BY DBTypeInit
<1>2. PointsConserved
  BY DEF PointsConserved, IsIn, Added, Place
<1>3. FullIsFlushed
  BY FS_EmptySet DEF FullIsFlushed
<1>4. /\ HeldWhileWriting /\ PromiseInHand /\ ClientClosedLast /\ StartedWhenIdle
      /\ CloseKeepsPromise
  BY DEF HeldWhileWriting, PromiseInHand, ClientClosedLast, StartedWhenIdle,
         CloseKeepsPromise, Flusher
<1> QED
  BY <1>1, <1>2, <1>3, <1>4 DEF DBIndInv

\* Every variable has its type in every reachable state (database.go:19-31).
THEOREM DBTypeCorrect == DBSpec => []DBTypeOK
<1>1. DBInit => DBTypeOK
  BY DBTypeInit
<1>2. DBTypeOK /\ [DBNext]_DBvars => DBTypeOK'
  BY DBTypeStep
<1> QED
  BY <1>1, <1>2, PTL DEF DBSpec

\* The strengthening is inductive.
THEOREM DBIndInvCorrect == DBSpec => []DBIndInv
<1>1. DBInit => DBIndInv
  BY InitInv
<1>2. ASSUME DBIndInv, [DBNext]_DBvars PROVE DBIndInv'
  <2> USE <1>2
  <2>1. DBTypeOK'
    BY DBTypeStep DEF DBIndInv
  <2>2. HeldWhileWriting' /\ StartedWhenIdle' /\ ClientClosedLast' /\ FullIsFlushed'
    BY HeldStep, StartedStep, ClosedLastStep, FullStep DEF DBIndInv
  <2>3. PointsConserved' /\ PromiseInHand'
    BY <2>1, ConservedStep, PromiseStep DEF DBIndInv
  <2>4. CloseKeepsPromise'
    BY <2>1, <2>2, <2>3
    DEF DBTypeOK, HeldWhileWriting, ClientClosedLast, PromiseInHand,
        CloseKeepsPromise, Flusher
  <2> QED
    BY <2>1, <2>2, <2>3, <2>4 DEF DBIndInv
<1> QED
  BY <1>1, <1>2, PTL DEF DBSpec

\* Concurrent flushes neither lose nor duplicate a point (database.go:190-209).
THEOREM PointsConservedCorrect == DBSpec => []PointsConserved
<1>1. DBIndInv => PointsConserved
  BY DEF DBIndInv
<1> QED
  BY <1>1, DBIndInvCorrect, PTL

\* Close returns when what it found in the batch is stored (database.go:115-131).
THEOREM CloseKeepsPromiseCorrect == DBSpec => []CloseKeepsPromise
<1>1. DBIndInv => CloseKeepsPromise
  BY DEF DBIndInv
<1> QED
  BY <1>1, DBIndInvCorrect, PTL

\* A full batch does not wait for the timer (database.go:158-162).
THEOREM FullIsFlushedCorrect == DBSpec => []FullIsFlushed
<1>1. DBIndInv => FullIsFlushed
  BY DEF DBIndInv
<1> QED
  BY <1>1, DBIndInvCorrect, PTL

-------------------------------------------------------------------------------
(***************************************************************************)
(* WebSocketService                                                        *)
(***************************************************************************)

\* The channel and the hub hold the messages accepted last, in their order.
FeedNumbered ==
  /\ Len(broadcast) <= accepted
  /\ \A i \in 1..Len(broadcast) : broadcast[i] = accepted - Len(broadcast) + i
  /\ hubPc \in {"lock", "write"} => hubMsg = accepted - Len(broadcast)

\* Clients are the connections in the care of a handleClient; the hub writes to no
\* other, and nothing was ever written to a connection that has not been one.
ClientsRead ==
  /\ \A c \in clients : connPc[c] = "reading"
  /\ todo \subseteq clients
  /\ \A c \in Conn : connPc[c] \in {"idle", "upgraded"} => received[c] = <<>>

\* The pump is at a send only while it has a message.
PumpHasMore == pumpPc = "send" => toPush # 0

\* The inductive invariant.
IndInv == TypeOK /\ FeedNumbered /\ ClientsRead /\ PumpHasMore /\ CompleteFeed

-------------------------------------------------------------------------------
(* The channel *)

\* What TypeOK says of the variables the feed is made of.
LEMMA FeedTypes ==
  ASSUME TypeOK
  PROVE  /\ broadcast \in Seq(Nat) /\ Len(broadcast) \in Nat
         /\ accepted \in Nat /\ hubMsg \in Nat
         /\ hubPc \in {"range", "lock", "write", "done"}
         /\ clients \subseteq Conn /\ todo \subseteq Conn
         /\ (hubPc # "write" => todo = {})
         /\ net \in [Conn -> Net]
         /\ connPc \in [Conn -> {"idle", "upgraded", "reading", "done"}]
         /\ joined \in [Conn -> Nat] /\ received \in [Conn -> Seq(Nat)]
<1>1. broadcast \in Seq(Nat)
  BY DEF TypeOK
<1>2. Len(broadcast) \in Nat
  BY <1>1, LenProperties
<1> QED
  BY <1>1, <1>2 DEF TypeOK

\* A message that the channel accepts gets the next number.
LEMMA AcceptNumbers ==
  ASSUME TypeOK, FeedNumbered, Accept, UNCHANGED <<hubPc, hubMsg>>
  PROVE  /\ FeedNumbered' /\ Processed' = Processed
         /\ broadcast' \in Seq(Nat) /\ Len(broadcast') <= BroadcastCap
         /\ accepted' \in Nat
<1> DEFINE n == accepted + 1
<1>1. /\ broadcast \in Seq(Nat) /\ Len(broadcast) \in Nat /\ accepted \in Nat
      /\ Len(broadcast) < BroadcastCap /\ BroadcastCap \in Nat
      /\ accepted' = n /\ n \in Nat /\ broadcast' = Append(broadcast, n)
  BY FeedTypes, HubAssumption DEF Accept
<1> HIDE DEF n
<1>2. /\ broadcast' \in Seq(Nat) /\ Len(broadcast') = Len(broadcast) + 1
      /\ \A i \in 1..Len(broadcast) : broadcast'[i] = broadcast[i]
      /\ broadcast'[Len(broadcast) + 1] = n
  BY <1>1, AppendProperties
<1>3. n = accepted + 1
  BY DEF n
<1>4. FeedNumbered'
  <2>1. /\ Len(broadcast) <= accepted
        /\ \A i \in 1..Len(broadcast) : broadcast[i] = accepted - Len(broadcast) + i
        /\ hubPc \in {"lock", "write"} => hubMsg = accepted - Len(broadcast)
    BY DEF FeedNumbered
  <2>2. Len(broadcast') <= accepted' /\ accepted' - Len(broadcast') = accepted - Len(broadcast)
    BY <1>1, <1>2, <1>3, <2>1
  <2>3. \A i \in 1..Len(broadcast') : broadcast'[i] = accepted' - Len(broadcast') + i
    <3>1. SUFFICES ASSUME NEW i \in 1..Len(broadcast')
                   PROVE  broadcast'[i] = accepted' - Len(broadcast') + i
      OBVIOUS
    <3>2. CASE i = Len(broadcast) + 1
      BY <1>1, <1>2, <1>3, <3>2
    <3>3. CASE i # Len(broadcast) + 1
      <4>1. i \in 1..Len(broadcast)
        BY <1>1, <1>2, <3>3
      <4>2. broadcast'[i] = broadcast[i] /\ broadcast[i] = accepted - Len(broadcast) + i
        BY <1>2, <2>1, <4>1
      <4> QED
        BY <2>2, <4>2
    <3> QED
      BY <3>2, <3>3
  <2> QED
    BY <2>1, <2>2, <2>3 DEF FeedNumbered
<1>5. Processed' = Processed
  BY <1>1, <1>2, <1>3 DEF Processed
<1>6. Len(broadcast') <= BroadcastCap /\ accepted' \in Nat
  BY <1>1, <1>2
<1> QED
  BY <1>2, <1>4, <1>5, <1>6

\* The hub takes the message before all others in the channel.
LEMMA TakeNumbers ==
  ASSUME TypeOK, FeedNumbered, TakeMessage
  PROVE  /\ FeedNumbered' /\ Processed' = Processed
         /\ broadcast' \in Seq(Nat) /\ Len(broadcast') <= BroadcastCap
         /\ hubMsg' \in Nat /\ hubMsg' # 0
<1>1. /\ broadcast \in Seq(Nat) /\ Len(broadcast) \in Nat /\ accepted \in Nat
      /\ Len(broadcast) <= BroadcastCap /\ BroadcastCap \in Nat
      /\ Len(broadcast) <= accepted
      /\ \A i \in 1..Len(broadcast) : broadcast[i] = accepted - Len(broadcast) + i
  BY FeedTypes, HubAssumption DEF TypeOK, FeedNumbered
<1>2. /\ hubPc = "range" /\ hubPc' = "lock" /\ broadcast # <<>> /\ accepted' = accepted
      /\ hubMsg' = Head(broadcast) /\ broadcast' = Tail(broadcast)
  BY DEF TakeMessage
<1>3. /\ Len(broadcast) # 0 /\ Head(broadcast) = broadcast[1]
      /\ Tail(broadcast) \in Seq(Nat) /\ Len(Tail(broadcast)) = Len(broadcast) - 1
      /\ \A i \in 1..Len(Tail(broadcast)) : Tail(broadcast)[i] = broadcast[i + 1]
  BY <1>1, <1>2, HeadTailProperties, EmptySeq
<1>4. hubMsg' = accepted - Len(broadcast) + 1
  BY <1>1, <1>2, <1>3
<1>5. \A i \in 1..Len(broadcast') : broadcast'[i] = accepted' - Len(broadcast') + i
  <2>1. SUFFICES ASSUME NEW i \in 1..Len(broadcast')
                 PROVE  broadcast'[i] = accepted' - Len(broadcast') + i
    OBVIOUS
  <2>2. broadcast'[i] = broadcast[i + 1] /\ i + 1 \in 1..Len(broadcast)
    BY <1>1, <1>2, <1>3
  <2> QED
    BY <1>1, <1>2, <1>3, <2>2
<1>6. Len(broadcast') = Len(broadcast) - 1 /\ Len(broadcast') <= BroadcastCap
  BY <1>1, <1>2, <1>3
<1>7. FeedNumbered'
  BY <1>1, <1>2, <1>4, <1>5, <1>6 DEF FeedNumbered
<1>8. Processed' = Processed
  BY <1>1, <1>2, <1>6 DEF Processed
<1>9. hubMsg' \in Nat /\ hubMsg' # 0
  BY <1>1, <1>4
<1> QED
  BY <1>2, <1>3, <1>6, <1>7, <1>8, <1>9

-------------------------------------------------------------------------------
(* The steps *)

\* Steps of the connections, of Close and of the pump's ticks.
ConnStep(c) ==
  Upgrade(c) \/ Register(c) \/ Unregister(c) \/ Stall(c) \/ StallEnds(c) \/ Break(c)

\* Steps that put a message into the channel.
Sends == (\E s \in Sender : Send(s)) \/ PumpSend

\* Steps that change nothing the feed is made of.
Idles ==
  \/ \E s \in Sender : StartSender(s) \/ SendPanics(s)
  \/ PumpTick \/ PumpPanics \/ StopTicker \/ UNCHANGED vars

LEMMA Steps ==
  ASSUME [Next]_vars
  PROVE  \/ \E c \in Conn : ConnStep(c) \/ WriteTo(c)
         \/ TakeMessage \/ LockClients \/ MessageDone \/ HubExits \/ CloseHub
         \/ Sends \/ Idles
BY DEF Next, Hub, ConnStep, Sends, Idles

LEMMA IdlesChangeNothing ==
  ASSUME Idles
  PROVE  UNCHANGED <<net, connPc, clients, broadcast, closed, accepted, hubPc, hubMsg, todo,
                     joined, received>>
BY DEF Idles, StartSender, SendPanics, PumpTick, PumpPanics, StopTicker, connVars, hubVars,
       pumpVars, feedVars, vars

LEMMA SendsAccept ==
  ASSUME Sends
  PROVE  /\ Accept
         /\ UNCHANGED <<net, connPc, clients, closed, hubPc, hubMsg, todo, joined, received>>
BY DEF Sends, Send, PumpSend, connVars, hubVars, pumpVars, feedVars

\* Every step keeps the types.
LEMMA TypeStep ==
  ASSUME TypeOK, FeedNumbered, PumpHasMore, [Next]_vars
  PROVE  TypeOK'
<1>1. ASSUME NEW c \in Conn, Upgrade(c) \/ Unregister(c) \/ Stall(c) \/ StallEnds(c) \/ Break(c)
      PROVE  TypeOK'
  <2>1. net' \in [Conn -> Net]
    BY <1>1 DEF TypeOK, Net, Upgrade, Unregister, Stall, StallEnds, Break
  <2>2. /\ connPc' \in [Conn -> {"idle", "upgraded", "reading", "done"}]
        /\ clients' \subseteq Conn
    BY <1>1 DEF TypeOK, Upgrade, Unregister, Stall, StallEnds, Break
  <2>3. UNCHANGED <<broadcast, closed, accepted, hubPc, hubMsg, todo, senderPc, pumpPc,
                    toPush, ticks, ticking, closePc, joined, received>>
    BY <1>1 DEF Upgrade, Unregister, Stall, StallEnds, Break, hubVars, pumpVars, feedVars
  <2> QED
    BY <2>1, <2>2, <2>3 DEF TypeOK
<1>2. ASSUME NEW c \in Conn, Register(c) PROVE TypeOK'
  <2>1. Processed \in Nat
    BY <1>2, FeedTypes DEF Register, Lockable, Processed, FeedNumbered, TypeOK
  <2>2. joined' \in [Conn -> Nat]
    BY <1>2, <2>1 DEF TypeOK, Register
  <2>3. /\ connPc' \in [Conn -> {"idle", "upgraded", "reading", "done"}]
        /\ clients' \subseteq Conn
    BY <1>2 DEF TypeOK, Register
  <2>4. UNCHANGED <<net, broadcast, closed, accepted, hubPc, hubMsg, todo, senderPc, pumpPc,
                    toPush, ticks, ticking, closePc, received>>
    BY <1>2 DEF Register, hubVars, pumpVars
  <2> QED
    BY <2>2, <2>3, <2>4 DEF TypeOK
<1>3. CASE TakeMessage
  <2>1. /\ broadcast' \in Seq(Nat) /\ Len(broadcast') <= BroadcastCap
        /\ hubMsg' \in Nat /\ hubMsg' # 0
    BY <1>3, TakeNumbers
  <2> QED
    BY <1>3, <2>1 DEF TypeOK, TakeMessage, connVars, pumpVars, feedVars
<1>4. CASE LockClients \/ MessageDone \/ HubExits
  BY <1>4 DEF TypeOK, LockClients, MessageDone, HubExits, connVars, pumpVars, feedVars
<1>5. ASSUME NEW c \in Conn, WriteTo(c) PROVE TypeOK'
  <2>1. net' \in [Conn -> Net] /\ clients' \subseteq Conn
    BY <1>5 DEF TypeOK, Net, WriteTo
  <2>2. received' \in [Conn -> Seq(Nat)]
    <3>1. Append(received[c], hubMsg) \in Seq(Nat)
      BY AppendProperties DEF TypeOK
    <3> QED
      BY <1>5, <3>1 DEF TypeOK, WriteTo
  <2>3. hubPc = "write" /\ todo' \subseteq Conn
        /\ UNCHANGED <<connPc, broadcast, closed, accepted, hubPc, hubMsg, senderPc, pumpPc,
                       toPush, ticks, ticking, closePc, joined>>
    BY <1>5 DEF TypeOK, WriteTo, pumpVars
  <2> QED
    BY <2>1, <2>2, <2>3 DEF TypeOK
<1>6. CASE Sends
  <2>1. /\ broadcast' \in Seq(Nat) /\ Len(broadcast') <= BroadcastCap
        /\ accepted' \in Nat
    BY <1>6, AcceptNumbers, SendsAccept
  <2>2. /\ senderPc' \in [Sender -> {"idle", "send", "sent", "panic"}]
        /\ pumpPc' \in {"wait", "send", "panic"} /\ toPush' \in 0..3 /\ ticks' = ticks
        /\ ticking' = ticking /\ closePc' = closePc
    <3>1. /\ senderPc \in [Sender -> {"idle", "send", "sent", "panic"}]
          /\ pumpPc \in {"wait", "send", "panic"} /\ toPush \in 0..3
      BY DEF TypeOK
    <3>2. ASSUME NEW s \in Sender, Send(s)
          PROVE  /\ senderPc' \in [Sender -> {"idle", "send", "sent", "panic"}]
                 /\ pumpPc' \in {"wait", "send", "panic"} /\ toPush' \in 0..3
                 /\ UNCHANGED <<ticks, ticking, closePc>>
      <4>1. UNCHANGED <<pumpPc, toPush, ticks, ticking, closePc>>
        BY <3>2 DEF Send, pumpVars
      <4>2. senderPc' = [senderPc EXCEPT ![s] = "sent"]
        BY <3>2 DEF Send
      <4> QED
        BY <3>1, <4>1, <4>2
    <3>3. CASE PumpSend
      <4>1. /\ toPush' = toPush - 1 /\ toPush # 0 /\ pumpPc' \in {"wait", "send"}
            /\ UNCHANGED <<senderPc, ticks, ticking, closePc>>
        BY <3>3 DEF PumpSend, PumpHasMore
      <4> QED
        BY <3>1, <4>1
    <3> QED
      BY <1>6, <3>2, <3>3 DEF Sends
  <2>3. UNCHANGED <<net, connPc, clients, closed, hubPc, hubMsg, todo, joined, received>>
    BY <1>6, SendsAccept
  <2> QED
    BY <2>1, <2>2, <2>3 DEF TypeOK
<1>7. CASE Idles
  <2>1. UNCHANGED <<net, connPc, clients, broadcast, closed, accepted, hubPc, hubMsg, todo,
                    joined, received>>
    BY <1>7, IdlesChangeNothing
  <2>2. /\ senderPc' \in [Sender -> {"idle", "send", "sent", "panic"}]
        /\ pumpPc' \in {"wait", "send", "panic"}
    <3>1. /\ senderPc \in [Sender -> {"idle", "send", "sent", "panic"}]
          /\ pumpPc \in {"wait", "send", "panic"}
      BY DEF TypeOK
    <3>2. ASSUME NEW s \in Sender, StartSender(s) \/ SendPanics(s)
          PROVE  /\ senderPc' \in [Sender -> {"idle", "send", "sent", "panic"}]
                 /\ pumpPc' \in {"wait", "send", "panic"}
      BY <3>1, <3>2 DEF StartSender, SendPanics, pumpVars
    <3>3. CASE PumpTick \/ PumpPanics \/ StopTicker \/ UNCHANGED vars
      BY <3>1, <3>3 DEF PumpTick, PumpPanics, StopTicker, pumpVars, vars
    <3> QED
      BY <1>7, <3>2, <3>3 DEF Idles
  <2>5. ticks' \in Nat
    <3>1. ticks \in Nat
      BY DEF TypeOK
    <3> QED
      BY <1>7, <3>1 DEF Idles, StartSender, SendPanics, PumpTick, PumpPanics, StopTicker,
                        pumpVars, vars
  <2>3. toPush' \in 0..3
    <3>1. \A n \in 1..MaxPush : n \in 0..3
      BY HubAssumption
    <3> QED
      BY <1>7, <3>1 DEF TypeOK, Idles, StartSender, SendPanics, PumpTick, PumpPanics,
                        StopTicker, pumpVars, vars
  <2>4. ticking' \in BOOLEAN /\ closePc' \in {"idle", "lock", "done"}
    BY <1>7 DEF TypeOK, Idles, StartSender, SendPanics, PumpTick, PumpPanics, StopTicker,
                vars
  <2> QED
    BY <2>1, <2>2, <2>3, <2>4, <2>5 DEF TypeOK
<1>8. CASE CloseHub
  <2>1. net' \in [Conn -> Net] /\ clients' = {} /\ closed' = TRUE /\ closePc' = "done"
    BY <1>8 DEF TypeOK, Net, CloseHub
  <2>2. UNCHANGED <<connPc, broadcast, accepted, hubPc, hubMsg, todo, senderPc, pumpPc,
                    toPush, ticks, ticking, joined, received>>
    BY <1>8 DEF CloseHub, hubVars, pumpVars, feedVars
  <2> QED
    BY <2>1, <2>2 DEF TypeOK
<1> QED
  BY <1>1, <1>2, <1>3, <1>4, <1>5, <1>6, <1>7, <1>8, Steps DEF ConnStep

\* Every step keeps the messages in order.
LEMMA NumberedStep ==
  ASSUME TypeOK, FeedNumbered, [Next]_vars
  PROVE  FeedNumbered'
<1>1. ASSUME NEW c \in Conn, ConnStep(c) \/ WriteTo(c) PROVE FeedNumbered'
  BY <1>1 DEF ConnStep, Upgrade, Register, Unregister, Stall, StallEnds, Break, WriteTo,
              hubVars, FeedNumbered
<1>2. CASE LockClients \/ MessageDone \/ HubExits \/ CloseHub
  BY <1>2 DEF LockClients, MessageDone, HubExits, CloseHub, hubVars, FeedNumbered
<1>3. CASE Idles
  BY <1>3, IdlesChangeNothing DEF FeedNumbered
<1> QED
  BY <1>1, <1>2, <1>3, TakeNumbers, AcceptNumbers, SendsAccept, Steps

\* Every step keeps the clients in the care of handleClient.
LEMMA ClientsStep ==
  ASSUME TypeOK, ClientsRead, [Next]_vars
  PROVE  ClientsRead'
<1>1. /\ connPc \in [Conn -> {"idle", "upgraded", "reading", "done"}]
      /\ received \in [Conn -> Seq(Nat)] /\ clients \subseteq Conn
      /\ (hubPc # "write" => todo = {})
  BY FeedTypes
<1>2. ASSUME NEW c \in Conn, ConnStep(c) PROVE ClientsRead'
  BY <1>1, <1>2 DEF ConnStep, Upgrade, Register, Unregister, Lockable, Stall, StallEnds,
                    Break, hubVars, feedVars, ClientsRead
<1>3. ASSUME NEW c \in Conn, WriteTo(c) PROVE ClientsRead'
  BY <1>1, <1>3 DEF WriteTo, ClientsRead
<1>4. CASE TakeMessage \/ LockClients \/ MessageDone \/ HubExits
  BY <1>1, <1>4 DEF TakeMessage, LockClients, MessageDone, HubExits, connVars, feedVars,
                    ClientsRead
<1>5. CASE CloseHub
  BY <1>1, <1>5 DEF CloseHub, Lockable, hubVars, feedVars, ClientsRead
<1>6. CASE Sends
  BY <1>6, SendsAccept DEF ClientsRead
<1>7. CASE Idles
  BY <1>7, IdlesChangeNothing DEF ClientsRead
<1> QED
  BY <1>2, <1>3, <1>4, <1>5, <1>6, <1>7, Steps

\* The pump sends what is left of its tick.
LEMMA PumpStep ==
  ASSUME TypeOK, PumpHasMore, [Next]_vars
  PROVE  PumpHasMore'
<1>1. CASE PumpTick
  BY <1>1 DEF PumpTick, PumpHasMore
<1>2. CASE PumpSend
  BY <1>2 DEF PumpSend, PumpHasMore
<1>3. CASE PumpPanics
  BY <1>3 DEF PumpPanics, PumpHasMore
<1>4. ASSUME UNCHANGED <<pumpPc, toPush>> PROVE PumpHasMore'
  BY <1>4 DEF PumpHasMore
<1>5. ASSUME NEW c \in Conn, ConnStep(c) \/ WriteTo(c) PROVE UNCHANGED <<pumpPc, toPush>>
  BY <1>5 DEF ConnStep, Upgrade, Register, Unregister, Stall, StallEnds, Break, WriteTo,
              pumpVars
<1>6. CASE \/ TakeMessage \/ LockClients \/ MessageDone \/ HubExits \/ CloseHub
           \/ StopTicker \/ UNCHANGED vars
  <2>1. UNCHANGED <<pumpPc, toPush>>
    BY <1>6 DEF TakeMessage, LockClients, MessageDone, HubExits, CloseHub, StopTicker,
                pumpVars, vars
  <2> QED
    BY <1>4, <2>1
<1>7. ASSUME NEW s \in Sender, StartSender(s) \/ Send(s) \/ SendPanics(s)
      PROVE  UNCHANGED <<pumpPc, toPush>>
  BY <1>7 DEF StartSender, Send, SendPanics, pumpVars
<1> QED
  BY <1>1, <1>2, <1>3, <1>4, <1>5, <1>6, <1>7, Steps DEF Sends, Idles

-------------------------------------------------------------------------------
(* The feed of a browser *)

\* n messages after message j.
After(j, n) == [i \in 1..n |-> j + i]

\* The feed grows by the next message.
LEMMA FeedGrows ==
  ASSUME NEW j \in Nat, NEW s \in Seq(Nat), s = After(j, Len(s)),
         NEW e \in Nat, e = j + Len(s) + 1
  PROVE  /\ Append(s, e) = After(j, Len(Append(s, e)))
         /\ Len(Append(s, e)) = Len(s) + 1 /\ Append(s, e) \in Seq(Nat)
<1> DEFINE t == Append(s, e)
<1>1. /\ t \in Seq(Nat) /\ Len(t) = Len(s) + 1 /\ Len(s) \in Nat
      /\ \A i \in 1..Len(s) : t[i] = s[i]
      /\ t[Len(s) + 1] = e
  BY AppendProperties, LenProperties
<1>2. DOMAIN t = 1..Len(t) /\ t = [i \in DOMAIN t |-> t[i]]
  BY <1>1, LenProperties
<1> HIDE DEF t
<1>3. ASSUME NEW i \in 1..Len(t) PROVE t[i] = j + i
  <2>1. CASE i = Len(s) + 1
    BY <1>1, <2>1
  <2>2. CASE i # Len(s) + 1
    <3>1. i \in 1..Len(s)
      BY <1>1, <2>2
    <3>2. s[i] = j + i
      BY <3>1 DEF After
    <3> QED
      BY <1>1, <3>1, <3>2
  <2> QED
    BY <2>1, <2>2
<1>4. t = After(j, Len(t))
  BY <1>2, <1>3 DEF After
<1> QED
  BY <1>1, <1>4 DEF t

\* Every step keeps the feeds complete.
LEMMA FeedStep ==
  ASSUME TypeOK, FeedNumbered, ClientsRead, CompleteFeed, [Next]_vars
  PROVE  CompleteFeed'
<1>1. /\ Len(broadcast) \in Nat /\ accepted \in Nat /\ hubMsg \in Nat
      /\ hubPc \in {"range", "lock", "write", "done"}
      /\ clients \subseteq Conn /\ todo \subseteq clients
      /\ (hubPc # "write" => todo = {})
      /\ net \in [Conn -> Net]
      /\ connPc \in [Conn -> {"idle", "upgraded", "reading", "done"}]
      /\ joined \in [Conn -> Nat] /\ received \in [Conn -> Seq(Nat)]
      /\ \A c \in clients : connPc[c] = "reading"
      /\ \A c \in Conn : connPc[c] \in {"idle", "upgraded"} => received[c] = <<>>
  BY FeedTypes DEF ClientsRead
<1> DEFINE Whole(c) == received[c] = [i \in 1..Len(received[c]) |-> joined[c] + i]
           Fed(c) == joined[c] + Len(received[c]) = Processed - (IF c \in todo THEN 1 ELSE 0)
           Up(c) == c \in clients /\ net[c] \in {"open", "stalled"}
<1>2. \A c \in Conn : Whole(c) /\ (Up(c) => Fed(c))
  BY DEF CompleteFeed
<1>3. ASSUME Processed' = Processed, UNCHANGED <<todo, joined, received>>,
             \A c \in Conn : Up(c)' => Up(c)
      PROVE  CompleteFeed'
  BY <1>2, <1>3 DEF CompleteFeed
<1>4. ASSUME UNCHANGED <<accepted, broadcast, hubPc>> PROVE Processed' = Processed
  BY <1>4 DEF Processed
<1>5. ASSUME NEW c \in Conn, Upgrade(c) \/ Unregister(c) \/ Stall(c) \/ StallEnds(c) \/ Break(c)
      PROVE  CompleteFeed'
  <2>1. UNCHANGED <<todo, joined, received, accepted, broadcast, hubPc>>
    BY <1>5 DEF Upgrade, Unregister, Stall, StallEnds, Break, hubVars, feedVars
  <2>2. \A e \in Conn : Up(e)' => Up(e)
    BY <1>1, <1>5 DEF Upgrade, Unregister, Stall, StallEnds, Break, connVars
  <2> QED
    BY <1>3, <1>4, <2>1, <2>2
<1>6. ASSUME NEW c \in Conn, Register(c) PROVE CompleteFeed'
  <2>1. /\ UNCHANGED <<todo, received, accepted, broadcast, hubPc, net>>
        /\ clients' = clients \cup {c} /\ joined' = [joined EXCEPT ![c] = Processed]
        /\ received[c] = <<>> /\ todo = {} /\ c \notin clients
    BY <1>1, <1>6 DEF Register, Lockable, hubVars
  <2>2. Processed' = Processed /\ Processed \in Int
    BY <1>1, <1>4, <2>1 DEF Processed
  <2>3. \A e \in Conn : e # c => Whole(e)' /\ (Up(e)' => Fed(e)')
    BY <1>1, <1>2, <2>1, <2>2
  <2>4. \A e \in Conn : e = c => Whole(e)' /\ Fed(e)'
    <3>1. Len(received[c]) = 0
      BY <2>1, EmptySeq
    <3>2. \A j \in Int : received[c] = [i \in 1..0 |-> j + i]
      BY <2>1
    <3> QED
      BY <1>1, <2>1, <2>2, <3>1, <3>2
  <2> QED
    BY <2>3, <2>4 DEF CompleteFeed
<1>7. CASE TakeMessage
  <2>1. UNCHANGED <<todo, joined, received, clients, net>>
    BY <1>7 DEF TakeMessage, connVars, feedVars
  <2> QED
    BY <1>3, <1>7, <2>1, TakeNumbers
<1>8. CASE LockClients
  <2>1. /\ UNCHANGED <<joined, received, clients, net, accepted, broadcast>>
        /\ todo' = clients /\ todo = {} /\ hubPc = "lock" /\ hubPc' = "write"
    BY <1>1, <1>8 DEF LockClients, connVars, feedVars
  <2>2. Processed' = Processed + 1 /\ Processed \in Int
    BY <1>1, <2>1 DEF Processed
  <2>3. \A c \in Conn : Whole(c)' /\ (Up(c)' => Fed(c)')
    BY <1>1, <1>2, <2>1, <2>2
  <2> QED
    BY <2>3 DEF CompleteFeed
<1>9. ASSUME NEW c \in Conn, WriteTo(c) PROVE CompleteFeed'
  <2>1. /\ hubPc = "write" /\ hubPc' = "write" /\ c \in todo /\ todo' = todo \ {c}
        /\ UNCHANGED <<joined, accepted, broadcast>>
        /\ hubMsg = accepted - Len(broadcast)
    BY <1>9 DEF WriteTo, FeedNumbered
  <2>2. Processed' = Processed /\ Processed = hubMsg
    BY <1>1, <2>1 DEF Processed
  <2>3. \A e \in Conn : e # c => /\ received'[e] = received[e] /\ joined'[e] = joined[e]
                                 /\ (Up(e)' => Up(e)) /\ (e \in todo' <=> e \in todo)
    BY <1>1, <1>9, <2>1 DEF WriteTo
  <2>4. \A e \in Conn : e # c => Whole(e)' /\ (Up(e)' => Fed(e)')
    BY <1>2, <2>2, <2>3
  <2>5. CASE net[c] = "open"
    <3>1. /\ Whole(c) /\ joined[c] + Len(received[c]) = hubMsg - 1
          /\ joined[c] \in Nat /\ received[c] \in Seq(Nat)
      BY <1>1, <1>2, <2>1, <2>2, <2>5
    <3>2. received' = [received EXCEPT ![c] = Append(@, hubMsg)]
      BY <1>9, <2>5 DEF WriteTo
    <3>3. hubMsg = joined[c] + Len(received[c]) + 1 /\ Len(received[c]) \in Nat
      BY <1>1, <3>1, LenProperties
    <3> DEFINE t == Append(received[c], hubMsg)
    <3>4. /\ t = [i \in 1..Len(t) |-> joined[c] + i] /\ Len(t) = Len(received[c]) + 1
      <4>1. received[c] = After(joined[c], Len(received[c])) /\ hubMsg \in Nat
        BY <1>1, <3>1 DEF After
      <4>2. t = After(joined[c], Len(t)) /\ Len(t) = Len(received[c]) + 1
        BY <3>1, <3>3, <4>1, FeedGrows
      <4> QED
        BY <4>2 DEF After
    <3>5. received'[c] = t /\ joined'[c] = joined[c]
      BY <1>1, <2>1, <3>2
    <3> HIDE DEF t
    <3>6. received'[c] = [i \in 1..Len(received'[c]) |-> joined'[c] + i]
      BY <3>4, <3>5
    <3>7. joined'[c] + Len(received'[c]) = Processed'
      <4>1. Len(t) = Len(received[c]) + 1
        BY <3>4
      <4>2. joined[c] \in Nat
        BY <3>1
      <4>3. joined[c] + Len(t) = hubMsg
        BY <3>3, <4>1, <4>2
      <4> QED
        BY <2>2, <3>5, <4>3
    <3>8. \A e \in Conn : e = c => Whole(e)' /\ Fed(e)'
      <4>1. c \notin todo' /\ Processed' \in Int
        BY <1>1, <2>1, <2>2
      <4>2. Whole(c)' /\ Fed(c)'
        BY <3>6, <3>7, <4>1
      <4> QED
        BY <4>2
    <3> QED
      BY <2>4, <3>8 DEF CompleteFeed
  <2>6. CASE net[c] # "open"
    <3>1. received' = received /\ net'[c] \notin {"open", "stalled"}
      BY <1>1, <1>9, <2>6 DEF WriteTo
    <3>2. \A e \in Conn : e = c => Whole(e)' /\ ~Up(e)'
      BY <1>2, <2>1, <3>1
    <3> QED
      BY <2>4, <3>2 DEF CompleteFeed
  <2> QED
    BY <2>5, <2>6
<1>10. CASE MessageDone \/ HubExits
  <2>1. UNCHANGED <<todo, joined, received, clients, net, accepted, broadcast>>
    BY <1>10 DEF MessageDone, HubExits, connVars, feedVars
  <2>2. Processed' = Processed
    BY <1>10, <2>1 DEF MessageDone, HubExits, Processed
  <2> QED
    BY <1>3, <2>1, <2>2
<1>11. CASE CloseHub
  <2>1. UNCHANGED <<todo, joined, received, accepted, broadcast, hubPc>> /\ clients' = {}
    BY <1>11 DEF CloseHub, hubVars, feedVars
  <2> QED
    BY <1>3, <1>4, <2>1
<1>12. CASE Sends
  BY <1>3, <1>12, AcceptNumbers, SendsAccept
<1>13. CASE Idles
  BY <1>3, <1>4, <1>13, IdlesChangeNothing
<1> QED
  BY <1>5, <1>6, <1>7, <1>8, <1>9, <1>10, <1>11, <1>12, <1>13, Steps DEF ConnStep

-------------------------------------------------------------------------------
(* The theorems *)

\* Every reachable state satisfies the inductive invariant.
THEOREM IndInvCorrect == Spec => []IndInv
<1>1. ASSUME Init PROVE IndInv
  <2>1. /\ Len(broadcast) = 0 /\ broadcast \in Seq(Nat) /\ <<>> \in Seq(Nat)
        /\ Len(<<>>) = 0
    BY <1>1, EmptySeq DEF Init
  <2>2. TypeOK
    <3>1. Len(broadcast) <= BroadcastCap
      BY <2>1, HubAssumption
    <3>2. net \in [Conn -> Net] /\ joined \in [Conn -> Nat] /\ received \in [Conn -> Seq(Nat)]
      BY <1>1, <2>1 DEF Init, Net
    <3>3. /\ connPc \in [Conn -> {"idle", "upgraded", "reading", "done"}]
          /\ senderPc \in [Sender -> {"idle", "send", "sent", "panic"}]
      BY <1>1 DEF Init
    <3>4. accepted \in Nat /\ hubMsg \in Nat /\ toPush \in 0..3 /\ ticks \in Nat
      BY <1>1 DEF Init
    <3>5. /\ clients \subseteq Conn /\ closed \in BOOLEAN /\ ticking \in BOOLEAN
          /\ todo \subseteq Conn /\ todo = {}
          /\ pumpPc \in {"wait", "send", "panic"} /\ closePc \in {"idle", "lock", "done"}
      BY <1>1 DEF Init
    <3>6. hubPc \in {"range", "lock", "write", "done"} /\ (hubMsg # 0 <=> hubPc \in {"lock", "write"})
      BY <1>1 DEF Init
    <3> QED
      BY <2>1, <3>1, <3>2, <3>3, <3>4, <3>5, <3>6 DEF TypeOK
  <2>3. FeedNumbered /\ ClientsRead /\ PumpHasMore
    BY <1>1, <2>1 DEF Init, FeedNumbered, ClientsRead, PumpHasMore
  <2>4. CompleteFeed
    <3>1. \A c \in Conn : received[c] = <<>> /\ joined[c] = 0 /\ clients = {}
      BY <1>1 DEF Init
    <3>2. \A j \in Int : <<>> = [i \in 1..0 |-> j + i]
      OBVIOUS
    <3> QED
      BY <2>1, <3>1, <3>2 DEF CompleteFeed
  <2> QED
    BY <2>2, <2>3, <2>4 DEF IndInv
<1>2. ASSUME IndInv, [Next]_vars PROVE IndInv'
  BY <1>2, TypeStep, NumberedStep, ClientsStep, PumpStep, FeedStep DEF IndInv
<1> QED
  BY <1>1, <1>2, PTL DEF Spec

\* The variables keep their types, and the channel to its capacity.
THEOREM TypeCorrect == Spec => []TypeOK
<1>1. IndInv => TypeOK
  BY DEF IndInv
<1> QED
  BY <1>1, IndInvCorrect, PTL

\* Whoever else connects, stalls or fails, a browser receives every message from its
\* registration on, in order, until its connection fails (broadcastMessage).
THEOREM CompleteFeedCorrect == Spec => []CompleteFeed
<1>1. IndInv => CompleteFeed
  BY DEF IndInv
<1> QED
  BY <1>1, IndInvCorrect, PTL
===============================================================================
