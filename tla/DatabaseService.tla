---------------------------- MODULE DatabaseService ----------------------------
(***************************************************************************)
(* The batch writer of backend/services/database.go: sensor points are     *)
(* collected under batchMutex and handed to InfluxDB by flushBatch, which  *)
(* runs in a goroutine of its own when the batch is full, every            *)
(* flushInterval in the function of batchTimer, and once in Close.         *)
(***************************************************************************)
EXTENDS Integers, FiniteSets

CONSTANTS
  Writer,      \* calls of WriteSensorData and WriteSensorDataBatch
  Point,
  PointsOf,    \* the points a call adds
  BatchSize

ASSUME WriterAssumption ==
  /\ PointsOf \in [Writer -> SUBSET Point]
  /\ \A v, w \in Writer : v # w => PointsOf[v] \cap PointsOf[w] = {}
  /\ BatchSize \in Nat \ {0}
  /\ Writer \cap {"timer", "closer", "batch", "stored", "lost"} = {}

\* The goroutines that may execute flushBatch: one per call that fills the batch,
\* the function of the timer, and Close.
Flusher == Writer \cup {"timer", "closer"}

VARIABLES
  batchPoints,
  writerPc,    \* where a call is
  flushPc,     \* where a goroutine is in flushBatch
  points,      \* its local points
  timer,       \* batchTimer: armed, running its function, or stopped
  clientOpen,  \* the InfluxDB client has not been closed
  stored,      \* how often a point was handed to the open client
  lost,        \* points handed to the client after it was closed
  promised     \* history: what Close took over, the points added before its
               \* flush that no other goroutine was handing over

DBvars == <<batchPoints, writerPc, flushPc, points, timer, clientOpen, stored, lost,
          promised>>

DBInit ==
  /\ batchPoints = {}
  /\ writerPc = [w \in Writer |-> "idle"]
  /\ flushPc = [f \in Flusher |-> "idle"]
  /\ points = [f \in Flusher |-> {}]
  /\ timer = "armed"
  /\ clientOpen = TRUE
  /\ stored = [p \in Point |-> 0]
  /\ lost = {}
  /\ promised = {}

\* Under batchMutex: append, and compare the length with batchSize.
WriteSensorData(w) ==
  /\ writerPc[w] = "idle"
  /\ batchPoints' = batchPoints \cup PointsOf[w]
  /\ writerPc' = [writerPc EXCEPT ![w] =
                    IF Cardinality(batchPoints') >= BatchSize THEN "full" ELSE "done"]
  /\ UNCHANGED <<flushPc, points, timer, clientOpen, stored, lost, promised>>

\* go flushBatch, after the unlock.
StartFlush(w) ==
  /\ writerPc[w] = "full"
  /\ writerPc' = [writerPc EXCEPT ![w] = "done"]
  /\ flushPc' = [flushPc EXCEPT ![w] = "take"]
  /\ UNCHANGED <<batchPoints, points, timer, clientOpen, stored, lost, promised>>

TimerFires ==
  /\ timer = "armed"
  /\ timer' = "running"
  /\ flushPc' = [flushPc EXCEPT !["timer"] = "take"]
  /\ UNCHANGED <<batchPoints, writerPc, points, clientOpen, stored, lost, promised>>

\* Mutant: the timer is not re-armed.
ReturnUnarmed(f) ==
  /\ flushPc' = [flushPc EXCEPT ![f] = IF f = "closer" THEN "close" ELSE "idle"]
  /\ timer' = IF f = "timer" THEN "stopped" ELSE timer

\* What follows flushBatch: the timer's function re-arms it, Close goes on.
Return(f) ==
  /\ flushPc' = [flushPc EXCEPT ![f] = IF f = "closer" THEN "close" ELSE "idle"]
  /\ timer' = IF f = "timer" THEN "armed" ELSE timer

\* Mutant: the batch keeps the points.
TakeBatchCopy(f) ==
  /\ flushPc[f] = "take"
  /\ IF batchPoints = {}
     THEN Return(f) /\ UNCHANGED points
     ELSE /\ points' = [points EXCEPT ![f] = batchPoints]
          /\ flushPc' = [flushPc EXCEPT ![f] = "write"]
          /\ UNCHANGED timer
  /\ promised' = IF f = "closer" THEN promised \cup batchPoints ELSE promised
  /\ UNCHANGED <<batchPoints, writerPc, clientOpen, stored, lost>>

\* flushBatch under batchMutex: return when there is nothing to flush, else take
\* the points and leave an empty batch.
TakeBatch(f) ==
  /\ flushPc[f] = "take"
  /\ IF batchPoints = {}
     THEN Return(f) /\ UNCHANGED <<batchPoints, points>>
     ELSE /\ points' = [points EXCEPT ![f] = batchPoints]
          /\ batchPoints' = {}
          /\ flushPc' = [flushPc EXCEPT ![f] = "write"]
          /\ UNCHANGED timer
  /\ promised' = IF f = "closer" THEN promised \cup batchPoints ELSE promised
  /\ UNCHANGED <<writerPc, clientOpen, stored, lost>>

\* writeAPI.WritePoint, without the mutex.
WritePoint(f) ==
  /\ flushPc[f] = "write"
  /\ IF clientOpen
     THEN /\ stored' = [p \in Point |-> stored[p] + (IF p \in points[f] THEN 1 ELSE 0)]
          /\ UNCHANGED lost
     ELSE lost' = lost \cup points[f] /\ UNCHANGED stored
  /\ points' = [points EXCEPT ![f] = {}]
  /\ Return(f)
  /\ UNCHANGED <<batchPoints, writerPc, clientOpen, promised>>

\* Close: stop the timer, which has no effect on a function that is running, and
\* flush.
Close ==
  /\ flushPc["closer"] = "idle"
  /\ clientOpen
  /\ timer' = IF timer = "armed" THEN "stopped" ELSE timer
  /\ flushPc' = [flushPc EXCEPT !["closer"] = "take"]
  /\ UNCHANGED <<batchPoints, writerPc, points, clientOpen, stored, lost, promised>>

\* Mutant: Close starts flushBatch and does not wait for it.
CloseClientEarly ==
  /\ flushPc["closer"] \in {"write", "close"}
  /\ clientOpen' = FALSE
  /\ flushPc' = [flushPc EXCEPT !["closer"] = IF @ = "close" THEN "closed" ELSE @]
  /\ UNCHANGED <<batchPoints, writerPc, points, timer, stored, lost, promised>>

\* The end of Close: flush and close the client.
CloseClient ==
  /\ flushPc["closer"] = "close"
  /\ clientOpen' = FALSE
  /\ flushPc' = [flushPc EXCEPT !["closer"] = "closed"]
  /\ UNCHANGED <<batchPoints, writerPc, points, timer, stored, lost, promised>>

FlushStep(f) == TakeBatch(f) \/ WritePoint(f)

DBNext ==
  \/ \E w \in Writer : WriteSensorData(w) \/ StartFlush(w)
  \/ TimerFires
  \/ \E f \in Flusher : FlushStep(f)
  \/ Close
  \/ CloseClient

DBSpec == DBInit /\ [][DBNext]_DBvars

\* The scheduler runs every goroutine and an armed timer fires.
DBFairness ==
  /\ \A w \in Writer : WF_DBvars(StartFlush(w))
  /\ \A f \in Flusher : WF_DBvars(FlushStep(f))
  /\ WF_DBvars(TimerFires)

DBFairSpec == DBSpec /\ DBFairness

-------------------------------------------------------------------------------
(* Correctness *)

DBTypeOK ==
  /\ batchPoints \subseteq Point
  /\ writerPc \in [Writer -> {"idle", "full", "done"}]
  /\ flushPc \in [Flusher -> {"idle", "take", "write", "close", "closed"}]
  /\ points \in [Flusher -> SUBSET Point]
  /\ timer \in {"armed", "running", "stopped"}
  /\ clientOpen \in BOOLEAN
  /\ stored \in [Point -> Nat]
  /\ lost \subseteq Point
  /\ promised \subseteq Point

Added == UNION {PointsOf[w] : w \in {v \in Writer : writerPc[v] # "idle"}}

\* The places a point can be in: in the batch, in the hands of a goroutine, or
\* with the client.
Place == Flusher \cup {"batch", "stored", "lost"}
IsIn(p, x) ==
  \/ x = "batch" /\ p \in batchPoints
  \/ x \in Flusher /\ p \in points[x]
  \/ x = "stored" /\ stored[p] > 0
  \/ x = "lost" /\ p \in lost

\* Every point that was added is in exactly one place, and handed over at most
\* once: concurrent flushes neither lose nor duplicate it.
PointsConserved ==
  \A p \in Point :
    /\ p \in Added <=> \E x \in Place : IsIn(p, x)
    /\ \A x, y \in Place : IsIn(p, x) /\ IsIn(p, y) => x = y
    /\ stored[p] <= 1

\* Close does not return before the points it found in the batch are stored.
CloseKeepsPromise == ~clientOpen => \A p \in promised : stored[p] = 1

\* A full batch never waits for the timer: a goroutine that will flush it has been
\* or is about to be started.
FullIsFlushed ==
  Cardinality(batchPoints) >= BatchSize =>
    \/ \E w \in Writer : writerPc[w] = "full"
    \/ \E f \in Flusher : flushPc[f] = "take"

\* The strengthening under which the properties above are inductive: goroutines
\* hold points only between taking and writing them, and what Close took over it
\* holds or has handed over.
HeldWhileWriting == \A f \in Flusher : points[f] # {} => flushPc[f] = "write"

PromiseInHand ==
  \A p \in promised : p \in points["closer"] \/ stored[p] = 1

ClientClosedLast == ~clientOpen <=> flushPc["closer"] = "closed"

\* No goroutine is started while it is in flushBatch.
StartedWhenIdle ==
  /\ \A w \in Writer : writerPc[w] # "done" => flushPc[w] = "idle"
  /\ timer = "running" <=> flushPc["timer"] # "idle"

DBIndInv ==
  /\ DBTypeOK /\ PointsConserved /\ CloseKeepsPromise /\ FullIsFlushed
  /\ HeldWhileWriting /\ PromiseInHand /\ ClientClosedLast /\ StartedWhenIdle

\* Every point added is handed over in the end, unless the service is closed.
AllStored ==
  \A p \in Point : (p \in Added) ~> (stored[p] = 1 \/ flushPc["closer"] # "idle")
===============================================================================
