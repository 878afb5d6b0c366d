------------------------------ MODULE LeakLocator ------------------------------
(***************************************************************************)
(* backend/modules/leak_locator: dataReceiver keeps a window of readings   *)
(* per detector; detectionLoop looks at the newest reading of each every   *)
(* DetectionInterval, locates a leak and merges it into currentLeaks; the  *)
(* API goroutines resolve leaks.                                           *)
(*                                                                         *)
(* The localisation algorithms are pure: here they may return an error, no *)
(* confident result, or any position.                                      *)
(***************************************************************************)
EXTENDS Integers, Sequences, FiniteSets

CONSTANTS
  Detector,
  Concentration,
  Position,                    \* positions the algorithms can return, in metres
  HighConcentrationThreshold, MinHighConcReadings, MaxReadingsPerDetector,
  LeakMergeDistance,
  LeakChanCap,
  DBMayFail,                   \* whether a statement may fail
  MaxReadings,                 \* bound: readings received
  MaxLeaks                     \* bound: leaks located

ASSUME LocatorAssumption ==
  /\ Concentration \subseteq Nat
  /\ Position \subseteq Nat
  /\ HighConcentrationThreshold \in Nat
  /\ MinHighConcReadings \in Nat \ {0}
  /\ MaxReadingsPerDetector \in Nat \ {0}
  /\ LeakMergeDistance \in Nat
  /\ LeakChanCap \in Nat
  /\ DBMayFail \in BOOLEAN
  /\ MaxReadings \in Nat
  /\ MaxLeaks \in Nat

VARIABLES
  running,       \* LeakLocator.running
  ticking,       \* whether detectTicker.C still delivers a tick
  receiverPc,    \* where dataReceiver is
  readings,      \* the window of a detector, oldest first
  detectPc,      \* where detectionLoop is
  leaks,         \* the positions of all leaks ever created; the index is the ID
  currentLeaks,  \* IDs of the current leaks, in the order of the slice
  leakChan,      \* IDs on their way to EmergencyController
  saving,        \* leaks whose saveLeakSource goroutine has not run yet
  dbRows,        \* rows of table leak_sources
  dbResolved,    \* rows with status resolved
  heard,         \* history: number of readings received from a detector
  handed         \* history: leaks EmergencyController has received, in order

dbVars == <<dbRows, dbResolved>>
vars == <<running, ticking, receiverPc, readings, detectPc, leaks, currentLeaks,
          leakChan, saving, dbRows, dbResolved, heard, handed>>

LeakId == 1..Len(leaks)
SeqRange(s) == {s[i] : i \in 1..Len(s)}
Distance(p, q) == IF p < q THEN q - p ELSE p - q

Init ==
  /\ running = TRUE
  /\ ticking = TRUE
  /\ receiverPc = "poll"
  /\ readings = [d \in Detector |-> <<>>]
  /\ detectPc = "wait"
  /\ leaks = <<>>
  /\ currentLeaks = <<>>
  /\ leakChan = <<>>
  /\ saving = {}
  /\ dbRows = {}
  /\ dbResolved = {}
  /\ heard = [d \in Detector |-> 0]
  /\ handed = <<>>

-------------------------------------------------------------------------------
(* dataReceiver *)

Poll ==
  /\ receiverPc = "poll"
  /\ receiverPc' = IF running THEN "select" ELSE "done"
  /\ UNCHANGED <<running, ticking, readings, detectPc, leaks, currentLeaks, leakChan,
                 saving, dbVars, heard, handed>>

\* A full window loses its oldest reading when another one is added.
Pushed(window, c) ==
  IF Len(window) + 1 > MaxReadingsPerDetector
  THEN Tail(Append(window, c))
  ELSE Append(window, c)

\* A reading arrives: addReading, under mu.
AddReading(d, c) ==
  /\ receiverPc = "select"
  /\ heard[d] < MaxReadings
  /\ readings' = [readings EXCEPT ![d] = Pushed(@, c)]
  /\ heard' = [heard EXCEPT ![d] = @ + 1]
  /\ receiverPc' = "poll"
  /\ UNCHANGED <<running, ticking, detectPc, leaks, currentLeaks, leakChan, saving,
                 dbVars, handed>>

\* 100 ms without a reading.
ReceiveTimeout ==
  /\ receiverPc = "select"
  /\ receiverPc' = "poll"
  /\ UNCHANGED <<running, ticking, readings, detectPc, leaks, currentLeaks, leakChan,
                 saving, dbVars, heard, handed>>

-------------------------------------------------------------------------------
(* detectionLoop *)

Tick ==
  /\ detectPc = "wait"
  /\ ticking
  /\ detectPc' = IF running THEN "read" ELSE "done"
  /\ UNCHANGED <<running, ticking, receiverPc, readings, leaks, currentLeaks,
                 leakChan, saving, dbVars, heard, handed>>

HighDetectors ==
  {d \in Detector : /\ readings[d] # <<>>
                    /\ readings[d][Len(readings[d])] > HighConcentrationThreshold}

\* Mutant: too few high readings leave the leaks alone.
ReadLatestUncleared ==
  /\ detectPc = "read"
  /\ detectPc' = IF Cardinality(HighDetectors) < MinHighConcReadings
                 THEN "wait" ELSE "locate"
  /\ UNCHANGED <<running, ticking, receiverPc, readings, leaks, currentLeaks, leakChan,
                 saving, dbVars, heard, handed>>

\* performDetection under RLock: are enough of the newest readings high?
ReadLatest ==
  /\ detectPc = "read"
  /\ detectPc' = IF Cardinality(HighDetectors) < MinHighConcReadings
                 THEN "clear" ELSE "locate"
  /\ UNCHANGED <<running, ticking, receiverPc, readings, leaks, currentLeaks,
                 leakChan, saving, dbVars, heard, handed>>

\* No lock is held while the algorithms run.  An error leaves the leaks alone, a
\* result without the required confidence clears them.
LocateNothing ==
  /\ detectPc = "locate"
  /\ detectPc' \in {"wait", "clear"}
  /\ UNCHANGED <<running, ticking, receiverPc, readings, leaks, currentLeaks,
                 leakChan, saving, dbVars, heard, handed>>

ClearLeaks ==
  /\ detectPc = "clear"
  /\ currentLeaks' = <<>>
  /\ detectPc' = "wait"
  /\ UNCHANGED <<running, ticking, receiverPc, readings, leaks, leakChan, saving,
                 dbVars, heard, handed>>

\* A leak is found: a new object with a new UUID.
Locate(p) ==
  /\ detectPc = "locate"
  /\ Len(leaks) < MaxLeaks
  /\ leaks' = Append(leaks, p)
  /\ detectPc' = "merge"
  /\ UNCHANGED <<running, ticking, receiverPc, readings, currentLeaks, leakChan,
                 saving, dbVars, heard, handed>>

Near(i, p) == Distance(leaks[currentLeaks[i]], p) < LeakMergeDistance

\* Under mu: the new leak replaces the first current one near it ...
MergeLeak(i) ==
  /\ detectPc = "merge"
  /\ Near(i, leaks[Len(leaks)])
  /\ \A j \in 1..(i - 1) : ~Near(j, leaks[Len(leaks)])
  /\ currentLeaks' = [currentLeaks EXCEPT ![i] = Len(leaks)]
  /\ detectPc' = "wait"
  /\ UNCHANGED <<running, ticking, receiverPc, readings, leaks, leakChan, saving,
                 dbVars, heard, handed>>

\* Mutants: the leak is not saved; it is added to a copy of the slice from before
\* other leaks were removed.
AddUnsaved ==
  /\ detectPc = "merge"
  /\ \A i \in 1..Len(currentLeaks) : ~Near(i, leaks[Len(leaks)])
  /\ currentLeaks' = Append(currentLeaks, Len(leaks))
  /\ leakChan' = IF Len(leakChan) < LeakChanCap THEN Append(leakChan, Len(leaks))
                                                ELSE leakChan
  /\ detectPc' = "wait"
  /\ UNCHANGED <<running, ticking, receiverPc, readings, leaks, saving, dbVars,
                 heard, handed>>

AddToStaleCopy ==
  /\ detectPc = "merge"
  /\ currentLeaks' = [i \in 1..Len(leaks) |-> i]
  /\ saving' = saving \cup {Len(leaks)}
  /\ detectPc' = "wait"
  /\ UNCHANGED <<running, ticking, receiverPc, readings, leaks, leakChan, dbVars,
                 heard, handed>>

\* ... or is added, saved in a goroutine and offered to leakChan, which drops it
\* when it is full.
AddLeak ==
  /\ detectPc = "merge"
  /\ \A i \in 1..Len(currentLeaks) : ~Near(i, leaks[Len(leaks)])
  /\ currentLeaks' = Append(currentLeaks, Len(leaks))
  /\ saving' = saving \cup {Len(leaks)}
  /\ leakChan' = IF Len(leakChan) < LeakChanCap THEN Append(leakChan, Len(leaks))
                                                ELSE leakChan
  /\ detectPc' = "wait"
  /\ UNCHANGED <<running, ticking, receiverPc, readings, leaks, dbVars, heard, handed>>

DetectionLoop ==
  \/ Tick \/ ReadLatest \/ LocateNothing \/ ClearLeaks \/ AddLeak
  \/ \E p \in Position : Locate(p)
  \/ \E i \in 1..Len(currentLeaks) : MergeLeak(i)

-------------------------------------------------------------------------------
\* saveLeakSource: INSERT; an error is only logged.
SaveLeakSource(id) ==
  /\ id \in saving
  /\ saving' = saving \ {id}
  /\ \/ dbRows' = dbRows \cup {id}
     \/ DBMayFail /\ UNCHANGED dbRows
  /\ UNCHANGED <<running, ticking, receiverPc, readings, detectPc, leaks,
                 currentLeaks, leakChan, dbResolved, heard, handed>>

\* ResolveLeak removes the first current leak with this ID: the UPDATE runs under mu
\* and succeeds even when it matches no row.
ResolveLeak(id) ==
  /\ \E i \in 1..Len(currentLeaks) :
       /\ currentLeaks[i] = id
       /\ \A j \in 1..(i - 1) : currentLeaks[j] # id
       /\ currentLeaks' = [j \in 1..(Len(currentLeaks) - 1) |->
                             currentLeaks[IF j < i THEN j ELSE j + 1]]
  /\ \/ /\ dbResolved' = dbResolved \cup ({id} \cap dbRows)
     \/ DBMayFail /\ UNCHANGED dbResolved
  /\ UNCHANGED <<running, ticking, receiverPc, readings, detectPc, leaks, leakChan,
                 saving, dbRows, heard, handed>>

\* EmergencyController.leakReceiver takes the next leak.
ReceiveLeak ==
  /\ leakChan # <<>>
  /\ handed' = Append(handed, Head(leakChan))
  /\ leakChan' = Tail(leakChan)
  /\ UNCHANGED <<running, ticking, receiverPc, readings, detectPc, leaks,
                 currentLeaks, saving, dbVars, heard>>

\* Stop clears running and stops the ticker, whose channel is never closed: one
\* tick may be in it already.
Stop ==
  /\ running
  /\ running' = FALSE
  /\ ticking' \in BOOLEAN
  /\ UNCHANGED <<receiverPc, readings, detectPc, leaks, currentLeaks, leakChan,
                 saving, dbVars, heard, handed>>

Next ==
  \/ Poll \/ ReceiveTimeout
  \/ \E d \in Detector, c \in Concentration : AddReading(d, c)
  \/ DetectionLoop
  \/ \E id \in LeakId : SaveLeakSource(id) \/ ResolveLeak(id)
  \/ ReceiveLeak
  \/ Stop

Spec == Init /\ [][Next]_vars

\* The scheduler runs every goroutine, the ticker ticks, statements return.  The
\* detectors, the operator and main owe nothing.
Fairness ==
  /\ WF_vars(Poll \/ ReceiveTimeout)
  /\ WF_vars(DetectionLoop)
  /\ \A id \in 1..MaxLeaks : WF_vars(id \in LeakId /\ SaveLeakSource(id))

FairSpec == Spec /\ Fairness

-------------------------------------------------------------------------------
(* Correctness *)

\* Every variable has its type; windows and the channel keep to their capacity.
TypeOK ==
  /\ running \in BOOLEAN /\ ticking \in BOOLEAN
  /\ running => ticking
  /\ receiverPc \in {"poll", "select", "done"}
  /\ readings \in [Detector -> Seq(Concentration)]
  /\ \A d \in Detector : Len(readings[d]) <= MaxReadingsPerDetector
  /\ detectPc \in {"wait", "read", "clear", "locate", "merge", "done"}
  /\ leaks \in Seq(Position)
  /\ detectPc = "merge" => leaks # <<>>
  /\ currentLeaks \in Seq(LeakId)
  /\ leakChan \in Seq(LeakId) /\ Len(leakChan) <= LeakChanCap
  /\ saving \subseteq LeakId
  /\ dbRows \subseteq LeakId
  /\ dbResolved \subseteq dbRows
  /\ heard \in [Detector -> 0..MaxReadings]
  /\ handed \in Seq(LeakId)

\* No leak is listed twice, and one that was resolved, merged or cleared never
\* becomes current again.
NeverRevived ==
  [][ /\ \A i, j \in 1..Len(currentLeaks') :
           currentLeaks'[i] = currentLeaks'[j] => i = j
      /\ \A id \in LeakId :
           /\ id \notin SeqRange(currentLeaks)
           /\ ~(detectPc = "merge" /\ id = Len(leaks))
           => id \notin SeqRange(currentLeaks') ]_vars

\* EmergencyController and table leak_sources are told of the same leaks: each is
\* handed over at most once, in the order of detection, and it is stored or about
\* to be.
HandedIsStored ==
  LET sent == handed \o leakChan IN
    /\ \A i, j \in 1..Len(sent) : i < j => sent[i] < sent[j]
    /\ ~DBMayFail => SeqRange(sent) \subseteq saving \cup dbRows

\* While the module runs and too few detectors read high concentrations for good,
\* the current leaks disappear for good.
LeaksClear ==
  <>[](running /\ Cardinality(HighDetectors) < MinHighConcReadings
         => currentLeaks = <<>>)
===============================================================================
