----------------------------- MODULE LeakDetector -----------------------------
(***************************************************************************)
(* backend/services/leak_detector.go: the legacy detector.  Readings come  *)
(* from MQTT goroutines under the lock; a ticker makes one goroutine look  *)
(* at the newest reading of each detector, localise a leak without the     *)
(* lock (LeakLocalization), and merge it into currentLeaks under the lock. *)
(* Of the 60 readings kept per detector only the newest is ever read.      *)
(***************************************************************************)
EXTENDS Integers, Sequences, FiniteSets

CONSTANTS
  NumParticles, MaxIterations, Position, Rate, Fitness, SwarmConfidence, LogProb,
  Level1Threshold,   \* config.AppConfig.Alarm.Level1Threshold
  Reading,           \* concentrations the detectors report
  Silent,            \* a detector has not reported yet
  InitialReadings,   \* what the detectors may have reported at the beginning
  Reporters,         \* bound: detectors that report once more
  MaxReadings,       \* bound: further readings
  MaxLeaks           \* bound: leaks announced

ASSUME SwarmAssumption ==
  /\ NumParticles \in Nat \ {0} /\ MaxIterations \in Nat
  /\ Position # {} /\ Rate # {}
  /\ Fitness \in [Position \X Rate -> Nat]
  /\ SwarmConfidence \in [{Fitness[x] : x \in Position \X Rate} -> 0..100]

\* Each of the three readings or more adds less than -0.22 to the logarithm: their
\* standard deviation is at least 0.5.
ASSUME LogProbAssumption == LogProb \subseteq Int /\ \A l \in LogProb : l < -66

ASSUME DetectorAssumption ==
  /\ Level1Threshold \in Nat
  /\ Reading \subseteq Int
  /\ MaxReadings \in Nat /\ MaxLeaks \in Nat

VARIABLES
  stage, snapshot, windValid, result, particles, globalBest, goroutine, iteration,
  visited,
  latest,        \* the newest reading of each detector
  wind,          \* whether the last wind speed and direction are plausible
  received,      \* readings added so far
  loopPc,        \* where performDetection is
  leaks,         \* every leak ever created; its index is its ID
  currentLeaks,  \* IDs of the current leaks, in the order of the slice
  saving,        \* leaks whose saveLeakSource goroutine has not run yet
  rows,          \* table leak_sources
  resolvedRows,  \* its rows with status resolved
  closed         \* Close has stopped the ticker

Algorithm == INSTANCE LeakLocalization

localizationVars == <<stage, snapshot, windValid, result, particles, globalBest,
                      goroutine, iteration, visited>>
vars == <<localizationVars, latest, wind, received, loopPc, leaks, currentLeaks,
          saving, rows, resolvedRows, closed>>

Init ==
  /\ Algorithm!Init
  /\ latest \in InitialReadings
  /\ wind = TRUE
  /\ received = 0
  /\ loopPc = "idle"
  /\ leaks = <<>>
  /\ currentLeaks = <<>>
  /\ saving = {}
  /\ rows = {}
  /\ resolvedRows = {}
  /\ closed = FALSE

-------------------------------------------------------------------------------
\* AddReading, in the goroutine of an MQTT message, under the lock.  A wind of zero
\* leaves the last one in place.
AddReading(d, c, w) ==
  /\ received < MaxReadings
  /\ received' = received + 1
  /\ latest' = [latest EXCEPT ![d] = c]
  /\ wind' = w
  /\ UNCHANGED <<localizationVars, loopPc, leaks, currentLeaks, saving, rows,
                 resolvedRows, closed>>

HighReadings == {d \in DOMAIN latest : latest[d] # Silent /\ latest[d] > Level1Threshold}

\* Mutant: too few high readings end the detection and leave the leaks as they are.
TakeSnapshotOrReturn ==
  /\ loopPc = "idle" /\ ~closed
  /\ Cardinality(HighReadings) >= 3
  /\ Len(leaks) < MaxLeaks
  /\ loopPc' = "locate"
  /\ Algorithm!Localize([d \in {e \in DOMAIN latest : latest[e] # Silent} |-> latest[d]],
                        wind)
  /\ UNCHANGED <<latest, wind, received, leaks, currentLeaks, saving, rows,
                 resolvedRows, closed>>

\* performDetection at a tick: copy the newest readings and the wind under the read
\* lock, and localise when at least three of them are high.
TakeSnapshot ==
  /\ loopPc = "idle" /\ ~closed
  /\ Cardinality(HighReadings) < 3 \/ Len(leaks) < MaxLeaks
  /\ IF Cardinality(HighReadings) < 3
       THEN loopPc' = "clear" /\ UNCHANGED localizationVars
       ELSE /\ loopPc' = "locate"
            /\ Algorithm!Localize([d \in {e \in DOMAIN latest : latest[e] # Silent} |->
                                     latest[d]], wind)
  /\ UNCHANGED <<latest, wind, received, leaks, currentLeaks, saving, rows,
                 resolvedRows, closed>>

\* The algorithm runs without the lock.
LocalizeStep ==
  /\ Algorithm!Step
  /\ UNCHANGED <<latest, wind, received, loopPc, leaks, currentLeaks, saving, rows,
                 resolvedRows, closed>>

MinConfidence == IF Algorithm!DegradedMode THEN 400000 ELSE 500000

\* No result, or one of too little confidence.
Reject ==
  /\ stage = "done"
  /\ result = Algorithm!NoResult \/ result.Confidence < MinConfidence
  /\ loopPc' = "clear"
  /\ Algorithm!Return
  /\ UNCHANGED <<latest, wind, received, leaks, currentLeaks, saving, rows,
                 resolvedRows, closed>>

\* A leak with a new uuid.
Accept ==
  /\ stage = "done"
  /\ result # Algorithm!NoResult /\ result.Confidence >= MinConfidence
  /\ leaks' = Append(leaks, [position |-> result.Position, source |-> result.source])
  /\ loopPc' = "merge"
  /\ Algorithm!Return
  /\ UNCHANGED <<latest, wind, received, currentLeaks, saving, rows, resolvedRows,
                 closed>>

\* currentLeaks becomes empty; the rows of the leaks stay active.
ClearLeaks ==
  /\ loopPc = "clear"
  /\ loopPc' = "idle"
  /\ currentLeaks' = <<>>
  /\ UNCHANGED <<localizationVars, latest, wind, received, leaks, saving, rows,
                 resolvedRows, closed>>

Distance(p, q) == IF p < q THEN q - p ELSE p - q
Near(i) == Distance(leaks[currentLeaks[i]].position, leaks[Len(leaks)].position) < 500

\* The first leak nearer than 500 m is replaced, which is neither saved nor broadcast.
MergeLeak ==
  /\ loopPc = "merge"
  /\ \E i \in DOMAIN currentLeaks :
       /\ Near(i) /\ \A j \in 1..i - 1 : ~Near(j)
       /\ currentLeaks' = [currentLeaks EXCEPT ![i] = Len(leaks)]
  /\ loopPc' = "idle"
  /\ UNCHANGED <<localizationVars, latest, wind, received, leaks, saving, rows,
                 resolvedRows, closed>>

\* Otherwise the leak is new: goroutines save and broadcast it.
AddLeak ==
  /\ loopPc = "merge"
  /\ \A i \in DOMAIN currentLeaks : ~Near(i)
  /\ currentLeaks' = Append(currentLeaks, Len(leaks))
  /\ saving' = saving \cup {Len(leaks)}
  /\ loopPc' = "idle"
  /\ UNCHANGED <<localizationVars, latest, wind, received, leaks, rows,
                 resolvedRows, closed>>

\* saveLeakSource; an error is only logged.
SaveLeakSource(id) ==
  /\ id \in saving
  /\ saving' = saving \ {id}
  /\ rows' \in {rows, rows \cup {id}}
  /\ UNCHANGED <<localizationVars, latest, wind, received, loopPc, leaks,
                 currentLeaks, resolvedRows, closed>>

\* ResolveLeak, from the API, holds the lock during its UPDATE.
ResolveLeak(i) ==
  /\ resolvedRows' \in {resolvedRows, resolvedRows \cup ({currentLeaks[i]} \cap rows)}
  /\ currentLeaks' = [j \in 1..Len(currentLeaks) - 1 |->
                        currentLeaks[IF j < i THEN j ELSE j + 1]]
  /\ UNCHANGED <<localizationVars, latest, wind, received, loopPc, leaks,
                 saving, rows, closed>>

\* Close, at the end of main.
Close ==
  /\ ~closed
  /\ closed' = TRUE
  /\ UNCHANGED <<localizationVars, latest, wind, received, loopPc, leaks,
                 currentLeaks, saving, rows, resolvedRows>>

Detection == TakeSnapshot \/ Reject \/ Accept \/ ClearLeaks \/ MergeLeak \/ AddLeak

Next ==
  \/ \E d \in Reporters, c \in Reading, w \in BOOLEAN : AddReading(d, c, w)
  \/ Detection
  \/ LocalizeStep
  \/ \E id \in saving : SaveLeakSource(id)
  \/ \E i \in DOMAIN currentLeaks : ResolveLeak(i)
  \/ Close

Spec == Init /\ [][Next]_vars

\* The ticker ticks, the detection and every goroutine of the swarm are scheduled.
FairSpec == Spec /\ WF_vars(Detection) /\ WF_vars(LocalizeStep)

-------------------------------------------------------------------------------
(* Properties *)

TypeOK ==
  /\ loopPc \in {"idle", "locate", "clear", "merge"}
  /\ stage \in {"idle", "select", "bayes", "pso", "loop", "wait", "done"}
  /\ stage # "idle" <=> loopPc = "locate"
  /\ iteration \in 0..MaxIterations
  /\ visited \subseteq Algorithm!Point
  /\ \A i \in DOMAIN currentLeaks : currentLeaks[i] \in DOMAIN leaks
  /\ saving \cup rows \cup resolvedRows \subseteq DOMAIN leaks

\* globalBest is copied from a particle between iterations, never while the goroutine
\* of that particle is changing it: position, rate and fitness belong together, and
\* the position and rate a leak is reported with (BestPos, but LeakRate) do too.
BestIsVisited ==
  globalBest # <<>> =>
    /\ <<globalBest.BestPos, globalBest.BestRate>> \in visited
    /\ globalBest.BestFitness = Fitness[<<globalBest.BestPos, globalBest.BestRate>>]
    /\ globalBest.Position = globalBest.BestPos
    /\ globalBest.LeakRate = globalBest.BestRate

\* After every iteration globalBest is the best of all points any particle has been at.
BestOfVisited ==
  stage = "loop" => \A x \in visited : globalBest.BestFitness <= Fitness[x]

\* A Bayesian result never makes a leak: the better it explains the readings the lower
\* its confidence, which stays below one percent, so either the swarm that checks it
\* wins or the result is rejected.
LeaksComeFromSwarm == \A id \in DOMAIN leaks : leaks[id].source = "pso"

\* Once fewer than three detectors report high readings for good, the current leaks are
\* cleared, whatever detection was under way: the swarm ends and the next tick clears.
LeaksClear ==
  <>[](Cardinality(HighReadings) < 3 /\ ~closed) => <>[](currentLeaks = <<>>)
===============================================================================
