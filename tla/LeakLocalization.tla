--------------------------- MODULE LeakLocalization ---------------------------
(***************************************************************************)
(* backend/algorithms/leak_detection.go: how one detection turns the       *)
(* newest readings into a leak.  The quality of the readings selects       *)
(* Bayesian inference or the particle swarm; the swarm is also the         *)
(* fallback and the cross-check of a Bayesian result of low confidence.    *)
(*                                                                         *)
(* In every iteration of the swarm each particle moves in a goroutine of   *)
(* its own, which reads globalBest and writes its own particle only; the   *)
(* main goroutine waits for all of them before it updates globalBest.      *)
(* Positions and leak rates are points of a small grid, random numbers are *)
(* choices, and the plume model is a table of errors.                      *)
(***************************************************************************)
EXTENDS Integers, FiniteSets

CONSTANTS
  NumParticles, MaxIterations,      \* PSOConfig
  Position, Rate,                   \* the search range of PSOConfig
  Fitness,                          \* fitnessFunction at a position and rate
  SwarmConfidence,                  \* calculateConfidence, in percent
  LogProb                           \* values of maxLogProb, in hundredths

VARIABLES
  stage,        \* where the localisation is
  snapshot,     \* its readings: the concentration of each detector that reported
  windValid,    \* whether the wind of its model is plausible
  result,       \* what it has found so far, or NoResult
  particles,    \* the swarm
  globalBest,   \* the best particle seen by the main goroutine
  goroutine,    \* where the goroutine of each particle is
  iteration,    \* the loop variable iter
  visited       \* history: the points of this swarm so far

swarmVars == <<particles, globalBest, goroutine, iteration, visited>>
localizationVars == <<stage, snapshot, windValid, result, swarmVars>>

Swarm == 1..NumParticles
Point == Position \X Rate
ParticleAt(x) == [Position |-> x[1], LeakRate |-> x[2], BestPos |-> x[1],
                  BestRate |-> x[2], BestFitness |-> Fitness[x]]
NoResult == [source |-> "none", Position |-> 0, LeakRate |-> 0, Confidence |-> 0]
NoParticles == <<>>

Init ==
  /\ stage = "idle"
  /\ snapshot = <<>>
  /\ windValid = TRUE
  /\ result = NoResult
  /\ particles = NoParticles
  /\ globalBest = <<>>
  /\ goroutine = <<>>
  /\ iteration = 0
  /\ visited = {}

-------------------------------------------------------------------------------
(* AssessDataQuality and SelectAlgorithm *)

Concs(keep(_)) == {d \in DOMAIN snapshot : keep(snapshot[d])}
Plausible(c) == c >= 0 /\ c < 1000
ValidReadings == Cardinality(Concs(Plausible))

\* ConcentrationRange is at least 5; maxConc starts from 0.
WideRange ==
  \E d, e \in Concs(Plausible) : snapshot[d] - snapshot[e] >= 5

DegradedMode == ~windValid \/ ValidReadings < 5 \/ ~WideRange

\* QualityScore is lowered in degraded mode only, so it is the share of the valid
\* readings where it is compared with 70.
SelectBayes ==
  ~DegradedMode /\ 100 * ValidReadings >= 70 * Cardinality(DOMAIN snapshot)

\* The early return of LocalizeLeakSource: fewer than three readings above zero, or
\* none of at least 1 %LEL.  The implausible readings count as well here.
SwarmHasData ==
  LET Positive(c) == c > 0  High(c) == c >= 1 IN
  Cardinality(Concs(Positive)) >= 3 /\ Concs(High) # {}

\* That of BayesInference, over the plausible readings.
BayesHasData ==
  LET Positive(c) == Plausible(c) /\ c > 0  High(c) == Plausible(c) /\ c >= 1 IN
  Cardinality(Concs(Positive)) >= 3 /\ Concs(High) # {}

-------------------------------------------------------------------------------
(* LocalizeLeakSourceWithQualityCheck *)

\* The call, with a copy of the readings.
Localize(readings, wind) ==
  /\ stage = "idle"
  /\ stage' = "select"
  /\ snapshot' = readings
  /\ windValid' = wind
  /\ result' = NoResult
  /\ UNCHANGED <<particles, globalBest, goroutine, iteration, visited>>

Select ==
  /\ stage = "select"
  /\ stage' = IF ValidReadings < 3 THEN "done" ELSE IF SelectBayes THEN "bayes" ELSE "pso"
  /\ UNCHANGED <<snapshot, windValid, result, particles, globalBest, goroutine,
                 iteration, visited>>

\* Mutant: a better explanation gives a higher confidence.
BayesConfidenceRising(l) == 1000000 + 100 * l

\* Confidence is min(100, -maxLogProb/100), and 50 where that is negative: in units
\* of a hundredth of a hundredth.
BayesConfidence(l) == IF -l < 0 THEN 500000 ELSE IF -l > 1000000 THEN 1000000 ELSE -l
LowConfidence(c) == c < 300000

\* BayesInference gives nothing when the best probability is below 1e-20, whose
\* logarithm is -46.05.
Bayes ==
  /\ stage = "bayes"
  /\ \/ /\ BayesHasData
        /\ \E l \in LogProb, x \in Point :
             /\ l > -4605
             /\ result' = [source |-> "bayes", Position |-> x[1], LeakRate |-> x[2],
                           Confidence |-> BayesConfidence(l)]
             /\ stage' = IF LowConfidence(BayesConfidence(l)) THEN "pso" ELSE "done"
     \/ /\ result' = NoResult
        /\ stage' = "pso"
  /\ UNCHANGED <<snapshot, windValid, particles, globalBest, goroutine, iteration,
                 visited>>

-------------------------------------------------------------------------------
(* LocalizeLeakSource *)

\* A particle of s that no other beats, the first of them.
First(s) ==
  CHOOSE i \in Swarm : \A j \in Swarm :
    \/ s[i].BestFitness < s[j].BestFitness
    \/ s[i].BestFitness = s[j].BestFitness /\ i <= j

\* Without data the swarm finds nothing; otherwise the particles are scattered.
Scatter ==
  /\ \E x \in [Swarm -> Point] :
       /\ particles' = [i \in Swarm |-> ParticleAt(x[i])]
       /\ visited' = {x[i] : i \in Swarm}
  /\ globalBest' = particles'[First(particles')]
  /\ goroutine' = [i \in Swarm |-> "none"]
  /\ iteration' = 0

InitSwarm ==
  /\ stage = "pso"
  /\ IF SwarmHasData
       THEN stage' = "loop" /\ Scatter
       ELSE stage' = "done" /\ UNCHANGED swarmVars
  /\ UNCHANGED <<snapshot, windValid, result>>

\* wg.Add(NumParticles) and a goroutine for each particle.
StartParticles ==
  /\ stage = "loop"
  /\ iteration < MaxIterations
  /\ stage' = "wait"
  /\ goroutine' = [i \in Swarm |-> "move"]
  /\ UNCHANGED <<snapshot, windValid, result, particles, globalBest, iteration, visited>>

\* The particle moves; the new point depends on random numbers and is clamped to the
\* search range.  No other goroutine looks at the particle before wg.Wait(), so the
\* comparison with its best is part of the step.
Move(i) ==
  /\ goroutine[i] = "move"
  /\ \E x \in Point :
       /\ particles' = [particles EXCEPT
            ![i].Position = x[1], ![i].LeakRate = x[2],
            ![i].BestFitness = IF Fitness[x] < @ THEN Fitness[x] ELSE @]
       /\ goroutine' = [goroutine EXCEPT
            ![i] = IF Fitness[x] < particles[i].BestFitness THEN "record" ELSE "done"]
       /\ visited' = visited \cup {x}
  /\ UNCHANGED <<stage, snapshot, windValid, result, globalBest, iteration>>

\* BestPos and BestRate, written after BestFitness; then wg.Done().
Record(i) ==
  /\ goroutine[i] = "record"
  /\ particles' = [particles EXCEPT ![i].BestPos = particles[i].Position,
                                     ![i].BestRate = particles[i].LeakRate]
  /\ goroutine' = [goroutine EXCEPT ![i] = "done"]
  /\ UNCHANGED <<stage, snapshot, windValid, result, globalBest, iteration, visited>>

\* Mutant: the main goroutine goes on after the first wg.Done().
ReleasedEarly == \E i \in Swarm : goroutine[i] = "done"

\* wg.Wait() returns.
Released == \A i \in Swarm : goroutine[i] = "done"

\* Mutant: the loop over the particles starts at the second.
UpdateBestOfRest ==
  /\ stage = "wait"
  /\ Released
  /\ LET i == CHOOSE k \in 2..NumParticles : \A j \in 2..NumParticles :
                particles[k].BestFitness <= particles[j].BestFitness
     IN globalBest' = IF particles[i].BestFitness < globalBest.BestFitness
                        THEN particles[i] ELSE globalBest
  /\ iteration' = iteration + 1
  /\ stage' = "loop"
  /\ UNCHANGED <<snapshot, windValid, result, particles, goroutine, visited>>

\* The main goroutine looks for a particle that is better than globalBest.
UpdateBest ==
  /\ stage = "wait"
  /\ Released
  /\ LET i == First(particles) IN
     globalBest' = IF particles[i].BestFitness < globalBest.BestFitness
                     THEN particles[i] ELSE globalBest
  /\ iteration' = iteration + 1
  /\ stage' = "loop"
  /\ UNCHANGED <<snapshot, windValid, result, particles, goroutine, visited>>

SwarmResult ==
  [source |-> "pso", Position |-> globalBest.BestPos, LeakRate |-> globalBest.LeakRate,
   Confidence |-> 10000 * SwarmConfidence[globalBest.BestFitness]]

\* After the last iteration; a Bayesian result of at least this confidence is kept.
EndSwarm ==
  /\ stage = "loop"
  /\ iteration = MaxIterations
  /\ stage' = "done"
  /\ result' = IF result = NoResult \/ SwarmResult.Confidence > result.Confidence
                 THEN SwarmResult ELSE result
  /\ UNCHANGED <<snapshot, windValid, particles, globalBest, goroutine, iteration,
                 visited>>

\* The caller takes the result; the swarm is garbage.
Return ==
  /\ stage = "done"
  /\ stage' = "idle"
  /\ snapshot' = <<>> /\ windValid' = TRUE /\ result' = NoResult
  /\ particles' = NoParticles /\ globalBest' = <<>> /\ goroutine' = <<>>
  /\ iteration' = 0 /\ visited' = {}

Step ==
  \/ Select \/ Bayes \/ InitSwarm \/ StartParticles \/ UpdateBest \/ EndSwarm
  \/ \E i \in DOMAIN goroutine : Move(i) \/ Record(i)
===============================================================================
