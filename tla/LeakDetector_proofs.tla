-------------------------- MODULE LeakDetector_proofs --------------------------
(***************************************************************************)
(* Proofs about LeakDetector, the localisation it runs (LeakLocalization)  *)
(* included: any number of particles and iterations, any grid, any plume   *)
(* model, any readings.                                                    *)
(***************************************************************************)
EXTENDS LeakDetector, SequenceTheorems, WellFoundedInduction, TLAPS

USE DEF Algorithm!Swarm, Algorithm!Point

Particle == [Position : Position, LeakRate : Rate, BestPos : Position, BestRate : Rate,
             BestFitness : Nat]
At(p) == <<p.Position, p.LeakRate>>
Best(p) == <<p.BestPos, p.BestRate>>

\* Confidences are in ten-thousandths of a percent.
BelowOnePercent == {c \in Nat : c < 10000}

\* A result comes from the swarm, or from Bayesian inference with a confidence below
\* one percent.
ResultOK ==
  \/ result = Algorithm!NoResult
  \/ result \in [source : {"bayes"}, Position : Position, LeakRate : Rate,
                 Confidence : BelowOnePercent]
  \/ result \in [source : {"pso"}, Position : Position, LeakRate : Rate, Confidence : Nat]

\* Leaks are listed and stored by their ID; the one to be merged is the newest.
LeaksOK ==
  /\ leaks \in Seq([position : Position, source : {"pso"}])
  /\ currentLeaks \in Seq(1..Len(leaks))
  /\ loopPc = "merge" => Len(leaks) > 0
  /\ saving \cup rows \cup resolvedRows \subseteq 1..Len(leaks)

\* No leak is listed twice, and the one to be merged not yet.
ListedOnce ==
  \A i, j \in 1..Len(currentLeaks) : currentLeaks[i] = currentLeaks[j] => i = j

NewestUnlisted ==
  loopPc = "merge" => \A i \in 1..Len(currentLeaks) : currentLeaks[i] # Len(leaks)

\* The detection waits while the algorithm runs.
StagesOK ==
  /\ loopPc \in {"idle", "locate", "clear", "merge"}
  /\ stage \in {"idle", "select", "bayes", "pso", "loop", "wait", "done"}
  /\ stage # "idle" <=> loopPc = "locate"
  /\ iteration \in 0..MaxIterations
  /\ stage = "wait" => iteration < MaxIterations

\* Outside the time between BestFitness and BestPos, a particle's best is a point the
\* swarm has been at; in between it is the particle's place.
ParticleOK(i) ==
  /\ At(particles[i]) \in visited
  /\ particles[i].BestFitness =
       Fitness[IF goroutine[i] = "record" THEN At(particles[i]) ELSE Best(particles[i])]
  /\ goroutine[i] # "record" => Best(particles[i]) \in visited
  /\ stage # "wait" => goroutine[i] \in {"none", "done"}

\* A particle better than globalBest has improved in this iteration, so its best is
\* its place.
ImprovedNow(i) ==
  particles[i].BestFitness < globalBest.BestFitness =>
    /\ stage = "wait"
    /\ goroutine[i] \in {"record", "done"}
    /\ goroutine[i] = "done" => At(particles[i]) = Best(particles[i])

GlobalOK ==
  /\ globalBest \in Particle
  /\ Best(globalBest) \in visited
  /\ globalBest.BestFitness = Fitness[Best(globalBest)]
  /\ At(globalBest) = Best(globalBest)

\* Some particle is as good as any point visited.
VisitedOK == \A x \in visited : \E i \in Algorithm!Swarm : particles[i].BestFitness <= Fitness[x]

SwarmOK ==
  /\ particles \in [Algorithm!Swarm -> Particle]
  /\ goroutine \in [Algorithm!Swarm -> {"none", "move", "record", "done"}]
  /\ GlobalOK
  /\ VisitedOK
  /\ \A i \in Algorithm!Swarm : ParticleOK(i) /\ ImprovedNow(i)

\* There is a swarm from InitSwarm to the end of the localisation, if there are data.
SwarmInv ==
  /\ visited \subseteq Algorithm!Point
  /\ stage \in {"loop", "wait"} => goroutine # <<>>
  /\ stage \in {"idle", "select", "bayes", "pso"} => goroutine = <<>>
  /\ goroutine = <<>> => globalBest = <<>>
  /\ goroutine # <<>> => SwarmOK

\* The inductive invariant.
IndInv == StagesOK /\ ResultOK /\ LeaksOK /\ ListedOnce /\ NewestUnlisted /\ SwarmInv

-------------------------------------------------------------------------------
(* The particle that is better than all others *)

\* A set of naturals has a least element.
LEMMA LeastNatural ==
  ASSUME NEW T, T \subseteq Nat, T # {}
  PROVE  \E x \in T : \A y \in T : x <= y
<1>1. \E x \in T : \A y \in T : ~(<<y, x>> \in OpToRel(<, Nat))
  BY NatLessThanWellFounded, WFMin
<1>2. ASSUME NEW x \in Nat, NEW y \in Nat, ~(<<y, x>> \in OpToRel(<, Nat)) PROVE x <= y
  BY <1>2 DEF OpToRel
<1> QED
  BY <1>1, <1>2

\* The first of the best particles exists.
LEMMA FirstIsBest ==
  ASSUME NEW s, \A i \in Algorithm!Swarm : s[i].BestFitness \in Nat
  PROVE  /\ Algorithm!First(s) \in Algorithm!Swarm
         /\ \A j \in Algorithm!Swarm :
              s[Algorithm!First(s)].BestFitness <= s[j].BestFitness
<1> DEFINE Values == {s[i].BestFitness : i \in Algorithm!Swarm}
<1>1. Values \subseteq Nat /\ Values # {}
  BY SwarmAssumption
<1>2. PICK m \in Values : \A v \in Values : m <= v
  BY <1>1, LeastNatural
<1> DEFINE Holders == {i \in Algorithm!Swarm : s[i].BestFitness = m}
<1>3. Holders \subseteq Nat /\ Holders # {}
  BY <1>2, SwarmAssumption
<1>4. PICK k \in Holders : \A h \in Holders : k <= h
  BY <1>3, LeastNatural
<1>5. \A j \in Algorithm!Swarm :
         \/ s[k].BestFitness < s[j].BestFitness
         \/ s[k].BestFitness = s[j].BestFitness /\ k <= j
  BY <1>1, <1>2, <1>4
<1>6. /\ Algorithm!First(s) \in Algorithm!Swarm
      /\ \A j \in Algorithm!Swarm :
           LET i == Algorithm!First(s) IN
           \/ s[i].BestFitness < s[j].BestFitness
           \/ s[i].BestFitness = s[j].BestFitness /\ i <= j
  BY <1>4, <1>5 DEF Algorithm!First
<1> QED
  BY <1>6

-------------------------------------------------------------------------------
(* Stages and the result *)

LEMMA StagesStep ==
  ASSUME StagesOK, [Next]_vars
  PROVE  StagesOK'
<1> USE SwarmAssumption DEF StagesOK
<1>1. CASE TakeSnapshot
  BY <1>1 DEF TakeSnapshot, Algorithm!Localize, localizationVars
<1>2. CASE Reject \/ Accept
  BY <1>2 DEF Reject, Accept, Algorithm!Return
<1>3. CASE ClearLeaks \/ MergeLeak \/ AddLeak
  BY <1>3 DEF ClearLeaks, MergeLeak, AddLeak, localizationVars
<1>4. CASE LocalizeStep
  <2>1. loopPc' = loopPc
    BY <1>4 DEF LocalizeStep
  <2>2. CASE Algorithm!Select \/ Algorithm!Bayes \/ Algorithm!InitSwarm
    BY <2>1, <2>2 DEF Algorithm!Select, Algorithm!Bayes, Algorithm!InitSwarm,
       Algorithm!Scatter, Algorithm!swarmVars
  <2>3. CASE Algorithm!StartParticles \/ Algorithm!UpdateBest \/ Algorithm!EndSwarm
    BY <2>1, <2>3 DEF Algorithm!StartParticles, Algorithm!UpdateBest, Algorithm!EndSwarm
  <2>4. CASE \E i \in DOMAIN goroutine : Algorithm!Move(i) \/ Algorithm!Record(i)
    BY <2>1, <2>4 DEF Algorithm!Move, Algorithm!Record
  <2> QED
    BY <1>4, <2>2, <2>3, <2>4 DEF LocalizeStep, Algorithm!Step
<1>5. CASE UNCHANGED <<localizationVars, loopPc>>
  BY <1>5 DEF localizationVars
<1>6. CASE \/ \E d \in Reporters, c \in Reading, w \in BOOLEAN : AddReading(d, c, w)
           \/ \E id \in saving : SaveLeakSource(id)
           \/ \E i \in DOMAIN currentLeaks : ResolveLeak(i)
           \/ Close \/ UNCHANGED vars
  BY <1>5, <1>6 DEF AddReading, SaveLeakSource, ResolveLeak, Close, vars
<1> QED
  BY <1>1, <1>2, <1>3, <1>4, <1>6 DEF Next, Detection

\* The confidence of a Bayesian result that is not dropped.
LEMMA BayesConfidenceLow ==
  ASSUME NEW l \in LogProb, l > -4605
  PROVE  Algorithm!BayesConfidence(l) \in BelowOnePercent
BY LogProbAssumption DEF BelowOnePercent, Algorithm!BayesConfidence

LEMMA ResultStep ==
  ASSUME StagesOK, ResultOK, SwarmInv, [Next]_vars
  PROVE  ResultOK'
<1>1. CASE UNCHANGED result
  BY <1>1 DEF ResultOK
<1>2. CASE result' = Algorithm!NoResult
  BY <1>2 DEF ResultOK, Algorithm!NoResult
<1>3. CASE Algorithm!Bayes
  BY <1>2, <1>3, BayesConfidenceLow DEF Algorithm!Bayes, ResultOK
<1>4. CASE Algorithm!EndSwarm
  <2>1. GlobalOK
    BY <1>4 DEF Algorithm!EndSwarm, SwarmInv, SwarmOK
  <2>2. /\ globalBest.BestPos \in Position /\ globalBest.LeakRate \in Rate
        /\ globalBest.BestFitness \in {Fitness[x] : x \in Position \X Rate}
    BY <2>1 DEF GlobalOK, Particle, SwarmInv, Best
  <2>3. SwarmConfidence[globalBest.BestFitness] \in 0..100
    BY <2>2, SwarmAssumption
  <2>4. Algorithm!SwarmResult \in [source : {"pso"}, Position : Position,
                                    LeakRate : Rate, Confidence : Nat]
    BY <2>2, <2>3 DEF Algorithm!SwarmResult
  <2> QED
    BY <1>4, <2>4 DEF Algorithm!EndSwarm, ResultOK
<1> QED
  BY <1>1, <1>2, <1>3, <1>4 DEF Next, Detection, TakeSnapshot, Algorithm!Localize, Reject,
     Accept, Algorithm!Return, ClearLeaks, MergeLeak, AddLeak, LocalizeStep,
     Algorithm!Step, Algorithm!Select, Algorithm!InitSwarm, Algorithm!StartParticles,
     Algorithm!Move, Algorithm!Record, Algorithm!UpdateBest, AddReading, SaveLeakSource,
     ResolveLeak, Close, vars, localizationVars

-------------------------------------------------------------------------------
(* Leaks *)

\* The list without its i-th leak.
LEMMA RemovedType ==
  ASSUME NEW S, NEW s \in Seq(S), NEW i \in 1..Len(s), NEW t,
         t = [j \in 1..Len(s) - 1 |-> s[IF j < i THEN j ELSE j + 1]]
  PROVE  /\ t \in Seq(S) /\ Len(t) = Len(s) - 1
         /\ \A j \in 1..Len(t) : t[j] = s[IF j < i THEN j ELSE j + 1]
<1>1. Len(s) \in Nat /\ Len(s) - 1 \in Nat
  BY LenProperties
<1>2. \A j \in 1..Len(s) - 1 : s[IF j < i THEN j ELSE j + 1] \in S
  BY <1>1, ElementOfSeq
<1>3. t \in [1..Len(s) - 1 -> S]
  BY <1>2
<1>4. t \in Seq(S)
  BY <1>1, <1>3, SeqDef
<1>5. Len(t) = Len(s) - 1
  <2>1. DOMAIN t = 1..Len(s) - 1 /\ DOMAIN t = 1..Len(t) /\ Len(t) \in Nat
    BY <1>3, <1>4, LenProperties
  <2> QED
    BY <1>1, <2>1
<1> QED
  BY <1>4, <1>5

LEMMA LeaksStep ==
  ASSUME StagesOK, ResultOK, LeaksOK, [Next]_vars
  PROVE  LeaksOK'
<1>0. /\ Len(leaks) \in Nat /\ DOMAIN currentLeaks = 1..Len(currentLeaks)
      /\ currentLeaks \in Seq(1..Len(leaks))
      /\ leaks \in Seq([position : Position, source : {"pso"}])
  BY LenProperties DEF LeaksOK
<1>1. CASE Accept
  <2>1. result \in [source : {"pso"}, Position : Position, LeakRate : Rate, Confidence : Nat]
    <3>1. MinConfidence = 400000 \/ MinConfidence = 500000
      BY DEF MinConfidence
    <3>2. result # Algorithm!NoResult /\ result.Confidence >= MinConfidence
      BY <1>1 DEF Accept
    <3>3. CASE result \in [source : {"bayes"}, Position : Position, LeakRate : Rate,
                           Confidence : BelowOnePercent]
      <4>1. result.Confidence \in Nat /\ result.Confidence < 10000
        BY <3>3 DEF BelowOnePercent
      <4> QED
        BY <3>1, <3>2, <4>1
    <3> QED
      BY <3>2, <3>3 DEF ResultOK
  <2>2. [position |-> result.Position, source |-> result.source]
          \in [position : Position, source : {"pso"}]
    BY <2>1
  <2>3. /\ leaks' \in Seq([position : Position, source : {"pso"}])
        /\ Len(leaks') = Len(leaks) + 1
    BY <1>0, <1>1, <2>2, AppendProperties DEF Accept
  <2>4. 1..Len(leaks) \subseteq 1..Len(leaks')
    BY <1>0, <2>3
  <2>5. currentLeaks \in Seq(1..Len(leaks'))
    BY <1>0, <2>4, SeqMonotonic
  <2> QED
    BY <1>0, <1>1, <2>3, <2>4, <2>5 DEF Accept, LeaksOK
<1>2. CASE ClearLeaks
  <2>1. <<>> \in Seq(1..Len(leaks))
    BY EmptySeq
  <2> QED
    BY <1>2, <2>1 DEF ClearLeaks, LeaksOK
<1>3. CASE MergeLeak
  <2>1. Len(leaks) \in 1..Len(leaks)
    BY <1>0, <1>3 DEF MergeLeak, LeaksOK
  <2>2. currentLeaks' \in Seq(1..Len(leaks))
    BY <1>0, <1>3, <2>1, ExceptSeq DEF MergeLeak
  <2> QED
    BY <1>3, <2>2 DEF MergeLeak, LeaksOK
<1>4. CASE AddLeak
  <2>1. Len(leaks) \in 1..Len(leaks)
    BY <1>0, <1>4 DEF AddLeak, LeaksOK
  <2>2. currentLeaks' \in Seq(1..Len(leaks))
    BY <1>0, <1>4, <2>1, AppendProperties DEF AddLeak
  <2> QED
    BY <1>4, <2>1, <2>2 DEF AddLeak, LeaksOK
<1>5. ASSUME NEW id \in saving, SaveLeakSource(id) PROVE LeaksOK'
  BY <1>5 DEF SaveLeakSource, LeaksOK
<1>6. ASSUME NEW i \in DOMAIN currentLeaks, ResolveLeak(i) PROVE LeaksOK'
  <2>1. currentLeaks' \in Seq(1..Len(leaks))
    BY <1>0, <1>6, RemovedType DEF ResolveLeak
  <2> QED
    BY <1>6, <2>1 DEF ResolveLeak, LeaksOK
<1>7. CASE /\ UNCHANGED <<leaks, currentLeaks, saving, rows, resolvedRows>>
           /\ loopPc' = "merge" => loopPc = "merge"
  BY <1>7 DEF LeaksOK
<1> QED
  BY <1>1, <1>2, <1>3, <1>4, <1>5, <1>6, <1>7 DEF Next, Detection, TakeSnapshot, Reject,
     LocalizeStep, AddReading, Close, vars

\* The entries of currentLeaks after a step are entries from before it or the leak
\* that is being merged.
EntriesKept ==
  \A i \in 1..Len(currentLeaks') :
    \/ \E j \in 1..Len(currentLeaks) : currentLeaks'[i] = currentLeaks[j]
    \/ loopPc = "merge" /\ currentLeaks'[i] = Len(leaks)

LEMMA RemovalKeeps ==
  ASSUME LeaksOK, ListedOnce, NEW k \in DOMAIN currentLeaks, ResolveLeak(k)
  PROVE  /\ ListedOnce'
         /\ \A i \in 1..Len(currentLeaks') :
              \E j \in 1..Len(currentLeaks) : currentLeaks'[i] = currentLeaks[j]
<1>1. /\ currentLeaks \in Seq(1..Len(leaks)) /\ Len(currentLeaks) \in Nat
      /\ k \in 1..Len(currentLeaks)
  BY LenProperties DEF LeaksOK
<1>2. /\ Len(currentLeaks') = Len(currentLeaks) - 1
      /\ \A j \in 1..Len(currentLeaks') :
           currentLeaks'[j] = currentLeaks[IF j < k THEN j ELSE j + 1]
  BY <1>1, RemovedType DEF ResolveLeak
<1> DEFINE old(j) == IF j < k THEN j ELSE j + 1
<1>3. \A j \in 1..Len(currentLeaks') :
         old(j) \in 1..Len(currentLeaks) /\ currentLeaks'[j] = currentLeaks[old(j)]
  BY <1>1, <1>2
<1>4. \A i, j \in 1..Len(currentLeaks') : old(i) = old(j) => i = j
  BY <1>1, <1>2
<1> HIDE DEF old
<1> QED
  BY <1>3, <1>4 DEF ListedOnce

\* The steps that change currentLeaks.
LEMMA CurrentChange ==
  ASSUME [Next]_vars
  PROVE  \/ UNCHANGED currentLeaks
         \/ ClearLeaks \/ MergeLeak \/ AddLeak
         \/ \E i \in DOMAIN currentLeaks : ResolveLeak(i)
BY DEF Next, Detection, TakeSnapshot, Reject, Accept, LocalizeStep, AddReading,
   SaveLeakSource, Close, vars

\* A step that replaces, adds or removes one leak, or all, lists none twice.
LEMMA ListedOnceStep ==
  ASSUME LeaksOK, ListedOnce, NewestUnlisted, [Next]_vars
  PROVE  ListedOnce' /\ EntriesKept
<1>0. /\ currentLeaks \in Seq(1..Len(leaks)) /\ Len(currentLeaks) \in Nat
      /\ DOMAIN currentLeaks = 1..Len(currentLeaks) /\ Len(leaks) \in Nat
  BY LenProperties DEF LeaksOK
<1>1. CASE UNCHANGED currentLeaks
  BY <1>1 DEF ListedOnce, EntriesKept
<1>2. CASE ClearLeaks
  <2>1. Len(currentLeaks') = 0
    BY <1>2, EmptySeq DEF ClearLeaks
  <2> QED
    BY <2>1 DEF ListedOnce, EntriesKept
<1>3. ASSUME loopPc = "merge"
      PROVE  /\ Len(leaks) \in 1..Len(leaks)
             /\ \A i \in 1..Len(currentLeaks) : currentLeaks[i] # Len(leaks)
  BY <1>0, <1>3 DEF LeaksOK, NewestUnlisted
<1>4. CASE AddLeak
  <2>1. /\ Len(currentLeaks') = Len(currentLeaks) + 1
        /\ currentLeaks'[Len(currentLeaks) + 1] = Len(leaks)
        /\ \A i \in 1..Len(currentLeaks) : currentLeaks'[i] = currentLeaks[i]
    BY <1>0, <1>3, <1>4, AppendProperties DEF AddLeak
  <2>2. \A i \in 1..Len(currentLeaks') :
           i \in 1..Len(currentLeaks) \/ i = Len(currentLeaks) + 1
    BY <1>0, <2>1
  <2>3. ListedOnce'
    BY <1>3, <1>4, <2>1, <2>2 DEF AddLeak, ListedOnce
  <2>4. EntriesKept
    BY <1>4, <2>1, <2>2 DEF AddLeak, EntriesKept
  <2> QED
    BY <2>3, <2>4
<1>5. CASE MergeLeak
  <2>1. loopPc = "merge"
    BY <1>5 DEF MergeLeak
  <2>2. PICK k \in 1..Len(currentLeaks) :
          currentLeaks' = [currentLeaks EXCEPT ![k] = Len(leaks)]
    BY <1>0, <1>5 DEF MergeLeak
  <2>3. /\ Len(currentLeaks') = Len(currentLeaks)
        /\ \A i \in 1..Len(currentLeaks) :
             currentLeaks'[i] = IF i = k THEN Len(leaks) ELSE currentLeaks[i]
    BY <1>0, <1>3, <2>1, <2>2, ExceptSeq
  <2>4. ListedOnce'
    BY <1>3, <2>1, <2>3 DEF ListedOnce
  <2>5. EntriesKept
    BY <2>1, <2>3 DEF EntriesKept
  <2> QED
    BY <2>4, <2>5
<1>6. ASSUME NEW k \in DOMAIN currentLeaks, ResolveLeak(k) PROVE ListedOnce' /\ EntriesKept
  BY <1>6, RemovalKeeps DEF EntriesKept
<1> QED
  BY <1>1, <1>2, <1>4, <1>5, <1>6, CurrentChange

\* Only Accept makes a leak the newest; until it is merged, nothing lists it.
LEMMA NewestUnlistedStep ==
  ASSUME LeaksOK, ListedOnce, NewestUnlisted, [Next]_vars
  PROVE  NewestUnlisted'
<1> SUFFICES ASSUME loopPc' = "merge"
             PROVE  \A i \in 1..Len(currentLeaks') : currentLeaks'[i] # Len(leaks')
  BY DEF NewestUnlisted
<1>1. CASE Accept
  <2>1. currentLeaks' = currentLeaks /\ leaks \in Seq([position : Position, source : {"pso"}])
    BY <1>1 DEF Accept, LeaksOK
  <2>2. Len(leaks') = Len(leaks) + 1 /\ Len(leaks) \in Nat
    BY <1>1, <2>1, LenProperties DEF Accept
  <2>3. \A i \in 1..Len(currentLeaks) : currentLeaks[i] \in 1..Len(leaks)
    BY ElementOfSeq DEF LeaksOK
  <2> QED
    BY <2>1, <2>2, <2>3
<1>2. CASE ~Accept
  <2>1. loopPc = "merge" /\ leaks' = leaks
    BY <1>2 DEF Next, Detection, TakeSnapshot, Reject, ClearLeaks, MergeLeak, AddLeak,
       LocalizeStep, AddReading, SaveLeakSource, ResolveLeak, Close, vars
  <2>2. UNCHANGED currentLeaks \/ \E i \in DOMAIN currentLeaks : ResolveLeak(i)
    BY CurrentChange DEF ClearLeaks, MergeLeak, AddLeak
  <2>3. \A i \in 1..Len(currentLeaks') :
          \E j \in 1..Len(currentLeaks) : currentLeaks'[i] = currentLeaks[j]
    BY <2>2, RemovalKeeps
  <2> QED
    BY <2>1, <2>3 DEF NewestUnlisted
<1> QED
  BY <1>1, <1>2

-------------------------------------------------------------------------------
(* The swarm *)

\* A swarm is not the empty function.
LEMMA NotEmpty ==
  ASSUME NEW S, NEW f \in [Algorithm!Swarm -> S]
  PROVE  f # <<>>
<1>1. 1 \in DOMAIN f
  BY SwarmAssumption
<1>2. DOMAIN <<>> = {}
  OBVIOUS
<1> QED
  BY <1>1, <1>2

\* A particle at a point of the grid.
LEMMA ParticleAtType ==
  ASSUME NEW x \in Algorithm!Point
  PROVE  /\ Algorithm!ParticleAt(x) \in Particle
         /\ Algorithm!ParticleAt(x).BestFitness = Fitness[x]
         /\ At(Algorithm!ParticleAt(x)) = x
         /\ Best(Algorithm!ParticleAt(x)) = x
BY SwarmAssumption DEF Algorithm!ParticleAt, Particle, At, Best

LEMMA ScatterStep ==
  ASSUME Algorithm!Scatter, stage' = "loop"
  PROVE  SwarmInv'
<1>1. PICK x \in [Algorithm!Swarm -> Algorithm!Point] :
        /\ particles' = [i \in Algorithm!Swarm |-> Algorithm!ParticleAt(x[i])]
        /\ visited' = {x[i] : i \in Algorithm!Swarm}
  BY DEF Algorithm!Scatter
<1>2. \A i \in Algorithm!Swarm :
        /\ particles'[i] \in Particle
        /\ particles'[i].BestFitness = Fitness[x[i]] /\ Fitness[x[i]] \in Nat
        /\ At(particles'[i]) = x[i] /\ Best(particles'[i]) = x[i]
  BY <1>1, ParticleAtType, SwarmAssumption
<1>3. particles' \in [Algorithm!Swarm -> Particle]
  BY <1>1, <1>2
<1>4. PICK k \in Algorithm!Swarm :
        /\ globalBest' = particles'[k]
        /\ \A j \in Algorithm!Swarm : particles'[k].BestFitness <= particles'[j].BestFitness
  BY <1>2, FirstIsBest DEF Algorithm!Scatter
<1>5. goroutine' = [i \in Algorithm!Swarm |-> "none"]
  BY DEF Algorithm!Scatter
<1>6. goroutine' \in [Algorithm!Swarm -> {"none", "move", "record", "done"}] /\ goroutine' # <<>>
  BY <1>5, NotEmpty
<1>7. GlobalOK'
  BY <1>1, <1>2, <1>4 DEF GlobalOK, At, Best
<1>8. VisitedOK'
  BY <1>1, <1>2 DEF VisitedOK
<1>9. ASSUME NEW i \in Algorithm!Swarm PROVE ParticleOK(i)' /\ ImprovedNow(i)'
  <2>1. ParticleOK(i)'
    BY <1>1, <1>2, <1>5 DEF ParticleOK, At, Best
  <2>2. ImprovedNow(i)'
    BY <1>2, <1>4 DEF ImprovedNow
  <2> QED
    BY <2>1, <2>2
<1>10. SwarmOK'
  BY <1>3, <1>6, <1>7, <1>8, <1>9 DEF SwarmOK
<1> QED
  BY <1>1, <1>6, <1>10 DEF SwarmInv

LEMMA StartStep ==
  ASSUME SwarmInv, Algorithm!StartParticles
  PROVE  SwarmInv'
<1>1. /\ SwarmOK /\ stage = "loop" /\ stage' = "wait"
      /\ goroutine' = [i \in Algorithm!Swarm |-> "move"]
      /\ UNCHANGED <<particles, globalBest, visited>>
  BY DEF SwarmInv, Algorithm!StartParticles
<1>2. goroutine' \in [Algorithm!Swarm -> {"none", "move", "record", "done"}] /\ goroutine' # <<>>
  BY <1>1, NotEmpty
<1>3. ASSUME NEW i \in Algorithm!Swarm PROVE ParticleOK(i)' /\ ImprovedNow(i)'
  <2>1. ParticleOK(i) /\ ImprovedNow(i)
    BY <1>1 DEF SwarmOK
  <2>2. ParticleOK(i)'
    BY <1>1, <2>1 DEF ParticleOK, At, Best
  <2>3. ImprovedNow(i)'
    BY <1>1, <2>1 DEF ImprovedNow
  <2> QED
    BY <2>2, <2>3
<1>4. GlobalOK' /\ VisitedOK' /\ particles' \in [Algorithm!Swarm -> Particle]
  BY <1>1 DEF SwarmOK, GlobalOK, VisitedOK, At, Best
<1>5. SwarmOK'
  BY <1>2, <1>3, <1>4 DEF SwarmOK
<1> QED
  BY <1>1, <1>2, <1>5 DEF SwarmInv

\* A move: the particle's best gets no worse, the best of the swarm neither.
LEMMA MoveStep ==
  ASSUME SwarmInv, NEW i \in DOMAIN goroutine, Algorithm!Move(i)
  PROVE  SwarmInv'
<1>1. goroutine # <<>> /\ SwarmOK
  <2>1. goroutine # <<>>
    OBVIOUS
  <2> QED
    BY <2>1 DEF SwarmInv
<1>2. /\ i \in Algorithm!Swarm /\ goroutine[i] = "move"
      /\ UNCHANGED <<stage, globalBest>>
      /\ particles \in [Algorithm!Swarm -> Particle]
      /\ goroutine \in [Algorithm!Swarm -> {"none", "move", "record", "done"}]
  BY <1>1 DEF SwarmOK, Algorithm!Move
<1>3. PICK x \in Algorithm!Point :
        /\ particles' = [particles EXCEPT
             ![i].Position = x[1], ![i].LeakRate = x[2],
             ![i].BestFitness = IF Fitness[x] < @ THEN Fitness[x] ELSE @]
        /\ goroutine' = [goroutine EXCEPT
             ![i] = IF Fitness[x] < particles[i].BestFitness THEN "record" ELSE "done"]
        /\ visited' = visited \cup {x}
  BY DEF Algorithm!Move
<1>4. Fitness[x] \in Nat /\ particles[i] \in Particle /\ x = <<x[1], x[2]>>
  BY <1>2, SwarmAssumption
<1>5. /\ particles' \in [Algorithm!Swarm -> Particle]
      /\ \A j \in Algorithm!Swarm : j # i => particles'[j] = particles[j]
      /\ At(particles'[i]) = x /\ Best(particles'[i]) = Best(particles[i])
      /\ particles'[i].BestFitness =
           IF Fitness[x] < particles[i].BestFitness THEN Fitness[x]
                                                    ELSE particles[i].BestFitness
  BY <1>2, <1>3, <1>4 DEF Particle, At, Best
<1>6. /\ goroutine' \in [Algorithm!Swarm -> {"none", "move", "record", "done"}]
      /\ goroutine' # <<>>
      /\ \A j \in Algorithm!Swarm : j # i => goroutine'[j] = goroutine[j]
      /\ goroutine'[i] = IF Fitness[x] < particles[i].BestFitness THEN "record" ELSE "done"
  BY <1>2, <1>3, NotEmpty
<1>7. ParticleOK(i) /\ ImprovedNow(i)
  BY <1>1, <1>2 DEF SwarmOK
<1>8. particles[i].BestFitness \in Nat /\ globalBest.BestFitness \in Nat
  BY <1>1, <1>4 DEF SwarmOK, GlobalOK, Particle
<1>9. ParticleOK(i)'
  BY <1>2, <1>3, <1>5, <1>6, <1>7 DEF ParticleOK
<1>10. ImprovedNow(i)'
  BY <1>2, <1>4, <1>5, <1>6, <1>7, <1>8 DEF ImprovedNow, ParticleOK
<1>11. ASSUME NEW j \in Algorithm!Swarm, j # i PROVE ParticleOK(j)' /\ ImprovedNow(j)'
  <2>1. ParticleOK(j) /\ ImprovedNow(j)
    BY <1>1 DEF SwarmOK
  <2>2. particles'[j] = particles[j] /\ goroutine'[j] = goroutine[j]
    BY <1>5, <1>6, <1>11
  <2>3. ParticleOK(j)'
    BY <1>2, <1>3, <2>1, <2>2 DEF ParticleOK
  <2>4. ImprovedNow(j)'
    BY <1>2, <2>1, <2>2 DEF ImprovedNow
  <2> QED
    BY <2>3, <2>4
<1>12. VisitedOK'
  <2> SUFFICES ASSUME NEW y \in visited'
               PROVE  \E k \in Algorithm!Swarm : particles'[k].BestFitness <= Fitness[y]
    BY DEF VisitedOK
  <2>1. CASE y = x
    BY <1>2, <1>4, <1>5, <1>8, <2>1
  <2>2. CASE y \in visited
    <3>1. Fitness[y] \in Nat
      BY <2>2, SwarmAssumption DEF SwarmInv
    <3>2. PICK k \in Algorithm!Swarm : particles[k].BestFitness <= Fitness[y]
      BY <1>1, <2>2 DEF SwarmOK, VisitedOK
    <3>3. particles'[k].BestFitness <= Fitness[y]
      BY <1>4, <1>5, <1>8, <3>1, <3>2
    <3> QED
      BY <3>3
  <2> QED
    BY <1>3, <2>1, <2>2
<1>13. GlobalOK'
  BY <1>1, <1>2, <1>3 DEF SwarmOK, GlobalOK, Best, At
<1>14. SwarmOK'
  BY <1>5, <1>6, <1>9, <1>10, <1>11, <1>12, <1>13 DEF SwarmOK
<1> QED
  BY <1>1, <1>2, <1>3, <1>6, <1>14 DEF SwarmInv

LEMMA RecordStep ==
  ASSUME SwarmInv, NEW i \in DOMAIN goroutine, Algorithm!Record(i)
  PROVE  SwarmInv'
<1>1. goroutine # <<>> /\ SwarmOK
  <2>1. goroutine # <<>>
    OBVIOUS
  <2> QED
    BY <2>1 DEF SwarmInv
<1>2. /\ i \in Algorithm!Swarm /\ goroutine[i] = "record"
      /\ UNCHANGED <<stage, globalBest, visited>>
      /\ particles \in [Algorithm!Swarm -> Particle]
      /\ goroutine \in [Algorithm!Swarm -> {"none", "move", "record", "done"}]
      /\ particles' = [particles EXCEPT ![i].BestPos = particles[i].Position,
                                         ![i].BestRate = particles[i].LeakRate]
      /\ goroutine' = [goroutine EXCEPT ![i] = "done"]
  BY <1>1 DEF SwarmOK, Algorithm!Record
<1>3. /\ particles' \in [Algorithm!Swarm -> Particle]
      /\ \A j \in Algorithm!Swarm :
           /\ j # i => particles'[j] = particles[j]
           /\ particles'[j].BestFitness = particles[j].BestFitness
      /\ At(particles'[i]) = At(particles[i]) /\ Best(particles'[i]) = At(particles[i])
  BY <1>2 DEF Particle, At, Best
<1>4. /\ goroutine' \in [Algorithm!Swarm -> {"none", "move", "record", "done"}]
      /\ goroutine' # <<>>
      /\ \A j \in Algorithm!Swarm : j # i => goroutine'[j] = goroutine[j]
      /\ goroutine'[i] = "done"
  BY <1>2, NotEmpty
<1>5. ASSUME NEW j \in Algorithm!Swarm PROVE ParticleOK(j)' /\ ImprovedNow(j)'
  <2>1. ParticleOK(j) /\ ImprovedNow(j)
    BY <1>1 DEF SwarmOK
  <2>2. CASE j = i
    <3>1. ParticleOK(j)'
      BY <1>2, <1>3, <1>4, <2>1, <2>2 DEF ParticleOK
    <3>2. ImprovedNow(j)'
      BY <1>2, <1>3, <1>4, <2>1, <2>2 DEF ImprovedNow
    <3> QED
      BY <3>1, <3>2
  <2>3. CASE j # i
    <3>1. particles'[j] = particles[j] /\ goroutine'[j] = goroutine[j]
      BY <1>3, <1>4, <2>3
    <3>2. ParticleOK(j)'
      BY <1>2, <2>1, <3>1 DEF ParticleOK
    <3>3. ImprovedNow(j)'
      BY <1>2, <2>1, <3>1 DEF ImprovedNow
    <3> QED
      BY <3>2, <3>3
  <2> QED
    BY <2>2, <2>3
<1>6. VisitedOK'
  BY <1>1, <1>2, <1>3 DEF SwarmOK, VisitedOK
<1>7. GlobalOK'
  BY <1>1, <1>2 DEF SwarmOK, GlobalOK, Best, At
<1>8. SwarmOK'
  BY <1>3, <1>4, <1>5, <1>6, <1>7 DEF SwarmOK
<1> QED
  BY <1>1, <1>2, <1>4, <1>8 DEF SwarmInv

\* The best particle replaces globalBest if it has improved: its best is its place.
LEMMA UpdateBestStep ==
  ASSUME SwarmInv, Algorithm!UpdateBest
  PROVE  SwarmInv'
<1>1. /\ SwarmOK /\ stage = "wait" /\ stage' = "loop"
      /\ \A i \in Algorithm!Swarm : goroutine[i] = "done"
      /\ UNCHANGED <<particles, goroutine, visited>>
  BY DEF SwarmInv, Algorithm!UpdateBest, Algorithm!Released
<1>2. /\ particles \in [Algorithm!Swarm -> Particle]
      /\ \A i \in Algorithm!Swarm : particles[i].BestFitness \in Nat
      /\ globalBest.BestFitness \in Nat
  BY <1>1 DEF SwarmOK, GlobalOK, Particle
<1>3. PICK k \in Algorithm!Swarm :
        /\ globalBest' = IF particles[k].BestFitness < globalBest.BestFitness
                           THEN particles[k] ELSE globalBest
        /\ \A j \in Algorithm!Swarm : particles[k].BestFitness <= particles[j].BestFitness
  <2>1. /\ Algorithm!First(particles) \in Algorithm!Swarm
        /\ \A j \in Algorithm!Swarm :
             particles[Algorithm!First(particles)].BestFitness <= particles[j].BestFitness
    BY <1>2, FirstIsBest
  <2> QED
    BY <2>1 DEF Algorithm!UpdateBest
<1>4. \A j \in Algorithm!Swarm : ~(particles[j].BestFitness < globalBest'.BestFitness)
  BY <1>2, <1>3
<1>5. GlobalOK'
  <2>1. CASE particles[k].BestFitness < globalBest.BestFitness
    <3>1. ParticleOK(k) /\ At(particles[k]) = Best(particles[k]) /\ particles[k] \in Particle
      BY <1>1, <1>2, <2>1 DEF SwarmOK, ImprovedNow
    <3> QED
      BY <1>1, <1>3, <2>1, <3>1 DEF GlobalOK, ParticleOK, At, Best
  <2>2. CASE ~(particles[k].BestFitness < globalBest.BestFitness)
    BY <1>1, <1>3, <2>2 DEF SwarmOK, GlobalOK, At, Best
  <2> QED
    BY <2>1, <2>2
<1>6. ASSUME NEW i \in Algorithm!Swarm PROVE ParticleOK(i)' /\ ImprovedNow(i)'
  <2>1. ParticleOK(i)
    BY <1>1 DEF SwarmOK
  <2>2. ParticleOK(i)'
    BY <1>1, <2>1 DEF ParticleOK, At, Best
  <2>3. ImprovedNow(i)'
    BY <1>1, <1>4 DEF ImprovedNow
  <2> QED
    BY <2>2, <2>3
<1>7. VisitedOK'
  BY <1>1 DEF SwarmOK, VisitedOK
<1>8. SwarmOK'
  BY <1>1, <1>5, <1>6, <1>7 DEF SwarmOK
<1> QED
  BY <1>1, <1>8 DEF SwarmInv

LEMMA SwarmStep ==
  ASSUME SwarmInv, [Next]_vars
  PROVE  SwarmInv'
<1>1. CASE /\ UNCHANGED <<particles, globalBest, goroutine, visited>>
           /\ stage \in {"idle", "select", "bayes", "pso"}
           /\ stage' \in {"select", "bayes", "pso", "done"}
  <2>1. goroutine = <<>> /\ goroutine' = <<>> /\ globalBest' = <<>>
    BY <1>1 DEF SwarmInv
  <2> QED
    BY <1>1, <2>1 DEF SwarmInv
<1>2. CASE /\ UNCHANGED <<particles, globalBest, goroutine, visited>>
           /\ stage' = stage \/ (stage = "loop" /\ stage' = "done")
  <2>1. SwarmOK => SwarmOK'
    BY <1>2 DEF SwarmOK, GlobalOK, VisitedOK, ParticleOK, ImprovedNow, At, Best
  <2> QED
    BY <1>2, <2>1 DEF SwarmInv
<1>3. CASE TakeSnapshot
  BY <1>1, <1>2, <1>3 DEF TakeSnapshot, Algorithm!Localize, localizationVars
<1>4. CASE Algorithm!Select \/ Algorithm!Bayes
  BY <1>1, <1>4 DEF Algorithm!Select, Algorithm!Bayes
<1>5. CASE Algorithm!InitSwarm
  <2>1. CASE Algorithm!SwarmHasData
    BY <1>5, <2>1, ScatterStep DEF Algorithm!InitSwarm
  <2>2. CASE ~Algorithm!SwarmHasData
    BY <1>1, <1>5, <2>2 DEF Algorithm!InitSwarm, Algorithm!swarmVars
  <2> QED
    BY <2>1, <2>2
<1>6. CASE Algorithm!EndSwarm
  BY <1>2, <1>6 DEF Algorithm!EndSwarm
<1>7. CASE LocalizeStep
  <2>1. CASE \E i \in DOMAIN goroutine : Algorithm!Move(i) \/ Algorithm!Record(i)
    BY <2>1, MoveStep, RecordStep
  <2> QED
    BY <1>4, <1>5, <1>6, <1>7, <2>1, StartStep, UpdateBestStep DEF LocalizeStep, Algorithm!Step
<1>8. CASE Reject \/ Accept
  BY <1>8 DEF Reject, Accept, Algorithm!Return, SwarmInv
<1>9. CASE UNCHANGED localizationVars
  BY <1>2, <1>9 DEF localizationVars
<1> QED
  BY <1>3, <1>7, <1>8, <1>9 DEF Next, Detection, ClearLeaks, MergeLeak, AddLeak,
     AddReading, SaveLeakSource, ResolveLeak, Close, vars

-------------------------------------------------------------------------------
(* The theorems *)

LEMMA IndInvInit == Init => IndInv
<1> SUFFICES ASSUME Init PROVE IndInv
  OBVIOUS
<1>1. \A S : <<>> \in Seq(S) /\ Len(<<>>) = 0
  BY EmptySeq
<1>2. StagesOK
  BY SwarmAssumption DEF Init, Algorithm!Init, StagesOK
<1>3. ResultOK
  BY DEF Init, Algorithm!Init, ResultOK
<1>4. LeaksOK /\ ListedOnce /\ NewestUnlisted
  BY <1>1 DEF Init, LeaksOK, ListedOnce, NewestUnlisted
<1>5. SwarmInv
  BY DEF Init, Algorithm!Init, SwarmInv
<1> QED
  BY <1>2, <1>3, <1>4, <1>5 DEF IndInv

LEMMA IndInvStep == IndInv /\ [Next]_vars => IndInv'
BY StagesStep, ResultStep, LeaksStep, ListedOnceStep, NewestUnlistedStep, SwarmStep
   DEF IndInv

\* The inductive invariant holds: the stages, the provenance of a result and of the
\* leaks, and what the particles, their goroutines and globalBest know of the points
\* visited.
THEOREM IndInvCorrect == Spec => []IndInv
BY IndInvInit, IndInvStep, PTL DEF Spec

\* The variables keep their types and every ID is one of a leak.
THEOREM TypeCorrect == Spec => []TypeOK
<1>1. IndInv => TypeOK
  <2> SUFFICES ASSUME IndInv PROVE TypeOK
    OBVIOUS
  <2>1. DOMAIN leaks = 1..Len(leaks) /\ DOMAIN currentLeaks = 1..Len(currentLeaks)
    BY LenProperties DEF IndInv, LeaksOK
  <2>2. \A i \in DOMAIN currentLeaks : currentLeaks[i] \in DOMAIN leaks
    BY <2>1, ElementOfSeq DEF IndInv, LeaksOK
  <2> QED
    BY <2>1, <2>2 DEF IndInv, StagesOK, LeaksOK, SwarmInv, TypeOK
<1> QED
  BY <1>1, IndInvCorrect, PTL

\* Whatever the goroutines of the particles do, globalBest is one point the swarm has
\* been at, with its own fitness, in every field.
THEOREM BestIsVisitedCorrect == Spec => []BestIsVisited
<1>1. IndInv => BestIsVisited
  BY DEF IndInv, SwarmInv, SwarmOK, GlobalOK, At, Best, BestIsVisited
<1> QED
  BY <1>1, IndInvCorrect, PTL

\* After every iteration, for any number of particles and any fitness, no point the
\* swarm has been at is better than globalBest.
THEOREM BestOfVisitedCorrect == Spec => []BestOfVisited
<1>1. IndInv => BestOfVisited
  <2> SUFFICES ASSUME IndInv, stage = "loop", NEW x \in visited
               PROVE  globalBest.BestFitness <= Fitness[x]
    BY DEF BestOfVisited
  <2>1. SwarmOK /\ Fitness[x] \in Nat
    BY SwarmAssumption DEF IndInv, SwarmInv
  <2>2. PICK i \in Algorithm!Swarm : particles[i].BestFitness <= Fitness[x]
    BY <2>1 DEF SwarmOK, VisitedOK
  <2>3. ~(particles[i].BestFitness < globalBest.BestFitness)
    BY <2>1 DEF SwarmOK, ImprovedNow
  <2>4. particles[i].BestFitness \in Nat /\ globalBest.BestFitness \in Nat
    BY <2>1 DEF SwarmOK, GlobalOK, Particle
  <2> QED
    BY <2>1, <2>2, <2>3, <2>4
<1> QED
  BY <1>1, IndInvCorrect, PTL

\* No leak is ever made from a Bayesian result: its confidence is below one percent.
THEOREM LeaksComeFromSwarmCorrect == Spec => []LeaksComeFromSwarm
<1>1. IndInv => LeaksComeFromSwarm
  <2> SUFFICES ASSUME IndInv, NEW id \in DOMAIN leaks PROVE leaks[id].source = "pso"
    BY DEF LeaksComeFromSwarm
  <2>1. leaks[id] \in [position : Position, source : {"pso"}]
    BY ElementOfSeq, LenProperties DEF IndInv, LeaksOK
  <2> QED
    BY <2>1
<1> QED
  BY <1>1, IndInvCorrect, PTL

\* A leak that was resolved, merged or cleared never becomes current again, although
\* ResolveLeak may run between Accept and the merge.
ResolvedStaysAway ==
  [][ \A id \in 1..Len(leaks) :
        /\ \A i \in 1..Len(currentLeaks) : currentLeaks[i] # id
        /\ ~(loopPc = "merge" /\ id = Len(leaks))
        => \A i \in 1..Len(currentLeaks') : currentLeaks'[i] # id ]_vars

THEOREM ResolvedStaysAwayCorrect == Spec => ResolvedStaysAway
<1> DEFINE Away ==
      \A id \in 1..Len(leaks) :
        /\ \A i \in 1..Len(currentLeaks) : currentLeaks[i] # id
        /\ ~(loopPc = "merge" /\ id = Len(leaks))
        => \A i \in 1..Len(currentLeaks') : currentLeaks'[i] # id
<1>1. IndInv /\ [Next]_vars => [Away]_vars
  BY ListedOnceStep DEF IndInv, EntriesKept
<1> HIDE DEF Away
<1>2. Spec => [][Away]_vars
  BY <1>1, IndInvCorrect, PTL DEF Spec
<1> QED
  BY <1>2 DEF ResolvedStaysAway, Away
================================================================================
