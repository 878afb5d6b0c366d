CONSTANTS
  Silent = Silent
  NumParticles = 2
  MaxIterations = 1
  Position <- MCPosition
  Rate = {1, 2}
  Fitness <- MCFitness
  SwarmConfidence <- MCConfidence
  LogProb <- MCLogProb
  Level1Threshold = 10
  Reading = {2}
  InitialReadings <- MCInitialReadings
  Reporters = {1}
  MaxReadings = 1
  MaxLeaks = 2
SPECIFICATION FairSpec
INVARIANTS BestIsVisited BestOfVisited LeaksComeFromSwarm
PROPERTY LeaksClear
CHECK_DEADLOCK FALSE
