SPECIFICATION DBFairSpec
CONSTANTS
  w1 = w1
  w2 = w2
  w3 = w3
  Writer = {w1, w2, w3}
  Point <- MCPoint
  PointsOf <- MCPointsOf
  BatchSize = 2
INVARIANTS PointsConserved CloseKeepsPromise
CHECK_DEADLOCK FALSE
PROPERTY AllStored
