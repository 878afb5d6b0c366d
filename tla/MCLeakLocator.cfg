SPECIFICATION FairSpec
CONSTANTS
  d1 = d1
  d2 = d2
  Detector = {d1, d2}
  Concentration = {0, 30}
  Position = {0, 300, 600}
  HighConcentrationThreshold = 5
  MinHighConcReadings = 2
  MaxReadingsPerDetector = 1
  LeakMergeDistance = 500
  LeakChanCap = 1
  DBMayFail = FALSE
  MaxReadings = 3
  MaxLeaks = 2
INVARIANT HandedIsStored
PROPERTIES LeaksClear NeverRevived
CHECK_DEADLOCK FALSE
