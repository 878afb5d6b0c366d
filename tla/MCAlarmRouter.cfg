SPECIFICATION Spec
CONSTANTS
  Device = {d1, d2}
  Concentration <- MCConcentration
  NoReading = NoReading
  AlarmForwardThreshold = 1
  Level1Threshold = 10
  Level2Threshold = 20
  Level3Threshold = 50
  DataChanCap = 1
  AlarmChanCap = 1
  SMSMinLevel = 2
  SMSInterval = 1
  SMSMaxPerInterval = 1
  DBMayFail = FALSE
  MaxReadings = 3
  MaxTime = 1
SYMMETRY Symmetry
INVARIANTS SettledLevel NoRepeatedAlarm TableFollowsMemory HandedInOrder SMSBudget
PROPERTY ImplementsLifecycle
CHECK_DEADLOCK FALSE
