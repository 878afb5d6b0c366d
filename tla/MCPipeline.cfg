CONSTANTS
  d1 = d1  z1 = z1  v1 = v1
  Detector = {d1}
  Concentration = {5, 12, 25}
  NoReading = NoReading
  AlarmForwardThreshold = 1
  Level1Threshold = 10
  Level2Threshold = 20
  Level3Threshold = 50
  DataChanCap = 1
  AlarmChanCap = 1
  Zone = {z1}
  Valve = {v1}
  Fan = {}
  ZoneOf <- MCZoneOf
  NoDevice = NoDevice
  ValveControlLevel = 2
  EvacuationLevel = 3
  FanSpeedHighLevel = 3
  CommandChanCap = 1
  FireZone <- MCFireZone
  DBMayFail = TRUE
  MaxReadings = 2
  MaxRestarts = 1
  SignalStarts = 1
SPECIFICATION FairSpec
INVARIANT TableTellsTruth
PROPERTY ImplementsChain GasAnswered
CHECK_DEADLOCK FALSE
