SPECIFICATION Spec
CONSTANTS
  z1 = z1
  z2 = z2
  v1 = v1
  v2 = v2
  f1 = f1
  Zone = {z1}
  Valve = {}
  Fan = {f1}
  ZoneOf <- MCZoneOf
  Level = {3}
  ValveControlLevel = 2
  EvacuationLevel = 4
  FanSpeedHighLevel = 3
  CommandChanCap = 1
  MaxFaults = 1
  NoDevice = NoDevice
  MaxAlarms = 2
  MaxResets = 2
INVARIANTS ZoneAnswered RowsAndLogsBacked ResetFreesZone
CHECK_DEADLOCK FALSE
