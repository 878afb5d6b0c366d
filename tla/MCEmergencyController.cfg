SPECIFICATION FairSpec
CONSTANTS
  z1 = z1
  z2 = z2
  v1 = v1
  v2 = v2
  f1 = f1
  Zone = {z1, z2}
  Valve = {v1, v2}
  Fan = {f1}
  ZoneOf <- MCZoneOf
  Level = {1, 3}
  ValveControlLevel = 2
  EvacuationLevel = 3
  FanSpeedHighLevel = 3
  CommandChanCap = 1
  MaxFaults = 0
  NoDevice = NoDevice
  MaxAlarms = 2
  MaxResets = 0
INVARIANTS CommandsInOrder
PROPERTIES AlarmAnswered ModuleEnds
CHECK_DEADLOCK FALSE
