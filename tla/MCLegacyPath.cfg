CONSTANTS
  d1 = d1  z1 = z1  v1 = v1  f1 = f1
  Device = {d1}
  ReadingLevel = {0, 1, 3}
  MaxReadings = 2
  MaxAcks = 1
  Zone = {z1}
  Valve = {v1}
  Fan = {f1}
  ZoneOf <- MCZoneOf
  FireZone <- MCFireZone
  NoDevice = NoDevice
  MaxFaults = 1
  MaxExpiries = 1
  MaxResets = 1
  MaxEvents = 2
SPECIFICATION Spec
INVARIANTS SerialDevicesSettle OrdersNameStoredAlarms ZonesAnswered RowsBacked
PROPERTY LifecycleButForRepeats
CHECK_DEADLOCK FALSE
