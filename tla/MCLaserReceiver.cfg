SPECIFICATION LRFairSpec
CONSTANTS
  high = high
  mid = mid
  low = low
  negative = negative
  huge = huge
  future = future
  nameless = nameless
  Message = {high, low, negative, nameless}
  DeviceOf <- MCDeviceOf
  ConcentrationOf <- MCConcentrationOf
  TimestampOf <- MCTimestampOf
  NoDevice = NoDevice
  AlarmForwardThreshold = 1
  MaxValidConcentration = 100
  MaxDataAge = 0
  MaxFutureTime = 0
  AlarmDataCap = 1
  LeakDataCap = 1
  MaxTime = 1
INVARIANTS StatsAddUp OfferedToAll
CHECK_DEADLOCK FALSE
PROPERTY MessagesFinish
