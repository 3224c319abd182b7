SPECIFICATION FairFirmwareSpec
CONSTANTS
  m1 = m1
  m2 = m2
  Builds <- AllBuilds
  Ids <- AllIds
  MaxMillis = 6
  MaxAckTimeout = 2
  Periods = {2}
  MeasureTime = 1
  DisplayDelay = 2
  ActivityTimes = {1, 2}
  MaxPause = 1
PROPERTIES ReconnectsOnlyAfterTimeout
