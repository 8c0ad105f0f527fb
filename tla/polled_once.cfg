CONSTANTS
  Device = {d1}
  Tick = {t1}
  ListLimit = 1000
  Concurrency = 2
  MaxAttempts = 3
  MaxStalled = 1
  Retain = 100
SPECIFICATION FairSpec
PROPERTIES EnabledDeviceIsPolledForEver
CHECK_DEADLOCK FALSE
