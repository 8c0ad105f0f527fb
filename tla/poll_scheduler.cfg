CONSTANTS
  Device = {d1, d2}
  Tick = {t1, t2}
  ListLimit = 2
  Concurrency = 1
  MaxAttempts = 2
  MaxStalled = 1
  Retain = 1
SPECIFICATION FairSpec
INVARIANTS TypeOK QueueStaysSmall
PROPERTIES FreeDeviceIsPolled JobsSettle DisabledDeviceDrains
CHECK_DEADLOCK FALSE
