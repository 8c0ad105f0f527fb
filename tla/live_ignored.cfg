CONSTANTS
  Device = {d1}
  Load = {l1}
  NotifyOnInsert = TRUE
  DevicesLimit = 1
  FleetLimit = 1
  BackfillLimit = 3
  MaxFeed = 3
  SendBuffer = 1
  Reports = {"offline", "degraded"}
  MaxChanges = 2
  MaxFaults = 0
SPECIFICATION Spec
PROPERTIES PushedEventIsShown
CHECK_DEADLOCK FALSE
