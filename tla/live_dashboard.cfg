CONSTANTS
  Device = {d1}
  Load = {l1}
  NotifyOnInsert = TRUE
  DevicesLimit = 1
  FleetLimit = 1
  BackfillLimit = 3
  MaxFeed = 3
  SendBuffer = 0
  Reports = {"offline", "degraded"}
  MaxChanges = 2
  MaxFaults = 1
SPECIFICATION FairSpec
INVARIANTS TypeOK FeedHasNoDuplicates ShownStatusIsHistorical BackfillClosesGap
PROPERTIES ViewRecovers
CHECK_DEADLOCK FALSE
