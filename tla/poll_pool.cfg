CONSTANTS
  Device = {d1, d2}
  Site = {s1}
  SiteOf <- MCSiteOf
  NoDevice = NoDevice
  Worker = {w1, w2}
  PoolSize = 1
  Redelivery = FALSE
  FarFuture = {}
  MaxLog = 1
  MaxEdits = 0
  MaxTransitions = 1
  MaxCopies = 2
SPECIFICATION FairSpec
PROPERTIES HandlersFinish
CHECK_DEADLOCK FALSE
