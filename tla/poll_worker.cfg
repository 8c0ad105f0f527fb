CONSTANTS
  Device = {d1, d2}
  Site = {s1}
  SiteOf <- MCSiteOf
  NoDevice = NoDevice
  Worker = {w1, w2}
  PoolSize = 2
  Redelivery = FALSE
  FarFuture = {2}
  MaxLog = 2
  MaxEdits = 0
  MaxTransitions = 2
  MaxCopies = 2
SPECIFICATION Spec
INVARIANTS TypeOK ExactlyOnce FeedMatchesStatus NothingOutlivesItsRow
SYMMETRY Symmetric
PROPERTIES ImplementsDeviceFeed
CHECK_DEADLOCK FALSE
