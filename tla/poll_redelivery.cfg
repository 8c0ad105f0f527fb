CONSTANTS
  Device = {d1}
  Site = {s1}
  SiteOf <- MCSiteOf
  NoDevice = NoDevice
  Worker = {w1, w2}
  PoolSize = 2
  Redelivery = TRUE
  FarFuture = {2}
  MaxLog = 3
  MaxEdits = 1
  MaxTransitions = 2
  MaxCopies = 2
SPECIFICATION Spec
INVARIANTS NoEventLost CredentialAsNewAsAddress
SYMMETRY Symmetric
CHECK_DEADLOCK FALSE
