CONSTANTS
  Company = {k1, k2}
  Licence = {l1, l2}
  Conn = {c1}
  NoConn = NoConn
  Api = {r1}
  Worker = w
  MaxNow = 2
  MaxFaults = 1
SPECIFICATION FairSpec
INVARIANTS TypeOK ScopeIsOwn HonouredInTime
PROPERTIES ScanTakesOnlyLapsed LapsedIsTransitioned
