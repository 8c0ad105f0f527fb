CONSTANTS
  Api = {a}
  Worker = {w1, w2}
  LastFile = 2
  Seed = 2
  Company = {demo, other}
  Demo = demo
  Device = {d1}
  k1 = k1
  k2 = k2
  Key = {k1, k2}
  FirstEnv <- MCFirstEnv
  MaxVersion = 2
  MaxChanges = 1
  MaxFaults = 1
SPECIFICATION FairSpec
INVARIANTS TypeOK MigrationsAgree TicksStay CredentialsStayReadable
PROPERTIES BootsSettle
CHECK_DEADLOCK FALSE
