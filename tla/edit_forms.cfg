CONSTANTS
  Site = {s1, s2, s3}
  Device = {d1, d2, d3}
  Home = s1
  Camera = d1
  Text = {"old", " old", " ", "new"}
  Trim <- MCTrim
  Port = {"80", "8080"}
  Typed = {"new"}
  MaxTouched = 1
  MaxForms = 3
  MaxTries = 2
SPECIFICATION Spec
SYMMETRY Symmetric
INVARIANTS TypeOK SavingMeansPending CreatedOncePerTry
PROPERTIES SaveLeavesTheRest
CHECK_DEADLOCK FALSE
