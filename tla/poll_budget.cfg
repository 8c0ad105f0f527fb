CONSTANTS
  Call = {c1, c2, c3}
  MaxPolls = 2
  MaxTries = 2
SPECIFICATION FairSpec
INVARIANTS TypeOK NeverOverTheTier
PROPERTIES ReleaseTakesOnlyOwnToken AcquireEnds
CHECK_DEADLOCK FALSE
