SPECIFICATION FairSpec
CONSTANTS
  t1 = t1
  t2 = t2
  i1 = i1
  i2 = i2
  Callers <- Everyone
  Transfers <- Movers
  Handled <- Waited
  DCs = {1, 2}
  Home = 1
  Placements <- Anywhere
  Attempts = 2
  NoSession = NoSession
  MaxFaults = 2
INVARIANTS OneForLocked NoneHalfMade ClientStopped
PROPERTY CallersEnd
CHECK_DEADLOCK FALSE
