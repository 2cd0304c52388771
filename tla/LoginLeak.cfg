SPECIFICATION Spec
CONSTANTS
  a = a
  b = b
  w1 = w1
  w2 = w2
  NoClient = NoClient
  Workers <- TwoWorkers
  Users <- OneUser
  MaxUpdates = 3
  RepliesFail = FALSE
INVARIANT EveryClientExpires
CHECK_DEADLOCK FALSE
