SPECIFICATION Spec
CONSTANTS
  a = a
  b = b
  w1 = w1
  w2 = w2
  NoClient = NoClient
  Workers <- TwoWorkers
  Users <- OneUser
  MaxUpdates = 4
  RepliesFail = FALSE
PROPERTY ExpiresOnlyInactive
CHECK_DEADLOCK FALSE
