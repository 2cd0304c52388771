SPECIFICATION FairSpec
CONSTANTS
  a = a
  b = b
  w1 = w1
  w2 = w2
  NoClient = NoClient
  Workers <- TwoWorkers
  Users <- TwoUsers
  MaxUpdates = 4
  RepliesFail = TRUE
INVARIANTS OpenLoginUsable CarefulUsersLeakNothing
PROPERTY StaleLoginsGo
CHECK_DEADLOCK FALSE
