SPECIFICATION Spec
CONSTANTS
  a = a
  b = b
  w1 = w1
  w2 = w2
  w3 = w3
  NoRow = NoRow
  Owner = Owner
  Workers <- ThreeWorkers
  Users <- TwoUsers
  Commands <- SlotCommands
  InitTables <- AdminAndGuest
  DbOutcomes <- DbWorks
  DailyLimit = 1
  MaxDownloads = 1
  MaxUploads = 1
  ClientAttempts = 1
  MaxItems = 1
  MaxCommands = 4
  MaxDay = 1
INVARIANT OneAtATime
CHECK_DEADLOCK FALSE
