SPECIFICATION FairSpec
CONSTANTS
  w1 = w1
  w2 = w2
  w3 = w3
  Idle = Idle
  Report = Report
  Stop = Stop
  Workers <- ThreeWorkers
  Parts = 5
  QueueSize = 4
  ProgressEvery = 2
  MaxLost = 2
PROPERTY UploadReturns
CHECK_DEADLOCK FALSE
