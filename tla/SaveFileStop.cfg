SPECIFICATION Spec
CONSTANTS
  w1 = w1
  w2 = w2
  w3 = w3
  Idle = Idle
  Report = Report
  Stop = Stop
  Workers <- TwoWorkers
  Parts = 4
  QueueSize = 3
  ProgressEvery = 2
  MaxLost = 2
INVARIANT StopMeansStop
CHECK_DEADLOCK FALSE
