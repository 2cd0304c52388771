SPECIFICATION FairSpec
CONSTANTS
  w1 = w1
  w2 = w2
  w3 = w3
  Idle = Idle
  Stop = Stop
  Workers <- OneWorker
  LastChunk = 2
  MaxWindow = 64
  Reuploads = 1
PROPERTY DownloadEnds
CHECK_DEADLOCK FALSE
