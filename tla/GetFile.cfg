SPECIFICATION FairSpec
CONSTANTS
  w1 = w1
  w2 = w2
  w3 = w3
  Idle = Idle
  Stop = Stop
  Workers <- ThreeWorkers
  LastChunk = 7
  MaxWindow = 15
  Reuploads = 1
INVARIANTS QueueNeverFull EachChunkOnce OnlyExceptionsTruncate
PROPERTIES StreamSpec EndsUnlessARequestFails
CHECK_DEADLOCK FALSE
