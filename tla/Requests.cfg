SPECIFICATION Spec
CONSTANTS
  c1 = c1
  c2 = c2
  Callers <- TwoCallers
  Retries <- OneRetry
  AcksThreshold = 2
  StoredMax = 2
  MaxMail = 3
  MaxFaults = 2
INVARIANTS EntriesMatchCallers HandledOncePerStart AckedMeansHandled
PROPERTY CallSpec
CHECK_DEADLOCK FALSE
