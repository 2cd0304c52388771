SPECIFICATION FairSpec
CONSTANTS
  h1 = h1
  h2 = h2
  add = add
  remove = remove
  Workers = 2
  Groups <- TwoGroups
  Handlers <- TwoHandlers
  Tasks <- TwoTasks
  Op <- AddAndRemove
  Registered <- TwoRegistered
  MaxUpdates = 2
  MaxStarts = 2
INVARIANT EachUpdateOnce
PROPERTIES RegistryStable DispatchSpec RegistrationsEnd StopEnds
CHECK_DEADLOCK FALSE
