SPECIFICATION LifeFairSpec
CONSTANTS
  MaxTasks = 3
  MaxConns = 3
  MaxFailures = 2
INVARIANTS OneSession NothingLeft
PROPERTIES CallsEnd ComesBack
CHECK_DEADLOCK FALSE
