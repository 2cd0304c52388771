SPECIFICATION Spec
CONSTANTS
  r1 = r1
  r2 = r2
  Rows <- TwoRows
  Keep = 2
  MaxChanges = 3
  MaxUploads = 3
  MaxCrashes = 2
  MaxFaults = 2
SYMMETRY Symmetry
INVARIANTS NewestKept UploadedSurvives WholeDatabase
CHECK_DEADLOCK FALSE
