SPECIFICATION Spec
CONSTANTS
  NumDevices = 2
  NonceSpace = 7
  MaxJobs = 3
  MaxTime = 2
CHECK_DEADLOCK FALSE
INVARIANT UniqueAcrossIterations
