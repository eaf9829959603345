CONSTANTS
  NumDevices = 2
  RingSize = 2
  RingStep = 1
  KeepJobs = 1
  MaxWriteErrors = 1
  MaxSends = 4
  MaxInFlight = 2

SPECIFICATION Spec

INVARIANT ShareNamesItsJob

CHECK_DEADLOCK FALSE
