CONSTANTS
  NumDevices = 1
  RingSize = 2
  RingStep = 1
  KeepJobs = 1
  MaxWriteErrors = 1
  MaxSends = 3
  MaxInFlight = 3

SPECIFICATION Spec

INVARIANTS
  TypeOK
  PendingIsRecent
  ShareNamesPendingJob
  JobIDsGoRound

CHECK_DEADLOCK FALSE
