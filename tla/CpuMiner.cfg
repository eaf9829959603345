SPECIFICATION FairSpec
CONSTANTS
  Threads = 2
  NonceSpace = 3
  ReportEvery = 1
  ExtraNonce2Space = 2
  MaxStarts = 3
  MaxJobs = 2
CONSTRAINT FewFaults
CHECK_DEADLOCK FALSE
INVARIANTS
  TypeOK
  OneThreadInCharge
  HeaderIsOfTheJob
  NoRootTwice
  
PROPERTIES
  EveryHashIsNew
  
