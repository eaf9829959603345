SPECIFICATION Spec
CONSTANTS
  WorkIDs = {id1, id2}
  MaxSubmits = 2
  MaxRejections = 1
  InOrder = TRUE
  MaxWorks = 3
CHECK_DEADLOCK FALSE
INVARIANT CreditsAreRight
