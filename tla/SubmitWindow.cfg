SPECIFICATION FairSpec
CONSTANTS
  WorkIDs = {id1, id2}
  MaxSubmits = 2
  MaxRejections = 1
  InOrder = FALSE
  MaxWorks = 3
CHECK_DEADLOCK FALSE
INVARIANTS
  TypeOK
  WindowBounded
  WindowInOrder
  ForcedChangesAreEarned
PROPERTIES
  PanicOnlyWhileSubmitting
  ForgetSubmitsIsCleared
