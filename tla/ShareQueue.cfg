SPECIFICATION FairSpec
CHECK_DEADLOCK FALSE
CONSTANTS
  Readers = {r1, r2}
  Receiver = receiver
  Elsewhere = elsewhere
  Kept = kept
  Free = free
  Keys = {1, 2, 3, 4}
  HistoryMax = 2
  HistoryKeep = 1
  MaxFound = 4
CONSTRAINT KeysInOrder
INVARIANTS
  TypeOK
  EveryShareInOnePlace
  NoNearDuplicates
  HistoryIsRecentPast
PROPERTIES
  LedgerSpec
  EveryShareSettles
