SPECIFICATION FairSpec
CONSTANTS
  MaxConnections = 3
  MaxInbox = 2
  MaxOwed = 2
CHECK_DEADLOCK FALSE
INVARIANTS
  TypeOK
  JobMatchesSession
  PanicNeedsCause
PROPERTIES
  WireSpec
  ReceiverComesBack
  DisconnectionIsTakenUp
