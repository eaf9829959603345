CONSTANTS
  Ports = {p1, p2}
  MaxScans = 2
  MaxDevices = 2

CONSTRAINTS
  PortsInOrder
  NoStopAfterOverlap

SPECIFICATION FairSpec

INVARIANTS
  TypeOK
  BufferCoversDevices
  NoDeviceLost
  EveryDeviceIsRead
  CrashNeedsCause

PROPERTIES
  DevicesAreMissed
  StopsUnlessStuck

CHECK_DEADLOCK FALSE
