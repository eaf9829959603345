CONSTANTS
  Ports = {p1}
  MaxScans = 1
  MaxDevices = 1

SPECIFICATION FairSpec

PROPERTY CtrlCStops

CHECK_DEADLOCK FALSE
