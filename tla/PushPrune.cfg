SPECIFICATION Spec
CONSTANTS
  Device = {d1}
  Name = {n1}
  Msg = {m1}
  Exempt = {}
  Unrouted = {}
  Call = {c1}
  Limit = 1
  MaxAttempts = 1
  MaxSerial = 2
  MaxCrashes = 0
  MaxFaults = 0
PROPERTIES PrunesOnlyDeadToken
CHECK_DEADLOCK FALSE
