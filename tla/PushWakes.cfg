SPECIFICATION FairSpec
CONSTANTS
  Device = {d1, d2}
  Name = {n1}
  Msg = {m1}
  Exempt = {}
  Unrouted = {d2}
  Call = {c1, c2}
  Limit = 1
  MaxAttempts = 1
  MaxSerial = 2
  MaxCrashes = 1
  MaxFaults = 1
INVARIANTS TypeOK LateWakes NoSilentLoss OneLiveCert
PROPERTIES OutboxDrains
CHECK_DEADLOCK FALSE
