SPECIFICATION MCSpec
CONSTANTS
  SignedProc = {s1, s2}
  PlainProc = {a1}
  Nobody = nobody
  Version = {1, 2}
  MaxEpoch = 3
  MaxKeys = 3
  MaxLog = 4
  MaxFails = 2
  MaxOutages = 1
  Beside = {s1, a1}
  BesideLog = 3
  Name = {p, q}
  Here = here
  Cmd = {c1, c2}
  Enroller = c1
  Enrolled = {p}
  NoName = NoName
  MaxAPIKeys = 2
INVARIANTS AllTypeOK RestVerifies CounterNeverAhead OverlapNeverTampered KeysInReach
PROPERTIES RecordsFirst RotationCompletes
CHECK_DEADLOCK FALSE
