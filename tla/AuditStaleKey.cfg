SPECIFICATION Spec
CONSTANTS
  SignedProc = {s1}
  PlainProc = {a1}
  Nobody = nobody
  Version = {1}
  MaxEpoch = 2
  MaxKeys = 2
  MaxLog = 6
  MaxFails = 0
  MaxOutages = 0
INVARIANT RefusedOnlyMidRotation
CHECK_DEADLOCK FALSE
