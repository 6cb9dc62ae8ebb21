SPECIFICATION Spec
CONSTANTS
  SignedProc = {s1}
  PlainProc = {a1}
  Nobody = nobody
  Version = {1}
  MaxEpoch = 2
  MaxKeys = 2
  MaxLog = 4
  MaxFails = 1
  MaxOutages = 1
PROPERTY AppendsFailClosed
CHECK_DEADLOCK FALSE
