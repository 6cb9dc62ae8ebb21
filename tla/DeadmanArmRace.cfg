SPECIFICATION Spec
CONSTANTS
  Run = {r1}
  Pgid = {g1}
  Locker = {"timer", "duress"}
  Interval = 1
  MaxTime = 2
  MaxBeat = 1
  MaxCrashes = 0
  MaxFaults = 0
  ReusePgids = FALSE
  Free = Free
  Other = Other
PROPERTY NoSpawnUnderLockdown
