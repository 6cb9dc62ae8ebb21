SPECIFICATION FairSpec
CONSTANTS
  Run = {r1}
  Pgid = {g1}
  Locker = {"timer", "duress"}
  Interval = 1
  MaxTime = 2
  MaxBeat = 1
  MaxCrashes = 1
  MaxFaults = 0
  ReusePgids = TRUE
  Free = Free
  Other = Other
PROPERTIES FireAdvances DeadlineHolds
