SPECIFICATION MachineSpec
CONSTANTS
  Run = {r1, r2}
  Pgid = {g1, g2}
  Locker = {"timer", "quarantine"}
  Interval = 1
  MaxTime = 1
  MaxBeat = 0
  MaxCrashes = 1
  MaxFaults = 1
  ReusePgids = TRUE
  Free = Free
  Other = Other
  Users = {"u", "v"}
  Own = {"v"}
  Absent = "absent"
  MaxSide = 2
  MaxTorn = 1
SYMMETRY Symmetry
INVARIANTS AllTypeOK SnapshotDisarmed RegistryCoversLive OriginalKept
PROPERTY RerunHarmless
