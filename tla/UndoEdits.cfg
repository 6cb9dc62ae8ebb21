SPECIFICATION UndoSpec
CONSTANTS
  Users = {"u", "x"}
  Own = {"v"}
  Absent = "absent"
  MaxSide = 2
  MaxTorn = 0
INVARIANT LaterChangesKept
