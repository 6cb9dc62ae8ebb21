SPECIFICATION DaemonSpec
CONSTANTS
  Key = {k1}
  Caller = {bridge, post}
  Explicit = {post}
  Note = {n1, n2, n3}
  NoNote = NoNote
  Epoch = {1, 2}
  RetryDepth = 1
  MaxAttempts = 2
  Capacity = 1
  Token = {t1, t2, t3}
  MaxEntries = 2
  Hash = {1, 2}
  LoopN = 2
  LoopWindow = 3
  StreamSize = 2
  MaxAsks = 2
  PipeCap = 1
  ChanDepth = 1
  MaxWritten = 3
  MaxScanLine = 3
  MaxCells = 6
  MaxFiles = 2
INVARIANTS AllTypeOK WindowHasNote LinesOnce
PROPERTIES RetriesEnd LinkAnswersOnce NeverDecidesAlone FreezeEnds StreamEnds
CHECK_DEADLOCK FALSE
