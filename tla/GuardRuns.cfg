SPECIFICATION GuardSpec
CONSTANTS
  Req = {r1}
  MaxCrashes = 1
  Caller = {a, b}
  Op = {"del", "rm"}
  RateMaxOps = 1
  RingCap = 3
  PerVerifier = 2
  TotalBudget = 5
  HomeKnown = TRUE
  Hangs = {{}, {1, 4}}
  MaxEdits = 1
  None = None
  Attributes <- OpAttributes
  Overrides <- RuleOverrides
  WindowExecs = 2
  WindowSeconds = 1
  MaxSeq = 6
  MaxNow = 3
  Module = {"a", "b", "c"}
  Registry <- RegistryOrder
  MaxDrift = 1
INVARIANTS AllTypeOK ReceiptIsDecision GaugeCountsOpen NoEscape RateHolds NothingMissed UpHonest
PROPERTIES FirstAnswerWins WaiterPrunes
CHECK_DEADLOCK FALSE
