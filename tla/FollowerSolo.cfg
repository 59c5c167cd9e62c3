CONSTANTS
  Procs = {p}
  Activities <- Trades
  SignalIds = {"s1", "s2", "s3", "s4", "s5"}
  Assets = {"x"}
  Books <- MCBooks
  PaperUsdc = 8
  MaxAge = 1
  MaxDriftBps = 5000
  Latest = 3
  ExclusiveRuns = TRUE
  MaxRuns = 1
  MaxClock = 2
  MaxDeaths = 1
  NoTime = NoTime
  NoProc = NoProc
SPECIFICATION Spec
INVARIANTS
  IInv
  PositionsReconcile
  ClosuresMatchSells
  CashReconciles
  NeverViolatesUnique
PROPERTIES
  ImplementsLedger
