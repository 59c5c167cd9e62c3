CONSTANTS
  Procs = {p}
  Activities <- TwoSales
  SignalIds = {"s1", "s2", "s3", "s4", "s5"}
  Assets = {"x"}
  Books <- MCBooks
  PaperUsdc = 8
  MaxAge = 1
  MaxDriftBps = 5000
  Latest = 3
  ExclusiveRuns = TRUE
  MaxRuns = 1
  MaxClock = 0
  MaxDeaths = 0
  NoTime = NoTime
  NoProc = NoProc
  Prices = {1, 3}
  NoPrice = NoPrice
SPECIFICATION ReportSpec
INVARIANTS
  ReportMovesForward
  ProfitAddsUp
  DrawdownIsTheWorstStretch
