CONSTANTS
  Procs = {p, q}
  Activities <- Few
  SignalIds = {"s1", "s2", "s3", "s4", "s5"}
  Assets = {"x"}
  Books <- MCBooks
  PaperUsdc = 8
  MaxAge = 1
  MaxDriftBps = 5000
  Latest = 2
  ExclusiveRuns = FALSE
  MaxRuns = 1
  MaxClock = 1
  MaxDeaths = 1
  NoTime = NoTime
  NoProc = NoProc
SPECIFICATION FairSpec
INVARIANTS
  FillsMatchSignals
PROPERTIES
  EverySignalDisposed
  LockReleased
