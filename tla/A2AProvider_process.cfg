SPECIFICATION FairSpec
CONSTANTS
  p1 = p1
  p2 = p2
  Proc = {p1}
  NoProc = NoProc
  MaxAttempts = 2
  LeaseTicks = 1
  MaxPolls = 2
  MaxAnalyses = 3
  MaxCancels = 1
  MaxStops = 1
  MaxErrors = 1
CHECK_DEADLOCK FALSE
INVARIANTS LeaseFollowsJob StatusIsBacked
PROPERTIES AnalysisIsStable OnlyCancelIsLate Settles
