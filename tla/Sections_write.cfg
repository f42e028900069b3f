CONSTANTS
  Report = {a, b}
  a = a
  b = b
  narrative = narrative
  benchmark = benchmark
  Tasks <- MCTasks
  Slots = 1
  MaxParallel = 2
  Limit = 1
  StageLimit = 1
  Input = 1
  Output = 1
  Repeats = 1
  MaxCalls = 2
INIT MCInit
NEXT MCNext
INVARIANTS  
  EvidenceIsTraceable  BundleFits 
