SPECIFICATION FairSpec
CONSTANTS
  c1 = c1
  Tab = {c1}
  QueueSize = 2
  BufferSize = 2
  MaxSteps = 1
  MaxRuns = 2
  MaxDrops = 1
CHECK_DEADLOCK FALSE
INVARIANTS DeliveredOnce EndIsKept
 
