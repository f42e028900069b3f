SPECIFICATION Spec
CONSTANTS
  w1 = w1
  w2 = w2
  Worker = {w1, w2}
  MaxEvents = 1
  MaxNodes = 1
  MaxDecisions = 1
  MaxEdits = 1
  MaxRestarts = 1
  MaxStartFails = 1
CHECK_DEADLOCK FALSE
INVARIANTS RunningHasWorker CompletedIsReadable CancelledStops
SYMMETRY WorkerSymmetry
