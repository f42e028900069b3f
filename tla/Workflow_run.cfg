CONSTANTS
  Product = {p}
  MaxAttempts = 4
  MaxFaults = 1
  MaxDecisions = 1
SPECIFICATION Spec
INVARIANTS RoundsAreCapped  EndIsClean
PROPERTY RunEnds
