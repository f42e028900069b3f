SPECIFICATION Spec
CONSTANTS
  t1 = t1
  w1 = w1
  w2 = w2
  m1 = m1
  Ticker = {t1}
  Worker = {w1, w2}
  Manual = {m1}
  MaxRuns = 2
  MaxChanges = 1
  MaxAttempts = 2
  MaxFaults = 1
SYMMETRY Symmetric
INVARIANT HandledOnce
PROPERTIES SuppressedIsSilent SlotIsQueued
CHECK_DEADLOCK FALSE
