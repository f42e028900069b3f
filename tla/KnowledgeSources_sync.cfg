SPECIFICATION Spec
CONSTANTS
  w1 = w1
  w2 = w2
  a = a
  b = b
  m1 = m1
  Worker = {w1, w2}
  Text = {a}
  Link = {b}
  Manual = {m1}
  MaxRev = 2
  MaxAttempts = 2
  MaxFaults = 1
SYMMETRY Symmetric
INVARIANT NothingIsLost
PROPERTY CooldownHolds
CHECK_DEADLOCK FALSE
