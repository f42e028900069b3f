SPECIFICATION GraphSpec
CONSTANTS
  d1 = d1
  d2 = d2
  p1 = p1
  p2 = p2
  c1 = c1
  c2 = c2
  w1 = w1
  w2 = w2
  Doc = {d1, d2}
  Product = {p1, p2}
  NoProduct = NoProduct
  Price = {c1, c2}
  Month = {1, 2}
  Thread = {w1, w2}
  MaxVersions = 2
  MaxReviews = 1
  MaxMerges = 1
  MaxRebuilds = 1
  MaxCrashes = 1
SYMMETRY Symmetric
CHECK_DEADLOCK FALSE
INVARIANTS  OneOpenPrice
PROPERTY DecisionsHold
