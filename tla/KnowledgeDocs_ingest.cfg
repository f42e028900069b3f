SPECIFICATION DocsFairSpec
CONSTANTS
  w1 = w1
  Worker = {w1}
  MaxVersions = 2
  MaxJobs = 2
  MaxReviews = 1
  MaxFaults = 1
CHECK_DEADLOCK FALSE
INVARIANT Searchable
PROPERTIES JobsSettle DeletedIsForgotten
