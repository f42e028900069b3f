SPECIFICATION TreeSpec
CONSTANTS
  MaxVersions = 3
  MaxCheckpoints = 4
  MaxFaults = 1
INVARIANT HistoryIsKnown
 
CHECK_DEADLOCK FALSE
