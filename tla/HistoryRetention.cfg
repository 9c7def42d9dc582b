SPECIFICATION Spec
CONSTANTS
  Sweeps = {s1, s2}
  Retentions = {1, 2}
  MaxClock = 5
  MaxId = 1
SYMMETRY Symmetry
INVARIANT DeletedIsCounted
PROPERTY BoundaryStays
PROPERTY RecentPastStays
PROPERTY RecentFeedStays
CHECK_DEADLOCK FALSE
