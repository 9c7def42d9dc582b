SPECIFICATION Spec
CONSTANTS
  CIs = {1, 2, 3, 4}
  Links <- MCLinks
  Queries = {"blast_radius", "what_if_impact", "reachability", "root_cause"}
  None = None
  MaxDepth = 2
  MaxFanout = 2
  MaxLoss = 1
  Feed <- MCFeed
  MaxChanges = 2
INVARIANT NothingMissed
INVARIANT NothingInvented
INVARIANT PathsHold
CHECK_DEADLOCK FALSE
