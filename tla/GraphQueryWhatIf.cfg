SPECIFICATION Spec
CONSTANTS
  CIs = {1, 2, 3, 4}
  Links <- MCLinks
  Queries = {"what_if_impact"}
  None = None
  MaxDepth = 2
  MaxFanout = 2
  MaxLoss = 1
  Feed <- MCFeed
  MaxChanges = 0
INVARIANT HopsHaveTheirEdges
CHECK_DEADLOCK FALSE
