SPECIFICATION Spec
CONSTANTS
  Sources = {s1, s2}
  Keys <- MCKeys
  Aliases = {a1}
  Values = {v1, v2}
  Relations <- MCRelations
  EdgeKeys = {"", "sg-1"}
  DefaultKey = ""
  CiTypes <- MCCiTypes
  EdgeTypes <- MCEdgeTypes
  MaxId = 3
  MaxBatches = 3
  MaxEvents = 2
SYMMETRY Symmetry
PROPERTY RediscoveryFindsCI
CHECK_DEADLOCK FALSE
