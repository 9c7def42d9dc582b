SPECIFICATION ReviewSpec
CONSTANTS
  Reviewers = {r1, r2}
  Natives = {1, 2, 3}
  SourceOf <- MCSourceOf
  AliasOf <- MCAliasOf
  Linkers = {1, 2}
  Generation = 9
  MaxId = 4
  MaxCands = 2
  MaxMerges = 2
  MaxEdges = 1
  MaxCites = 1
  MaxReviews = 2
SYMMETRY Symmetry
INVARIANT ReviewTypeOK
INVARIANT AcceptedOnce
 
 
PROPERTY UndoRestores
CHECK_DEADLOCK FALSE
