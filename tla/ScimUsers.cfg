SPECIFICATION Spec
CONSTANTS
  Clients = {p1, p2}
  Names = {n1, n2}
  Exts = {x1}
  Roles = {"viewer", "editor"}
  None = None
  Asked <- MCAsked
  MaxRows = 3
SYMMETRY Symmetry
PROPERTY ImplementsDirectory
PROPERTY DeactivatePreserves
CHECK_DEADLOCK FALSE
