SPECIFICATION Spec
CONSTANTS
  None = None
  Ids = {p1, p2, p3, p4}
  Spaces = {w1, w2}
  Columns = 2
SYMMETRY Symmetry
INVARIANTS
  TypeOK
  OnePlace
  OrderKept
PROPERTIES
  PanesStay
CHECK_DEADLOCK FALSE
