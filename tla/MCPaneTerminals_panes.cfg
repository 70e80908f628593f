SPECIFICATION Spec
CONSTANTS
  None = None
  Locals = {l1}
  Sftps = {s1}
  First = l1
  Bases = {b1, b2}
  Deep = 1
  Moves = 3
  Terminals = {t1}
  Starts = 3
SYMMETRY Alike
INVARIANTS
  TypeOK
  ButtonsGateCalls
  PanesShowTheirFolder
  OrphansOvertaken
  TypesIntoItsTab
  ShowsWhatItTypesInto
  ClosedIsTrue
CHECK_DEADLOCK FALSE
