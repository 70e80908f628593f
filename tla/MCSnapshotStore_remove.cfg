SPECIFICATION Spec
CONSTANTS
  Day = 2
  None = None
  Ids = {1, 2}
  Chunks = {}
  Clients = {c1}
  Gcs = {}
  Pruners = {p1, p2}
  Deleters = {d1}
  Devices = {v1}
  Names = {n1}
  Times = {0, 1}
  Requests <- MCRequests
SYMMETRY ActorSymmetry
INVARIANTS
  OrphansExplained
  NewestSurvives
