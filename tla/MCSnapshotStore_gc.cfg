SPECIFICATION Spec
CONSTANTS
  Day = 2
  None = None
  Ids = {1, 2}
  Chunks = {x}
  Clients = {c1, c2}
  Gcs = {g1, g2}
  Pruners = {}
  Deleters = {d1}
  Devices = {}
  Names = {n1}
  Times = {0}
  Requests = {}
SYMMETRY ActorSymmetry
INVARIANTS
  GcSparesLive
  UnracedRestorable
