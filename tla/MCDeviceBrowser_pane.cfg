SPECIFICATION Spec
CONSTANTS
  None = None
  Snaps = {1, 2}
  Devices = {1, 2}
  Depth = 1
  Agents = {1}
  Saved <- MCSaved
  Files = {f1}
  Copies = 1
  Moves = 2
INVARIANTS
  TypeOK
  ShownBelongs
  SnapshotListed
  BackupKept
PROPERTIES
  Settles
