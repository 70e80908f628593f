SPECIFICATION Spec
CONSTANTS
  None = None
  Restores = {1, 2}
  Snapshots = {"large", "small", "other"}
  Files <- MCFiles
  Workers = {1, 2}
  Renames = 1
  Plans <- MCPlans
INVARIANTS
  OkMeansWhole
  CancelStopsScheduling
  CancelHitsItsSnapshot
PROPERTIES
  RenameTruncatesNothing
  UncancelledEnds
