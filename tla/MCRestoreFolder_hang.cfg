SPECIFICATION Spec
CONSTANTS
  None = None
  Restores = {1}
  Snapshots = {"large"}
  Files <- MCFiles
  Workers = {1, 2}
  Renames = 0
  Plans <- MCLarge
PROPERTY CancelledEnds
