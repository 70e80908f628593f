SPECIFICATION Spec
CONSTANTS
  None = None
  Files = 2
  Workers = {w1, w2}
  Names = 2
  Policies = {"overwrite", "skip", "rename"}
  Bases <- MCBases
  Changes = 1
INVARIANTS
  TypeOK
  DoneMeansCopied
  BaseKept
PROPERTIES
  RunEnds
  Implements
CHECK_DEADLOCK FALSE
