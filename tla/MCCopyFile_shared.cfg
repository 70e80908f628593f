SPECIFICATION Spec
CONSTANTS
  None = None
  Runs = {1, 2}
  Chunks = {1, 2}
  Names = 2
  Jobs <- MCJobs
  Workers = {1, 2}
  Tries = 2
  MaxHave = 1
  Before = {{}}
INVARIANTS
  TypeOK
  UploadsShared
  CancelsMatch
  ManifestsSound
PROPERTY RunsEnd
CHECK_DEADLOCK FALSE
