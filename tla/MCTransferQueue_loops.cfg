SPECIFICATION QueueSpec
CONSTANTS
  Nil = Nil
  Jobs = {1, 2}
  PluginJobs = {2}
  Runs = {1, 2}
  QueuePanes = {1}
  AutoOn = TRUE
  Concurrency = 1
INVARIANTS
  AbortersMatch
CHECK_DEADLOCK FALSE
PROPERTIES
  LoopsEnd
