SPECIFICATION LoopSpec
CONSTANTS
  Day = 2
  None = None
  Groups <- MCGroups
  Reqs <- MCReqs
  Nows = {22}
INVARIANT LoopKeepsTheRules
CHECK_DEADLOCK FALSE
