SPECIFICATION LiveSpec
CONSTANTS
  Sessions = {s1}
  None = None
  Inputs = {i1}
  Faults = {"io", "panic", "escape"}
  MaxOutput = 1
  QueueLength = 1
  StdinBudget = 1
  s1 = s1
  i1 = i1
INVARIANTS InputsKept EndIsTrue
PROPERTY StopEnds
CHECK_DEADLOCK FALSE
