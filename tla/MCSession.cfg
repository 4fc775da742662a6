SPECIFICATION Spec
CONSTANTS
  Sessions = {s1, s2}
  None = None
  Inputs = {}
  Faults = {"wait", "panic"}
  MaxOutput = 0
  QueueLength = 1
  StdinBudget = 1
  s1 = s1
  s2 = s2
SYMMETRY Symmetry
INVARIANTS SlotCoversProcess EndIsTrue
PROPERTY ImplementsContract
CHECK_DEADLOCK FALSE
