CONSTANTS
  w1 = w1
  Workflows = {w1}
  None = None
  MaxTransfers = 0
  Faults = {}
SPECIFICATION Spec
PROPERTY PullingNeverFails
