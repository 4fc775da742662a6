SPECIFICATION Spec
CONSTANTS
  Works = {w1, w2}
  None = None
  w1 = w1
  w2 = w2
  QueueLimit = 2
  BatchLimit = 2
  MaxEvents = 3
  HeadBytes = 0
  TailBytes = 1
  GcLimit = 2
  MaxPage = 2
  Faults = {"damage"}
  MaxSeq = 3
  MaxFaults = 1
INVARIANT ConfirmedIsRecorded
CHECK_DEADLOCK FALSE
