SPECIFICATION Spec
CONSTANTS
  Works = {w1}
  None = None
  w1 = w1
  QueueLimit = 2
  BatchLimit = 2
  MaxEvents = 5
  HeadBytes = 0
  TailBytes = 1
  GcLimit = 2
  MaxPage = 2
  Faults = {"crash", "io", "sync", "damage", "large", "stop"}
  MaxSeq = 5
  MaxFaults = 3
INVARIANTS
  NumbersKept
  PageSkipsNothing
  AckedSurvives
  DiskRebuildsReader
  NumbersAreUnique
  SealedOnce
CHECK_DEADLOCK FALSE
