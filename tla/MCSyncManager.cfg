SPECIFICATION Spec
CONSTANTS
  Plans = {p1, p2}
  Files = {f1}
  Clients = {c1, c2}
  Reaper = reaper
  Closer = closer
  NoPlan = NoPlan
  MaxRetained = 1
  Faults = {"io", "crash"}
  MaxOps = 3
INVARIANTS
  PermitKept
  StagingSafe
  CleanupAgrees
  StoppedIsClean
  WaitersWake
SYMMETRY MCSymmetry
PROPERTIES
  ResultsKept
