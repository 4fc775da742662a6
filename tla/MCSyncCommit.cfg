SPECIFICATION Spec
CONSTANTS
  Paths <- MCPaths
  Contents <- MCContents
  Selections <- MCSelections
  Faults = {"io", "outside", "panic"}
INVARIANTS
  TreeKept
  CommitIsRight
  PlanApplies
