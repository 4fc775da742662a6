SPECIFICATION Spec
CONSTANTS
  Paths <- MCPaths
  Contents <- MCContents
  Selections <- MCSelections
  Faults = {}
INVARIANT RefusedMeansChanged
