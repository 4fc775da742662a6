CONSTANTS
  w1 = w1
  Workflows = {w1}
  None = None
  MaxTransfers = 1
  Faults = {"io", "unreadable", "crash", "silence"}
SPECIFICATION FairSpec
PROPERTIES
  StoppingEnds
  SilenceReleasesSlot
  ShutdownCompletes
