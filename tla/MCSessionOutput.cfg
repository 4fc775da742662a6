SPECIFICATION MCSpec
CONSTANTS
  MaxBytes = 4
  MaxChunks = 2
  MaxInput = 4
  ArchiveSessions = {s1, s2}
  Sizes = {2}
  QueueLength = 1
  MaxPerSession = 4
  MaxTotal = 5
  MaxFiles = 2
  Slots = 2
  ArchiveFaults = {"disk", "panic"}
  MaxTexts = 2
  s1 = s1
  s2 = s2
INVARIANTS
  RingIsExact
  DecodesAll
  ArchiveIsTrue
  WithinLimits
PROPERTIES
  ReaderReturns
  SealedCompletes
CHECK_DEADLOCK FALSE
