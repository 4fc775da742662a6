CONSTANTS
  w1 = w1
  w2 = w2
  Workflows = {w1, w2}
  None = None
  MaxTransfers = 1
  Faults = {"io", "unreadable", "panic", "crash"}
SPECIFICATION Spec
SYMMETRY Symmetry
INVARIANTS
  TypeOK
  ReusableIsTrusted
  SlotAgrees
  VivadoHoldsSlot
  PlanHasOwner
  PatchesTrustedTree
  PullingIsPublished
PROPERTIES
  ReleaseSettles
  ImplementsLifecycle
  KeepsSessionContract
