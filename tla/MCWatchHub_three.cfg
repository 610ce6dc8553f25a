SPECIFICATION Spec
CONSTANTS
  i1 = i1
  i2 = i2
  i3 = i3
  nodes = nodes
  groups = groups
  None = None
  Inst <- ThreeInst
  Key <- OneKey
  Plan <- OneKeyPlan
  Cancellable <- ThreeInst
  MaxVersion = 2
SYMMETRY InstSymmetry
INVARIANTS
  IInv
  CancelledWatchUnused
  NoOrphanWatch
  NoStaleSubscriber
PROPERTY
  ImplementsHub
CHECK_DEADLOCK FALSE
