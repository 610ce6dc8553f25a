SPECIFICATION FairSpec
CONSTANTS
  i1 = i1
  i2 = i2
  i3 = i3
  nodes = nodes
  groups = groups
  None = None
  Inst <- BothInst
  Key <- OneKey
  Plan <- OneKeyPlan
  Cancellable <- BothInst
  MaxVersion = 1
PROPERTY
  NewReturns
CHECK_DEADLOCK FALSE
