SPECIFICATION FairSpec
CONSTANTS
  i1 = i1
  i2 = i2
  i3 = i3
  nodes = nodes
  groups = groups
  None = None
  Inst <- BothInst
  Key <- TwoKeys
  Plan <- TwoKeysPlan
  Cancellable = {}
  MaxVersion = 2
PROPERTIES
  NewReturns
  ChangeReachesSubscribers
CHECK_DEADLOCK FALSE
