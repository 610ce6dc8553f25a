SPECIFICATION FairSpec
CONSTANTS
  o1 = o1
  o2 = o2
  c1 = c1
  c2 = c2
  bad = bad
  Absent = Absent
  Nothing = Nothing
  Obj <- TwoObj
  Addr <- TwoAddr
  Cidr <- TwoCidr
  MaxRev = 3
  MaxDrops = 1
  MaxAddr = 2
INVARIANTS
  StableCidrStaysTrusted
  IInv
PROPERTIES
  ImplementsFeed
  Converges
CHECK_DEADLOCK FALSE
