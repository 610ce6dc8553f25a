SPECIFICATION Spec
CONSTANTS
  d1 = d1
  d2 = d2
  Absent = Absent
  Db <- TwoDbs
  Variants = {"templ"}
  MaxWrites = 1
  MaxFailures = 1
  MaxCrashes = 0
  MaxPods = 1
  MaxKills = 0
INVARIANT
  AppStartsRestored
CHECK_DEADLOCK FALSE
