SPECIFICATION Spec
CONSTANTS
  Absent = Absent
  Torn = Torn
  MaxSaves = 1
  MaxFailures = 0
  MaxKills = 0
  MaxCuts = 1
  MaxPods = 1
INVARIANT
  ReadyMeansWhole
CHECK_DEADLOCK FALSE
