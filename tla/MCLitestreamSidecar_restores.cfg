SPECIFICATION FairSpec
CONSTANTS
  d1 = d1
  d2 = d2
  Absent = Absent
  Db <- TwoDbs
  Variants = {"watch", "templ"}
  MaxWrites = 2
  MaxFailures = 1
  MaxCrashes = 1
  MaxPods = 1
  MaxKills = 1
INVARIANTS
  IInv
  ProbeHoldsBack
  CreatedByLitestream
PROPERTIES
  ImplementsBackup
  ReplicaKeepsWrites
  AppRunsInTheEnd
CHECK_DEADLOCK FALSE
