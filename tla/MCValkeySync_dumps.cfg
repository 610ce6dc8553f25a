SPECIFICATION FairSpec
CONSTANTS
  Absent = Absent
  Torn = Torn
  MaxSaves = 3
  MaxFailures = 1
  MaxKills = 2
  MaxCuts = 1
  MaxPods = 2
INVARIANTS
  IInv
PROPERTIES
  ImplementsBackup
  S3KeepsWrites
  LastSaveUploaded
  TermEndsScript
CHECK_DEADLOCK FALSE
