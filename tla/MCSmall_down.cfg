SPECIFICATION JobSpec
CONSTANTS
  Event <- Events
  Call <- Calls
  Refused <- NeverTaken
  MaxAttempts = 3
  MaxFaults = 1
  r1 = r1
  r2 = r2
  Id <- TwoIds
  Lease <- Leases
  MaxErrors = 3
  MaxRejects = 1
  HookRequest <- HookRequests
  None = None
  Good <- GoodTokens
  MaxRetries = 2
  MaxHookFaults = 3
  good = good
  bad = bad
  ip1 = ip1
  ip2 = ip2
  Adlists <- Published
  Instances <- TwoInstances
  MaxJobFaults = 3
  Host <- Hosts
  Wanted <- TwoNames
  Managed <- OwnHosts
  FirstHosts <- HostsAtFirst
  MaxEdits = 2
  MaxRenewals = 1
  MaxSyncFaults = 2
INVARIANT
  OneInstanceAtATime
CHECK_DEADLOCK FALSE
