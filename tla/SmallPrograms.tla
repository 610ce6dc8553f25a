--------------------------- MODULE SmallPrograms ---------------------------
(* Four small programs next to each other, with one name for every variable *)
(* and parameter: the dynamic DNS worker, neckhook, the Pi-hole gravity job *)
(* and the sync of a pull zone.  They share nothing.                        *)
EXTENDS DdnsConfig

-----------------------------------------------------------------------------
(* The dynamic DNS worker.                                                  *)

VARIABLES turn, session, records, pc, cookie, applied, wanIP, pending,
  anyErrorOccurred, errors, rejects
dnsVars == <<turn, session, records, pc, cookie, applied, wanIP, pending,
  anyErrorOccurred, errors, rejects>>

D == INSTANCE Ddns WITH failed <- anyErrorOccurred

\* A new address that is applied is in every record.
SkipOfNewAddressIsSafe == D!SkipOfNewAddressIsSafe

-----------------------------------------------------------------------------
(* neckhook.                                                                *)

CONSTANTS
  HookRequest,   \* its requests,
  None,          \* a header that one of them lacks,
  Good,          \* tokens that Cloudflare takes,
  MaxRetries,    \* retries of the library
  MaxHookFaults  \* and bound on errors

VARIABLES apiToken, hook, status, sentWith, retries, record, late, timedOut,
  begun, before, hookFaults
hookVars == <<apiToken, hook, status, sentWith, retries, record, late,
  timedOut, begun, before, hookFaults>>

N == INSTANCE Neckhook WITH
  Request <- HookRequest, MaxFaults <- MaxHookFaults,
  stage <- hook, faults <- hookFaults

\* An attempt has the token of its request or of a later one.
TokenOfOwnOrLater == N!TokenOfOwnOrLater

\* After "kk" the record is not that of an earlier request.
RecordIsRegular == N!RecordIsRegular

-----------------------------------------------------------------------------
(* The Pi-hole gravity job.                                                 *)

CONSTANTS
  Adlists,      \* the lists that are published,
  Instances,    \* the instances that load them
  MaxJobFaults  \* and bound on failures

ASSUME GravityAssumption ==
  /\ Adlists # <<>> /\ Adlists \in Seq({Adlists[n] : n \in DOMAIN Adlists})
  /\ Instances # <<>> /\ Instances \in Seq({Instances[n] : n \in DOMAIN Instances})

VARIABLES published, object, job, list, skip, instance, due, loaded,
  interrupted, jobFaults
jobVars == <<published, object, job, list, skip, instance, due, loaded,
  interrupted, jobFaults>>

G == INSTANCE PiholeGravity WITH
  MaxFaults <- MaxJobFaults, stage <- job, faults <- jobFaults

\* When a job is over every instance has the list in the bucket.
EndedIsLoaded == G!EndedIsLoaded

\* The job never has more than one instance down.
OneInstanceAtATime == G!OneInstanceAtATime

-----------------------------------------------------------------------------
(* The sync of a pull zone.                                                 *)

CONSTANTS
  Host,          \* host names: those
  Wanted,        \* that are wanted,
  Managed,       \* Bunny's own
  FirstHosts,    \* and what the zone has at first;
  MaxEdits, MaxRenewals, MaxSyncFaults  \* bounds

ASSUME BunnyAssumption ==
  /\ Wanted # <<>> /\ Wanted \in Seq(Host \ Managed)
  /\ FirstHosts \subseteq Host

VARIABLES volume, hosts, cert, ssl, sync, crt, key, pzHosts, pzSsl, todo, line,
  disturbed, edits, syncFaults
zoneVars == <<volume, hosts, cert, ssl, sync, crt, key, pzHosts, pzSsl, todo,
  line, disturbed, edits, syncFaults>>

B == INSTANCE BunnySync WITH
  MaxFaults <- MaxSyncFaults, pc <- sync, faults <- syncFaults

\* A job that is complete leaves the zone as it is wanted.
CompleteIsSynced == B!CompleteIsSynced
=============================================================================
