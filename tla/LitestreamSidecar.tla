-------------------------- MODULE LitestreamSidecar --------------------------
(***************************************************************************)
(* The litestream sidecar of a pod: its entrypoint restores the databases   *)
(* of the pod from their replicas and then replicates them, and a startup   *)
(* probe keeps the application from starting before the restore.  The two   *)
(* are scripts that run side by side and meet in files: a flag per restored *)
(* database and litestream's socket.  The scripts of a directory ("watch",   *)
(* and with one database those of a single file) and those of a rendered    *)
(* configuration ("templ", the ones the applications use) differ.           *)
(*                                                                          *)
(* A database is the set of the writes in it.  The kubelet, litestream and  *)
(* the application are external: the kubelet runs the probe until it        *)
(* succeeds, starts the application then, and restarts a container that     *)
(* ends.  The volume of databases, flags and socket lives as long as the    *)
(* pod, the replica for ever.                                               *)
(***************************************************************************)
EXTENDS Naturals, Sequences

CONSTANTS
  Db,          \* the databases, in the order of the configuration
  Variants,    \* the pairs of scripts a pod may run
  Absent,      \* no database, no replica
  MaxWrites,   \* bound on the application's writes
  MaxFailures, \* bound on failures of litestream restore
  MaxCrashes,  \* bound on the ends of the sidecar's container
  MaxPods,     \* bound on the pods that take the place of the first
  MaxKills     \* bound on probes that run into their timeout

DbName == {Db[n] : n \in 1..Len(Db)}
Data == SUBSET (1..MaxWrites)

ASSUME DbAssumption ==
  /\ Db \in Seq(DbName) /\ Db # <<>>
  /\ \A m, n \in 1..Len(Db) : Db[m] = Db[n] => m = n

ASSUME VariantAssumption == Variants \subseteq {"watch", "templ"}

ASSUME BoundAssumption ==
  /\ {MaxWrites, MaxFailures, MaxCrashes, MaxPods, MaxKills} \subseteq Nat
  /\ \A s \in Data : s # Absent

VARIABLES
  variant,   \* which pair of scripts the pod runs
  pc,        \* where entrypoint.sh is
  cur,       \* the database its loop is at
  local,     \* local[d]: the database file
  creator,   \* creator[d]: who made the file
  flag,      \* flag[d]: whether .d.restored exists
  sock,      \* whether litestream's socket exists
  replica,   \* replica[d]: what restore would bring back
  probe,     \* where restore-probe.sh is
  chk,       \* the database its loop is at
  started,   \* whether the probe has succeeded for this container
  app,       \* whether the application has been started
  writes,    \* writes made so far
  count      \* events so far that a bound limits

scriptVars == <<variant, pc, cur>>
fileVars == <<local, creator, flag, sock>>
probeVars == <<probe, chk>>
podVars == <<started, app>>
boundVars == <<writes, count>>
vars == <<scriptVars, fileVars, replica, probeVars, podVars, boundVars>>

Bound == [failures |-> MaxFailures, crashes |-> MaxCrashes, pods |-> MaxPods, kills |-> MaxKills]
Counted(e) == /\ count[e] < Bound[e]
              /\ count' = [count EXCEPT ![e] = @ + 1]

Init ==
  /\ variant \in Variants
  /\ pc = "down"
  /\ cur = 1
  /\ local = [d \in DbName |-> Absent]
  /\ creator = [d \in DbName |-> "nobody"]
  /\ flag = [d \in DbName |-> FALSE]
  /\ sock = FALSE
  /\ replica = [d \in DbName |-> Absent]
  /\ probe = "idle"
  /\ chk = 1
  /\ started = FALSE
  /\ app = FALSE
  /\ writes = 0
  /\ count = [e \in DOMAIN Bound |-> 0]

-----------------------------------------------------------------------------
(* entrypoint.sh.                                                           *)

Start ==
  /\ pc = "down"
  /\ pc' = "clear"
  /\ cur' = 1
  /\ UNCHANGED <<variant, fileVars, replica, probeVars, podVars, boundVars>>

\* rm -f "$restored_flag"
ClearFlag ==
  /\ pc = "clear"
  /\ pc' = "restore"
  /\ flag' = [flag EXCEPT ![Db[cur]] = FALSE]
  /\ UNCHANGED <<variant, cur, local, creator, sock, replica, probeVars, podVars, boundVars>>

\* Mutated: without -if-db-not-exists.
RestoreAlways(d) == replica[d] # Absent
\* litestream restore -if-replica-exists -if-db-not-exists
Restores(d) == replica[d] # Absent /\ local[d] = Absent

Restore ==
  LET d == Db[cur]
  IN  /\ pc = "restore"
      /\ pc' = "touch"
      /\ IF Restores(d)
           THEN /\ local' = [local EXCEPT ![d] = replica[d]]
                /\ creator' = [creator EXCEPT ![d] = "litestream"]
           ELSE UNCHANGED <<local, creator>>
      /\ UNCHANGED <<variant, cur, flag, sock, replica, probeVars, podVars, boundVars>>

\* The container ends, and with it the probe that runs in it; litestream
\* removes its socket only if it gets to shut down.
EndContainer ==
  /\ pc' = "down"
  /\ probe' = "idle"
  /\ started' = FALSE
  /\ sock' \in {sock, FALSE}
  /\ UNCHANGED <<variant, cur, local, creator, flag, replica, chk, app, writes>>

\* Mutated: the scripts that restore in the foreground go on as well.
AlwaysGoOn == "replicate"
\* set -e ends the script, and with it the container, unless the restore runs
\* in the background: bare wait reports success whatever its children did.
AfterFailure == IF variant = "templ" THEN "startup" ELSE "down"

\* An existing database needs nothing from the replica.
RestoreFails ==
  /\ pc = "restore"
  /\ local[Db[cur]] = Absent
  /\ Counted("failures")
  /\ IF AfterFailure = "down"
       THEN EndContainer
       ELSE /\ pc' = AfterFailure
            /\ UNCHANGED <<variant, cur, fileVars, replica, probeVars, podVars, writes>>

\* Mutated: the touch is forgotten.
TouchForgotten(d) == flag[d]
TouchFlag(d) == TRUE

\* touch "$restored_flag"
Touch ==
  /\ pc = "touch"
  /\ pc' = "walinit"
  /\ flag' = [flag EXCEPT ![Db[cur]] = TouchFlag(Db[cur])]
  /\ UNCHANGED <<variant, cur, local, creator, sock, replica, probeVars, podVars, boundVars>>

\* sqlite3 "$db_path" "PRAGMA journal_mode=WAL;" makes the file if there is none.
WalInit ==
  LET d == Db[cur]
  IN  /\ pc = "walinit"
      /\ IF local[d] = Absent
           THEN /\ local' = [local EXCEPT ![d] = {}]
                /\ creator' = [creator EXCEPT ![d] = "litestream"]
           ELSE UNCHANGED <<local, creator>>
      /\ IF cur < Len(Db)
           THEN pc' = "clear" /\ cur' = cur + 1
           ELSE /\ pc' = IF variant = "templ" THEN "startup" ELSE "replicate"
                /\ UNCHANGED cur
      /\ UNCHANGED <<variant, flag, sock, replica, probeVars, podVars, boundVars>>

\* do_startup_actions: litestream replicate -once, if it is asked for and if
\* it succeeds.
StartupActions ==
  /\ pc = "startup"
  /\ pc' = "replicate"
  /\ \E done \in SUBSET {d \in DbName : local[d] # Absent} :
       replica' = [d \in DbName |-> IF d \in done THEN local[d] ELSE replica[d]]
  /\ UNCHANGED <<variant, cur, fileVars, probeVars, podVars, boundVars>>

\* exec litestream replicate: it listens, and syncs the files it finds.
Listen ==
  /\ pc = "replicate"
  /\ ~sock
  /\ sock' = TRUE
  /\ UNCHANGED <<scriptVars, local, creator, flag, replica, probeVars, podVars, boundVars>>

Sync(d) ==
  /\ pc = "replicate"
  /\ local[d] # Absent
  /\ replica' = [replica EXCEPT ![d] = local[d]]
  /\ UNCHANGED <<scriptVars, fileVars, probeVars, podVars, boundVars>>

-----------------------------------------------------------------------------
(* restore-probe.sh.                                                        *)

Succeed ==
  /\ started' = TRUE
  /\ app' = TRUE

\* Mutated: whatever is at the socket's path will do.
SocketAnyFile == TRUE
\* Mutated: the probe looks for the socket at another path.
SocketElsewhere == FALSE
SocketExists == sock

\* The rendered configuration's probe succeeds at once if the socket exists.
ProbeBegin ==
  /\ pc # "down" /\ ~started
  /\ probe = "idle"
  /\ chk' = 1
  /\ IF variant = "templ" /\ SocketExists
       THEN Succeed /\ UNCHANGED probe
       ELSE probe' = "check" /\ UNCHANGED podVars
  /\ UNCHANGED <<scriptVars, fileVars, replica, boundVars>>

\* Mutated: the loop is left at the first flag it finds.
FirstFlagOnly(d) == flag[Db[1]]
\* is_restore_complete, under set -e.
IsRestoreComplete(d) == flag[d]

ProbeCheck ==
  /\ probe = "check"
  /\ IF IsRestoreComplete(Db[chk])
       THEN IF chk < Len(Db)
              THEN chk' = chk + 1 /\ UNCHANGED probe
              ELSE /\ chk' = 1
                   /\ probe' = IF variant = "templ" /\ ~SocketExists THEN "idle" ELSE "clear"
       ELSE probe' = "idle" /\ UNCHANGED chk
  /\ UNCHANGED <<scriptVars, fileVars, replica, podVars, boundVars>>

\* clear_restored_flag, one by one; the last one ends the probe with success.
ProbeClear ==
  /\ probe = "clear"
  /\ flag' = [flag EXCEPT ![Db[chk]] = FALSE]
  /\ IF chk < Len(Db)
       THEN chk' = chk + 1 /\ UNCHANGED <<probe, podVars>>
       ELSE probe' = "idle" /\ Succeed /\ UNCHANGED chk
  /\ UNCHANGED <<scriptVars, local, creator, sock, replica, boundVars>>

-----------------------------------------------------------------------------
(* The kubelet, crashes and the application.                                *)

\* A probe that takes too long is killed and counts as a failure.
ProbeKilled ==
  /\ probe # "idle"
  /\ probe' = "idle"
  /\ Counted("kills")
  /\ UNCHANGED <<scriptVars, fileVars, replica, chk, podVars, writes>>

Crash == pc # "down" /\ Counted("crashes") /\ EndContainer

\* failureThreshold: the probe fails and goes on failing.
KubeletRestart ==
  /\ pc = "replicate" /\ ~started
  /\ probe # "clear"
  /\ \E d \in DbName : ~flag[d]
  /\ EndContainer
  /\ UNCHANGED count

\* Another pod takes over with an empty volume.
NewPod ==
  /\ Counted("pods")
  /\ pc' = "down"
  /\ local' = [d \in DbName |-> Absent]
  /\ creator' = [d \in DbName |-> "nobody"]
  /\ flag' = [d \in DbName |-> FALSE]
  /\ sock' = FALSE
  /\ probe' = "idle"
  /\ started' = FALSE
  /\ app' = FALSE
  /\ UNCHANGED <<variant, cur, replica, chk, writes>>

\* The application makes the file if there is none.
AppWrite(d) ==
  /\ app
  /\ writes < MaxWrites
  /\ writes' = writes + 1
  /\ local' = [local EXCEPT ![d] = (IF @ = Absent THEN {} ELSE @) \cup {writes'}]
  /\ creator' = [creator EXCEPT ![d] = IF local[d] = Absent THEN "app" ELSE @]
  /\ UNCHANGED <<scriptVars, flag, sock, replica, probeVars, podVars, count>>

-----------------------------------------------------------------------------
Script ==
  \/ Start \/ ClearFlag \/ Restore \/ RestoreFails \/ Touch \/ WalInit
  \/ StartupActions \/ Listen
Probe == ProbeBegin \/ ProbeCheck \/ ProbeClear
Environment == ProbeKilled \/ Crash \/ KubeletRestart \/ NewPod

Next ==
  \/ Script
  \/ Probe
  \/ Environment
  \/ \E d \in DbName : Sync(d) \/ AppWrite(d)

Spec == Init /\ [][Next]_vars

(* The script goes on, the kubelet probes periodically, and restarts a      *)
(* container whose probe has failed failureThreshold times; it waits long   *)
(* enough for a restore to end.  Nothing else has to happen.                *)
FairSpec == Spec /\ WF_vars(Script) /\ WF_vars(Probe) /\ WF_vars(KubeletRestart)

-----------------------------------------------------------------------------
(* Properties.                                                              *)

TypeOK ==
  /\ variant \in Variants
  /\ pc \in {"down", "clear", "restore", "touch", "walinit", "startup", "replicate"}
  /\ cur \in 1..Len(Db)
  /\ local \in [DbName -> Data \cup {Absent}]
  /\ creator \in [DbName -> {"nobody", "litestream", "app"}]
  /\ flag \in [DbName -> BOOLEAN]
  /\ sock \in BOOLEAN
  /\ replica \in [DbName -> Data \cup {Absent}]
  /\ probe \in {"idle", "check", "clear"}
  /\ chk \in 1..Len(Db)
  /\ started \in BOOLEAN
  /\ app \in BOOLEAN
  /\ writes \in 0..MaxWrites
  /\ count \in [DOMAIN Bound -> Nat]

Restored(d) == replica[d] # Absent => local[d] # Absent

\* A restore has failed and nobody noticed.
Unnoticed == variant = "templ" /\ count["failures"] > 0

\* restore-probe.sh holds the application back until its databases are back:
\* no application runs without a database that has a replica.
AppStartsRestored == app => \A d \in DbName : Restored(d)

\* It does so unless a failed restore goes unnoticed, whatever crashes, killed
\* probes, old flags and old sockets there have been.
ProbeHoldsBack == Unnoticed \/ AppStartsRestored

\* What has been replicated stays restorable: no sync replaces a replica by a
\* database that lacks some of its writes, unless a failed restore went unnoticed.
ReplicaKeepsWrites ==
  [][Unnoticed \/ \A d \in DbName : replica[d] # Absent =>
       replica'[d] # Absent /\ replica[d] \subseteq replica'[d]]_vars

\* A restart of the sidecar takes no write away from a running application.
LocalKeepsWrites ==
  [][\A d \in DbName : app' /\ local[d] # Absent =>
       local'[d] # Absent /\ local[d] \subseteq local'[d]]_vars

\* "initialize db as litestream user if it doesn't exist": the application of a
\* rendered configuration finds a file that litestream can open.  (The other
\* scripts touch the flag first, and the application may be faster.)
CreatedByLitestream ==
  variant = "templ" /\ ~Unnoticed => \A d \in DbName : creator[d] # "app"

\* The application runs in the end, after any number of crashes of the
\* sidecar, of probes killed half-way and of restores that fail.
AppRunsInTheEnd == <>[]app

-----------------------------------------------------------------------------
(* The inductive invariant behind the safety properties.                    *)

\* Who relies on a restore: flags, the socket, the probe and the script as
\* far as its loop has come.
RestoredInv ==
  /\ \A d \in DbName : flag[d] => Restored(d)
  /\ pc \in {"clear", "restore", "touch", "walinit"} => \A n \in 1..(cur - 1) : Restored(Db[n])
  /\ pc \in {"touch", "walinit"} => Restored(Db[cur])
  /\ probe = "check" => \A n \in 1..(chk - 1) : Restored(Db[n])
  /\ (sock \/ probe = "clear" \/ pc \in {"startup", "replicate"}) => \A d \in DbName : Restored(d)

\* A database has what its replica has.
ContainedInv ==
  \A d \in DbName : replica[d] # Absent /\ local[d] # Absent => replica[d] \subseteq local[d]

\* In a pod with a rendered configuration litestream's user makes every file:
\* whoever lets the application start relies on the whole loop.
CreatedInv ==
  variant = "templ" =>
    /\ \A d \in DbName : creator[d] # "app"
    /\ pc \in {"clear", "restore", "touch", "walinit"} => \A n \in 1..(cur - 1) : local[Db[n]] # Absent
    /\ (sock \/ app \/ probe = "clear" \/ pc \in {"startup", "replicate"}) =>
         \A d \in DbName : local[d] # Absent

Sound == RestoredInv /\ AppStartsRestored /\ ContainedInv

IInv == TypeOK /\ (Unnoticed \/ (Sound /\ CreatedInv))

\* Nothing is found that nobody has written.
Writes(data) == IF data = Absent THEN {} ELSE data
NothingInvented == \A d \in DbName : Writes(local[d]) \cup Writes(replica[d]) \subseteq 1..writes

-----------------------------------------------------------------------------
(* The sidecar is a backup: the replicas are kept, and the application holds *)
(* its databases while it runs.                                             *)
Replicated == UNION {Writes(replica[d]) : d \in DbName}
Stored == UNION {Writes(local[d]) : d \in DbName}

Promise == INSTANCE Backup WITH
  made <- 1..writes,
  kept <- Replicated,
  running <- app,
  held <- IF app THEN Stored ELSE {},
  broken <- Unnoticed
ImplementsBackup == Promise!Spec
=============================================================================
