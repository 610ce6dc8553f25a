----------------------------- MODULE ValkeySync -----------------------------
(***************************************************************************)
(* s3.sh, the sidecar that keeps the dump of one Valkey pod in S3: it       *)
(* fetches the dump of the pod before, lets Valkey start by touching a file *)
(* its startup probe looks for, and uploads the dump whenever inotifywait   *)
(* reports that Valkey has moved a new one into place, and once more after  *)
(* SIGTERM.  A dump is the set of the writes in it.                         *)
(*                                                                          *)
(* External: Valkey, which loads the dump when it starts and saves after    *)
(* each write; the kubelet, which starts containers and sends SIGTERM to    *)
(* the sidecar when Valkey has ended; S3.  The volume of the dump lives as  *)
(* long as the pod.                                                         *)
(***************************************************************************)
EXTENDS Naturals

CONSTANTS
  Absent,      \* no dump
  Torn,        \* a dump cut short
  MaxSaves,    \* bound on the writes Valkey saves
  MaxFailures, \* bound on commands that fail
  MaxKills,    \* bound on ends of the container or of Valkey by SIGKILL
  MaxCuts,     \* bound on those in the middle of a decompression
  MaxPods      \* bound on the pods that take the place of the first

Data == SUBSET (1..MaxSaves)

ASSUME SyncAssumption ==
  /\ {MaxSaves, MaxFailures, MaxKills, MaxCuts, MaxPods} \subseteq Nat
  /\ \A d \in Data : d # Absent /\ d # Torn
  /\ Absent # Torn

VARIABLES
  pc,       \* where s3.sh is
  after,    \* where upload returns to
  zst,      \* $RDB_PATH.zst
  inotify,  \* inotifywait: "none", "opening" the fifo, "starting", "watching", "dead"
  events,   \* file names in the fifo
  term,     \* SIGTERM: "no", "pending", "handled" or "ignored"
  rdb,      \* $RDB_PATH
  ready,    \* whether .ready exists
  valkey,   \* "down", "up" or "ended"
  memory,   \* the writes Valkey holds
  s3,       \* the dump in the bucket
  saves,    \* writes saved so far
  count     \* events so far that a bound limits

fileVars == <<zst, rdb, ready, s3>>
signalVars == <<inotify, events, term>>
valkeyVars == <<valkey, memory, saves>>
vars == <<pc, after, fileVars, signalVars, valkeyVars, count>>

Bound == [failures |-> MaxFailures, kills |-> MaxKills, cuts |-> MaxCuts, pods |-> MaxPods]
Counted(e) == /\ count[e] < Bound[e]
              /\ count' = [count EXCEPT ![e] = @ + 1]

Init ==
  /\ pc = "down" /\ after = "setup"
  /\ inotify = "none" /\ events = 0 /\ term = "no"
  /\ zst = Absent /\ rdb = Absent /\ ready = FALSE /\ s3 = Absent
  /\ valkey = "down" /\ memory = {} /\ saves = 0
  /\ count = [e \in DOMAIN Bound |-> 0]

GoTo(label) == pc' = label /\ UNCHANGED after
Upload(label) == pc' = "compress" /\ after' = label

\* The script ends, and inotifywait with it.
EndScript ==
  /\ GoTo("down")
  /\ inotify' = "none"
  /\ events' = 0

-----------------------------------------------------------------------------
(* The start: fetch the dump, or upload the one that is there.              *)

\* Mutated: .ready is touched before the dump is fetched.
StartReady ==
  /\ pc = "down" /\ term = "no"
  /\ IF rdb = Absent THEN GoTo("list") ELSE Upload("setup")
  /\ ready' = TRUE
  /\ UNCHANGED <<zst, rdb, s3, signalVars, valkeyVars, count>>

Start ==
  /\ pc = "down" /\ term = "no"
  /\ IF rdb = Absent THEN GoTo("list") ELSE Upload("setup")
  /\ UNCHANGED <<fileVars, signalVars, valkeyVars, count>>

List ==
  /\ pc = "list"
  /\ GoTo(IF s3 = Absent THEN "setup" ELSE "download")
  /\ UNCHANGED <<fileVars, signalVars, valkeyVars, count>>

\* Mutated: a snapshot that cannot be fetched counts as none.
NoSnapshot == GoTo("setup") /\ UNCHANGED <<inotify, events>>
ExitWithStatus == EndScript

\* aws s3 ls ends with a status other than 0 and 1, or aws s3 cp fails.
FetchFails ==
  /\ pc \in {"list", "download"}
  /\ Counted("failures")
  /\ ExitWithStatus
  /\ UNCHANGED <<fileVars, term, valkeyVars>>

Download ==
  /\ pc = "download"
  /\ zst' = s3
  /\ GoTo("decompress")
  /\ UNCHANGED <<rdb, ready, s3, signalVars, valkeyVars, count>>

\* zstd --rm --decompress
Decompress ==
  /\ pc = "decompress"
  /\ rdb' = zst
  /\ zst' = Absent
  /\ GoTo("setup")
  /\ UNCHANGED <<ready, s3, signalVars, valkeyVars, count>>

-----------------------------------------------------------------------------
(* upload, which the script calls before it sets the trap, for each event,  *)
(* and after the loop.                                                      *)

\* Mutated: without set -e, the failure goes unnoticed.
NeverFails == FALSE
ZstdFails == rdb = Absent

\* zstd reads the file it has opened, whole even if Valkey moves another one
\* into its place; without a dump it fails, and set -e ends the script.
Compress ==
  /\ pc = "compress"
  /\ IF ZstdFails
       THEN EndScript /\ UNCHANGED zst
       ELSE zst' = rdb /\ GoTo("copy") /\ UNCHANGED <<inotify, events>>
  /\ UNCHANGED <<rdb, ready, s3, term, valkeyVars, count>>

\* aws s3 cp, tried again and again until it succeeds.
Copy ==
  /\ pc = "copy"
  /\ s3' = zst
  /\ zst' = Absent
  /\ GoTo(after)
  /\ UNCHANGED <<rdb, ready, signalVars, valkeyVars, count>>

-----------------------------------------------------------------------------
(* The loop.                                                                *)

\* trap on_term TERM, mkfifo
SetTrap ==
  /\ pc = "setup"
  /\ GoTo("trapped")
  /\ UNCHANGED <<fileVars, signalVars, valkeyVars, count>>

\* inotifywait ... >"$fifo" &
StartInotify ==
  /\ pc = "trapped"
  /\ GoTo("touch")
  /\ inotify' = "opening"
  /\ UNCHANGED <<events, term, fileVars, valkeyVars, count>>

\* touch .ready
TouchReady ==
  /\ pc = "touch"
  /\ GoTo("open")
  /\ ready' = TRUE
  /\ UNCHANGED <<zst, rdb, s3, signalVars, valkeyVars, count>>

\* Both ends of a fifo open at the same time, and neither before.
OpenFifo ==
  /\ pc = "open"
  /\ inotify = "opening"
  /\ GoTo("read")
  /\ inotify' = "starting"
  /\ UNCHANGED <<events, term, fileVars, valkeyVars, count>>

\* inotifywait has set up its watch: what was moved before is not reported.
Watch ==
  /\ inotify = "starting"
  /\ inotify' = "watching"
  /\ UNCHANGED <<pc, after, events, term, fileVars, valkeyVars, count>>

Read ==
  /\ pc = "read"
  /\ events > 0
  /\ events' = events - 1
  /\ Upload("read")
  /\ UNCHANGED <<inotify, term, fileVars, valkeyVars, count>>

\* Mutated: the upload after the loop is forgotten.
NoFinalUpload == GoTo("exit")
FinalUpload == Upload("exit")

\* Mutated: the loop goes on whatever read returns.
ReadRetried == FALSE
\* The fifo has no writer any more, or the signal has interrupted read.
ReadFails == inotify = "dead"

LoopEnd ==
  /\ pc = "read"
  /\ ReadFails
  /\ FinalUpload
  /\ UNCHANGED <<fileVars, signalVars, valkeyVars, count>>

\* wait, rm -f "$fifo", exit
Exit ==
  /\ pc = "exit"
  /\ EndScript
  /\ UNCHANGED <<fileVars, term, valkeyVars, count>>

\* The trap, between two commands: kill $inotify_pid.  [ -n $inotify_pid ] is
\* true of an empty one as well; kill fails then, and set -e ends the script.
OnTerm ==
  /\ term = "pending" /\ pc # "down"
  /\ term' = "handled"
  /\ IF inotify = "none"
       THEN EndScript
       ELSE inotify' = "dead" /\ UNCHANGED <<pc, after, events>>
  /\ UNCHANGED <<fileVars, valkeyVars, count>>

-----------------------------------------------------------------------------
(* Valkey, the kubelet, crashes.                                            *)

\* Valkey refuses a dump it cannot read to the end.
ValkeyStart ==
  /\ valkey = "down" /\ ready /\ rdb # Torn
  /\ valkey' = "up"
  /\ memory' = IF rdb = Absent THEN {} ELSE rdb
  /\ UNCHANGED <<pc, after, fileVars, signalVars, saves, count>>

\* A write, and the dump with it, moved into place.
Save ==
  /\ valkey = "up" /\ saves < MaxSaves
  /\ saves' = saves + 1
  /\ memory' = memory \cup {saves'}
  /\ rdb' = memory'
  /\ events' = IF inotify = "watching" THEN events + 1 ELSE events
  /\ UNCHANGED <<pc, after, zst, ready, s3, inotify, term, valkey, count>>

ValkeyCrash ==
  /\ valkey = "up"
  /\ Counted("kills")
  /\ valkey' = "down"
  /\ UNCHANGED <<pc, after, fileVars, signalVars, memory, saves>>

\* The pod is deleted: Valkey ends first, and the sidecar gets SIGTERM, which
\* the first process of a container ignores unless it has set a trap.
TrapSet ==
  \/ pc \in {"trapped", "touch", "open", "read", "exit"}
  \/ pc \in {"compress", "copy"} /\ after # "setup"

DeletePod ==
  /\ valkey # "ended"
  /\ valkey' = "ended"
  /\ term' = IF pc = "down" THEN "handled" ELSE IF TrapSet THEN "pending" ELSE "ignored"
  /\ UNCHANGED <<pc, after, fileVars, inotify, events, memory, saves, count>>

\* (A kill at the end of the grace period is a script that stops going on.)
Kill ==
  /\ pc # "down" /\ valkey # "ended"
  /\ Counted("kills")
  /\ EndScript
  /\ UNCHANGED <<fileVars, term, valkeyVars>>

\* SIGKILL while zstd writes the dump under its own name.
CutDecompression ==
  /\ pc = "decompress"
  /\ Counted("cuts")
  /\ EndScript
  /\ rdb' = Torn
  /\ UNCHANGED <<zst, ready, s3, term, valkeyVars>>

NewPod ==
  /\ Counted("pods")
  /\ EndScript
  /\ term' = "no"
  /\ zst' = Absent /\ rdb' = Absent /\ ready' = FALSE
  /\ valkey' = "down" /\ memory' = {}
  /\ UNCHANGED <<s3, saves>>

-----------------------------------------------------------------------------
Script ==
  \/ Start \/ List \/ Download \/ Decompress
  \/ Compress \/ Copy
  \/ SetTrap \/ StartInotify \/ TouchReady \/ OpenFifo \/ Read \/ LoopEnd \/ Exit

Next ==
  \/ Script \/ Watch \/ OnTerm
  \/ FetchFails
  \/ ValkeyStart \/ Save \/ ValkeyCrash \/ DeletePod
  \/ Kill \/ CutDecompression \/ NewPod

Spec == Init /\ [][Next]_vars

(* The script goes on, and S3 takes an upload before the grace period of    *)
(* the pod is over; signals are handled.  Nothing else has to happen.       *)
FairSpec == Spec /\ WF_vars(Script) /\ WF_vars(OnTerm)

-----------------------------------------------------------------------------
(* Properties.                                                              *)

Dump == {Absent, Torn} \cup Data
Writes(d) == IF d \in {Absent, Torn} THEN {} ELSE d

TypeOK ==
  /\ pc \in {"down", "list", "download", "decompress", "compress", "copy", "setup",
             "trapped", "touch", "open", "read", "exit"}
  /\ after \in {"setup", "read", "exit"}
  /\ zst \in Dump /\ rdb \in Dump /\ s3 \in Dump
  /\ inotify \in {"none", "opening", "starting", "watching", "dead"}
  /\ events \in 0..saves
  /\ term \in {"no", "pending", "handled", "ignored"}
  /\ ready \in BOOLEAN
  /\ valkey \in {"down", "up", "ended"}
  /\ memory \in Data
  /\ saves \in 0..MaxSaves
  /\ count \in [DOMAIN Bound -> Nat]
  /\ pc = "copy" => zst # Absent

\* No decompression has been cut short so far.
NoCut == count["cuts"] = 0

\* Valkey runs on top of the dump in the bucket: it is not let start before
\* that dump is back, or known not to exist.
ValkeyHasSnapshot == NoCut /\ valkey = "up" => Writes(s3) \subseteq memory

\* No upload takes away what the bucket has, whichever pod made it.
S3KeepsWrites ==
  [][NoCut /\ s3 # Absent => s3' # Absent /\ Writes(s3) \subseteq Writes(s3')]_vars

\* When SIGTERM finds the loop running, the last dump of Valkey gets to the
\* bucket, whatever events are lost, unless the whole pod is lost first.
LastSaveUploaded ==
  (term = "pending" /\ inotify = "watching" /\ rdb # Absent) ~> (s3 = rdb \/ term = "no")

\* What the trap says, "SIGTERM received, stopping inotifywait": a signal that
\* finds the fifo open ends the script.  (One that comes before kills the writer
\* the script then waits for, or is ignored.)
TermEndsScript ==
  (term = "pending" /\ inotify \in {"starting", "watching"}) ~> pc = "down"

\* The startup probe lets Valkey start: its dump is one that it can load.
ReadyMeansWhole == ready => rdb # Torn

\* The inductive invariant, as long as no decompression has been cut short:
\* from the end of the fetch on, a dump on disk has what the bucket has, and
\* without one the bucket has none either;
Fetching == pc \in {"list", "download", "decompress"}

DiskInv ==
  /\ rdb # Absent => Writes(s3) \subseteq Writes(rdb)
  /\ rdb = Absent /\ (ready \/ (pc # "down" /\ ~Fetching)) => s3 = Absent

\* what is fetched is the object in the bucket, and never next to a Valkey that
\* may save;
FetchInv ==
  /\ Fetching /\ ready => s3 = Absent
  /\ pc \in {"download", "decompress"} => s3 # Absent
  /\ pc = "decompress" => zst = s3

\* what is uploaded lies between the bucket and the disk, and Valkey has both.
UploadInv ==
  pc = "copy" =>
    /\ rdb # Absent
    /\ Writes(s3) \subseteq Writes(zst) /\ Writes(zst) \subseteq Writes(rdb)

MemoryInv ==
  valkey = "up" =>
    /\ ready
    /\ Writes(s3) \cup Writes(rdb) \subseteq memory

Sound == Torn \notin {zst, rdb, s3} /\ DiskInv /\ FetchInv /\ UploadInv /\ MemoryInv

IInv == TypeOK /\ (NoCut => Sound)

\* Nothing is found that nobody has written.
NothingInvented == Writes(zst) \cup Writes(rdb) \cup Writes(s3) \cup memory \subseteq 1..saves

-----------------------------------------------------------------------------
(* The script is a backup: what the bucket has is kept, and Valkey holds    *)
(* its memory while it runs.                                                *)
Promise == INSTANCE Backup WITH
  made <- 1..saves,
  kept <- Writes(s3),
  running <- valkey = "up",
  held <- IF valkey = "up" THEN memory ELSE {},
  broken <- ~NoCut
ImplementsBackup == Promise!Spec
=============================================================================
