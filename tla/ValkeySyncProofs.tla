-------------------------- MODULE ValkeySyncProofs --------------------------
(* Proofs about ValkeySync, for any number of writes, failures, kills and   *)
(* pods: as long as no decompression is cut short, Valkey runs on top of    *)
(* the dump in the bucket, and no upload takes a write out of it.           *)
EXTENDS ValkeySync, TLAPS

-----------------------------------------------------------------------------
(* Facts about the dumps and the counters.                                  *)

\* What Valkey saves is a dump that is there and whole.
LEMMA Dumps ==
  /\ MaxSaves \in Nat /\ Absent # Torn /\ {} \in Data
  /\ \A d \in Data : d # Absent /\ d # Torn /\ Writes(d) = d
  /\ \A d \in Dump : d # Absent /\ d # Torn => d \in Data
  /\ Writes(Absent) = {}
<1>1. /\ MaxSaves \in Nat /\ Absent # Torn
      /\ \A d \in Data : d # Absent /\ d # Torn
  BY SyncAssumption
<1> QED
  BY <1>1 DEF Data, Dump, Writes

\* The counters stay counters, and a cut is never forgotten.
LEMMA Counting ==
  ASSUME count \in [DOMAIN Bound -> Nat], NEW e \in DOMAIN Bound, Counted(e)
  PROVE  count' \in [DOMAIN Bound -> Nat] /\ (NoCut' => NoCut)
<1>1. "cuts" \in DOMAIN Bound
  BY DEF Bound
<1>2. count' = [count EXCEPT ![e] = @ + 1]
  BY DEF Counted
<1>3. count' \in [DOMAIN Bound -> Nat]
  BY <1>2
<1>4. count[e] \in Nat /\ count["cuts"] \in Nat
  BY <1>1
<1>5. count'["cuts"] \in {count["cuts"], count["cuts"] + 1}
  BY <1>1, <1>2
<1> QED
  BY <1>3, <1>4, <1>5 DEF NoCut

\* The kinds of events that are counted.
LEMMA Kinds == {"failures", "kills", "cuts", "pods"} = DOMAIN Bound
  BY DEF Bound

\* No step forgets a cut.
LEMMA CutsKept ==
  ASSUME count \in [DOMAIN Bound -> Nat], [Next]_vars
  PROVE  NoCut' => NoCut
<1>1. UNCHANGED count \/ \E e \in DOMAIN Bound : Counted(e)
  BY Kinds
     DEF Next, Script, Start, List, Download, Decompress, Compress, Copy, SetTrap, StartInotify,
         TouchReady, OpenFifo, Read, LoopEnd, Exit, Watch, OnTerm, FetchFails, ValkeyStart, Save,
         ValkeyCrash, DeletePod, Kill, CutDecompression, NewPod, vars
<1> QED
  BY <1>1, Counting DEF NoCut

\* A dump that is on disk or in the bucket stays what it is.
LEMMA Unchanged ==
  ASSUME IInv, UNCHANGED vars
  PROVE  IInv'
  BY DEF vars, fileVars, signalVars, valkeyVars, IInv, TypeOK, NoCut, Sound, DiskInv, FetchInv,
     Fetching, UploadInv, MemoryInv, Dump, Data, Writes, Bound

-----------------------------------------------------------------------------
(* The inductive invariant, one lemma per action.                           *)

\* At first there is nothing to lose.
LEMMA Initial == Init => IInv
<1> SUFFICES ASSUME Init PROVE IInv
  OBVIOUS
<1>1. TypeOK
  <2>1. saves \in 0..MaxSaves /\ events \in 0..saves
    BY Dumps DEF Init
  <2>2. count \in [DOMAIN Bound -> Nat]
    BY DEF Init
  <2>3. zst \in Dump /\ rdb \in Dump /\ s3 \in Dump /\ memory \in Data
    BY Dumps DEF Init, Dump
  <2> QED
    BY <2>1, <2>2, <2>3 DEF Init, TypeOK
<1>2. Sound
  BY Dumps DEF Init, Sound, DiskInv, FetchInv, UploadInv, MemoryInv, Fetching
<1> QED
  BY <1>1, <1>2 DEF IInv

\* A start fetches only when there is no dump on disk, and next to a Valkey that
\* may save only when the bucket has none.
LEMMA StartKeeps ==
  ASSUME IInv, Start
  PROVE  IInv'
<1>1. /\ pc = "down" /\ UNCHANGED <<zst, rdb, ready, s3, inotify, events, term, valkey, memory, saves, count>>
      /\ IF rdb = Absent THEN pc' = "list" /\ after' = after
                         ELSE pc' = "compress" /\ after' = "setup"
  BY DEF Start, GoTo, Upload, fileVars, signalVars, valkeyVars
<1>2. TypeOK'
  BY <1>1 DEF IInv, TypeOK, Dump, Data
<1>3. NoCut' => Sound'
  BY <1>1 DEF IInv, NoCut, Sound, DiskInv, FetchInv, Fetching, UploadInv, MemoryInv, Writes
<1> QED
  BY <1>2, <1>3 DEF IInv

\* The bucket is empty, or its dump is fetched before Valkey may start.
LEMMA ListKeeps ==
  ASSUME IInv, List
  PROVE  IInv'
<1>1. /\ pc = "list" /\ after' = after
      /\ UNCHANGED <<zst, rdb, ready, s3, inotify, events, term, valkey, memory, saves, count>>
      /\ pc' = IF s3 = Absent THEN "setup" ELSE "download"
  BY DEF List, GoTo, fileVars, signalVars, valkeyVars
<1>2. TypeOK'
  BY <1>1 DEF IInv, TypeOK, Dump, Data
<1>3. NoCut' => Sound'
  BY <1>1 DEF IInv, NoCut, Sound, DiskInv, FetchInv, Fetching, UploadInv, MemoryInv, Writes
<1> QED
  BY <1>2, <1>3 DEF IInv

\* The end of the script leaves what it has fetched.
LEMMA EndKeeps ==
  ASSUME IInv, EndScript, UNCHANGED <<zst, rdb, ready, s3, valkey, memory, saves>>,
         term' \in {term, "handled"},
         count' \in [DOMAIN Bound -> Nat], NoCut' => NoCut
  PROVE  IInv'
<1>1. pc' = "down" /\ after' = after /\ inotify' = "none" /\ events' = 0
  BY DEF EndScript, GoTo
<1>2. 0 \in 0..saves
  BY Dumps DEF IInv, TypeOK
<1>3. TypeOK'
  BY <1>1, <1>2 DEF IInv, TypeOK, Dump, Data
<1>4. NoCut' => Sound'
  BY <1>1 DEF IInv, Sound, DiskInv, FetchInv, Fetching, UploadInv, MemoryInv, Writes
<1> QED
  BY <1>3, <1>4 DEF IInv

\* A fetch that fails ends the script, and Valkey is not let start.
LEMMA FetchFailsKeeps ==
  ASSUME IInv, FetchFails
  PROVE  IInv'
<1>1. Counted("failures") /\ EndScript
  BY DEF FetchFails, ExitWithStatus
<1>2. UNCHANGED <<zst, rdb, ready, s3, term, valkey, memory, saves>>
  BY DEF FetchFails, fileVars, valkeyVars
<1>3. count' \in [DOMAIN Bound -> Nat] /\ (NoCut' => NoCut)
  BY <1>1, Counting, Kinds DEF IInv, TypeOK
<1> QED
  BY <1>1, <1>2, <1>3, EndKeeps

\* So does a kill.
LEMMA KillKeeps ==
  ASSUME IInv, Kill
  PROVE  IInv'
<1>1. Counted("kills") /\ EndScript
  BY DEF Kill
<1>2. UNCHANGED <<zst, rdb, ready, s3, term, valkey, memory, saves>>
  BY DEF Kill, fileVars, valkeyVars
<1>3. count' \in [DOMAIN Bound -> Nat] /\ (NoCut' => NoCut)
  BY <1>1, Counting, Kinds DEF IInv, TypeOK
<1> QED
  BY <1>1, <1>2, <1>3, EndKeeps

\* What is fetched is the dump in the bucket, while nobody can change it.
LEMMA DownloadKeeps ==
  ASSUME IInv, Download
  PROVE  IInv'
<1>1. /\ pc = "download" /\ pc' = "decompress" /\ after' = after /\ zst' = s3
      /\ UNCHANGED <<rdb, ready, s3, inotify, events, term, valkey, memory, saves, count>>
  BY DEF Download, GoTo, signalVars, valkeyVars
<1>2. TypeOK'
  BY <1>1 DEF IInv, TypeOK, Dump, Data
<1>3. NoCut' => Sound'
  BY <1>1 DEF IInv, NoCut, Sound, DiskInv, FetchInv, Fetching, UploadInv, MemoryInv, Writes
<1> QED
  BY <1>2, <1>3 DEF IInv

\* It becomes the dump on disk.
LEMMA DecompressKeeps ==
  ASSUME IInv, Decompress
  PROVE  IInv'
<1>1. /\ pc = "decompress" /\ pc' = "setup" /\ after' = after /\ rdb' = zst /\ zst' = Absent
      /\ UNCHANGED <<ready, s3, inotify, events, term, valkey, memory, saves, count>>
  BY DEF Decompress, GoTo, signalVars, valkeyVars
<1>2. TypeOK'
  BY <1>1 DEF IInv, TypeOK, Dump, Data
<1>3. NoCut' => Sound'
  BY <1>1, Dumps DEF IInv, NoCut, Sound, DiskInv, FetchInv, Fetching, UploadInv, MemoryInv, Writes
<1> QED
  BY <1>2, <1>3 DEF IInv

\* What is uploaded is what is on disk, and with that what is in the bucket.
LEMMA CompressKeeps ==
  ASSUME IInv, Compress
  PROVE  IInv'
<1>1. /\ pc = "compress"
      /\ UNCHANGED <<rdb, ready, s3, term, valkey, memory, saves, count>>
  BY DEF Compress, valkeyVars
<1>2. CASE rdb = Absent
  <2>1. EndScript /\ UNCHANGED zst
    BY <1>2 DEF Compress, ZstdFails
  <2>2. count' \in [DOMAIN Bound -> Nat] /\ (NoCut' => NoCut)
    BY <1>1 DEF IInv, TypeOK, NoCut, Bound
  <2> QED
    BY <1>1, <2>1, <2>2, EndKeeps
<1>3. CASE rdb # Absent
  <2>1. zst' = rdb /\ pc' = "copy" /\ UNCHANGED <<after, inotify, events>>
    BY <1>3 DEF Compress, ZstdFails, GoTo
  <2>2. TypeOK'
    BY <1>1, <1>3, <2>1 DEF IInv, TypeOK, Dump, Data
  <2>3. NoCut' => Sound'
    BY <1>1, <1>3, <2>1 DEF IInv, NoCut, Sound, DiskInv, FetchInv, Fetching, UploadInv, MemoryInv, Writes
  <2> QED
    BY <2>2, <2>3 DEF IInv
<1> QED
  BY <1>2, <1>3

\* An upload gives the bucket what lies between it and the disk.
LEMMA CopyKeeps ==
  ASSUME IInv, Copy
  PROVE  IInv'
<1>1. /\ pc = "copy" /\ pc' = after /\ after' = after /\ s3' = zst /\ zst' = Absent
      /\ UNCHANGED <<rdb, ready, inotify, events, term, valkey, memory, saves, count>>
  BY DEF Copy, GoTo, signalVars, valkeyVars
<1>2. TypeOK'
  BY <1>1 DEF IInv, TypeOK, Dump, Data
<1>3. NoCut' => Sound'
  BY <1>1, Dumps DEF IInv, TypeOK, NoCut, Sound, DiskInv, FetchInv, Fetching, UploadInv, MemoryInv, Writes
<1> QED
  BY <1>2, <1>3 DEF IInv

\* The loop and the trap touch no dump.
LEMMA LoopKeeps ==
  ASSUME IInv, SetTrap \/ StartInotify \/ OpenFifo \/ Read \/ LoopEnd \/ Watch
  PROVE  IInv'
<1>1. /\ UNCHANGED <<zst, rdb, ready, s3, term, valkey, memory, saves, count>>
      /\ pc' = pc \/ (pc # "down" /\ ~Fetching /\ pc' \in {"trapped", "touch", "read", "compress"})
      /\ after' \in {after, "read", "exit"}
      /\ inotify' \in {inotify, "opening", "starting", "watching"}
      /\ events' \in 0..saves
  <2>1. saves \in Nat /\ events \in 0..saves
    BY Dumps DEF IInv, TypeOK
  <2> QED
    BY <2>1 DEF SetTrap, StartInotify, OpenFifo, Read, LoopEnd, Watch, FinalUpload, Upload, GoTo,
       Fetching, fileVars, signalVars, valkeyVars
<1>2. TypeOK'
  BY <1>1 DEF IInv, TypeOK, Dump, Data
<1>3. NoCut' => Sound'
  BY <1>1 DEF IInv, NoCut, Sound, DiskInv, FetchInv, Fetching, UploadInv, MemoryInv, Writes
<1> QED
  BY <1>2, <1>3 DEF IInv

\* The fetch is over when Valkey is let start.
LEMMA TouchReadyKeeps ==
  ASSUME IInv, TouchReady
  PROVE  IInv'
<1>1. /\ pc = "touch" /\ pc' = "open" /\ after' = after /\ ready' = TRUE
      /\ UNCHANGED <<zst, rdb, s3, inotify, events, term, valkey, memory, saves, count>>
  BY DEF TouchReady, GoTo, signalVars, valkeyVars
<1>2. TypeOK'
  BY <1>1 DEF IInv, TypeOK, Dump, Data
<1>3. NoCut' => Sound'
  BY <1>1 DEF IInv, NoCut, Sound, DiskInv, FetchInv, Fetching, UploadInv, MemoryInv, Writes
<1> QED
  BY <1>2, <1>3 DEF IInv

\* So does its regular end.
LEMMA ExitKeeps ==
  ASSUME IInv, Exit
  PROVE  IInv'
<1>1. EndScript /\ UNCHANGED <<zst, rdb, ready, s3, term, valkey, memory, saves, count>>
  BY DEF Exit, fileVars, valkeyVars
<1>2. count' \in [DOMAIN Bound -> Nat] /\ (NoCut' => NoCut)
  BY <1>1 DEF IInv, TypeOK, NoCut, Bound
<1> QED
  BY <1>1, <1>2, EndKeeps

\* SIGTERM ends inotifywait, or the script.
LEMMA OnTermKeeps ==
  ASSUME IInv, OnTerm
  PROVE  IInv'
<1>1. /\ term' = "handled"
      /\ UNCHANGED <<zst, rdb, ready, s3, valkey, memory, saves, count>>
  BY DEF OnTerm, fileVars, valkeyVars
<1>2. count' \in [DOMAIN Bound -> Nat] /\ (NoCut' => NoCut)
  BY <1>1 DEF IInv, TypeOK, NoCut, Bound
<1>3. CASE EndScript
  BY <1>1, <1>2, <1>3, EndKeeps
<1>4. CASE inotify' = "dead" /\ UNCHANGED <<pc, after, events>>
  <2>1. TypeOK'
    BY <1>1, <1>4 DEF IInv, TypeOK, Dump, Data
  <2>2. NoCut' => Sound'
    BY <1>1, <1>4 DEF IInv, NoCut, Sound, DiskInv, FetchInv, Fetching, UploadInv, MemoryInv, Writes
  <2> QED
    BY <2>1, <2>2 DEF IInv
<1> QED
  BY <1>3, <1>4 DEF OnTerm

-----------------------------------------------------------------------------
(* The same for Valkey and the kubelet.                                     *)

\* Valkey loads what has the writes of the bucket.
LEMMA ValkeyStartKeeps ==
  ASSUME IInv, ValkeyStart
  PROVE  IInv'
<1>1. /\ ready /\ rdb # Torn /\ valkey' = "up" /\ memory' = (IF rdb = Absent THEN {} ELSE rdb)
      /\ UNCHANGED <<pc, after, zst, rdb, ready, s3, inotify, events, term, saves, count>>
  BY DEF ValkeyStart, fileVars, signalVars
<1>2. TypeOK'
  BY <1>1, Dumps DEF IInv, TypeOK
<1>3. NoCut' => Sound'
  BY <1>1, Dumps DEF IInv, NoCut, Sound, DiskInv, FetchInv, Fetching, UploadInv, MemoryInv, Writes
<1> QED
  BY <1>2, <1>3 DEF IInv

\* What Valkey saves is what it has loaded, and more.
LEMMA SaveKeeps ==
  ASSUME IInv, Save
  PROVE  IInv'
<1>1. /\ valkey = "up" /\ saves < MaxSaves /\ saves' = saves + 1
      /\ memory' = memory \cup {saves'} /\ rdb' = memory' /\ events' \in {events, events + 1}
      /\ UNCHANGED <<pc, after, zst, ready, s3, inotify, term, valkey, count>>
  BY DEF Save
<1>2. saves' \in 1..MaxSaves /\ events' \in 0..saves'
  BY <1>1, Dumps DEF IInv, TypeOK
<1>3. memory' \in Data
  BY <1>1, <1>2 DEF IInv, TypeOK, Data
<1>4. TypeOK'
  BY <1>1, <1>2, <1>3, Dumps DEF IInv, TypeOK, Dump
<1>5. ASSUME NoCut'
      PROVE  Sound'
  <2>1. Sound /\ MemoryInv
    BY <1>1, <1>5 DEF IInv, NoCut, Sound
  <2>2. Writes(s3) \cup Writes(rdb) \subseteq memory /\ ready
    BY <1>1, <2>1 DEF MemoryInv
  <2>3. rdb' # Absent /\ rdb' # Torn /\ Writes(rdb') = memory'
    BY <1>1, <1>3, Dumps
  <2> HIDE DEF Writes
  <2>4. Writes(s3') = Writes(s3) /\ Writes(zst') = Writes(zst)
    BY <1>1
  <2>5. DiskInv' /\ MemoryInv'
    BY <1>1, <2>2, <2>3, <2>4 DEF DiskInv, MemoryInv
  <2>6. FetchInv' /\ UploadInv'
    BY <1>1, <2>1, <2>2, <2>3, <2>4 DEF Sound, FetchInv, Fetching, UploadInv
  <2> QED
    BY <1>1, <2>1, <2>3, <2>5, <2>6 DEF Sound
<1> QED
  BY <1>4, <1>5 DEF IInv

\* A Valkey that is down runs on top of nothing.
LEMMA ValkeyCrashKeeps ==
  ASSUME IInv, ValkeyCrash
  PROVE  IInv'
<1>1. /\ Counted("kills") /\ valkey' = "down"
      /\ UNCHANGED <<pc, after, zst, rdb, ready, s3, inotify, events, term, memory, saves>>
  BY DEF ValkeyCrash, fileVars, signalVars
<1>2. count' \in [DOMAIN Bound -> Nat] /\ (NoCut' => NoCut)
  BY <1>1, Counting, Kinds DEF IInv, TypeOK
<1>3. TypeOK'
  BY <1>1, <1>2 DEF IInv, TypeOK, Dump, Data
<1>4. NoCut' => Sound'
  BY <1>1, <1>2 DEF IInv, Sound, DiskInv, FetchInv, Fetching, UploadInv, MemoryInv, Writes
<1> QED
  BY <1>3, <1>4 DEF IInv

\* The same for one that has ended.
LEMMA DeletePodKeeps ==
  ASSUME IInv, DeletePod
  PROVE  IInv'
<1>1. /\ valkey' = "ended" /\ term' \in {"handled", "pending", "ignored"}
      /\ UNCHANGED <<pc, after, zst, rdb, ready, s3, inotify, events, memory, saves, count>>
  BY DEF DeletePod, fileVars
<1>2. TypeOK'
  BY <1>1 DEF IInv, TypeOK, Dump, Data
<1>3. NoCut' => Sound'
  BY <1>1 DEF IInv, NoCut, Sound, DiskInv, FetchInv, Fetching, UploadInv, MemoryInv, Writes
<1> QED
  BY <1>2, <1>3 DEF IInv

\* A cut is counted.
LEMMA CutDecompressionKeeps ==
  ASSUME IInv, CutDecompression
  PROVE  IInv'
<1>1. /\ Counted("cuts") /\ pc' = "down" /\ after' = after /\ inotify' = "none" /\ events' = 0
      /\ rdb' = Torn /\ UNCHANGED <<zst, ready, s3, term, valkey, memory, saves>>
  BY DEF CutDecompression, EndScript, GoTo, valkeyVars
<1>2. count' \in [DOMAIN Bound -> Nat] /\ ~NoCut'
  <2>1. count \in [DOMAIN Bound -> Nat] /\ "cuts" \in DOMAIN Bound
    BY Kinds DEF IInv, TypeOK
  <2>2. count' = [count EXCEPT !["cuts"] = @ + 1]
    BY <1>1 DEF Counted
  <2>3. count["cuts"] \in Nat /\ count'["cuts"] = count["cuts"] + 1
    BY <2>1, <2>2
  <2> QED
    BY <2>1, <2>2, <2>3 DEF NoCut
<1>3. 0 \in 0..saves
  BY Dumps DEF IInv, TypeOK
<1>4. TypeOK'
  BY <1>1, <1>2, <1>3 DEF IInv, TypeOK, Dump, Data
<1> QED
  BY <1>2, <1>4 DEF IInv

\* A new pod has no dump, and has to fetch it.
LEMMA NewPodKeeps ==
  ASSUME IInv, NewPod
  PROVE  IInv'
<1>1. /\ Counted("pods") /\ pc' = "down" /\ after' = after /\ inotify' = "none" /\ events' = 0
      /\ term' = "no" /\ zst' = Absent /\ rdb' = Absent /\ ready' = FALSE
      /\ valkey' = "down" /\ memory' = {} /\ UNCHANGED <<s3, saves>>
  BY DEF NewPod, EndScript, GoTo
<1>2. count' \in [DOMAIN Bound -> Nat] /\ (NoCut' => NoCut)
  BY <1>1, Counting, Kinds DEF IInv, TypeOK
<1>3. 0 \in 0..saves
  BY Dumps DEF IInv, TypeOK
<1>4. TypeOK'
  BY <1>1, <1>2, <1>3, Dumps DEF IInv, TypeOK, Dump, Data
<1>5. NoCut' => Sound'
  BY <1>1, <1>2, Dumps DEF IInv, Sound, DiskInv, FetchInv, Fetching, UploadInv, MemoryInv
<1> QED
  BY <1>4, <1>5 DEF IInv

\* Every step keeps it.
LEMMA NextKeeps == IInv /\ [Next]_vars => IInv'
<1> SUFFICES ASSUME IInv, [Next]_vars PROVE IInv'
  OBVIOUS
<1>1. CASE UNCHANGED vars
  BY <1>1, Unchanged
<1>2. CASE Script
  BY <1>2, StartKeeps, ListKeeps, DownloadKeeps, DecompressKeeps, CompressKeeps, CopyKeeps,
     LoopKeeps, TouchReadyKeeps, ExitKeeps DEF Script
<1>3. CASE Watch \/ OnTerm \/ FetchFails
  BY <1>3, LoopKeeps, OnTermKeeps, FetchFailsKeeps
<1>4. CASE ValkeyStart \/ Save \/ ValkeyCrash \/ DeletePod
  BY <1>4, ValkeyStartKeeps, SaveKeeps, ValkeyCrashKeeps, DeletePodKeeps
<1>5. CASE Kill \/ CutDecompression \/ NewPod
  BY <1>5, KillKeeps, CutDecompressionKeeps, NewPodKeeps
<1> QED
  BY <1>1, <1>2, <1>3, <1>4, <1>5 DEF Next

-----------------------------------------------------------------------------
\* The inductive invariant of script, Valkey and bucket.
THEOREM Invariance == Spec => []IInv
<1> QED
  BY Initial, NextKeeps, PTL DEF Spec

\* Valkey runs on top of the dump in the bucket.
THEOREM HasSnapshot == Spec => []ValkeyHasSnapshot
<1>1. IInv => ValkeyHasSnapshot
  BY DEF IInv, Sound, MemoryInv, ValkeyHasSnapshot
<1> QED
  BY <1>1, Invariance, PTL

\* No upload takes away what the bucket has.
THEOREM BucketSafe == Spec => S3KeepsWrites
<1> DEFINE Kept == NoCut /\ s3 # Absent => s3' # Absent /\ Writes(s3) \subseteq Writes(s3')
<1>1. IInv /\ [Next]_vars => Kept
  <2> SUFFICES ASSUME IInv, [Next]_vars, NoCut, s3 # Absent
               PROVE  s3' # Absent /\ Writes(s3) \subseteq Writes(s3')
    OBVIOUS
  <2>1. CASE Copy
    BY <2>1 DEF Copy, IInv, TypeOK, Sound, UploadInv
  <2>2. CASE UNCHANGED s3
    BY <2>2
  <2>3. Copy \/ UNCHANGED s3
    BY DEF Next, Script, Start, List, Download, Decompress, Compress, SetTrap, StartInotify,
       TouchReady, OpenFifo, Read, LoopEnd, Exit, Watch, OnTerm, FetchFails, ValkeyStart, Save,
       ValkeyCrash, DeletePod, Kill, CutDecompression, NewPod, fileVars, vars
  <2> QED
    BY <2>1, <2>2, <2>3
<1>2. Spec => [][Kept]_vars
  BY <1>1, Invariance, PTL DEF Spec
<1> QED
  BY <1>2, PTL DEF S3KeepsWrites
-----------------------------------------------------------------------------
(* The script implements the backup.                                        *)

\* What is in a dump or in memory after a step other than a save was in a dump
\* before.
LEMMA OthersMove ==
  ASSUME [Next]_vars, ~Save
  PROVE  /\ saves' = saves
         /\ {zst', rdb', s3'} \subseteq {zst, rdb, s3, Absent, Torn}
         /\ memory' \in {memory, {}} \/ (rdb \notin {Absent, Torn} /\ memory' = rdb)
<1>1. CASE Script
  BY <1>1
     DEF Script, Start, List, Download, Decompress, Compress, Copy, SetTrap, StartInotify,
         TouchReady, OpenFifo, Read, LoopEnd, Exit, fileVars, valkeyVars
<1>2. CASE ValkeyStart
  BY <1>2 DEF ValkeyStart, fileVars
<1>3. CASE ~Script /\ ~ValkeyStart
  BY <1>3
     DEF Next, Watch, OnTerm, FetchFails, ValkeyCrash, DeletePod, Kill, CutDecompression, NewPod,
         fileVars, valkeyVars, vars
<1> QED
  BY <1>1, <1>2, <1>3

\* A save writes the memory and one more.
LEMMA SaveWrites ==
  ASSUME TypeOK, NothingInvented, Save
  PROVE  /\ saves \in Nat /\ saves' = saves + 1
         /\ memory' = memory \cup {saves'} /\ rdb' = memory' /\ memory' \in Data
         /\ UNCHANGED <<zst, s3, valkey, count>> /\ valkey = "up"
<1>1. saves \in Nat /\ saves < MaxSaves /\ MaxSaves \in Nat /\ memory \in Data
  BY Dumps DEF TypeOK, Save
<1>2. memory \cup {saves + 1} \in Data
  BY <1>1 DEF Data
<1> QED
  BY <1>1, <1>2 DEF Save

\* Nothing is found, on disk, in the bucket or in memory, that nobody has written.
THEOREM AllWritten == Spec => []NothingInvented
<1>1. Init => NothingInvented
  BY Dumps DEF Init, NothingInvented
<1>2. ASSUME TypeOK, NothingInvented, [Next]_vars PROVE NothingInvented'
  <2>1. CASE Save
    <3>1. 1..saves \subseteq 1..saves' /\ saves' \in 1..saves'
      BY <1>2, <2>1, SaveWrites
    <3>2. Writes(rdb') = memory'
      BY <1>2, <2>1, SaveWrites, Dumps
    <3> QED
      BY <1>2, <2>1, <3>1, <3>2, SaveWrites DEF NothingInvented
  <2>2. CASE ~Save
    <3> DEFINE Written == 1..saves
    <3>1. Writes(Absent) \subseteq Written /\ Writes(Torn) \subseteq Written
      BY DEF Writes
    <3>2. \A d \in {zst, rdb, s3, Absent, Torn} : Writes(d) \subseteq Written
      BY <1>2, <3>1 DEF NothingInvented
    <3>3. Writes(zst') \subseteq Written /\ Writes(rdb') \subseteq Written /\ Writes(s3') \subseteq Written
      BY <1>2, <2>2, <3>2, OthersMove
    <3>4. memory' \subseteq Written
      BY <1>2, <2>2, OthersMove DEF NothingInvented, Writes
    <3> QED
      BY <1>2, <2>2, <3>3, <3>4, OthersMove DEF NothingInvented
  <2> QED
    BY <2>1, <2>2
<1>3. IInv => TypeOK
  BY DEF IInv
<1> QED
  BY <1>1, <1>2, <1>3, Invariance, PTL DEF Spec

\* Until a decompression is cut short, every step is one of the backup, or none.
LEMMA SoundStep ==
  ASSUME TypeOK, Sound, Sound', NoCut, NoCut', NothingInvented, NothingInvented', [Next]_vars
  PROVE  [Promise!Next]_(Promise!vars)
<1>1. CASE Copy
  <2>1. UNCHANGED <<valkey, memory, saves>>
    BY <1>1 DEF Copy, valkeyVars
  <2>2. Writes(s3) \subseteq Writes(s3')
    BY <1>1 DEF Copy, Sound, UploadInv
  <2>3. valkey = "up" => Writes(s3') \subseteq memory
    BY <2>1 DEF Sound, MemoryInv
  <2>4. Writes(s3') \subseteq 1..saves
    BY <2>1 DEF NothingInvented
  <2> QED
    BY <2>1, <2>2, <2>3, <2>4 DEF Promise!Next, Promise!Replicate
<1>2. CASE ValkeyStart
  <2>1. valkey # "up" /\ valkey' = "up" /\ UNCHANGED <<s3, saves>>
    BY <1>2 DEF ValkeyStart, fileVars
  <2>2. Writes(s3) \subseteq memory' /\ memory' \subseteq 1..saves
    BY <2>1 DEF Sound, MemoryInv, NothingInvented
  <2> QED
    BY <2>1, <2>2 DEF Promise!Next, Promise!StartApp
<1>3. CASE Save
  <2>1. saves' \notin 1..saves /\ 1..saves' = 1..saves \cup {saves'}
    BY <1>3, SaveWrites
  <2> QED
    BY <1>3, <2>1, SaveWrites DEF Promise!Next, Promise!Write
<1>4. CASE ValkeyCrash \/ DeletePod \/ NewPod
  <2>1. UNCHANGED <<s3, saves>> /\ valkey' # "up"
    BY <1>4 DEF ValkeyCrash, DeletePod, NewPod, fileVars
  <2> QED
    BY <2>1 DEF Promise!Next, Promise!StopApp, Promise!vars
<1>5. CASE UNCHANGED <<s3, valkey, memory, saves>>
  BY <1>5 DEF Promise!vars
<1>6. \/ Copy \/ ValkeyStart \/ Save \/ ValkeyCrash \/ DeletePod \/ NewPod
      \/ UNCHANGED <<s3, valkey, memory, saves>>
  BY DEF Next, Script, Start, List, Download, Decompress, Compress, SetTrap, StartInotify,
     TouchReady, OpenFifo, Read, LoopEnd, Exit, Watch, OnTerm, FetchFails, Kill,
     CutDecompression, fileVars, valkeyVars, vars
<1> QED
  BY <1>1, <1>2, <1>3, <1>4, <1>5, <1>6

\* The script implements the backup: Valkey is started on top of what the bucket
\* has, and the bucket never gets less than that, nor more than Valkey holds.
THEOREM Refinement == Spec => ImplementsBackup
<1>1. Init => Promise!Init
  BY Dumps DEF Init, Promise!Init, NoCut, Bound
<1>2. ASSUME IInv, IInv', NothingInvented, NothingInvented', [Next]_vars
      PROVE  [Promise!Next]_(Promise!vars)
  <2>1. CASE ~NoCut'
    BY <2>1 DEF Promise!Next, Promise!Break
  <2>2. CASE NoCut'
    <3>1. NoCut
      BY <1>2, <2>2, CutsKept DEF IInv, TypeOK
    <3> QED
      BY <1>2, <2>2, <3>1, SoundStep DEF IInv
  <2> QED
    BY <2>1, <2>2
<1> QED
  BY <1>1, <1>2, Invariance, AllWritten, PTL DEF Spec, ImplementsBackup, Promise!Spec
=============================================================================
