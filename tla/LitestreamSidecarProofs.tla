----------------------- MODULE LitestreamSidecarProofs -----------------------
(* Proofs about LitestreamSidecar, for any databases and any number of      *)
(* writes, crashes, pods and killed probes: unless a failed restore goes    *)
(* unnoticed, the probe keeps its promise and no replicated write is lost.  *)
EXTENDS LitestreamSidecar, TLAPS

-----------------------------------------------------------------------------
(* Facts about the constants and the operators.                             *)

\* The loops only name databases.
LEMMA Names ==
  /\ Len(Db) \in Nat \ {0}
  /\ 1 \in 1..Len(Db)
  /\ \A n \in 1..Len(Db) : Db[n] \in DbName
  /\ \A d \in DbName : \E n \in 1..Len(Db) : d = Db[n]
<1>1. Len(Db) \in Nat /\ Len(Db) # 0
  BY DbAssumption
<1> QED
  BY <1>1 DEF DbName

\* What a loop has gone through are databases.
LEMMA Earlier ==
  ASSUME NEW n \in 1..Len(Db)
  PROVE  1..(n - 1) \subseteq 1..Len(Db)
<1>1. Len(Db) \in Nat
  BY Names
<1> QED
  BY <1>1

\* The counters stay counters.
LEMMA CountType ==
  ASSUME count \in [DOMAIN Bound -> Nat], NEW e \in DOMAIN Bound, Counted(e)
  PROVE  count' \in [DOMAIN Bound -> Nat]
  BY DEF Counted

\* A failure that went unnoticed is never forgotten.
LEMMA CountKeeps ==
  ASSUME count \in [DOMAIN Bound -> Nat], [Next]_vars
  PROVE  count' \in [DOMAIN Bound -> Nat] /\ (Unnoticed => Unnoticed')
<1>1. {"failures", "crashes", "pods", "kills"} = DOMAIN Bound
  BY DEF Bound
<1>2. variant' = variant
  BY DEF Next, Script, Probe, Environment, Start, ClearFlag, Restore, RestoreFails, Touch, WalInit,
         StartupActions, Listen, Sync, ProbeBegin, ProbeCheck, ProbeClear, ProbeKilled, Crash,
         KubeletRestart, NewPod, AppWrite, EndContainer, vars, scriptVars
<1>3. \/ UNCHANGED count
      \/ \E e \in DOMAIN Bound : Counted(e)
  BY <1>1 DEF Next, Script, Probe, Environment, Start, ClearFlag, Restore, RestoreFails, Touch, WalInit,
         StartupActions, Listen, Sync, ProbeBegin, ProbeCheck, ProbeClear, ProbeKilled, Crash,
         KubeletRestart, NewPod, AppWrite, vars, boundVars
<1>4. CASE UNCHANGED count
  BY <1>2, <1>4 DEF Unnoticed
<1>5. ASSUME NEW e \in DOMAIN Bound, Counted(e)
      PROVE  count' \in [DOMAIN Bound -> Nat] /\ (Unnoticed => Unnoticed')
  BY <1>1, <1>2, <1>5, CountType DEF Counted, Unnoticed
<1> QED
  BY <1>3, <1>4, <1>5

-----------------------------------------------------------------------------
(* The inductive invariant, one lemma per action.                           *)

\* At first there is nothing, and nothing to restore.
LEMMA Initial == Init => TypeOK /\ Sound /\ CreatedInv
<1> SUFFICES ASSUME Init PROVE TypeOK /\ Sound /\ CreatedInv
  OBVIOUS
<1>1. TypeOK
  <2>1. /\ local \in [DbName -> Data \cup {Absent}]
        /\ replica \in [DbName -> Data \cup {Absent}]
        /\ creator \in [DbName -> {"nobody", "litestream", "app"}]
        /\ flag \in [DbName -> BOOLEAN]
    BY DEF Init
  <2>2. writes \in 0..MaxWrites /\ cur \in 1..Len(Db) /\ chk \in 1..Len(Db)
    BY BoundAssumption, Names DEF Init
  <2>3. count \in [DOMAIN Bound -> Nat]
    BY DEF Init
  <2> QED
    BY <2>1, <2>2, <2>3 DEF Init, TypeOK
<1>2. \A d \in DbName : Restored(d) /\ ~flag[d] /\ replica[d] = Absent /\ creator[d] = "nobody"
  BY DEF Init, Restored
<1> QED
  BY <1>1, <1>2 DEF Init, Sound, RestoredInv, AppStartsRestored, ContainedInv, CreatedInv

\* What is written to a database is data.
LEMMA Datas ==
  /\ {} \in Data /\ {} # Absent
  /\ \A s \in Data, n \in 1..MaxWrites : s \cup {n} \in Data /\ s \cup {n} # Absent
  BY BoundAssumption DEF Data

\* Every step keeps the types.
LEMMA TypeStep ==
  ASSUME TypeOK, [Next]_vars
  PROVE  TypeOK'
<1> USE DEF TypeOK
<1>1. DOMAIN Bound = {"failures", "crashes", "pods", "kills"}
  BY DEF Bound
<1>2. CASE Start \/ ClearFlag \/ Touch \/ Listen \/ StartupActions
  BY <1>2, Names DEF Start, ClearFlag, Touch, Listen, StartupActions, TouchFlag,
     fileVars, scriptVars, probeVars, podVars, boundVars
<1>3. CASE Restore
  <2>1. local' \in [DbName -> Data \cup {Absent}] /\ creator' \in [DbName -> {"nobody", "litestream", "app"}]
    BY <1>3, Names DEF Restore
  <2> QED
    BY <1>3, <2>1 DEF Restore, probeVars, podVars, boundVars
<1>4. CASE WalInit
  <2>1. local' \in [DbName -> Data \cup {Absent}] /\ creator' \in [DbName -> {"nobody", "litestream", "app"}]
    BY <1>4, Datas DEF WalInit
  <2>2. cur' \in 1..Len(Db)
    BY <1>4, Names DEF WalInit
  <2> QED
    BY <1>4, <2>1, <2>2 DEF WalInit, probeVars, podVars, boundVars
<1>5. CASE RestoreFails \/ Crash \/ KubeletRestart \/ ProbeKilled
  <2>1. count' \in [DOMAIN Bound -> Nat]
    BY <1>5, <1>1, CountType DEF RestoreFails, Crash, KubeletRestart, ProbeKilled
  <2>2. CASE EndContainer
    BY <2>1, <2>2 DEF EndContainer
  <2>3. CASE RestoreFails /\ AfterFailure = "startup"
    BY <2>1, <2>3 DEF RestoreFails, fileVars, probeVars, podVars
  <2>4. CASE ProbeKilled
    BY <2>1, <2>4 DEF ProbeKilled, scriptVars, fileVars, podVars
  <2> QED
    BY <1>5, <2>2, <2>3, <2>4 DEF RestoreFails, AfterFailure, Crash, KubeletRestart
<1>6. CASE ProbeBegin
  BY <1>6, Names DEF ProbeBegin, Succeed, scriptVars, fileVars, podVars, boundVars
<1>7. CASE ProbeCheck
  BY <1>7, Names DEF ProbeCheck, scriptVars, fileVars, podVars, boundVars
<1>8. CASE ProbeClear
  <2>1. flag' \in [DbName -> BOOLEAN]
    BY <1>8 DEF ProbeClear
  <2>2. chk' \in 1..Len(Db)
    BY <1>8, Names DEF ProbeClear
  <2> QED
    BY <1>8, <2>1, <2>2 DEF ProbeClear, Succeed, scriptVars, podVars, boundVars
<1>9. CASE NewPod
  <2>1. count' \in [DOMAIN Bound -> Nat]
    BY <1>1, <1>9, CountType DEF NewPod
  <2> QED
    BY <1>9, <2>1 DEF NewPod
<1>10. ASSUME NEW d \in DbName, Sync(d)
       PROVE  TypeOK'
  BY <1>10 DEF Sync, scriptVars, fileVars, probeVars, podVars, boundVars
<1>11. ASSUME NEW d \in DbName, AppWrite(d)
       PROVE  TypeOK'
  <2>1. writes' \in 1..MaxWrites
    BY <1>11, BoundAssumption DEF AppWrite
  <2>2. (IF local[d] = Absent THEN {} ELSE local[d]) \in Data
    BY Datas
  <2>3. local' \in [DbName -> Data \cup {Absent}]
    BY <1>11, <2>1, <2>2, Datas DEF AppWrite
  <2>4. creator' \in [DbName -> {"nobody", "litestream", "app"}]
    BY <1>11 DEF AppWrite
  <2> QED
    BY <1>11, <2>1, <2>3, <2>4 DEF AppWrite, scriptVars, probeVars, podVars
<1>12. CASE UNCHANGED vars
  BY <1>12 DEF vars, scriptVars, fileVars, probeVars, podVars, boundVars
<1> QED
  BY <1>2, <1>3, <1>4, <1>5, <1>6, <1>7, <1>8, <1>9, <1>10, <1>11, <1>12
     DEF Next, Script, Probe, Environment

\* The loop starts over.
LEMMA StartKeeps ==
  ASSUME TypeOK, Sound, Start
  PROVE  Sound'
  BY Names DEF Start, TypeOK, Sound, RestoredInv, Restored, AppStartsRestored, ContainedInv,
     fileVars, probeVars, podVars, boundVars

\* A flag that is gone promises nothing.
LEMMA ClearFlagKeeps ==
  ASSUME TypeOK, Sound, ClearFlag
  PROVE  Sound'
  BY Names DEF ClearFlag, TypeOK, Sound, RestoredInv, Restored, AppStartsRestored, ContainedInv,
     probeVars, podVars, boundVars

\* After litestream restore, the database has what its replica has.
LEMMA RestoreKeeps ==
  ASSUME TypeOK, Sound, Restore
  PROVE  Sound'
<1> DEFINE d == Db[cur]
<1>1. /\ pc = "restore" /\ pc' = "touch"
      /\ UNCHANGED <<variant, cur, flag, sock, replica, probe, chk, started, app, writes, count>>
  BY DEF Restore, probeVars, podVars, boundVars
<1>2. d \in DbName
  BY Names DEF TypeOK, Sound
<1>3. local' = IF Restores(d) THEN [local EXCEPT ![d] = replica[d]] ELSE local
  BY DEF Restore
<1> HIDE DEF d
<1>4. \A e \in DbName : Restored(e) \/ e = d => Restored(e)'
  BY <1>1, <1>2, <1>3 DEF TypeOK, Sound, Restores, Restored
<1>5. RestoredInv'
  BY <1>1, <1>2, <1>4, Names DEF TypeOK, Sound, RestoredInv, d
<1>6. AppStartsRestored'
  BY <1>1, <1>4 DEF Sound, AppStartsRestored
<1>7. ContainedInv'
  BY <1>1, <1>2, <1>3 DEF TypeOK, Sound, ContainedInv, Restores
<1> QED
  BY <1>5, <1>6, <1>7 DEF Sound

\* The end of the container leaves the files.
LEMMA EndKeeps ==
  ASSUME TypeOK, Sound, EndContainer
  PROVE  Sound'
<1>1. /\ pc' = "down" /\ probe' = "idle" /\ started' = FALSE /\ sock' \in {sock, FALSE}
      /\ UNCHANGED <<variant, cur, local, creator, flag, replica, chk, app, writes>>
  BY DEF EndContainer
<1>2. \A d \in DbName : Restored(d)' <=> Restored(d)
  BY <1>1 DEF Restored
<1>3. RestoredInv'
  <2>1. \A d \in DbName : flag'[d] => Restored(d)'
    BY <1>1, <1>2 DEF Sound, RestoredInv
  <2>2. sock' => \A d \in DbName : Restored(d)'
    BY <1>1, <1>2 DEF Sound, RestoredInv
  <2> QED
    BY <1>1, <2>1, <2>2 DEF RestoredInv
<1> QED
  BY <1>1, <1>2, <1>3 DEF Sound, AppStartsRestored, ContainedInv

\* A failure ends the script, or goes unnoticed.
LEMMA RestoreFailsKeeps ==
  ASSUME TypeOK, Sound, RestoreFails
  PROVE  Sound' \/ Unnoticed'
<1>1. Counted("failures")
  BY DEF RestoreFails
<1>2. count' \in [DOMAIN Bound -> Nat] /\ count'["failures"] > 0
  BY <1>1, CountType DEF TypeOK, Counted, Bound
<1>3. CASE variant = "templ"
  BY <1>2, <1>3 DEF RestoreFails, AfterFailure, Unnoticed
<1>4. CASE variant # "templ"
  BY <1>2, <1>4, EndKeeps DEF RestoreFails, AfterFailure
<1> QED
  BY <1>3, <1>4

\* The flag is set when the database is there if its replica is.
LEMMA TouchKeeps ==
  ASSUME TypeOK, Sound, Touch
  PROVE  Sound'
  BY Names DEF Touch, TouchFlag, TypeOK, Sound, RestoredInv, Restored, AppStartsRestored, ContainedInv,
     probeVars, podVars, boundVars

\* An empty database is made only where there is no replica.
LEMMA WalInitKeeps ==
  ASSUME TypeOK, Sound, WalInit
  PROVE  Sound'
<1> DEFINE d == Db[cur]
<1>1. /\ pc = "walinit"
      /\ UNCHANGED <<variant, flag, sock, replica, probe, chk, started, app, writes, count>>
  BY DEF WalInit, probeVars, podVars, boundVars
<1>2. d \in DbName /\ {} \in Data /\ {} # Absent
  BY Names, BoundAssumption DEF TypeOK, Sound, Data
<1>3. local' = IF local[d] = Absent THEN [local EXCEPT ![d] = {}] ELSE local
  BY DEF WalInit
<1>4. \/ cur < Len(Db) /\ pc' = "clear" /\ cur' = cur + 1
      \/ cur = Len(Db) /\ pc' \in {"startup", "replicate"} /\ cur' = cur
  BY Names DEF WalInit, TypeOK, Sound
<1>5. Restored(d) /\ \A n \in 1..(cur - 1) : Restored(Db[n])
  BY <1>1 DEF Sound, RestoredInv
<1> HIDE DEF d
<1>6. \A e \in DbName : Restored(e) => Restored(e)'
  BY <1>1, <1>2, <1>3 DEF TypeOK, Sound, Restored
<1>7. \A n \in 1..cur : Restored(Db[n])'
  BY <1>5, <1>6, Names DEF TypeOK, Sound, d
<1>8. RestoredInv'
  <2>1. CASE cur < Len(Db)
    BY <2>1, <1>1, <1>4, <1>6, <1>7, Names DEF TypeOK, Sound, RestoredInv
  <2>2. CASE cur = Len(Db)
    <3>1. \A e \in DbName : Restored(e)'
      BY <2>2, <1>7, Names
    <3> QED
      BY <3>1, <2>2, <1>1, <1>4, <1>6, Names DEF TypeOK, Sound, RestoredInv
  <2> QED
    BY <2>1, <2>2, Names DEF TypeOK, Sound
<1>9. AppStartsRestored'
  BY <1>1, <1>6 DEF Sound, AppStartsRestored
<1>10. ContainedInv'
  BY <1>1, <1>2, <1>3, <1>5 DEF TypeOK, Sound, ContainedInv, Restored
<1> QED
  BY <1>8, <1>9, <1>10 DEF Sound

\* Replicas are made from databases.
LEMMA StartupKeeps ==
  ASSUME TypeOK, Sound, StartupActions
  PROVE  Sound'
  BY Names DEF StartupActions, TypeOK, Sound, RestoredInv, Restored, AppStartsRestored, ContainedInv,
     fileVars, probeVars, podVars, boundVars

\* litestream listens after every restore.
LEMMA ListenKeeps ==
  ASSUME TypeOK, Sound, Listen
  PROVE  Sound'
  BY DEF Listen, TypeOK, Sound, RestoredInv, Restored, AppStartsRestored, ContainedInv,
     scriptVars, probeVars, podVars, boundVars

\* Replicas are made from databases.
LEMMA SyncKeeps ==
  ASSUME TypeOK, Sound, NEW d \in DbName, Sync(d)
  PROVE  Sound'
  BY Names DEF Sync, TypeOK, Sound, RestoredInv, Restored, AppStartsRestored, ContainedInv,
     scriptVars, fileVars, probeVars, podVars, boundVars

\* A probe succeeds at once only after every restore.
LEMMA ProbeBeginKeeps ==
  ASSUME TypeOK, Sound, ProbeBegin
  PROVE  Sound'
<1>1. /\ chk' = 1
      /\ UNCHANGED <<variant, pc, cur, local, creator, flag, sock, replica, writes, count>>
  BY DEF ProbeBegin, scriptVars, fileVars, boundVars
<1>2. \/ sock /\ started' = TRUE /\ app' = TRUE /\ probe' = probe /\ probe = "idle"
      \/ probe' = "check" /\ started' = started /\ app' = app
  BY DEF ProbeBegin, SocketExists, Succeed, podVars
<1>3. \A d \in DbName : Restored(d)' <=> Restored(d)
  BY <1>1 DEF Restored
<1>4. RestoredInv'
  BY <1>1, <1>2, <1>3, Names DEF TypeOK, Sound, RestoredInv
<1>5. AppStartsRestored'
  BY <1>2, <1>3 DEF Sound, RestoredInv, AppStartsRestored
<1> QED
  BY <1>1, <1>4, <1>5 DEF Sound, ContainedInv

\* The loop of the probe ends when it has seen every flag.
LEMMA ProbeCheckKeeps ==
  ASSUME TypeOK, Sound, ProbeCheck
  PROVE  Sound'
  BY Names DEF ProbeCheck, SocketExists, IsRestoreComplete, TypeOK, Sound, RestoredInv, Restored, AppStartsRestored, ContainedInv,
     scriptVars, fileVars, podVars, boundVars

\* The flags may go: what they promised has been seen.
LEMMA ProbeClearKeeps ==
  ASSUME TypeOK, TypeOK', Sound, ProbeClear
  PROVE  Sound'
<1>1. /\ probe = "clear" /\ flag' = [flag EXCEPT ![Db[chk]] = FALSE]
      /\ UNCHANGED <<variant, pc, cur, local, creator, sock, replica, writes, count>>
  BY DEF ProbeClear, scriptVars, boundVars
<1>2. \/ chk' = chk + 1 /\ chk < Len(Db) /\ UNCHANGED <<probe, started, app>>
      \/ probe' = "idle" /\ started' = TRUE /\ app' = TRUE /\ chk' = chk
  BY DEF ProbeClear, Succeed, podVars
<1>3. \A d \in DbName : Restored(d) /\ Restored(d)'
  BY <1>1 DEF Sound, RestoredInv, Restored
<1>4. RestoredInv'
  <2>1. cur' \in 1..Len(Db) /\ chk' \in 1..Len(Db) /\ \A n \in 1..Len(Db) : Restored(Db[n])'
    BY <1>3, Names DEF TypeOK
  <2>2. /\ \A n \in 1..(cur' - 1) : Restored(Db[n])'
        /\ \A n \in 1..(chk' - 1) : Restored(Db[n])'
    <3>1. 1..(cur' - 1) \subseteq 1..Len(Db) /\ 1..(chk' - 1) \subseteq 1..Len(Db)
      <4>1. \A n \in 1..Len(Db) : 1..(n - 1) \subseteq 1..Len(Db)
        BY Earlier
      <4> QED
        BY <4>1, <2>1
    <3> QED
      BY <2>1, <3>1
  <2>3. Restored(Db[cur])'
    BY <2>1, <1>1
  <2> QED
    BY <1>3, <2>2, <2>3 DEF RestoredInv
<1>5. AppStartsRestored'
  BY <1>3 DEF AppStartsRestored
<1> QED
  BY <1>1, <1>4, <1>5 DEF Sound, ContainedInv

\* A killed probe leaves the files.
LEMMA ProbeKilledKeeps ==
  ASSUME TypeOK, Sound, ProbeKilled
  PROVE  Sound'
  BY DEF ProbeKilled, TypeOK, Sound, RestoredInv, Restored, AppStartsRestored, ContainedInv,
     scriptVars, fileVars, podVars

\* A crash is an end of the container.
LEMMA CrashKeeps ==
  ASSUME TypeOK, Sound, Crash
  PROVE  Sound'
  BY EndKeeps DEF Crash

\* So is a restart by the kubelet.
LEMMA KubeletRestartKeeps ==
  ASSUME TypeOK, Sound, KubeletRestart
  PROVE  Sound'
  BY EndKeeps DEF KubeletRestart

\* A new pod has no application and no promises.
LEMMA NewPodKeeps ==
  ASSUME TypeOK, Sound, NewPod
  PROVE  Sound'
  BY DEF NewPod, TypeOK, Sound, RestoredInv, Restored, AppStartsRestored, ContainedInv

\* The application adds to a database, or makes one that has no replica.
LEMMA AppWriteKeeps ==
  ASSUME TypeOK, Sound, NEW d \in DbName, AppWrite(d)
  PROVE  Sound'
<1> DEFINE old == IF local[d] = Absent THEN {} ELSE local[d]
<1>1. /\ writes' = writes + 1 /\ writes' \in 1..MaxWrites
      /\ UNCHANGED <<variant, pc, cur, flag, sock, replica, probe, chk, started, app, count>>
  BY BoundAssumption DEF AppWrite, TypeOK, Sound, scriptVars, probeVars, podVars
<1>2. old \in Data /\ old \cup {writes'} \in Data
  BY <1>1 DEF TypeOK, Sound, Data
<1>3. local' = [local EXCEPT ![d] = old \cup {writes'}]
  BY DEF AppWrite
<1>4. old \cup {writes'} # Absent
  BY <1>2, BoundAssumption
<1>5. \A e \in DbName : Restored(e) => Restored(e)'
  BY <1>1, <1>3, <1>4 DEF TypeOK, Sound, Restored
<1>6. RestoredInv'
  BY <1>1, <1>5, Names DEF TypeOK, Sound, RestoredInv
<1>7. AppStartsRestored'
  BY <1>1, <1>5 DEF Sound, AppStartsRestored
<1>8. ContainedInv'
  <2>1. Restored(d)
    BY DEF AppWrite, Sound, AppStartsRestored
  <2> QED
    BY <2>1, <1>1, <1>3 DEF TypeOK, Sound, ContainedInv, Restored
<1> QED
  BY <1>6, <1>7, <1>8 DEF Sound

\* Nothing changes in a stuttering step.
LEMMA StutterKeeps ==
  ASSUME TypeOK, Sound, UNCHANGED vars
  PROVE  Sound'
  BY DEF vars, scriptVars, fileVars, probeVars, podVars, boundVars,
     TypeOK, Sound, RestoredInv, Restored, AppStartsRestored, ContainedInv

\* A file that is there stays there as long as its pod does.
LEMMA FilesStay ==
  ASSUME TypeOK, [Next]_vars, ~NewPod, NEW d \in DbName, local[d] # Absent
  PROVE  local'[d] # Absent /\ local[d] \subseteq local'[d]
<1> USE DEF TypeOK
<1>1. CASE Restore \/ WalInit
  <2>1. Db[cur] \in DbName
    BY Names
  <2>2. local'[d] = local[d]
    BY <1>1, <2>1 DEF Restore, Restores, WalInit
  <2> QED
    BY <2>2
<1>2. ASSUME NEW e \in DbName, AppWrite(e)
      PROVE  local'[d] # Absent /\ local[d] \subseteq local'[d]
  <2>1. writes' \in 1..MaxWrites
    BY <1>2, BoundAssumption DEF AppWrite
  <2>2. local' = [local EXCEPT ![e] = (IF local[e] = Absent THEN {} ELSE local[e]) \cup {writes'}]
    BY <1>2 DEF AppWrite
  <2>3. CASE d = e
    BY <2>1, <2>2, <2>3, Datas
  <2>4. CASE d # e
    BY <2>2, <2>4
  <2> QED
    BY <2>3, <2>4
<1>3. CASE UNCHANGED local
  BY <1>3
<1> QED
  BY <1>1, <1>2, <1>3
     DEF Next, Script, Probe, Environment, Start, ClearFlag, RestoreFails, Touch, StartupActions,
         Listen, Sync, ProbeBegin, ProbeCheck, ProbeClear, ProbeKilled, Crash, KubeletRestart,
         EndContainer, vars, fileVars

\* Whoever makes a file in a pod with a rendered configuration is litestream's
\* user, unless a failed restore cuts the loop short.
LEMMA CreatedStep ==
  ASSUME TypeOK, TypeOK', CreatedInv, [Next]_vars
  PROVE  CreatedInv' \/ Unnoticed'
<1> SUFFICES ASSUME variant = "templ", variant' = "templ"
             PROVE  CreatedInv' \/ Unnoticed'
  <2>1. variant' = variant
    BY DEF Next, Script, Probe, Environment, Start, ClearFlag, Restore, RestoreFails, Touch, WalInit,
       StartupActions, Listen, Sync, ProbeBegin, ProbeCheck, ProbeClear, ProbeKilled, Crash,
       KubeletRestart, NewPod, AppWrite, EndContainer, vars, scriptVars
  <2> QED
    BY <2>1 DEF CreatedInv
<1> DEFINE Made(n) == local[Db[n]] # Absent
           All == \A d \in DbName : local[d] # Absent
<1>1. /\ \A d \in DbName : creator[d] # "app"
      /\ pc \in {"clear", "restore", "touch", "walinit"} => \A n \in 1..(cur - 1) : Made(n)
      /\ (sock \/ app \/ probe = "clear" \/ pc \in {"startup", "replicate"}) => All
  BY DEF CreatedInv
<1>2. CASE NewPod
  BY <1>2 DEF NewPod, CreatedInv
<1>3. CASE RestoreFails
  <2>1. count'["failures"] > 0
    BY <1>3 DEF RestoreFails, Counted, TypeOK, Bound
  <2> QED
    BY <2>1 DEF Unnoticed
<1>4. ASSUME ~NewPod, ~RestoreFails
      PROVE  CreatedInv'
  <2>1. (\A d \in DbName : local[d] # Absent => local'[d] # Absent) /\ (All => All')
    BY <1>4, FilesStay
  <2>2. \A n \in 1..Len(Db) : Made(n) => Made(n)'
    BY <2>1, Names
  <2>3. \A d \in DbName : creator'[d] # "app"
    <3>1. CASE Restore \/ WalInit
      BY <3>1, <1>1, Names DEF Restore, WalInit, TypeOK
    <3>2. ASSUME NEW e \in DbName, AppWrite(e)
          PROVE  \A d \in DbName : creator'[d] # "app"
      BY <3>2, <1>1 DEF AppWrite, TypeOK
    <3>3. CASE UNCHANGED creator
      BY <3>3, <1>1
    <3> QED
      BY <1>4, <3>1, <3>2, <3>3
         DEF Next, Script, Probe, Environment, Start, ClearFlag, Touch, StartupActions, Listen, Sync,
             ProbeBegin, ProbeCheck, ProbeClear, ProbeKilled, Crash, KubeletRestart, EndContainer,
             vars, fileVars
  <2>4. ASSUME pc' \in {"clear", "restore", "touch", "walinit"}, NEW n \in 1..(cur' - 1)
        PROVE  Made(n)'
    <3>1. cur' \in 1..Len(Db) /\ cur \in 1..Len(Db) /\ Len(Db) \in Nat
      BY Names DEF TypeOK
    <3>2. n \in 1..Len(Db)
      <4>1. \A i, j, m \in Nat : m \in 1..(i - 1) /\ i \in 1..j => m \in 1..j
        OBVIOUS
      <4>2. cur' \in Nat /\ n \in Nat
        BY <2>4, <3>1
      <4> QED
        BY <2>4, <3>1, <4>1, <4>2
    <3>3. Made(n) \/ Made(n)'
      <4>1. CASE WalInit
        <5>1. pc = "walinit" /\ cur' = cur + 1
          BY <2>4, <4>1 DEF WalInit
        <5>2. local'[Db[cur]] # Absent
          BY <4>1, Names, Datas DEF WalInit, TypeOK
        <5>3. n \in 1..(cur - 1) \/ n = cur
          BY <3>1, <5>1
        <5> QED
          BY <1>1, <5>1, <5>2, <5>3
      <4>2. CASE Start
        BY <2>4, <4>2 DEF Start
      <4>3. CASE cur' = cur /\ pc \in {"clear", "restore", "touch", "walinit"}
        BY <1>1, <2>4, <4>3
      <4> QED
        BY <1>4, <2>4, <4>1, <4>2, <4>3
           DEF Next, Script, Probe, Environment, ClearFlag, Restore, Touch, StartupActions, Listen,
               Sync, ProbeBegin, ProbeCheck, ProbeClear, ProbeKilled, Crash, KubeletRestart, AppWrite,
               EndContainer, vars, scriptVars
    <3> QED
      BY <2>2, <3>2, <3>3
  <2>5. ASSUME sock' \/ app' \/ probe' = "clear" \/ pc' \in {"startup", "replicate"}
        PROVE  All'
    <3>1. CASE WalInit /\ pc' \in {"startup", "replicate"}
      <4>1. cur = Len(Db) /\ cur \in Nat /\ pc = "walinit"
        BY <3>1, Names DEF WalInit, TypeOK
      <4>2. local'[Db[cur]] # Absent
        BY <3>1, <4>1, Names, Datas DEF WalInit, TypeOK
      <4>3. \A n \in 1..Len(Db) : n = cur \/ n \in 1..(cur - 1)
        BY <4>1
      <4>4. ASSUME NEW n \in 1..Len(Db) PROVE local'[Db[n]] # Absent
        <5>1. CASE n = cur
          BY <4>2, <5>1
        <5>2. CASE n \in 1..(cur - 1)
          <6>1. Made(n)
            BY <1>1, <4>1, <5>2
          <6> QED
            BY <2>2, <6>1
        <5> QED
          BY <4>3, <5>1, <5>2
      <4> QED
        BY <4>4, Names
    <3>2. CASE sock \/ app \/ probe = "clear" \/ pc \in {"startup", "replicate"}
      BY <1>1, <2>1, <3>2
    <3>3. CASE Script \/ \E d \in DbName : Sync(d) \/ AppWrite(d)
      BY <1>4, <2>5, <3>1, <3>2, <3>3
         DEF Script, Start, ClearFlag, Restore, Touch, WalInit, StartupActions, Listen, Sync, AppWrite,
             probeVars, podVars, scriptVars, fileVars
    <3>4. CASE Probe
      <4>1. CASE ProbeBegin
        BY <2>5, <3>2, <4>1 DEF ProbeBegin, SocketExists, Succeed, scriptVars, fileVars, podVars
      <4>2. CASE ProbeCheck
        BY <2>5, <3>2, <4>2 DEF ProbeCheck, SocketExists, scriptVars, fileVars, podVars
      <4>3. CASE ProbeClear
        BY <3>2, <4>3 DEF ProbeClear
      <4> QED
        BY <3>4, <4>1, <4>2, <4>3 DEF Probe
    <3>5. CASE Environment
      BY <1>4, <2>5, <3>2, <3>5
         DEF Environment, ProbeKilled, Crash, KubeletRestart, EndContainer, TypeOK, podVars, scriptVars,
             fileVars
    <3>6. CASE UNCHANGED vars
      BY <2>5, <3>2, <3>6 DEF vars, scriptVars, fileVars, probeVars, podVars
    <3> QED
      BY <3>3, <3>4, <3>5, <3>6 DEF Next
  <2> HIDE DEF Made, All
  <2> QED
    BY <2>3, <2>4, <2>5 DEF CreatedInv, Made, All
<1> QED
  BY <1>2, <1>3, <1>4

\* Every step keeps the invariant: a step that is not sound is a failed restore
\* that nobody notices.
THEOREM Invariance == Spec => []IInv
<1>1. Init => IInv
  BY Initial DEF IInv
<1>2. ASSUME TypeOK, TypeOK', Sound, [Next]_vars PROVE Sound' \/ Unnoticed'
  BY <1>2, StartKeeps, ClearFlagKeeps, RestoreKeeps, RestoreFailsKeeps, TouchKeeps, WalInitKeeps,
     StartupKeeps, ListenKeeps, SyncKeeps, ProbeBeginKeeps, ProbeCheckKeeps, ProbeClearKeeps,
     ProbeKilledKeeps, CrashKeeps, KubeletRestartKeeps, NewPodKeeps, AppWriteKeeps, StutterKeeps
     DEF Next, Script, Probe, Environment
<1>3. TypeOK => count \in [DOMAIN Bound -> Nat]
  BY DEF TypeOK
<1>4. IInv /\ [Next]_vars => IInv'
  BY <1>2, <1>3, TypeStep, CreatedStep, CountKeeps DEF IInv
<1> QED
  BY <1>1, <1>4, PTL DEF Spec

\* The application starts only when its databases are back, unless a failed
\* restore went unnoticed.
THEOREM HeldBack == Spec => []ProbeHoldsBack
<1>1. IInv => ProbeHoldsBack
  BY DEF IInv, Sound, ProbeHoldsBack
<1> QED
  BY Invariance, <1>1, PTL

\* What has been replicated stays restorable, with the same exception.
THEOREM ReplicaSafe == Spec => ReplicaKeepsWrites
<1> DEFINE Grows == \A d \in DbName : replica[d] # Absent =>
                      replica'[d] # Absent /\ replica[d] \subseteq replica'[d]
<1>1. ASSUME TypeOK, Sound, [Next]_vars PROVE Grows
  <2>1. CASE UNCHANGED replica
    BY <2>1
  <2>2. CASE StartupActions
    <3> SUFFICES ASSUME NEW d \in DbName, replica[d] # Absent
                 PROVE  replica'[d] # Absent /\ replica[d] \subseteq replica'[d]
      OBVIOUS
    <3>1. replica'[d] = replica[d] \/ (local[d] # Absent /\ replica'[d] = local[d])
      BY <2>2 DEF StartupActions
    <3> QED
      BY <3>1, <1>1 DEF Sound, ContainedInv
  <2>3. ASSUME NEW d \in DbName, Sync(d) PROVE Grows
    <3>1. local[d] # Absent /\ replica' = [replica EXCEPT ![d] = local[d]]
      BY <2>3 DEF Sync
    <3> QED
      BY <3>1, <1>1 DEF TypeOK, Sound, ContainedInv
  <2> QED
    BY <1>1, <2>1, <2>2, <2>3
       DEF Next, Script, Probe, Environment, Start, ClearFlag, Restore, RestoreFails, Touch, WalInit,
           Listen, ProbeBegin, ProbeCheck, ProbeClear, ProbeKilled, Crash, KubeletRestart, NewPod,
           AppWrite, EndContainer, vars
<1>2. IInv /\ [Next]_vars => [Unnoticed \/ Grows]_vars
  BY <1>1 DEF IInv
<1> QED
  BY Invariance, <1>2, PTL DEF Spec, ReplicaKeepsWrites

\* No step of the sidecar takes a write away from a running application.
THEOREM LocalSafe == Spec => LocalKeepsWrites
<1> DEFINE Stay == \A d \in DbName : app' /\ local[d] # Absent =>
                     local'[d] # Absent /\ local[d] \subseteq local'[d]
<1>1. NewPod => ~app'
  BY DEF NewPod
<1>2. IInv /\ [Next]_vars => [Stay]_vars
  BY <1>1, FilesStay DEF IInv
<1> QED
  BY Invariance, <1>2, PTL DEF Spec, LocalKeepsWrites

\* The application of a rendered configuration finds files that litestream's
\* user has made, unless a failed restore went unnoticed.
THEOREM CreatedFirst == Spec => []CreatedByLitestream
<1>1. IInv => CreatedByLitestream
  BY DEF IInv, CreatedInv, CreatedByLitestream
<1> QED
  BY Invariance, <1>1, PTL
-----------------------------------------------------------------------------
(* The sidecar implements the backup.                                       *)

\* Without a write of the application, what is in a file or a replica was in one
\* of the two before.
LEMMA OthersMove ==
  ASSUME TypeOK, [Next]_vars, \A e \in DbName : ~AppWrite(e), NEW d \in DbName
  PROVE  /\ writes' = writes
         /\ local'[d] \in {local[d], replica[d], {}, Absent}
         /\ replica'[d] \in {replica[d], local[d]}
<1> USE DEF TypeOK
<1>1. Db[cur] \in DbName
  BY Names
<1>2. CASE Restore \/ WalInit \/ NewPod
  BY <1>1, <1>2 DEF Restore, WalInit, NewPod, boundVars
<1>3. CASE StartupActions
  BY <1>3 DEF StartupActions, fileVars, boundVars
<1>4. ASSUME NEW e \in DbName, Sync(e)
      PROVE  /\ writes' = writes
             /\ local'[d] \in {local[d], replica[d], {}, Absent}
             /\ replica'[d] \in {replica[d], local[d]}
  BY <1>4 DEF Sync, fileVars, boundVars
<1>5. CASE UNCHANGED <<local, replica, writes>>
  BY <1>5
<1> QED
  BY <1>2, <1>3, <1>4, <1>5
     DEF Next, Script, Probe, Environment, Start, ClearFlag, RestoreFails, Touch, Listen, ProbeBegin,
         ProbeCheck, ProbeClear, ProbeKilled, Crash, KubeletRestart, EndContainer, vars, fileVars,
         boundVars

\* What the application writes is one more, in one of the files.
LEMMA OneMore ==
  ASSUME TypeOK, NEW e \in DbName, AppWrite(e)
  PROVE  /\ writes \in Nat /\ writes' = writes + 1 /\ app /\ UNCHANGED <<replica, app, variant, count>>
         /\ Writes(local'[e]) = Writes(local[e]) \cup {writes'}
         /\ \A d \in DbName \ {e} : local'[d] = local[d]
<1> USE DEF TypeOK
<1>1. writes' \in 1..MaxWrites /\ writes \in Nat
  BY BoundAssumption DEF AppWrite
<1>2. local'[e] = (IF local[e] = Absent THEN {} ELSE local[e]) \cup {writes'}
  BY DEF AppWrite
<1>3. local'[e] \in Data
  BY <1>1, <1>2, Datas DEF Data
<1>4. local'[e] # Absent
  BY <1>3, BoundAssumption
<1> QED
  BY <1>1, <1>2, <1>4 DEF AppWrite, Writes, podVars, scriptVars

\* Nothing is found, in a file or in a replica, that the application has not
\* written.
THEOREM AllWritten == Spec => []NothingInvented
<1>1. Init => NothingInvented
  BY DEF Init, NothingInvented, Writes
<1>2. ASSUME TypeOK, NothingInvented, [Next]_vars PROVE NothingInvented'
  <2> SUFFICES ASSUME NEW d \in DbName
               PROVE  Writes(local'[d]) \cup Writes(replica'[d]) \subseteq 1..writes'
    BY DEF NothingInvented
  <2>1. Writes(local[d]) \subseteq 1..writes /\ Writes(replica[d]) \subseteq 1..writes
    BY <1>2 DEF NothingInvented
  <2>2. ASSUME NEW e \in DbName, AppWrite(e)
        PROVE  Writes(local'[d]) \cup Writes(replica'[d]) \subseteq 1..writes'
    <3>1. 1..writes \subseteq 1..writes' /\ writes' \in 1..writes'
      BY <1>2, <2>2, OneMore
    <3>2. replica' = replica
      BY <1>2, <2>2, OneMore
    <3>3. CASE d = e
      BY <1>2, <2>1, <2>2, <3>1, <3>2, <3>3, OneMore
    <3>4. CASE d # e
      BY <1>2, <2>1, <2>2, <3>1, <3>2, <3>4, OneMore
    <3> QED
      BY <3>3, <3>4
  <2>3. CASE \A e \in DbName : ~AppWrite(e)
    BY <1>2, <2>1, <2>3, OthersMove DEF Writes
  <2> QED
    BY <2>2, <2>3
<1>3. IInv => TypeOK
  BY DEF IInv
<1> QED
  BY <1>1, <1>2, <1>3, Invariance, PTL DEF Spec

\* What is replicated is stored when the application runs, and all of it has
\* been written.
LEMMA Covered ==
  ASSUME TypeOK, Sound, Sound', NothingInvented, NothingInvented'
  PROVE  /\ app => Replicated \subseteq Stored
         /\ app' => Replicated' \subseteq Stored'
         /\ Replicated' \subseteq 1..writes' /\ Stored' \subseteq 1..writes'
<1>1. app => \A d \in DbName : Writes(replica[d]) \subseteq Writes(local[d])
  BY DEF Sound, AppStartsRestored, Restored, ContainedInv, Writes
<1>2. app' => \A d \in DbName : Writes(replica'[d]) \subseteq Writes(local'[d])
  BY DEF Sound, AppStartsRestored, Restored, ContainedInv, Writes
<1>3. \A d \in DbName : Writes(replica'[d]) \subseteq 1..writes' /\ Writes(local'[d]) \subseteq 1..writes'
  BY DEF NothingInvented
<1> QED
  BY <1>1, <1>2, <1>3 DEF Replicated, Stored

\* Replicas only grow.
LEMMA ReplicaGrows ==
  ASSUME TypeOK, Sound, StartupActions \/ \E d \in DbName : Sync(d)
  PROVE  /\ UNCHANGED <<app, local, writes, variant, count>>
         /\ Replicated \subseteq Replicated'
<1>1. UNCHANGED <<app, local, writes, variant, count>>
  BY DEF StartupActions, Sync, fileVars, podVars, boundVars, scriptVars
<1>2. ASSUME NEW d \in DbName PROVE Writes(replica[d]) \subseteq Writes(replica'[d])
  <2>1. replica'[d] = replica[d] \/ (local[d] # Absent /\ replica'[d] = local[d])
    BY DEF StartupActions, Sync, TypeOK
  <2> QED
    BY <2>1 DEF Sound, ContainedInv, Writes
<1> QED
  BY <1>1, <1>2 DEF Replicated

\* Until a failed restore goes unnoticed, every step is one of the backup, or none.
LEMMA SoundStep ==
  ASSUME TypeOK, TypeOK', Sound, Sound', ~Unnoticed, ~Unnoticed',
         NothingInvented, NothingInvented', [Next]_vars
  PROVE  [Promise!Next]_(Promise!vars)
<1> Unnoticed = FALSE /\ Unnoticed' = FALSE /\ app \in BOOLEAN /\ app' \in BOOLEAN
  BY DEF Unnoticed, TypeOK
<1>1. CASE StartupActions \/ \E d \in DbName : Sync(d)
  <2>1. UNCHANGED <<app, local, writes>> /\ Replicated \subseteq Replicated'
    BY <1>1, ReplicaGrows
  <2>2. Stored' = Stored
    BY <2>1 DEF Stored
  <2>3. app => Replicated' \subseteq Stored
    BY <2>1, <2>2, Covered
  <2>4. Replicated' \subseteq 1..writes
    BY <2>1, Covered
  <2> QED
    BY <2>1, <2>2, <2>3, <2>4 DEF Promise!Next, Promise!Replicate
<1>2. ASSUME NEW e \in DbName, AppWrite(e) PROVE Promise!Next
  <2>1. writes' \notin 1..writes /\ 1..writes' = 1..writes \cup {writes'}
    BY <1>2, OneMore
  <2>2. Replicated' = Replicated
    BY <1>2, OneMore DEF Replicated
  <2>3. Stored' = Stored \cup {writes'}
    BY <1>2, OneMore DEF Stored
  <2> QED
    BY <1>2, <2>1, <2>2, <2>3, OneMore DEF Promise!Next, Promise!Write
<1>3. CASE NewPod
  <2>1. ~app' /\ UNCHANGED <<replica, writes>>
    BY <1>3 DEF NewPod
  <2>2. Replicated' = Replicated
    BY <2>1 DEF Replicated
  <2> QED
    BY <2>1, <2>2 DEF Promise!Next, Promise!StopApp, Promise!vars, TypeOK
<1>4. CASE ProbeBegin \/ ProbeClear
  <2>1. UNCHANGED <<local, replica, writes>> /\ (app' # app => ~app /\ app')
    BY <1>4 DEF ProbeBegin, ProbeClear, Succeed, fileVars, podVars, boundVars, TypeOK
  <2>2. Replicated' = Replicated /\ Stored' = Stored
    BY <2>1 DEF Replicated, Stored
  <2>3. app' => Replicated \subseteq Stored'
    BY <2>2, Covered
  <2>4. Stored' \subseteq 1..writes
    BY <2>1, Covered
  <2> QED
    BY <2>1, <2>2, <2>3, <2>4 DEF Promise!Next, Promise!StartApp, Promise!vars
<1>5. CASE Restore \/ WalInit
  <2>1. UNCHANGED <<app, replica, writes>>
    BY <1>5 DEF Restore, WalInit, podVars, boundVars
  <2>2. Replicated' = Replicated
    BY <2>1 DEF Replicated
  <2>3. ASSUME app, NEW d \in DbName PROVE Writes(local'[d]) = Writes(local[d])
    <3>1. Db[cur] \in DbName /\ {} # Absent
      BY Names, BoundAssumption DEF TypeOK, Data
    <3>2. Restored(Db[cur])
      BY <2>3, <3>1 DEF Sound, AppStartsRestored
    <3> QED
      BY <1>5, <3>1, <3>2 DEF Restore, Restores, Restored, WalInit, Writes, TypeOK
  <2>4. app => Stored' = Stored
    BY <2>3 DEF Stored
  <2> QED
    BY <2>1, <2>2, <2>4 DEF Promise!vars
<1>6. CASE UNCHANGED <<local, replica, writes, app>>
  <2>1. Replicated' = Replicated /\ Stored' = Stored
    BY <1>6 DEF Replicated, Stored
  <2> QED
    BY <1>6, <2>1 DEF Promise!vars
<1> QED
  BY <1>1, <1>2, <1>3, <1>4, <1>5, <1>6
     DEF Next, Script, Probe, Environment, Start, ClearFlag, RestoreFails, Touch, Listen, ProbeCheck,
         ProbeKilled, Crash, KubeletRestart, EndContainer, vars, fileVars, podVars, boundVars

\* The sidecar implements the backup: an application is started on top of its
\* replicas, and they never get less than they are, nor more than it has.
THEOREM Refinement == Spec => ImplementsBackup
<1>1. Init => Promise!Init
  BY DEF Init, Promise!Init, Replicated, Writes, Unnoticed, Bound
<1>2. ASSUME IInv, IInv', NothingInvented, NothingInvented', [Next]_vars
      PROVE  [Promise!Next]_(Promise!vars)
  <2>1. CASE Unnoticed'
    BY <2>1 DEF Promise!Next, Promise!Break
  <2>2. CASE ~Unnoticed'
    <3>1. ~Unnoticed
      BY <1>2, <2>2, CountKeeps DEF IInv, TypeOK
    <3> QED
      BY <1>2, <2>2, <3>1, SoundStep DEF IInv
  <2> QED
    BY <2>1, <2>2
<1> QED
  BY <1>1, <1>2, Invariance, AllWritten, PTL DEF Spec, ImplementsBackup, Promise!Spec
=============================================================================
