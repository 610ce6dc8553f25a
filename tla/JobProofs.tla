------------------------------ MODULE JobProofs ------------------------------
(* Proofs about the Pi-hole gravity job and the sync of a pull zone, for any *)
(* lists, instances and host names and any number of failures and changes   *)
(* by others: what a job leaves behind when it is over.                     *)
EXTENDS SmallPrograms, TLAPS

-----------------------------------------------------------------------------
(* The gravity job.                                                         *)

\* The indices of the instances, and that each of them is one.
LEMMA Indices ==
  /\ Len(Instances) \in Nat \ {0} /\ 1 \in 1..Len(Instances)
  /\ \A n \in 1..Len(Instances) : Instances[n] \in G!Instance
  /\ \A i \in G!Instance : \E n \in 1..Len(Instances) : Instances[n] = i
<1>1. Instances \in Seq({Instances[n] : n \in DOMAIN Instances}) /\ Instances # <<>>
  BY GravityAssumption
<1>2. Len(Instances) \in Nat /\ Len(Instances) # 0 /\ DOMAIN Instances = 1..Len(Instances)
  BY <1>1
<1> QED
  BY <1>2 DEF G!Instance

\* The instances have the first list at first.
LEMMA GravityInitial == G!Init => G!IInv
<1> SUFFICES ASSUME G!Init PROVE G!IInv
  OBVIOUS
<1>1. 1 \in 1..Len(Adlists)
  <2>1. Len(Adlists) \in Nat /\ Len(Adlists) # 0
    BY GravityAssumption
  <2> QED
    BY <2>1
<1> QED
  BY <1>1, Indices DEF G!Init, G!IInv, G!TypeOK, G!LoadedInv, G!LoopInv

\* A fault is one more.
LEMMA FaultStep ==
  ASSUME jobFaults \in Nat, G!Fault
  PROVE  jobFaults' \in Nat
  BY DEF G!Fault

\* Before the upload neither the object nor an instance changes; skip comes to
\* hold only when the object is the list.
LEMMA PrepareKeeps ==
  ASSUME G!IInv, G!Schedule \/ G!Download \/ G!Compare \/ G!Skip
  PROVE  G!IInv'
<1>1. /\ UNCHANGED <<published, object, due, loaded, interrupted>>
      /\ job \in {"none", "download", "compare", "upload"}
      /\ job' \in {"none", "download", "compare", "upload"}
      /\ instance' \in 1..Len(Instances) /\ skip' \in BOOLEAN /\ jobFaults' \in Nat
  BY Indices, FaultStep
     DEF G!Schedule, G!Download, G!Compare, G!Skip, G!NewPod, G!FreshSkip, G!IInv, G!TypeOK, G!pod
<1>2. G!TypeOK'
  BY <1>1 DEF G!IInv, G!TypeOK
<1>3. G!Unchanged
  BY DEF G!Schedule, G!Download, G!Compare, G!Skip, G!Unchanged
<1>4. G!LoadedInv'
  BY <1>1, <1>3 DEF G!IInv, G!LoadedInv
<1>5. job' \in {"download", "compare", "upload"} => instance' = 1
  BY DEF G!Schedule, G!Download, G!Compare, G!Skip, G!NewPod, G!IInv, G!LoopInv
<1>6. G!LoopInv'
  BY <1>1, <1>5 DEF G!LoopInv
<1> QED
  BY <1>2, <1>4, <1>6 DEF G!IInv

\* An upload that fails has changed nothing or is one that others see.
LEMMA UploadKeeps ==
  ASSUME G!IInv, G!Upload
  PROVE  G!IInv'
<1>1. /\ job = "upload" /\ ~skip
      /\ UNCHANGED <<published, list, skip, instance, due, loaded, interrupted>>
      /\ \/ object' = list /\ job' = "restart" /\ UNCHANGED jobFaults
         \/ object' \in {object, list} /\ G!Fault /\ job' = "upload"
  BY DEF G!Upload, G!pod
<1>2. G!TypeOK'
  BY <1>1, FaultStep DEF G!IInv, G!TypeOK
<1>3. G!LoadedInv'
  <2>1. ASSUME G!Unchanged' PROVE G!Unchanged /\ object' = object
    BY <1>1, <2>1 DEF G!Unchanged
  <2> QED
    BY <1>1, <2>1 DEF G!IInv, G!LoadedInv
<1>4. G!LoopInv'
  BY <1>1 DEF G!IInv, G!LoopInv
<1> QED
  BY <1>2, <1>3, <1>4 DEF G!IInv

\* The loop starts with the first instance and goes on to the next only when
\* that one has started anew; the object stays what it is.
LEMMA RestartKeeps ==
  ASSUME G!IInv, G!RolloutRestart \/ G!RolloutTimesOut
  PROVE  G!IInv'
<1>1. /\ job \in {"restart", "status"}
      /\ UNCHANGED <<published, object, list, skip, loaded, interrupted>>
      /\ \/ /\ job = "restart" /\ job' = "status"
            /\ due' = due \cup {Instances[instance]} /\ UNCHANGED <<instance, jobFaults>>
         \/ job' = "restart" /\ instance' = 1 /\ G!Fault /\ UNCHANGED due
  BY DEF G!RolloutRestart, G!RolloutTimesOut, G!RestartFails, G!AfterFailure
<1>2. G!TypeOK'
  BY <1>1, Indices, FaultStep DEF G!IInv, G!TypeOK
<1>3. G!LoadedInv'
  BY <1>1 DEF G!LoadedInv, G!Unchanged
<1>4. G!LoopInv'
  BY <1>1 DEF G!IInv, G!LoopInv
<1> QED
  BY <1>2, <1>3, <1>4 DEF G!IInv

\* When the last rollout is complete the loop has passed every instance.
LEMMA StatusKeeps ==
  ASSUME G!IInv, G!RolloutStatus
  PROVE  G!IInv'
<1>1. /\ job = "status" /\ Instances[instance] \notin due
      /\ UNCHANGED <<published, object, list, skip, due, loaded, jobFaults>>
      /\ instance < Len(Instances) =>
           instance' = instance + 1 /\ job' = "restart" /\ UNCHANGED interrupted
      /\ ~(instance < Len(Instances)) =>
           job' = "none" /\ interrupted' = FALSE /\ UNCHANGED instance
  BY DEF G!RolloutStatus, G!RolledOut
<1>2. instance \in Nat /\ Len(Instances) \in Nat /\ instance \in 1..Len(Instances)
  BY Indices DEF G!IInv, G!TypeOK
<1>3. \A n \in 1..instance : loaded[Instances[n]] = object
  <2>1. loaded[Instances[instance]] = object
    BY <1>1 DEF G!IInv, G!LoopInv
  <2>2. \A n \in 1..instance : n \in 1..(instance - 1) \/ n = instance
    BY <1>2
  <2> QED
    BY <1>1, <2>1, <2>2 DEF G!IInv, G!LoopInv
<1>4. CASE instance < Len(Instances)
  <2>1. G!TypeOK'
    BY <1>1, <1>2, <1>4 DEF G!IInv, G!TypeOK
  <2>2. G!LoadedInv'
    BY <1>1, <1>4 DEF G!LoadedInv, G!Unchanged
  <2>3. instance' - 1 = instance
    BY <1>1, <1>2, <1>4
  <2>4. G!LoopInv'
    BY <1>1, <1>3, <1>4, <2>3 DEF G!IInv, G!LoopInv
  <2> QED
    BY <2>1, <2>2, <2>4 DEF G!IInv
<1>5. CASE ~(instance < Len(Instances))
  <2>1. instance = Len(Instances)
    BY <1>2, <1>5
  <2>2. G!TypeOK'
    BY <1>1, <1>5 DEF G!IInv, G!TypeOK
  <2>3. \A i \in G!Instance : loaded[i] = object
    BY <1>3, <2>1, Indices
  <2>4. G!LoadedInv' /\ G!LoopInv'
    BY <1>1, <1>5, <2>3 DEF G!LoadedInv, G!LoopInv
  <2> QED
    BY <2>2, <2>4 DEF G!IInv
<1> QED
  BY <1>4, <1>5

\* A job that ends or loses its pod is interrupted, or has left the object alone.
LEMMA InterruptKeeps ==
  ASSUME G!IInv, G!GiveUp \/ G!PodLost
  PROVE  G!IInv'
<1>1. /\ UNCHANGED <<published, object, due, loaded>>
      /\ job' \in {"none", "download"} /\ jobFaults' \in Nat
      /\ interrupted' = (interrupted \/ G!Uploaded)
      /\ job # "none"
  BY FaultStep DEF G!GiveUp, G!PodLost, G!NewPod, G!Interrupt, G!IInv, G!TypeOK
<1>2. instance' \in 1..Len(Instances) /\ skip' \in BOOLEAN /\ (job' = "download" => instance' = 1)
  BY Indices DEF G!GiveUp, G!PodLost, G!NewPod, G!FreshSkip, G!pod, G!IInv, G!TypeOK
<1>3. interrupted' \in BOOLEAN
  BY <1>1 DEF G!IInv, G!TypeOK, G!Uploaded
<1>4. G!TypeOK'
  BY <1>1, <1>2, <1>3 DEF G!IInv, G!TypeOK
<1>5. ASSUME ~interrupted' PROVE G!Unchanged /\ ~interrupted
  BY <1>1, <1>5 DEF G!IInv, G!TypeOK, G!LoopInv, G!Uploaded, G!Unchanged
<1>6. G!LoadedInv'
  BY <1>1, <1>5 DEF G!IInv, G!LoadedInv
<1>7. G!LoopInv'
  BY <1>1, <1>2 DEF G!LoopInv
<1> QED
  BY <1>4, <1>6, <1>7 DEF G!IInv

\* An instance that starts has the object.
LEMMA StartsKeeps ==
  ASSUME G!IInv, NEW i \in G!Instance, G!InstanceStarts(i)
  PROVE  G!IInv'
<1>1. /\ due' = due \ {i} /\ loaded' = [loaded EXCEPT ![i] = object]
      /\ UNCHANGED <<published, object, job, list, skip, instance, interrupted>>
      /\ jobFaults' \in Nat
  BY FaultStep DEF G!InstanceStarts, G!pod, G!IInv, G!TypeOK
<1>2. \A e \in G!Instance : loaded'[e] = IF e = i THEN object ELSE loaded[e]
  BY <1>1 DEF G!IInv, G!TypeOK
<1>3. G!TypeOK'
  BY <1>1 DEF G!IInv, G!TypeOK
<1>4. G!LoadedInv'
  BY <1>1, <1>2 DEF G!IInv, G!LoadedInv, G!Unchanged
<1>5. G!LoopInv'
  <2>1. instance \in 1..Len(Instances) /\ instance \in Nat /\ Len(Instances) \in Nat
    BY Indices DEF G!IInv, G!TypeOK
  <2>2. \A n \in 1..(instance - 1) : n \in 1..Len(Instances)
    BY <2>1
  <2>3. Instances[instance] \in G!Instance /\ \A n \in 1..(instance - 1) : Instances[n] \in G!Instance
    BY <2>1, <2>2, Indices
  <2> QED
    BY <1>1, <1>2, <2>3 DEF G!IInv, G!LoopInv
<1> QED
  BY <1>3, <1>4, <1>5 DEF G!IInv

\* Every step keeps the invariant.
LEMMA GravityNextKeeps == G!IInv /\ [G!Next]_G!vars => G!IInv'
<1> SUFFICES ASSUME G!IInv, [G!Next]_G!vars PROVE G!IInv'
  OBVIOUS
<1>1. CASE UNCHANGED G!vars
  BY <1>1 DEF G!vars, G!pod, G!IInv, G!TypeOK, G!LoadedInv, G!LoopInv, G!Unchanged
<1>2. CASE G!Publish
  <2>1. /\ published' \in 1..Len(Adlists)
        /\ UNCHANGED <<object, job, list, skip, instance, due, loaded, interrupted, jobFaults>>
    <3>1. Len(Adlists) \in Nat
      BY GravityAssumption
    <3> QED
      BY <1>2, <3>1 DEF G!Publish, G!pod, G!IInv, G!TypeOK
  <2> QED
    BY <2>1 DEF G!IInv, G!TypeOK, G!LoadedInv, G!LoopInv, G!Unchanged
<1>3. CASE G!Next /\ ~G!Publish
  BY <1>3, PrepareKeeps, UploadKeeps, RestartKeeps, StatusKeeps, InterruptKeeps, StartsKeeps
     DEF G!Next, G!Job
<1> QED
  BY <1>1, <1>2, <1>3

\* The inductive invariant of the gravity job.
THEOREM GravityInvariance == G!Spec => []G!IInv
<1> QED
  BY GravityInitial, GravityNextKeeps, PTL DEF G!Spec

\* When no job runs every instance has the list in the bucket, unless a job
\* ended between its upload and its last restart.
THEOREM EndedRight == G!Spec => []EndedIsLoaded
<1>1. G!IInv => EndedIsLoaded
  BY DEF G!IInv, G!LoadedInv, G!Unchanged, EndedIsLoaded, G!EndedIsLoaded
<1> QED
  BY <1>1, GravityInvariance, PTL

-----------------------------------------------------------------------------
(* The sync of a pull zone.                                                 *)

\* The lines, and that each is a host name, none of Bunny's own.
LEMMA Names ==
  /\ Len(Wanted) \in Nat \ {0} /\ 1 \in 1..Len(Wanted)
  /\ \A n \in 1..Len(Wanted) :
       Wanted[n] \in B!WantedHosts /\ Wanted[n] \in Host /\ Wanted[n] \notin Managed
  /\ \A h \in B!WantedHosts : h \notin Managed /\ \E n \in 1..Len(Wanted) : Wanted[n] = h
<1>1. Wanted \in Seq(Host \ Managed) /\ Wanted # <<>>
  BY BunnyAssumption
<1>2. Len(Wanted) \in Nat /\ Len(Wanted) # 0 /\ DOMAIN Wanted = 1..Len(Wanted)
  BY <1>1
<1>3. \A n \in 1..Len(Wanted) : Wanted[n] \in Host \ Managed
  BY <1>1
<1> QED
  BY <1>2, <1>3 DEF B!WantedHosts

\* A fault is one more.
LEMMA SyncFaultStep ==
  ASSUME syncFaults \in Nat, B!Fault
  PROVE  syncFaults' \in Nat
  BY DEF B!Fault

\* No job has run at first.
LEMMA SyncInitial == B!Init => B!IInv
  BY Names, BunnyAssumption
     DEF B!Init, B!IInv, B!TypeOK, B!NoCert, B!AnswerInv, B!RemoveInv, B!LinesInv, B!CompleteIsSynced

\* A script that has still to ask Bunny relies on nothing.
LEMMA NothingYet ==
  ASSUME B!TypeOK', sync' \in {"crt", "key", "get"} \/ (disturbed' /\ (sync' = "remove" => line' = 1))
  PROVE  B!IInv'
  BY DEF B!IInv, B!AnswerInv, B!RemoveInv, B!LinesInv, B!CompleteIsSynced

\* What a request does to the zone leaves its parts of their types.
LEMMA ZoneTypes ==
  ASSUME B!TypeOK, NEW h \in Host,
         B!Remove(h) \/ B!Add(h) \/ B!SetCert(h) \/ B!SetSsl(h) \/ UNCHANGED B!zone
  PROVE  hosts' \subseteq Host /\ cert' \in [Host -> Nat] /\ ssl' \in [Host -> BOOLEAN]
<1>1. CASE B!Remove(h)
  BY <1>1 DEF B!Remove, B!TypeOK, B!NoCert
<1>2. CASE B!Add(h)
  BY <1>2 DEF B!Add, B!TypeOK
<1>3. CASE B!SetCert(h)
  BY <1>3 DEF B!SetCert, B!TypeOK
<1>4. CASE B!SetSsl(h)
  BY <1>4 DEF B!SetSsl, B!TypeOK
<1>5. CASE UNCHANGED B!zone
  BY <1>5 DEF B!zone, B!TypeOK
<1> QED
  BY <1>1, <1>2, <1>3, <1>4, <1>5

\* A request that fails has the script start over, whatever it has done.
LEMMA FailsKeeps ==
  ASSUME B!IInv, NEW h \in Host, NEW refused \in BOOLEAN,
         \/ B!Fails(refused, B!Remove(h)) \/ B!Fails(refused, B!Add(h))
         \/ B!Fails(refused, B!SetCert(h)) \/ B!Fails(refused, B!SetSsl(h)),
         UNCHANGED <<volume, crt, key, pzHosts, pzSsl, disturbed, edits>>
  PROVE  B!IInv'
<1>1. sync' = "crt" /\ UNCHANGED <<todo, line>> /\ syncFaults' \in Nat
  BY SyncFaultStep DEF B!Fails, B!StartOver, B!IInv, B!TypeOK
<1>2. hosts' \subseteq Host /\ cert' \in [Host -> Nat] /\ ssl' \in [Host -> BOOLEAN]
  <2>1. B!Remove(h) \/ B!Add(h) \/ B!SetCert(h) \/ B!SetSsl(h) \/ UNCHANGED B!zone
    BY DEF B!Fails
  <2> QED
    BY <2>1, ZoneTypes DEF B!IInv
<1>3. B!TypeOK'
  BY <1>1, <1>2 DEF B!IInv, B!TypeOK
<1> QED
  BY <1>1, <1>3, NothingYet

\* A new pod and the two reads of the certificate come before the answer.
LEMMA ReadKeeps ==
  ASSUME B!IInv, B!Schedule \/ B!ReadCrt \/ B!ReadKey
  PROVE  B!IInv'
<1>1. /\ sync' \in {"crt", "key", "get"} /\ crt' \in Nat /\ key' \in Nat
      /\ pzHosts' \subseteq Host /\ pzSsl' \subseteq Host
      /\ UNCHANGED <<volume, hosts, cert, ssl, todo, line, disturbed, edits, syncFaults>>
  BY DEF B!Schedule, B!ReadCrt, B!ReadKey, B!zone, B!pz, B!others, B!IInv, B!TypeOK
<1> QED
  BY <1>1, NothingYet DEF B!IInv, B!TypeOK

\* The answer is the zone.
LEMMA GetKeeps ==
  ASSUME B!IInv, B!Get
  PROVE  B!IInv'
<1>1. UNCHANGED <<volume, hosts, cert, ssl, crt, key, edits>>
  BY DEF B!Get, B!zone
<1>2. CASE B!StartOver /\ B!Fault /\ UNCHANGED <<B!pz, disturbed>>
  <2>1. /\ sync' = "crt" /\ UNCHANGED <<todo, line, pzHosts, pzSsl, disturbed>>
        /\ syncFaults' \in Nat
    BY <1>2, SyncFaultStep DEF B!StartOver, B!pz, B!IInv, B!TypeOK
  <2> QED
    BY <1>1, <2>1, NothingYet DEF B!IInv, B!TypeOK
<1>3. CASE ~(B!StartOver /\ B!Fault /\ UNCHANGED <<B!pz, disturbed>>)
  <2>1. /\ pzHosts' = hosts /\ pzSsl' = {h \in hosts : ssl[h]} /\ todo' = hosts \ Managed
        /\ line' = 1 /\ sync' = "remove" /\ disturbed' = FALSE /\ UNCHANGED syncFaults
    BY <1>3 DEF B!Get, B!FreshAnswer
  <2>2. B!TypeOK'
    BY <1>1, <2>1, Names DEF B!IInv, B!TypeOK
  <2> QED
    BY <1>1, <2>1, <2>2 DEF B!IInv, B!AnswerInv, B!RemoveInv, B!LinesInv, B!CompleteIsSynced
<1> QED
  BY <1>2, <1>3

\* What the first loop removes is not wanted.
LEMMA RemoveKeeps ==
  ASSUME B!IInv, NEW h \in Host, B!RemoveHost(h)
  PROVE  B!IInv'
<1>1. /\ sync = "remove" /\ h \in todo /\ h \notin B!WantedHosts
      /\ UNCHANGED <<volume, crt, key, pzHosts, pzSsl, disturbed, edits>>
  BY DEF B!RemoveHost, B!pz, B!others
<1>2. CASE B!Fails(h \notin hosts, B!Remove(h))
  BY <1>1, <1>2, FailsKeeps
<1>3. CASE h \in hosts /\ B!Remove(h) /\ todo' = todo \ {h} /\ UNCHANGED <<sync, line, syncFaults>>
  <2>1. hosts' = hosts \ {h} /\ \A e \in Host \ {h} : ssl'[e] = ssl[e]
    BY <1>3 DEF B!Remove, B!IInv, B!TypeOK
  <2>2. hosts' \subseteq Host /\ cert' \in [Host -> Nat] /\ ssl' \in [Host -> BOOLEAN]
    BY <1>3, ZoneTypes DEF B!IInv
  <2>3. B!TypeOK'
    BY <1>1, <1>3, <2>2 DEF B!IInv, B!TypeOK
  <2>4. B!AnswerInv'
    <3>1. \A e \in B!WantedHosts : e \in Host \ {h}
      BY <1>1, Names
    <3> QED
      BY <1>1, <1>3, <2>1, <3>1 DEF B!IInv, B!AnswerInv
  <2>5. B!RemoveInv'
    BY <1>1, <1>3, <2>1 DEF B!IInv, B!RemoveInv
  <2> QED
    BY <1>1, <1>3, <2>3, <2>4, <2>5 DEF B!IInv, B!LinesInv, B!CompleteIsSynced
<1> QED
  BY <1>2, <1>3 DEF B!RemoveHost

\* The first loop ends when only wanted host names are left, or Bunny's own.
LEMMA RemoveEndKeeps ==
  ASSUME B!IInv, B!RemoveEnd
  PROVE  B!IInv'
<1>1. /\ sync = "remove" /\ todo \subseteq B!WantedHosts /\ sync' = "add"
      /\ UNCHANGED <<volume, hosts, cert, ssl, crt, key, pzHosts, pzSsl, todo, line, disturbed,
                     edits, syncFaults>>
  BY DEF B!RemoveEnd, B!zone, B!pz, B!others
<1>2. B!TypeOK'
  BY <1>1 DEF B!IInv, B!TypeOK
<1>3. B!AnswerInv'
  BY <1>1 DEF B!IInv, B!AnswerInv
<1>4. B!LinesInv'
  <2>1. line = 1 /\ (~disturbed => hosts \ Managed = todo)
    BY <1>1 DEF B!IInv, B!RemoveInv
  <2>2. 1..(line - 1) = {} /\ ~(line > 1)
    BY <2>1
  <2> QED
    BY <1>1, <2>1, <2>2 DEF B!LinesInv
<1> QED
  BY <1>1, <1>2, <1>3, <1>4 DEF B!IInv, B!RemoveInv, B!CompleteIsSynced

\* What the lines before the current one say holds on while a request changes
\* only what it makes as it is wanted.
LEMMA LinesStay ==
  ASSUME B!IInv, sync \in {"add", "cert", "ssl"}, ~disturbed, UNCHANGED <<crt, line>>,
         hosts \subseteq hosts', \A h \in B!WantedHosts : ssl[h] => ssl'[h],
         \A h \in B!WantedHosts : cert'[h] \in {cert[h], crt}
  PROVE  \A m \in 1..(line - 1) : LET h == Wanted[m] IN h \in hosts' /\ ssl'[h] /\ cert'[h] = crt'
<1> SUFFICES ASSUME NEW m \in 1..(line - 1)
             PROVE  Wanted[m] \in hosts' /\ ssl'[Wanted[m]] /\ cert'[Wanted[m]] = crt
  OBVIOUS
<1>1. line \in Nat /\ Len(Wanted) \in Nat /\ line \in 1..Len(Wanted)
  BY Names DEF B!IInv, B!TypeOK
<1>2. m \in 1..Len(Wanted)
  BY <1>1
<1>3. Wanted[m] \in B!WantedHosts
  BY <1>2, Names
<1>4. Wanted[m] \in hosts /\ ssl[Wanted[m]] /\ cert[Wanted[m]] = crt
  BY DEF B!IInv, B!LinesInv
<1> QED
  BY <1>3, <1>4

\* The line's host name is one that is wanted.
LEMMA LineName ==
  ASSUME B!TypeOK
  PROVE  /\ Wanted[line] \in B!WantedHosts /\ Wanted[line] \in Host /\ Wanted[line] \notin Managed
         /\ line \in Nat /\ Len(Wanted) \in Nat /\ 1 <= line /\ line <= Len(Wanted)
<1>1. line \in 1..Len(Wanted)
  BY DEF B!TypeOK
<1> QED
  BY <1>1, Names

\* A host name that the answer has is there; any other is added.
LEMMA AddKeeps ==
  ASSUME B!IInv, B!AddHost
  PROVE  B!IInv'
<1> DEFINE h == Wanted[line]
<1>1. /\ sync = "add"
      /\ UNCHANGED <<volume, crt, key, pzHosts, pzSsl, disturbed, edits>>
  BY DEF B!AddHost, B!pz, B!others
<1>2. h \in B!WantedHosts /\ h \in Host /\ h \notin Managed
  BY LineName DEF B!IInv
<1> HIDE DEF h
<1>3. CASE B!Fails(h \in hosts, B!Add(h))
  <2>1. (h \in hosts) \in BOOLEAN
    OBVIOUS
  <2> QED
    BY <1>1, <1>2, <1>3, <2>1, FailsKeeps
<1>4. CASE /\ sync' = "cert" /\ UNCHANGED <<cert, ssl, todo, line, syncFaults>>
           /\ hosts' \in {hosts, hosts \cup {h}} /\ (~disturbed => h \in hosts')
  <2>1. hosts \subseteq hosts' /\ hosts' \subseteq hosts \cup {h}
    BY <1>4
  <2>2. B!TypeOK'
    BY <1>1, <1>2, <1>4, <2>1 DEF B!IInv, B!TypeOK
  <2>3. B!AnswerInv'
    BY <1>1, <1>4, <2>1 DEF B!IInv, B!AnswerInv
  <2>4. B!LinesInv'
    <3> SUFFICES ASSUME ~disturbed PROVE B!LinesInv'
      BY <1>1 DEF B!LinesInv
    <3>1. \A m \in 1..(line - 1) : LET g == Wanted[m] IN g \in hosts' /\ ssl'[g] /\ cert'[g] = crt'
      BY <1>1, <1>4, <2>1, LinesStay
    <3>2. hosts' \ Managed \subseteq B!WantedHosts
      BY <1>1, <1>2, <2>1 DEF B!IInv, B!LinesInv
    <3>3. line' > 1 => crt' = key'
      BY <1>1, <1>4 DEF B!IInv, B!LinesInv
    <3> QED
      BY <1>1, <1>4, <3>1, <3>2, <3>3 DEF B!LinesInv, h
  <2> QED
    BY <1>1, <1>4, <2>2, <2>3, <2>4 DEF B!IInv, B!RemoveInv, B!CompleteIsSynced
<1>5. ASSUME h \in pzHosts, ~disturbed PROVE h \in hosts
  BY <1>1, <1>2, <1>5 DEF B!IInv, B!AnswerInv
<1> QED
  BY <1>3, <1>4, <1>5 DEF B!AddHost, B!Add, B!zone, h

\* A certificate is taken with its own key only.
LEMMA CertKeeps ==
  ASSUME B!IInv, B!AddCertificate
  PROVE  B!IInv'
<1> DEFINE h == Wanted[line]
           refused == h \notin hosts \/ crt # key
<1>1. /\ sync = "cert"
      /\ UNCHANGED <<volume, crt, key, pzHosts, pzSsl, disturbed, edits>>
  BY DEF B!AddCertificate, B!pz, B!others
<1>2. h \in B!WantedHosts /\ h \in Host
  BY LineName DEF B!IInv
<1> HIDE DEF h
<1>3. CASE B!Fails(refused, B!SetCert(h))
  BY <1>1, <1>2, <1>3, FailsKeeps
<1>4. CASE ~refused /\ B!SetCert(h) /\ sync' = "ssl" /\ UNCHANGED <<todo, line, syncFaults>>
  <2>1. /\ UNCHANGED <<hosts, ssl>> /\ cert'[h] = crt
        /\ \A e \in Host : cert'[e] \in {cert[e], crt}
    BY <1>2, <1>4 DEF B!SetCert, B!IInv, B!TypeOK
  <2>2. B!TypeOK'
    <3>1. hosts' \subseteq Host /\ cert' \in [Host -> Nat] /\ ssl' \in [Host -> BOOLEAN]
      BY <1>2, <1>4, ZoneTypes DEF B!IInv
    <3> QED
      BY <1>1, <1>4, <3>1 DEF B!IInv, B!TypeOK
  <2>3. B!AnswerInv'
    BY <1>1, <1>4, <2>1 DEF B!IInv, B!AnswerInv
  <2>4. B!LinesInv'
    <3> SUFFICES ASSUME ~disturbed PROVE B!LinesInv'
      BY <1>1 DEF B!LinesInv
    <3>1. \A g \in B!WantedHosts : g \in Host
      BY Names
    <3>2. \A m \in 1..(line - 1) : LET g == Wanted[m] IN g \in hosts' /\ ssl'[g] /\ cert'[g] = crt'
      BY <1>1, <1>4, <2>1, <3>1, LinesStay
    <3>3. hosts' \ Managed \subseteq B!WantedHosts
      BY <1>1, <2>1 DEF B!IInv, B!LinesInv
    <3> QED
      BY <1>1, <1>4, <2>1, <3>2, <3>3 DEF B!LinesInv, h
  <2> QED
    BY <1>1, <1>4, <2>2, <2>3, <2>4 DEF B!IInv, B!RemoveInv, B!CompleteIsSynced
<1> QED
  BY <1>3, <1>4 DEF B!AddCertificate, h

\* The last line ends the job, and every line before it is as it is wanted.
LEMMA SslKeeps ==
  ASSUME B!IInv, B!SetForceSsl
  PROVE  B!IInv'
<1> DEFINE h == Wanted[line]
<1>1. /\ sync = "ssl"
      /\ UNCHANGED <<volume, crt, key, pzHosts, pzSsl, disturbed, edits>>
  BY DEF B!SetForceSsl, B!pz, B!others
<1>2. /\ h \in B!WantedHosts /\ h \in Host
      /\ line \in Nat /\ Len(Wanted) \in Nat /\ 1 <= line /\ line <= Len(Wanted)
  BY LineName DEF B!IInv
<1> HIDE DEF h
<1>3. CASE B!Fails(h \notin hosts, B!SetSsl(h))
  BY <1>1, <1>2, <1>3, FailsKeeps
<1>4. CASE /\ B!NextLine /\ UNCHANGED <<hosts, cert, todo, syncFaults>>
           /\ UNCHANGED ssl \/ B!SetSsl(h)
           /\ ~disturbed => ssl'[h]
  <2>1. /\ \A e \in Host : ssl[e] => ssl'[e]
        /\ ssl' \in [Host -> BOOLEAN]
    BY <1>2, <1>4 DEF B!SetSsl, B!IInv, B!TypeOK
  <2>2. ASSUME ~disturbed
        PROVE  /\ crt = key /\ hosts \ Managed \subseteq B!WantedHosts
               /\ \A m \in 1..line : LET g == Wanted[m] IN g \in hosts /\ ssl'[g] /\ cert[g] = crt
    <3>1. \A g \in B!WantedHosts : g \in Host
      BY Names
    <3>2. \A m \in 1..(line - 1) : LET g == Wanted[m] IN g \in hosts /\ ssl'[g] /\ cert[g] = crt
      <4> SUFFICES ASSUME NEW m \in 1..(line - 1)
                   PROVE  Wanted[m] \in hosts /\ ssl'[Wanted[m]] /\ cert[Wanted[m]] = crt
        OBVIOUS
      <4>1. Wanted[m] \in hosts /\ ssl[Wanted[m]] /\ cert[Wanted[m]] = crt
        BY <1>1, <2>2 DEF B!IInv, B!LinesInv
      <4>2. Wanted[m] \in Host
        BY <4>1 DEF B!IInv, B!TypeOK
      <4> QED
        BY <2>1, <4>1, <4>2
    <3>3. h \in hosts /\ ssl'[h] /\ cert[h] = crt /\ crt = key
      BY <1>1, <1>4, <2>2 DEF B!IInv, B!LinesInv, h
    <3>4. \A m \in 1..line : m \in 1..(line - 1) \/ m = line
      BY <1>2
    <3>5. hosts \ Managed \subseteq B!WantedHosts
      BY <1>1, <2>2 DEF B!IInv, B!LinesInv
    <3> QED
      BY <3>2, <3>3, <3>4, <3>5 DEF h
  <2>3. B!AnswerInv'
    <3>1. \A g \in B!WantedHosts : g \in Host
      BY Names
    <3> QED
      BY <1>1, <1>4, <2>1, <3>1 DEF B!NextLine, B!IInv, B!AnswerInv
  <2>4. CASE line < Len(Wanted)
    <3>1. line' = line + 1 /\ sync' = "add"
      BY <1>4, <2>4 DEF B!NextLine
    <3>2. B!TypeOK'
      BY <1>1, <1>2, <1>4, <2>1, <2>4, <3>1 DEF B!IInv, B!TypeOK
    <3>3. line' - 1 = line
      BY <1>2, <3>1
    <3>4. B!LinesInv'
      BY <1>1, <1>4, <2>2, <3>1, <3>3 DEF B!LinesInv
    <3> QED
      BY <2>3, <3>1, <3>2, <3>4 DEF B!IInv, B!RemoveInv, B!CompleteIsSynced
  <2>5. CASE ~(line < Len(Wanted))
    <3>1. line' = line /\ sync' = "none" /\ line = Len(Wanted)
      BY <1>2, <1>4, <2>5 DEF B!NextLine
    <3>2. B!TypeOK'
      BY <1>1, <1>4, <2>1, <3>1 DEF B!IInv, B!TypeOK
    <3>3. ASSUME ~disturbed PROVE crt' = key' /\ B!Synced(crt)'
      <4>1. \A g \in B!WantedHosts : g \in hosts /\ ssl'[g] /\ cert[g] = crt /\ g \notin Managed
        BY <2>2, <3>1, <3>3, Names
      <4>2. crt = key /\ hosts \ Managed \subseteq B!WantedHosts
        BY <2>2, <3>3
      <4> QED
        BY <1>1, <1>4, <4>1, <4>2 DEF B!Synced
    <3>4. B!CompleteIsSynced'
      BY <1>1, <3>3 DEF B!CompleteIsSynced
    <3> QED
      BY <2>3, <3>1, <3>2, <3>4 DEF B!IInv, B!RemoveInv, B!LinesInv
  <2> QED
    BY <2>4, <2>5
<1>5. ASSUME ~B!WithoutSsl(h), ~disturbed PROVE ssl[h]
  BY <1>1, <1>2, <1>5 DEF B!WithoutSsl, B!IInv, B!AnswerInv
<1>6. B!SetSsl(h) => ssl'[h] /\ UNCHANGED <<hosts, cert>>
  BY <1>2 DEF B!SetSsl, B!IInv, B!TypeOK
<1>7. \/ ~B!WithoutSsl(h) /\ B!NextLine /\ UNCHANGED <<hosts, cert, ssl, todo, syncFaults>>
      \/ B!SetSsl(h) /\ B!NextLine /\ UNCHANGED <<todo, syncFaults>>
      \/ B!Fails(h \notin hosts, B!SetSsl(h))
  BY DEF B!SetForceSsl, B!zone, h
<1> QED
  BY <1>3, <1>4, <1>5, <1>6, <1>7

\* What others do to the zone, and a job that is given up, disturb it; a renewal
\* changes only the volume.
LEMMA OthersKeep ==
  ASSUME B!IInv, B!GiveUp \/ B!Renew \/ \E h \in Host \ Managed : B!Edit(h)
  PROVE  B!IInv'
<1>1. CASE B!GiveUp
  <2>1. /\ sync' = "none" /\ disturbed' = TRUE /\ syncFaults' \in Nat
        /\ UNCHANGED <<volume, hosts, cert, ssl, crt, key, pzHosts, pzSsl, todo, line, edits>>
    BY <1>1, SyncFaultStep DEF B!GiveUp, B!zone, B!pz, B!IInv, B!TypeOK
  <2> QED
    BY <2>1, NothingYet DEF B!IInv, B!TypeOK
<1>2. CASE B!Renew
  <2>1. /\ volume' = volume + 1
        /\ UNCHANGED <<hosts, cert, ssl, sync, crt, key, pzHosts, pzSsl, todo, line, disturbed, edits,
                       syncFaults>>
    BY <1>2 DEF B!Renew, B!zone, B!pz, B!others
  <2> QED
    BY <2>1 DEF B!IInv, B!TypeOK, B!AnswerInv, B!RemoveInv, B!LinesInv, B!CompleteIsSynced, B!Synced
<1>3. ASSUME NEW h \in Host \ Managed, B!Edit(h) PROVE B!IInv'
  <2>1. /\ disturbed' = TRUE /\ edits' \in Nat
        /\ UNCHANGED <<volume, sync, crt, key, pzHosts, pzSsl, todo, line, syncFaults>>
    BY <1>3 DEF B!Edit, B!pz, B!IInv, B!TypeOK
  <2>2. hosts' \subseteq Host /\ cert' \in [Host -> Nat] /\ ssl' \in [Host -> BOOLEAN]
    BY <1>3, ZoneTypes DEF B!Edit, B!IInv
  <2>3. B!TypeOK'
    BY <2>1, <2>2 DEF B!IInv, B!TypeOK
  <2> QED
    BY <2>1, <2>3, NothingYet DEF B!IInv, B!RemoveInv
<1> QED
  BY <1>1, <1>2, <1>3

\* Every step keeps the invariant.
LEMMA SyncNextKeeps == B!IInv /\ [B!Next]_B!vars => B!IInv'
<1> SUFFICES ASSUME B!IInv, [B!Next]_B!vars PROVE B!IInv'
  OBVIOUS
<1>1. CASE UNCHANGED B!vars
  BY <1>1 DEF B!vars, B!zone, B!pz, B!others, B!IInv, B!TypeOK, B!AnswerInv, B!RemoveInv, B!LinesInv,
     B!CompleteIsSynced, B!Synced
<1>2. CASE B!Next
  BY <1>2, ReadKeeps, GetKeeps, RemoveKeeps, RemoveEndKeeps, AddKeeps, CertKeeps, SslKeeps, OthersKeep
     DEF B!Next, B!Job
<1> QED
  BY <1>1, <1>2

\* The inductive invariant of the sync.
THEOREM SyncInvariance == B!Spec => []B!IInv
<1> QED
  BY SyncInitial, SyncNextKeeps, PTL DEF B!Spec

\* A job that is complete leaves the zone as it is wanted, unless somebody else
\* has changed it since the answer.
THEOREM CompleteRight == B!Spec => []CompleteIsSynced
<1>1. B!IInv => CompleteIsSynced
  BY DEF B!IInv, CompleteIsSynced
<1> QED
  BY <1>1, SyncInvariance, PTL
=============================================================================
