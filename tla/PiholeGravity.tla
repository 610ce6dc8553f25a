--------------------------- MODULE PiholeGravity ---------------------------
(***************************************************************************)
(* pihole/cronjob.yaml: a job that downloads the block lists, compares them *)
(* with the object in the bucket, uploads them if they differ, and then     *)
(* restarts the Pi-hole instances one after the other, each of which loads  *)
(* the object when its pod starts (pihole/instance/statefulset.yaml).       *)
(* Kubernetes, the bucket and the publishers of the lists are external.     *)
(***************************************************************************)
EXTENDS Naturals, Sequences, FiniteSets

CONSTANTS
  Adlists,    \* the lists that are published, one after the other
  Instances,  \* INSTANCES, in their order
  MaxFaults   \* bound on commands that fail and pods that get lost

VARIABLES
  published,    \* which list is published
  object,       \* the lists whose lines are in the object in the bucket
  stage,        \* the command of the job that is next
  list,         \* the lists whose lines are in combined.list
  skip,         \* whether /tmp/skip is there
  instance,     \* the index of the instance that is restarted
  due,          \* instances whose pod has still to be replaced
  loaded,       \* loaded[i]: the lists that an instance has
  interrupted,  \* a job has ended between upload and restarts (history)
  faults        \* failures so far

Instance == {Instances[n] : n \in DOMAIN Instances}

pod == <<list, skip, instance>>
vars == <<published, object, stage, pod, due, loaded, interrupted, faults>>

Init ==
  /\ published = 1
  /\ object = {Adlists[1]}
  /\ stage = "none"
  /\ list = {} /\ skip = FALSE /\ instance = 1
  /\ due = {}
  /\ loaded = [i \in Instance |-> object]
  /\ interrupted = FALSE
  /\ faults = 0

Fault == faults < MaxFaults /\ faults' = faults + 1

-----------------------------------------------------------------------------
\* Mutated: the volume of the pods outlives them.
KeptSkip == skip
FreshSkip == FALSE

\* A pod with an empty volume.
NewPod ==
  /\ stage' = "download"
  /\ list' = {} /\ skip' = FreshSkip /\ instance' = 1

\* concurrencyPolicy: Forbid.
Schedule ==
  /\ stage = "none"
  /\ NewPod
  /\ UNCHANGED <<published, object, due, loaded, interrupted, faults>>

\* What is downloaded is appended, also to what an attempt that failed has left.
Download ==
  /\ stage = "download"
  /\ \/ /\ list' = list \cup {Adlists[published]}
        /\ \/ stage' = "compare" /\ UNCHANGED faults
           \/ stage' = "download" /\ Fault
     \/ UNCHANGED <<stage, list>> /\ Fault
  /\ UNCHANGED <<published, object, skip, instance, due, loaded, interrupted>>

\* The ETag is the MD5 sum of the content.
Compare ==
  /\ stage = "compare"
  /\ \/ /\ skip' = (skip \/ object = list)
        /\ stage' = "upload"
        /\ UNCHANGED faults
     \/ stage' = "download" /\ Fault /\ UNCHANGED skip
  /\ UNCHANGED <<published, object, list, instance, due, loaded, interrupted>>

Upload ==
  /\ stage = "upload"
  /\ ~skip
  /\ \/ object' = list /\ stage' = "restart" /\ UNCHANGED faults
     \/ object' \in {object, list} /\ Fault /\ UNCHANGED stage
  /\ UNCHANGED <<published, pod, due, loaded, interrupted>>

\* Both containers that follow exit at once, and the job is complete.
Skip ==
  /\ stage = "upload"
  /\ skip
  /\ stage' = "none"
  /\ UNCHANGED <<published, object, pod, due, loaded, interrupted, faults>>

\* Mutated: the loop is not the last command whose status counts.
StatusOfLastCommand == "none"
AfterFailure == "restart"

\* The status of the loop is that of kubectl, under pipefail, and the container
\* starts with the first instance again.
RestartFails ==
  /\ Fault
  /\ stage' = AfterFailure
  /\ instance' = 1

RolloutRestart ==
  /\ stage = "restart"
  /\ \/ /\ due' = due \cup {Instances[instance]}
        /\ stage' = "status"
        /\ UNCHANGED <<instance, faults>>
     \/ RestartFails /\ UNCHANGED due
  /\ UNCHANGED <<published, object, list, skip, loaded, interrupted>>

RolledOut == Instances[instance] \notin due

\* The rollout is complete; after the last one the job is.
RolloutStatus ==
  /\ stage = "status"
  /\ RolledOut
  /\ IF instance < Len(Instances)
       THEN /\ instance' = instance + 1 /\ stage' = "restart"
            /\ UNCHANGED interrupted
       ELSE stage' = "none" /\ interrupted' = FALSE /\ UNCHANGED instance
  /\ UNCHANGED <<published, object, list, skip, due, loaded, faults>>

\* It is not in 180 seconds.
RolloutTimesOut ==
  /\ stage = "status"
  /\ RestartFails
  /\ UNCHANGED <<published, object, list, skip, due, loaded, interrupted>>

\* The list is in the bucket, and some instance may not have it.
Uploaded ==
  /\ stage \in {"upload", "restart", "status"}
  /\ ~skip
  /\ object = list

Interrupt == interrupted' = (interrupted \/ Uploaded)

\* The job has failed as often as it may, and only the next one goes on.
GiveUp ==
  /\ stage # "none"
  /\ Fault /\ Interrupt
  /\ stage' = "none"
  /\ UNCHANGED <<published, object, pod, due, loaded>>

\* The pod is evicted, or its sandbox is made anew, which keeps the volume.
PodLost ==
  /\ stage # "none"
  /\ Fault /\ Interrupt
  /\ \/ NewPod
     \/ stage' = "download" /\ instance' = 1 /\ UNCHANGED <<list, skip>>
  /\ UNCHANGED <<published, object, due, loaded>>

\* The pod of an instance is replaced, because the job wants it or for another
\* reason; its init container downloads the object.
InstanceStarts(i) ==
  /\ \/ i \in due /\ UNCHANGED faults
     \/ Fault
  /\ due' = due \ {i}
  /\ loaded' = [loaded EXCEPT ![i] = object]
  /\ UNCHANGED <<published, object, stage, pod, interrupted>>

Publish ==
  /\ published < Len(Adlists)
  /\ published' = published + 1
  /\ UNCHANGED <<object, stage, pod, due, loaded, interrupted, faults>>

-----------------------------------------------------------------------------
Job ==
  \/ Schedule \/ Download \/ Compare \/ Upload \/ Skip
  \/ RolloutRestart \/ RolloutStatus

Next ==
  \/ Job \/ RolloutTimesOut \/ GiveUp \/ PodLost \/ Publish
  \/ \E i \in Instance : InstanceStarts(i)

Spec == Init /\ [][Next]_vars

(* The schedule comes round, commands end, and pods start.                  *)
Fairness == WF_vars(Job) /\ \A i \in Instance : WF_vars(i \in due /\ InstanceStarts(i))

-----------------------------------------------------------------------------
(* Properties.                                                              *)

\* When no job runs, every instance has the list in the bucket, unless a job
\* ended after its upload and before the last restart: the jobs that follow
\* find the list they would upload, and skip the instances that are left.
EndedIsLoaded ==
  stage = "none" /\ ~interrupted => \A i \in Instance : loaded[i] = object

\* The job waits for each rollout, so that it never has more than one instance
\* down (minAvailable: 1).
OneInstanceAtATime == Cardinality(due) <= 1

\* With the same exception every instance has the list that is published, and
\* nothing of older ones.
ListsAgree ==
  interrupted \/ \A i \in Instance : loaded[i] = {Adlists[published]}

TypeOK ==
  /\ published \in 1..Len(Adlists)
  /\ stage \in {"none", "download", "compare", "upload", "restart", "status"}
  /\ skip \in BOOLEAN
  /\ instance \in 1..Len(Instances)
  /\ due \subseteq Instance
  /\ DOMAIN loaded = Instance
  /\ interrupted \in BOOLEAN
  /\ faults \in Nat

\* The inductive invariant.  Until an upload changes the object, every instance
\* has it, unless a job was interrupted;
Unchanged == stage \in {"none", "download", "compare"} \/ (stage = "upload" /\ (skip \/ object # list))

LoadedInv == Unchanged /\ ~interrupted => \A i \in Instance : loaded[i] = object

\* and from then on those have it that the loop has passed.
LoopInv ==
  /\ stage \in {"download", "compare", "upload"} => instance = 1
  /\ stage \in {"restart", "status"} =>
       /\ ~skip /\ object = list
       /\ \A n \in 1..(instance - 1) : loaded[Instances[n]] = object
       /\ stage = "status" => Instances[instance] \in due \/ loaded[Instances[instance]] = object

IInv == TypeOK /\ LoadedInv /\ LoopInv
=============================================================================
