------------------------------ MODULE WatchHub ------------------------------
(***************************************************************************)
(* The trusted-IPs plugin of Traefik shares the watch streams it keeps open *)
(* to the Kubernetes API between middleware instances.  This module models *)
(* the threads that meet there: New (one caller per instance), the         *)
(* goroutine that folds published sets into an instance's trusted IPs, the *)
(* goroutine that unsubscribes an instance when its context ends, and the  *)
(* goroutine of each watch stream.                                         *)
(*                                                                         *)
(* What a stream carries is abstracted to the version of the watched       *)
(* collection (module WatchStream models the events themselves).           *)
(***************************************************************************)
EXTENDS Naturals, Sequences

CONSTANTS
  Inst,         \* middleware instances, one call of New each
  Key,          \* watch keys: logKey@path@labelSelector
  Plan,         \* Plan[i]: the keys New connects to for instance i, in order
  Cancellable,  \* instances whose context Traefik cancels at a reload
  MaxVersion,   \* bound on the changes of one collection
  None          \* no watch, no instance

Watch == Inst \X Key   \* a stream is named by the instance that created it
Creator(w) == w[1]
KeyOf(w) == w[2]
Stream(i, k) == <<i, k>>

ASSUME PlanAssumption ==
  /\ Plan \in [Inst -> Seq(Key)]
  /\ \A i \in Inst : /\ Plan[i] # <<>>
                     /\ \A m, n \in 1..Len(Plan[i]) :
                          Plan[i][m] = Plan[i][n] => m = n

ASSUME BoundAssumption ==
  /\ Cancellable \subseteq Inst
  /\ MaxVersion \in Nat \ {0}
  /\ None \notin Inst
  /\ None \notin Watch

VARIABLES
  pc,         \* pc[i]: where New(i) is
  idx,        \* idx[i]: which connectOrSubscribe call of New(i) is next
  done,       \* instances whose ctx is done
  updater,    \* updater[i]: the goroutine updateTrustedIPs of i
  sets,       \* sets[i][k]: version of k that i trusts, 0 when it has none
  wmMu,       \* holder of watchManager.mu: an instance inside New, or None
  watches,    \* watchManager.watches
  watchOf,    \* watchOf[i][k]: the stream i asked to subscribe to
  unsub,      \* unsub[i][k]: the goroutine that subscribe starts
  owMu,       \* owMu[w]: what holds ongoingWatch.mu
  subs,       \* subs[w]: ongoingWatch.subs
  cancelled,  \* streams whose watchCtx is cancelled
  wpc,        \* wpc[w]: where the goroutine watch of w is
  seen,       \* seen[w]: version of the list w holds
  left,       \* left[w]: subscribers publish has not sent to yet
  sendTo,     \* sendTo[w]: the subscriber publish is sending to
  cluster     \* cluster[k]: version of the collection in the API server

newVars     == <<pc, idx>>
contextVars == <<done, updater, sets>>
hubVars     == <<wmMu, watches, watchOf, unsub>>
streamVars  == <<wpc, seen, left, sendTo>>
vars == <<newVars, contextVars, hubVars, owMu, subs, cancelled, streamVars, cluster>>

Init ==
  /\ pc = [i \in Inst |-> "idle"]
  /\ idx = [i \in Inst |-> 1]
  /\ done = {}
  /\ updater = [i \in Inst |-> "none"]
  /\ sets = [i \in Inst |-> [k \in Key |-> 0]]
  /\ wmMu = None
  /\ watches = [k \in Key |-> None]
  /\ watchOf = [i \in Inst |-> [k \in Key |-> None]]
  /\ unsub = [i \in Inst |-> [k \in Key |-> "none"]]
  /\ owMu = [w \in Watch |-> "free"]
  /\ subs = [w \in Watch |-> {}]
  /\ cancelled = {}
  /\ wpc = [w \in Watch |-> "none"]
  /\ seen = [w \in Watch |-> 0]
  /\ left = [w \in Watch |-> {}]
  /\ sendTo = [w \in Watch |-> None]
  /\ cluster = [k \in Key |-> 1]

CurrentKey(i) == Plan[i][idx[i]]

LastKey(i) == idx[i] = Len(Plan[i])

\* Mutated: the lookup in the map of streams is forgotten.
ExistingForgotten(k) == FALSE
Existing(k) == watches[k] # None

\* Mutated: the length of subs is read before the delete.
LastSubscriberBeforeDelete(w, i) == subs[w] = {}
LastSubscriber(w, i) == subs[w] \subseteq {i}

\* Mutated: subs is used without ow.mu.
OwUnguarded(w) == TRUE
OwFree(w) == owMu[w] = "free"

-----------------------------------------------------------------------------
(* New: starts the updater, then connects to its keys one after the other. *)

Start(i) ==
  /\ pc[i] = "idle"
  /\ pc' = [pc EXCEPT ![i] = "connecting"]
  /\ updater' = [updater EXCEPT ![i] = "running"]
  /\ UNCHANGED <<idx, done, sets, hubVars, owMu, subs, cancelled, streamVars, cluster>>

\* connectOrSubscribe up to ow.subscribe: take wm.mu, find or create the stream.
EnterManager(i) ==
  LET k == CurrentKey(i)
      w == Stream(i, k)
  IN  /\ pc[i] = "connecting"
      /\ wmMu = None
      /\ wmMu' = i
      /\ pc' = [pc EXCEPT ![i] = "subscribing"]
      /\ IF Existing(k)
           THEN /\ watchOf' = [watchOf EXCEPT ![i][k] = watches[k]]
                /\ UNCHANGED <<watches, wpc>>
           ELSE /\ watchOf' = [watchOf EXCEPT ![i][k] = w]
                /\ watches' = [watches EXCEPT ![k] = w]
                /\ wpc' = [wpc EXCEPT ![w] = "list"]
      /\ UNCHANGED <<idx, contextVars, unsub, owMu, subs, cancelled, seen, left, sendTo, cluster>>

\* ow.subscribe, called with wm.mu held; the deferred Unlock ends the call.
Subscribe(i) ==
  LET k == CurrentKey(i)
      w == watchOf[i][k]
  IN  /\ pc[i] = "subscribing"
      /\ OwFree(w)
      /\ subs' = [subs EXCEPT ![w] = @ \cup {i}]
      /\ unsub' = [unsub EXCEPT ![i][k] = "armed"]
      /\ wmMu' = None
      /\ IF LastKey(i)
           THEN /\ pc' = [pc EXCEPT ![i] = "served"]
                /\ UNCHANGED idx
           ELSE /\ pc' = [pc EXCEPT ![i] = "connecting"]
                /\ idx' = [idx EXCEPT ![i] = @ + 1]
      /\ UNCHANGED <<contextVars, watches, watchOf, owMu, cancelled, streamVars, cluster>>

-----------------------------------------------------------------------------
(* The end of an instance: its context ends, the updater returns, and each *)
(* subscription is taken back; the last one cancels the stream.            *)

CtxCancel(i) ==
  /\ i \in Cancellable \ done
  /\ pc[i] = "served"
  /\ done' = done \cup {i}
  /\ UNCHANGED <<newVars, updater, sets, hubVars, owMu, subs, cancelled, streamVars, cluster>>

UpdaterExit(i) ==
  /\ i \in done
  /\ updater[i] = "running"
  /\ updater' = [updater EXCEPT ![i] = "exited"]
  /\ UNCHANGED <<newVars, done, sets, hubVars, owMu, subs, cancelled, streamVars, cluster>>

\* Mutated: ow.mu is released before ow.cancel is called.
UnsubscribeUnlockFirst(i, k) ==
  LET w == watchOf[i][k]
  IN  /\ i \in done
      /\ unsub[i][k] = "armed"
      /\ OwFree(w)
      /\ subs' = [subs EXCEPT ![w] = @ \ {i}]
      /\ unsub' = [unsub EXCEPT ![i][k] =
                     IF LastSubscriber(w, i) THEN "cancelling" ELSE "done"]
      /\ UNCHANGED <<newVars, contextVars, wmMu, watches, watchOf, owMu, cancelled, streamVars, cluster>>

Unsubscribe(i, k) ==
  LET w == watchOf[i][k]
  IN  /\ i \in done
      /\ unsub[i][k] = "armed"
      /\ OwFree(w)
      /\ subs' = [subs EXCEPT ![w] = @ \ {i}]
      /\ IF LastSubscriber(w, i)
           THEN /\ owMu' = [owMu EXCEPT ![w] = "cancel"]
                /\ unsub' = [unsub EXCEPT ![i][k] = "cancelling"]
           ELSE /\ unsub' = [unsub EXCEPT ![i][k] = "done"]
                /\ UNCHANGED owMu
      /\ UNCHANGED <<newVars, contextVars, wmMu, watches, watchOf, cancelled, streamVars, cluster>>

\* ow.cancel: takes wm.mu while the caller still holds ow.mu.
CancelWatch(i, k) ==
  LET w == watchOf[i][k]
  IN  /\ unsub[i][k] = "cancelling"
      /\ wmMu = None
      /\ watches' = [watches EXCEPT ![k] = None]
      /\ cancelled' = cancelled \cup {w}
      /\ owMu' = [owMu EXCEPT ![w] = "free"]
      /\ unsub' = [unsub EXCEPT ![i][k] = "done"]
      /\ UNCHANGED <<newVars, contextVars, wmMu, watchOf, subs, streamVars, cluster>>

-----------------------------------------------------------------------------
(* The goroutine watch of one stream.                                      *)

\* The bookmark that ends the initial list: publish the whole list.
ListComplete(w) ==
  /\ wpc[w] = "list"
  /\ seen' = [seen EXCEPT ![w] = cluster[KeyOf(w)]]
  /\ wpc' = [wpc EXCEPT ![w] = "publish"]
  /\ UNCHANGED <<newVars, contextVars, hubVars, owMu, subs, cancelled, left, sendTo, cluster>>

\* One later change of the collection arrives.
Event(w) ==
  /\ wpc[w] = "stream"
  /\ seen[w] < cluster[KeyOf(w)]
  /\ seen' = [seen EXCEPT ![w] = @ + 1]
  /\ wpc' = [wpc EXCEPT ![w] = "publish"]
  /\ UNCHANGED <<newVars, contextVars, hubVars, owMu, subs, cancelled, left, sendTo, cluster>>

PublishLock(w) ==
  /\ wpc[w] = "publish"
  /\ OwFree(w)
  /\ owMu' = [owMu EXCEPT ![w] = "publish"]
  /\ left' = [left EXCEPT ![w] = subs[w]]
  /\ wpc' = [wpc EXCEPT ![w] = "sending"]
  /\ UNCHANGED <<newVars, contextVars, hubVars, subs, cancelled, seen, sendTo, cluster>>

\* range over a Go map: any order, but one subscriber at a time.
PublishNext(w, i) ==
  /\ wpc[w] = "sending"
  /\ sendTo[w] = None
  /\ i \in left[w]
  /\ sendTo' = [sendTo EXCEPT ![w] = i]
  /\ UNCHANGED <<newVars, contextVars, hubVars, owMu, subs, cancelled, wpc, seen, left, cluster>>

\* Mutated: New starts the updater after it has connected to every key.
ReceivesLate(i) == updater[i] = "running" /\ pc[i] = "served"
Receives(i) == updater[i] = "running"

\* Mutated: the select has a default, which drops the set if nobody receives.
DeliverOrDrop(w) ==
  LET i == sendTo[w]
  IN  /\ wpc[w] = "sending"
      /\ i # None
      /\ Receives(i)
      /\ sets' \in {sets, [sets EXCEPT ![i][KeyOf(w)] = seen[w]]}
      /\ left' = [left EXCEPT ![w] = @ \ {i}]
      /\ sendTo' = [sendTo EXCEPT ![w] = None]
      /\ UNCHANGED <<newVars, done, updater, hubVars, owMu, subs, cancelled, wpc, seen, cluster>>

\* An unbuffered channel: the send completes when the updater receives.
Deliver(w) ==
  LET i == sendTo[w]
  IN  /\ wpc[w] = "sending"
      /\ i # None
      /\ Receives(i)
      /\ sets' = [sets EXCEPT ![i][KeyOf(w)] = seen[w]]
      /\ left' = [left EXCEPT ![w] = @ \ {i}]
      /\ sendTo' = [sendTo EXCEPT ![w] = None]
      /\ UNCHANGED <<newVars, done, updater, hubVars, owMu, subs, cancelled, wpc, seen, cluster>>

\* publish returns when every subscriber has the set, or, while it waits in a
\* select, when watchCtx is done; then streamOnce and watch return too.
\* (Mutated: publish does not wait for its subscribers.)
PublishOverAtOnce(w) == TRUE
PublishOver(w) == left[w] = {} \/ (sendTo[w] # None /\ w \in cancelled)

PublishReturn(w) ==
  /\ wpc[w] = "sending"
  /\ PublishOver(w)
  /\ owMu' = [owMu EXCEPT ![w] = "free"]
  /\ wpc' = [wpc EXCEPT ![w] = IF left[w] = {} THEN "stream" ELSE "stopped"]
  /\ left' = [left EXCEPT ![w] = {}]
  /\ sendTo' = [sendTo EXCEPT ![w] = None]
  /\ UNCHANGED <<newVars, contextVars, hubVars, subs, cancelled, seen, cluster>>

\* streamOnce fails or the API server ends the response: wait 3 s, reconnect.
StreamBreak(w) ==
  /\ wpc[w] \in {"list", "stream"}
  /\ w \notin cancelled
  /\ wpc' = [wpc EXCEPT ![w] = "retry"]
  /\ UNCHANGED <<newVars, contextVars, hubVars, owMu, subs, cancelled, seen, left, sendTo, cluster>>

Reconnect(w) ==
  /\ wpc[w] = "retry"
  /\ wpc' = [wpc EXCEPT ![w] = "list"]
  /\ UNCHANGED <<newVars, contextVars, hubVars, owMu, subs, cancelled, seen, left, sendTo, cluster>>

WatchStop(w) ==
  /\ w \in cancelled
  /\ wpc[w] \in {"list", "stream", "retry"}
  /\ wpc' = [wpc EXCEPT ![w] = "stopped"]
  /\ UNCHANGED <<newVars, contextVars, hubVars, owMu, subs, cancelled, seen, left, sendTo, cluster>>

\* The API server: somebody changes the watched collection.
ClusterChange(k) ==
  /\ cluster[k] < MaxVersion
  /\ cluster' = [cluster EXCEPT ![k] = @ + 1]
  /\ UNCHANGED <<newVars, contextVars, hubVars, owMu, subs, cancelled, streamVars>>

-----------------------------------------------------------------------------
InstStep(i) ==
  Start(i) \/ EnterManager(i) \/ Subscribe(i) \/ CtxCancel(i) \/ UpdaterExit(i)

SubscriptionStep(i, k) == Unsubscribe(i, k) \/ CancelWatch(i, k)

WatchStep(w) ==
  \/ ListComplete(w) \/ Event(w)
  \/ PublishLock(w) \/ Deliver(w) \/ PublishReturn(w)
  \/ StreamBreak(w) \/ Reconnect(w) \/ WatchStop(w)
  \/ \E i \in Inst : PublishNext(w, i)

Next ==
  \/ \E i \in Inst : InstStep(i)
  \/ \E i \in Inst, k \in Key : SubscriptionStep(i, k)
  \/ \E w \in Watch : WatchStep(w)
  \/ \E k \in Key : ClusterChange(k)

Spec == Init /\ [][Next]_vars

(* What a goroutine does next when it is free to: each of these is one      *)
(* sequential goroutine, so that fairness of the disjunction is fairness   *)
(* of each step.                                                           *)
NewProgress(i) == EnterManager(i) \/ Subscribe(i)
WatchProgress(w) ==
  \/ ListComplete(w) \/ Event(w)
  \/ PublishLock(w) \/ Deliver(w) \/ PublishReturn(w)
  \/ \E i \in Inst : PublishNext(w, i)

(* sync.Mutex hands itself to a waiter that has waited for long, so taking *)
(* a lock is strongly fair; a goroutine that can run does run.  A stream   *)
(* may break again and again but not for ever: its list completes and its  *)
(* events arrive if they could again and again.  Traefik need not call New *)
(* nor cancel a context, and the collection need not change.               *)
Fairness ==
  /\ \A i \in Inst : SF_vars(NewProgress(i))
  /\ \A i \in Cancellable : WF_vars(UpdaterExit(i))
  /\ \A i \in Cancellable, k \in Key : SF_vars(SubscriptionStep(i, k))
  /\ \A w \in Watch : /\ SF_vars(WatchProgress(w))
                      /\ WF_vars(Reconnect(w) \/ WatchStop(w))

FairSpec == Spec /\ Fairness

-----------------------------------------------------------------------------
(* Properties.                                                             *)

Created(w) == wpc[w] # "none"
Live(w) == Created(w) /\ w \notin cancelled
Subscribing(i) == pc[i] = "subscribing"
Target(i) == watchOf[i][CurrentKey(i)]

TypeOK ==
  /\ pc \in [Inst -> {"idle", "connecting", "subscribing", "served"}]
  /\ idx \in [Inst -> Nat]
  /\ \A i \in Inst : idx[i] \in 1..Len(Plan[i])
  /\ done \subseteq Cancellable
  /\ updater \in [Inst -> {"none", "running", "exited"}]
  /\ sets \in [Inst -> [Key -> 0..MaxVersion]]
  /\ wmMu \in Inst \cup {None}
  /\ watches \in [Key -> Watch \cup {None}]
  /\ watchOf \in [Inst -> [Key -> Watch \cup {None}]]
  /\ unsub \in [Inst -> [Key -> {"none", "armed", "cancelling", "done"}]]
  /\ owMu \in [Watch -> {"free", "publish", "cancel"}]
  /\ subs \in [Watch -> SUBSET Inst]
  /\ cancelled \subseteq Watch
  /\ wpc \in [Watch -> {"none", "list", "stream", "publish", "sending", "retry", "stopped"}]
  /\ seen \in [Watch -> 0..MaxVersion]
  /\ left \in [Watch -> SUBSET Inst]
  /\ sendTo \in [Watch -> Inst \cup {None}]
  /\ cluster \in [Key -> 1..MaxVersion]

\* A running stream is the one the manager hands out for its key, and the
\* manager hands out running streams only: the delete in cancel never takes
\* away the entry of another stream, and no key is watched twice.
OneLiveWatchPerKey ==
  /\ \A w \in Watch : Live(w) <=> watches[KeyOf(w)] = w
  /\ \A k \in Key : watches[k] # None => KeyOf(watches[k]) = k

\* Nobody is subscribed, or about to subscribe, to a cancelled stream: between
\* finding a stream in the map and joining it, it cannot be taken down.
CancelledWatchUnused ==
  \A w \in cancelled : /\ subs[w] = {}
                        /\ \A i \in Inst : Subscribing(i) => Target(i) # w

\* Every running stream has a subscriber, gets one, or is being cancelled: a
\* stream nobody listens to is never left behind.
NoOrphanWatch ==
  \A w \in Watch : Live(w) =>
    \/ subs[w] # {}
    \/ owMu[w] = "cancel"
    \/ \E i \in Inst : Subscribing(i) /\ Target(i) = w

\* A stream that is not publishing has given its current list to all of its
\* subscribers, except to those that joined since it last published.
NoStaleSubscriber ==
  \A w \in Watch : wpc[w] \in {"list", "stream", "retry"} =>
    \A i \in subs[w] : sets[i][KeyOf(w)] \in {0, seen[w]}

\* A publish that still has subscribers to serve is never interrupted by the
\* end of watchCtx: the branch on ctx.Done in publish is out of reach.
CancelWaitsForPublish ==
  \A w \in Watch : left[w] # {} => w \notin cancelled

\* An instance receives sets only while it is subscribed: once its
\* subscription is taken back, nothing is sent to its updater any more.
NoDeliveryAfterUnsubscribe ==
  [][\A i \in Inst, k \in Key :
       sets'[i][k] # sets[i][k] => unsub[i][k] = "armed"]_vars

-----------------------------------------------------------------------------
(* The inductive invariant behind the safety properties.                   *)

\* What each mutex protects: who holds it, and what it finds there.
LockInv ==
  /\ \A i \in Inst : wmMu = i <=> Subscribing(i)
  /\ \A w \in Watch : owMu[w] = "publish" <=> wpc[w] = "sending"
  /\ \A w \in Watch : owMu[w] = "cancel" => Live(w) /\ subs[w] = {}
  /\ \A i \in Inst, k \in Key :
       unsub[i][k] = "cancelling" =>
         /\ owMu[watchOf[i][k]] = "cancel"
         /\ \A j \in Inst : (unsub[j][k] = "cancelling" /\ watchOf[j][k] = watchOf[i][k]) => i = j

\* A stream starts once, for the instance it is named after, and is
\* cancelled only when nobody is subscribed.
StreamInv ==
  /\ \A w \in Watch : Created(w) => watchOf[Creator(w)][KeyOf(w)] = w
  /\ \A w \in cancelled : Created(w) /\ subs[w] = {}

\* subs and the unsubscribing goroutines agree, and a subscriber is one of
\* an existing stream.
SubscriptionInv ==
  /\ \A i \in Inst, k \in Key :
       /\ watchOf[i][k] # None => KeyOf(watchOf[i][k]) = k /\ Created(watchOf[i][k])
       /\ unsub[i][k] # "none" => watchOf[i][k] # None
       /\ unsub[i][k] = "none" => sets[i][k] = 0
  /\ \A i \in Inst, w \in Watch :
       i \in subs[w] <=> (watchOf[i][KeyOf(w)] = w /\ unsub[i][KeyOf(w)] = "armed")
  /\ \A i \in Inst : Subscribing(i) =>
       /\ Target(i) # None
       /\ Live(Target(i))
       /\ unsub[i][CurrentKey(i)] = "none"

\* New has not touched the keys it has still to connect to.
OrderInv ==
  \A i \in Inst : \A n \in idx[i]..Len(Plan[i]) :
    (pc[i] \in {"idle", "connecting"} \/ n > idx[i]) =>
      watchOf[i][Plan[i][n]] = None /\ unsub[i][Plan[i][n]] = "none"

\* publish sends to subscribers, and to nobody after it has returned.
PublishInv ==
  \A w \in Watch :
    /\ left[w] \subseteq subs[w]
    /\ sendTo[w] # None => sendTo[w] \in left[w]
    /\ left[w] # {} => wpc[w] = "sending"

IInv ==
  /\ TypeOK
  /\ LockInv
  /\ OneLiveWatchPerKey
  /\ StreamInv
  /\ SubscriptionInv
  /\ OrderInv
  /\ PublishInv

\* While publish is sending, those it has served hold its list.
ServedInv ==
  \A w \in Watch : wpc[w] = "sending" =>
    \A i \in subs[w] \ left[w] : sets[i][KeyOf(w)] \in {0, seen[w]}

\* A stream is not ahead of its collection, nor a subscriber of its stream.
VersionInv ==
  /\ \A w \in Watch : seen[w] <= cluster[KeyOf(w)]
  /\ \A i \in Inst, k \in Key : watchOf[i][k] # None => sets[i][k] <= seen[watchOf[i][k]]

\* The hub is one to its instances, however they share, join and leave streams:
\* what they trust are versions of the collection, in their order.
Subscriptions(stages) == {s \in Inst \X Key : unsub[s[1]][s[2]] \in stages}

Hub == INSTANCE FeedHub WITH
  Subscriber <- Inst, Collection <- Key, version <- cluster, shown <- sets,
  open <- Subscriptions({"armed"}), closed <- Subscriptions({"cancelling", "done"})
ImplementsHub == Hub!Spec

-----------------------------------------------------------------------------
(* Liveness.                                                               *)

\* New returns ("initialized" is logged) once Traefik has called it.
NewReturns ==
  \A i \in Inst : pc[i] = "connecting" ~> pc[i] = "served"

\* A change that an instance's stream has yet to see reaches the instance.
ChangeReachesSubscribers ==
  \A i \in Inst, k \in Key, v \in 1..MaxVersion :
    (/\ unsub[i][k] = "armed"
     /\ cluster[k] = v
     /\ seen[watchOf[i][k]] < v) ~> (sets[i][k] >= v \/ i \in done)

\* What the log line "subscribed to existing watch stream" promises: an
\* instance that joined the stream of another one gets the list it holds.
LateSubscriberGetsList ==
  \A i \in Inst, k \in Key :
    (unsub[i][k] = "armed" /\ watchOf[i][k] # Stream(i, k)) ~> (sets[i][k] > 0 \/ i \in done)
=============================================================================
