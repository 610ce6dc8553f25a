--------------------------- MODULE WatchHubProofs ---------------------------
(***************************************************************************)
(* Proofs about WatchHub: IInv is an inductive invariant, and the safety   *)
(* properties of the hub follow from it for any number of instances, keys  *)
(* and changes, and any plans.                                             *)
(***************************************************************************)
EXTENDS WatchHub, TLAPS

USE DEF newVars, contextVars, hubVars, streamVars

-----------------------------------------------------------------------------
(* Facts about the constants, and about where the threads stand.           *)

\* Streams are pairs of a creator and a key.
LEMMA WatchFacts ==
  /\ \A w \in Watch : KeyOf(w) \in Key /\ Creator(w) \in Inst /\ w = Stream(Creator(w), KeyOf(w))
  /\ \A i \in Inst, k \in Key : /\ Stream(i, k) \in Watch
                                /\ KeyOf(Stream(i, k)) = k
                                /\ Creator(Stream(i, k)) = i
  BY DEF Watch, KeyOf, Creator, Stream

\* Plans are nonempty sequences of distinct keys.
LEMMA PlanFacts ==
  \A i \in Inst :
    /\ Len(Plan[i]) \in Nat \ {0}
    /\ \A n \in 1..Len(Plan[i]) : Plan[i][n] \in Key
    /\ \A m, p \in 1..Len(Plan[i]) : Plan[i][m] = Plan[i][p] => m = p
<1> SUFFICES ASSUME NEW i \in Inst
             PROVE  /\ Len(Plan[i]) \in Nat \ {0}
                    /\ \A n \in 1..Len(Plan[i]) : Plan[i][n] \in Key
  BY PlanAssumption
<1>1. Plan[i] \in Seq(Key) /\ Plan[i] # <<>>
  BY PlanAssumption
<1> QED
  BY <1>1

\* The key that New is connecting to is one of the keys.
LEMMA CurrentKeyType ==
  ASSUME TypeOK, NEW i \in Inst
  PROVE  CurrentKey(i) \in Key
  BY PlanFacts DEF TypeOK, CurrentKey

\* Inside New, the stream found or created is live and is one of the key's.
LEMMA TargetFacts ==
  ASSUME IInv, NEW i \in Inst, Subscribing(i)
  PROVE  /\ Target(i) \in Watch
         /\ KeyOf(Target(i)) = CurrentKey(i)
         /\ Live(Target(i))
         /\ watchOf[i][CurrentKey(i)] = Target(i)
         /\ unsub[i][CurrentKey(i)] = "none"
  BY CurrentKeyType DEF IInv, TypeOK, SubscriptionInv, Target

\* A subscription, or its end, is that of a stream of the key.
LEMMA SubscriptionFacts ==
  ASSUME IInv, NEW i \in Inst, NEW k \in Key, unsub[i][k] # "none"
  PROVE  /\ watchOf[i][k] \in Watch
         /\ KeyOf(watchOf[i][k]) = k
         /\ Created(watchOf[i][k])
  BY DEF IInv, TypeOK, SubscriptionInv

-----------------------------------------------------------------------------
(* The initial states satisfy the invariant.                               *)

\* At first no mutex is held, no stream exists and nobody is subscribed.
LEMMA Initial == Init => IInv
<1> SUFFICES ASSUME Init PROVE IInv
  OBVIOUS
<1> USE WatchFacts, PlanFacts, BoundAssumption DEF Init
<1>1. TypeOK
  BY DEF TypeOK
<1>2. LockInv
  BY DEF LockInv, Subscribing, Live, Created
<1>3. OneLiveWatchPerKey
  BY DEF OneLiveWatchPerKey, Live, Created
<1>4. StreamInv
  BY DEF StreamInv, Created
<1>5. SubscriptionInv
  BY DEF SubscriptionInv, Subscribing, Created
<1>6. OrderInv
  BY DEF OrderInv
<1>7. PublishInv
  BY DEF PublishInv
<1> QED
  BY <1>1, <1>2, <1>3, <1>4, <1>5, <1>6, <1>7 DEF IInv

-----------------------------------------------------------------------------
(* Every step keeps the invariant: one lemma per action.                   *)

\* The steps of a stream that change neither who is subscribed nor what was
\* created keep SubscriptionInv.
LEMMA SubscriptionFrame ==
  ASSUME IInv,
         UNCHANGED <<pc, idx, sets, watchOf, unsub, subs, cancelled>>,
         \A v \in Watch : Created(v) => Created(v)'
  PROVE  SubscriptionInv'
<1> USE WatchFacts DEF IInv
<1>1. (\A j \in Inst, l \in Key :
         /\ watchOf[j][l] # None => KeyOf(watchOf[j][l]) = l /\ Created(watchOf[j][l])
         /\ unsub[j][l] # "none" => watchOf[j][l] # None
         /\ unsub[j][l] = "none" => sets[j][l] = 0)'
  BY DEF SubscriptionInv, TypeOK, Created
<1>2. (\A j \in Inst, v \in Watch :
         j \in subs[v] <=> (watchOf[j][KeyOf(v)] = v /\ unsub[j][KeyOf(v)] = "armed"))'
  BY DEF SubscriptionInv
<1>3. (\A j \in Inst : Subscribing(j) =>
         Target(j) # None /\ Live(Target(j)) /\ unsub[j][CurrentKey(j)] = "none")'
  <2> SUFFICES ASSUME NEW j \in Inst, Subscribing(j)
               PROVE  (Target(j) # None /\ Live(Target(j)) /\ unsub[j][CurrentKey(j)] = "none")'
    BY DEF Subscribing
  <2>1. CurrentKey(j)' = CurrentKey(j) /\ Target(j)' = Target(j)
    BY DEF CurrentKey, Target
  <2>2. Target(j) \in Watch /\ Live(Target(j)) /\ unsub[j][CurrentKey(j)] = "none"
    BY TargetFacts
  <2> QED
    BY <2>1, <2>2, BoundAssumption DEF Live, Created
<1> QED
  BY <1>1, <1>2, <1>3 DEF SubscriptionInv

\* Where no call of New moves, the keys they have still to connect to stay untouched.
LEMMA OrderFrame ==
  ASSUME OrderInv, UNCHANGED <<pc, idx, watchOf, unsub>>
  PROVE  OrderInv'
  BY DEF OrderInv

\* So do, for LockInv, the steps that only touch ow.mu to publish.
LEMMA LockFrame ==
  ASSUME IInv,
         UNCHANGED <<pc, wmMu, watchOf, unsub, subs, cancelled>>,
         \A v \in Watch : /\ Created(v)' <=> Created(v)
                          /\ owMu'[v] = "cancel" <=> owMu[v] = "cancel"
                          /\ owMu'[v] = "publish" <=> wpc'[v] = "sending"
  PROVE  LockInv'
<1>1. \A j \in Inst, l \in Key : unsub[j][l] = "cancelling" => watchOf[j][l] \in Watch
  BY SubscriptionFacts
<1>2. (\A j \in Inst : wmMu = j <=> Subscribing(j))'
  BY DEF IInv, LockInv, Subscribing
<1>3. (\A v \in Watch : owMu[v] = "cancel" => Live(v) /\ subs[v] = {})'
  BY DEF IInv, LockInv, Live
<1>4. (\A j \in Inst, l \in Key :
         unsub[j][l] = "cancelling" =>
           /\ owMu[watchOf[j][l]] = "cancel"
           /\ \A m \in Inst : (unsub[m][l] = "cancelling" /\ watchOf[m][l] = watchOf[j][l]) => j = m)'
  BY <1>1 DEF IInv, LockInv
<1> QED
  BY <1>2, <1>3, <1>4 DEF LockInv

\* Taking wm.mu: the stream found in the map is live; a new one has the name of
\* its instance, which has not used it before, and no subscriber yet.
LEMMA EnterManagerKeeps ==
  ASSUME IInv, NEW i \in Inst, EnterManager(i)
  PROVE  IInv'
<1> USE BoundAssumption, WatchFacts DEF IInv
<1>a. PICK k \in Key : k = CurrentKey(i)
  BY CurrentKeyType
<1>b. PICK t : t = IF Existing(k) THEN watches[k] ELSE Stream(i, k)
  OBVIOUS
<1>1. /\ pc[i] = "connecting" /\ wmMu = None /\ wmMu' = i
      /\ pc' = [pc EXCEPT ![i] = "subscribing"]
      /\ UNCHANGED <<idx, contextVars, unsub, owMu, subs, cancelled, seen, left, sendTo, cluster>>
  BY DEF EnterManager
<1>2. watchOf[i][k] = None /\ unsub[i][k] = "none"
  <2>1. idx[i] \in Nat /\ idx[i] \in idx[i]..Len(Plan[i])
    BY PlanFacts DEF TypeOK
  <2>2. watchOf[i][Plan[i][idx[i]]] = None /\ unsub[i][Plan[i][idx[i]]] = "none"
    BY <1>1, <2>1 DEF OrderInv
  <2> QED
    BY <1>a, <2>2 DEF CurrentKey
<1>3. \A j \in Inst : ~Subscribing(j)
  BY <1>1 DEF LockInv
<1>4. ~Existing(k) => wpc[t] = "none" /\ t \notin cancelled
  BY <1>2, <1>a, <1>b DEF StreamInv, Created
<1>5. t \in Watch /\ KeyOf(t) = k /\ t \notin cancelled
  BY <1>4, <1>a, <1>b DEF Existing, OneLiveWatchPerKey, Live, TypeOK
<1>6. /\ wpc' \in [Watch -> {"none", "list", "stream", "publish", "sending", "retry", "stopped"}]
      /\ \A w \in Watch : wpc'[w] = IF w = t /\ ~Existing(k) THEN "list" ELSE wpc[w]
  <2>1. wpc' = IF Existing(k) THEN wpc ELSE [wpc EXCEPT ![t] = "list"]
    BY <1>a, <1>b DEF EnterManager
  <2> QED
    BY <2>1, <1>5 DEF TypeOK
<1>7. /\ watchOf' \in [Inst -> [Key -> Watch \cup {None}]]
      /\ \A j \in Inst, l \in Key : watchOf'[j][l] = IF j = i /\ l = k THEN t ELSE watchOf[j][l]
  <2>1. watchOf' = [watchOf EXCEPT ![i][k] = t]
    BY <1>a, <1>b DEF EnterManager
  <2> QED
    BY <2>1, <1>5, <1>a DEF TypeOK
<1>8. /\ watches' \in [Key -> Watch \cup {None}]
      /\ \A l \in Key : watches'[l] = IF l = k THEN t ELSE watches[l]
  <2>1. watches' = IF Existing(k) THEN watches ELSE [watches EXCEPT ![k] = t]
    BY <1>a, <1>b DEF EnterManager
  <2> QED
    BY <2>1, <1>5, <1>a, <1>b DEF TypeOK
<1>9. \A w \in Watch : Created(w)' <=> Created(w) \/ w = t
  BY <1>4, <1>5, <1>6, <1>a, <1>b DEF Created, Existing, OneLiveWatchPerKey, Live, TypeOK
<1>10. \A j \in Inst : Subscribing(j)' <=> j = i
  BY <1>1, <1>3 DEF Subscribing, TypeOK
<1>11. TypeOK'
  BY <1>1, <1>6, <1>7, <1>8 DEF TypeOK
<1>12. LockInv'
  <2>1. (\A j \in Inst : wmMu = j <=> Subscribing(j))'
    BY <1>1, <1>10
  <2>2. (\A w \in Watch : owMu[w] = "publish" <=> wpc[w] = "sending")'
    BY <1>1, <1>4, <1>6 DEF LockInv
  <2>3. (\A w \in Watch : owMu[w] = "cancel" => Live(w) /\ subs[w] = {})'
    BY <1>1, <1>9 DEF LockInv, Live
  <2>4. \A j \in Inst, l \in Key : unsub[j][l] = "cancelling" => watchOf'[j][l] = watchOf[j][l]
    BY <1>2, <1>7, <1>a
  <2> QED
    BY <1>1, <2>1, <2>2, <2>3, <2>4 DEF LockInv
<1>13. OneLiveWatchPerKey'
  BY <1>1, <1>5, <1>8, <1>9, <1>4, <1>a , <1>b DEF OneLiveWatchPerKey, Live, Existing
<1>14. StreamInv'
  <2>1. watchOf'[Creator(t)][KeyOf(t)] = t
    <3>1. CASE Existing(k)
      BY <3>1, <1>5, <1>7, <1>9, <1>6, <1>a DEF StreamInv, Created
    <3>2. CASE ~Existing(k)
      BY <3>2, <1>5, <1>7, <1>a, <1>b
    <3> QED
      BY <3>1, <3>2
  <2>2. \A w \in Watch : Created(w) => watchOf'[Creator(w)][KeyOf(w)] = w
    BY <1>2, <1>7, <1>a DEF StreamInv
  <2> QED
    BY <2>1, <2>2, <1>1, <1>9 DEF StreamInv, TypeOK
<1>15. SubscriptionInv'
  <2>1. (\A j \in Inst, l \in Key :
           /\ watchOf[j][l] # None => KeyOf(watchOf[j][l]) = l /\ Created(watchOf[j][l])
           /\ unsub[j][l] # "none" => watchOf[j][l] # None
           /\ unsub[j][l] = "none" => sets[j][l] = 0)'
    <3> SUFFICES ASSUME NEW j \in Inst, NEW l \in Key
                 PROVE  /\ watchOf'[j][l] # None => KeyOf(watchOf'[j][l]) = l /\ wpc'[watchOf'[j][l]] # "none"
                        /\ unsub[j][l] # "none" => watchOf'[j][l] # None
                        /\ unsub[j][l] = "none" => sets[j][l] = 0
      BY <1>1 DEF Created
    <3>1. CASE j = i /\ l = k
      BY <3>1, <1>2, <1>5, <1>7, <1>9, <1>a DEF SubscriptionInv, Created
    <3>2. CASE ~(j = i /\ l = k)
      <4>1. watchOf'[j][l] = watchOf[j][l] /\ watchOf[j][l] \in Watch \cup {None}
        BY <3>2, <1>7 DEF TypeOK
      <4> QED
        BY <4>1, <1>9 DEF SubscriptionInv, Created
    <3> QED
      BY <3>1, <3>2
  <2>2. (\A j \in Inst, w \in Watch :
           j \in subs[w] <=> (watchOf[j][KeyOf(w)] = w /\ unsub[j][KeyOf(w)] = "armed"))'
    BY <1>1, <1>2, <1>7, <1>a DEF SubscriptionInv
  <2>3. Target(i)' = t /\ CurrentKey(i)' = k
    BY <1>1, <1>7, <1>a DEF Target, CurrentKey
  <2>4. Live(t)'
    BY <1>1, <1>5, <1>9 DEF Live
  <2> QED
    BY <1>1, <1>2, <1>5, <1>10, <2>1, <2>2, <2>3, <2>4 DEF SubscriptionInv
<1>16. OrderInv'
  <2> SUFFICES ASSUME NEW j \in Inst, NEW n \in idx[j]..Len(Plan[j]),
                      pc'[j] \in {"idle", "connecting"} \/ n > idx[j]
               PROVE  watchOf'[j][Plan[j][n]] = None /\ unsub[j][Plan[j][n]] = "none"
    BY <1>1 DEF OrderInv
  <2>1. n \in 1..Len(Plan[j]) /\ Plan[j][n] \in Key /\ idx[j] \in 1..Len(Plan[j])
    BY PlanFacts DEF TypeOK
  <2>2. watchOf[j][Plan[j][n]] = None /\ unsub[j][Plan[j][n]] = "none"
    BY <1>1, <2>1 DEF OrderInv, TypeOK
  <2>3. CASE j = i
    <3>1. n # idx[i]
      BY <1>1, <2>3 DEF TypeOK
    <3>2. Plan[i][n] # k
      BY <3>1, <2>1, <2>3, <1>a, PlanFacts DEF CurrentKey
    <3> QED
      BY <3>2, <1>7, <2>1, <2>2, <2>3
  <2>4. CASE j # i
    BY <1>7, <2>1, <2>2, <2>4
  <2> QED
    BY <2>3, <2>4
<1>17. PublishInv'
  BY <1>1, <1>4, <1>6 DEF PublishInv, LockInv, StreamInv, Created, TypeOK
<1> QED
  BY <1>11, <1>12, <1>13, <1>14, <1>15, <1>16, <1>17

\* Joining a stream: wm.mu, held since the lookup, has kept it live.
LEMMA SubscribeKeeps ==
  ASSUME IInv, NEW i \in Inst, Subscribe(i)
  PROVE  IInv'
<1> USE BoundAssumption, WatchFacts DEF IInv
<1>a. PICK k \in Key : k = CurrentKey(i)
  BY CurrentKeyType
<1>b. PICK t : t = watchOf[i][k]
  OBVIOUS
<1>1. /\ pc[i] = "subscribing" /\ Subscribing(i) /\ owMu[t] = "free" /\ wmMu' = None
      /\ subs' = [subs EXCEPT ![t] = @ \cup {i}]
      /\ unsub' = [unsub EXCEPT ![i][k] = "armed"]
      /\ UNCHANGED <<contextVars, watches, watchOf, owMu, cancelled, streamVars, cluster>>
  BY <1>a, <1>b DEF Subscribe, OwFree, Subscribing
<1>2. t \in Watch /\ KeyOf(t) = k /\ Live(t) /\ watchOf[i][k] = t /\ unsub[i][k] = "none"
  BY <1>1, <1>a, <1>b, TargetFacts
<1>3. \A j \in Inst : Subscribing(j) <=> j = i
  BY <1>1 DEF LockInv
<1>4. /\ subs' \in [Watch -> SUBSET Inst]
      /\ \A w \in Watch : subs'[w] = IF w = t THEN subs[w] \cup {i} ELSE subs[w]
  BY <1>1, <1>2 DEF TypeOK
<1>5. /\ unsub' \in [Inst -> [Key -> {"none", "armed", "cancelling", "done"}]]
      /\ \A j \in Inst, l \in Key : unsub'[j][l] = IF j = i /\ l = k THEN "armed" ELSE unsub[j][l]
  BY <1>1 DEF TypeOK
<1>6. \/ LastKey(i) /\ pc' = [pc EXCEPT ![i] = "served"] /\ idx' = idx
      \/ ~LastKey(i) /\ pc' = [pc EXCEPT ![i] = "connecting"] /\ idx' = [idx EXCEPT ![i] = @ + 1]
  BY DEF Subscribe
<1>7. /\ pc' \in [Inst -> {"idle", "connecting", "subscribing", "served"}]
      /\ pc'[i] \in {"connecting", "served"}
      /\ \A j \in Inst \ {i} : pc'[j] = pc[j] /\ idx'[j] = idx[j]
  BY <1>6 DEF TypeOK
<1>8. /\ idx' \in [Inst -> Nat]
      /\ \A j \in Inst : idx'[j] \in 1..Len(Plan[j])
      /\ pc'[i] = "connecting" => idx'[i] = idx[i] + 1
      /\ idx'[i] \in {idx[i], idx[i] + 1}
  <2>1. \A j \in Inst : idx[j] \in 1..Len(Plan[j]) /\ Len(Plan[j]) \in Nat
    BY PlanFacts DEF TypeOK
  <2>2. CASE LastKey(i)
    BY <1>6, <2>1, <2>2 DEF TypeOK
  <2>3. CASE ~LastKey(i)
    <3>1. idx' = [idx EXCEPT ![i] = idx[i] + 1] /\ idx[i] + 1 \in 1..Len(Plan[i])
      BY <1>6, <2>1, <2>3 DEF LastKey
    <3> QED
      BY <2>1, <3>1 DEF TypeOK
  <2> QED
    BY <2>2, <2>3
<1>9. \A j \in Inst : ~Subscribing(j)'
  BY <1>3, <1>7 DEF Subscribing
<1>11. TypeOK'
  BY <1>1, <1>4, <1>5, <1>7, <1>8 DEF TypeOK
<1>12. LockInv'
  <2>1. (\A j \in Inst : wmMu = j <=> Subscribing(j))'
    BY <1>1, <1>9
  <2>2. (\A w \in Watch : owMu[w] = "publish" <=> wpc[w] = "sending")'
    BY <1>1 DEF LockInv
  <2>3. (\A w \in Watch : owMu[w] = "cancel" => Live(w) /\ subs[w] = {})'
    BY <1>1, <1>4 DEF LockInv, Live, Created
  <2>4. \A j \in Inst, l \in Key : unsub'[j][l] = "cancelling" => unsub[j][l] = "cancelling"
    BY <1>5
  <2> QED
    BY <1>1, <2>1, <2>2, <2>3, <2>4 DEF LockInv
<1>13. OneLiveWatchPerKey'
  BY <1>1 DEF OneLiveWatchPerKey, Live, Created
<1>14. StreamInv'
  <2>1. t \notin cancelled
    BY <1>2 DEF Live
  <2> QED
    BY <2>1, <1>1, <1>4 DEF StreamInv, Created, TypeOK
<1>15. SubscriptionInv'
  <2>1. (\A j \in Inst, l \in Key :
           /\ watchOf[j][l] # None => KeyOf(watchOf[j][l]) = l /\ Created(watchOf[j][l])
           /\ unsub[j][l] # "none" => watchOf[j][l] # None
           /\ unsub[j][l] = "none" => sets[j][l] = 0)'
    BY <1>1, <1>2, <1>5 DEF SubscriptionInv, Created
  <2>2. (\A j \in Inst, w \in Watch :
           j \in subs[w] <=> (watchOf[j][KeyOf(w)] = w /\ unsub[j][KeyOf(w)] = "armed"))'
    BY <1>1, <1>2, <1>4, <1>5 DEF SubscriptionInv
  <2> QED
    BY <1>9, <2>1, <2>2 DEF SubscriptionInv
<1>16. OrderInv'
  <2> SUFFICES ASSUME NEW j \in Inst, NEW n \in idx'[j]..Len(Plan[j]),
                      pc'[j] \in {"idle", "connecting"} \/ n > idx'[j]
               PROVE  watchOf[j][Plan[j][n]] = None /\ unsub'[j][Plan[j][n]] = "none"
    BY <1>1 DEF OrderInv
  <2>1. n \in 1..Len(Plan[j]) /\ Plan[j][n] \in Key /\ idx[j] \in 1..Len(Plan[j])
    BY <1>8, PlanFacts DEF TypeOK
  <2>2. CASE j = i
    <3>1. n > idx[i]
      BY <2>1, <2>2, <1>7, <1>8 DEF TypeOK
    <3>2. Plan[i][n] # k
      BY <3>1, <2>1, <2>2, <1>a, PlanFacts DEF CurrentKey
    <3> QED
      BY <3>1, <3>2, <2>1, <2>2, <1>5 DEF OrderInv
  <2>3. CASE j # i
    BY <2>1, <2>3, <1>5, <1>7 DEF OrderInv
  <2> QED
    BY <2>2, <2>3
<1>17. PublishInv'
  BY <1>1, <1>4 DEF PublishInv, TypeOK
<1> QED
  BY <1>11, <1>12, <1>13, <1>14, <1>15, <1>16, <1>17

\* Leaving a stream: the last one to leave keeps ow.mu, so that nobody joins
\* before cancel is done.
LEMMA UnsubscribeKeeps ==
  ASSUME IInv, NEW i \in Inst, NEW k \in Key, Unsubscribe(i, k)
  PROVE  IInv'
<1> USE BoundAssumption, WatchFacts DEF IInv
<1>a. PICK t : t = watchOf[i][k]
  OBVIOUS
<1>1. /\ unsub[i][k] = "armed" /\ owMu[t] = "free"
      /\ subs' = [subs EXCEPT ![t] = @ \ {i}]
      /\ UNCHANGED <<newVars, contextVars, wmMu, watches, watchOf, cancelled, streamVars, cluster>>
  BY <1>a DEF Unsubscribe, OwFree
<1>2. t \in Watch /\ KeyOf(t) = k /\ Created(t) /\ i \in subs[t] /\ t \notin cancelled
  BY <1>1, <1>a, SubscriptionFacts DEF SubscriptionInv, StreamInv
<1>3. /\ subs' \in [Watch -> SUBSET Inst]
      /\ \A w \in Watch : subs'[w] = IF w = t THEN subs[w] \ {i} ELSE subs[w]
  BY <1>1, <1>2 DEF TypeOK
<1>4. PICK u \in {"cancelling", "done"} :
        /\ unsub' = [unsub EXCEPT ![i][k] = u]
        /\ owMu' = IF u = "cancelling" THEN [owMu EXCEPT ![t] = "cancel"] ELSE owMu
        /\ u = "cancelling" => subs'[t] = {}
  BY <1>a, <1>2, <1>3 DEF Unsubscribe, LastSubscriber, TypeOK
<1>5. /\ unsub' \in [Inst -> [Key -> {"none", "armed", "cancelling", "done"}]]
      /\ \A j \in Inst, l \in Key : unsub'[j][l] = IF j = i /\ l = k THEN u ELSE unsub[j][l]
  BY <1>4 DEF TypeOK
<1>6. /\ owMu' \in [Watch -> {"free", "publish", "cancel"}]
      /\ \A w \in Watch : owMu'[w] = IF w = t /\ u = "cancelling" THEN "cancel" ELSE owMu[w]
  BY <1>2, <1>4 DEF TypeOK
<1>11. TypeOK'
  BY <1>1, <1>3, <1>5, <1>6 DEF TypeOK
<1>12. LockInv'
  <2>1. (\A j \in Inst : wmMu = j <=> Subscribing(j))'
    BY <1>1 DEF LockInv, Subscribing
  <2>2. (\A w \in Watch : owMu[w] = "publish" <=> wpc[w] = "sending")'
    BY <1>1, <1>6 DEF LockInv
  <2>3. (\A w \in Watch : owMu[w] = "cancel" => Live(w) /\ subs[w] = {})'
    BY <1>1, <1>2, <1>3, <1>4, <1>6 DEF LockInv, Live, Created
  <2>4. \A j \in Inst, l \in Key :
          unsub[j][l] = "cancelling" => owMu[watchOf[j][l]] = "cancel" /\ watchOf[j][l] # t /\ watchOf[j][l] \in Watch
    BY <1>1, SubscriptionFacts DEF LockInv
  <2>5. (\A j \in Inst, l \in Key :
          unsub[j][l] = "cancelling" =>
            /\ owMu[watchOf[j][l]] = "cancel"
            /\ \A m \in Inst : (unsub[m][l] = "cancelling" /\ watchOf[m][l] = watchOf[j][l]) => j = m)'
    <3> SUFFICES ASSUME NEW j \in Inst, NEW l \in Key, unsub'[j][l] = "cancelling"
                 PROVE  /\ owMu'[watchOf[j][l]] = "cancel"
                        /\ \A m \in Inst : (unsub'[m][l] = "cancelling" /\ watchOf[m][l] = watchOf[j][l]) => j = m
      BY <1>1
    <3>1. CASE j = i /\ l = k
      BY <3>1, <1>a, <1>2, <1>5, <1>6, <2>4
    <3>2. CASE ~(j = i /\ l = k)
      <4>1. unsub[j][l] = "cancelling"
        BY <3>2, <1>5
      <4>2. ASSUME NEW m \in Inst, unsub'[m][l] = "cancelling", watchOf[m][l] = watchOf[j][l]
            PROVE  unsub[m][l] = "cancelling"
        BY <4>1, <4>2, <1>a, <1>5, <2>4
      <4> QED
        BY <4>1, <4>2, <1>6, <2>4 DEF LockInv
    <3> QED
      BY <3>1, <3>2
  <2> QED
    BY <2>1, <2>2, <2>3, <2>5 DEF LockInv
<1>13. OneLiveWatchPerKey'
  BY <1>1 DEF OneLiveWatchPerKey, Live, Created
<1>14. StreamInv'
  BY <1>1, <1>3 DEF StreamInv, Created, TypeOK
<1>15. SubscriptionInv'
  <2>1. (\A j \in Inst, l \in Key :
           /\ watchOf[j][l] # None => KeyOf(watchOf[j][l]) = l /\ Created(watchOf[j][l])
           /\ unsub[j][l] # "none" => watchOf[j][l] # None
           /\ unsub[j][l] = "none" => sets[j][l] = 0)'
    BY <1>1, <1>5 DEF SubscriptionInv, Created
  <2>2. (\A j \in Inst, w \in Watch :
           j \in subs[w] <=> (watchOf[j][KeyOf(w)] = w /\ unsub[j][KeyOf(w)] = "armed"))'
    BY <1>1, <1>a, <1>2, <1>3, <1>5 DEF SubscriptionInv
  <2>3. \A j \in Inst : Subscribing(j) => unsub'[j][CurrentKey(j)] = "none"
    BY <1>1, <1>5, CurrentKeyType DEF SubscriptionInv
  <2> QED
    BY <1>1, <2>1, <2>2, <2>3 DEF SubscriptionInv, Subscribing, Target, CurrentKey, Live, Created
<1>16. OrderInv'
  <2>1. \A j \in Inst : \A n \in idx[j]..Len(Plan[j]) : Plan[j][n] \in Key
    BY PlanFacts DEF TypeOK
  <2> QED
    BY <1>1, <1>5, <2>1 DEF OrderInv
<1>17. PublishInv'
  <2>1. left[t] = {}
    BY <1>1, <1>2 DEF PublishInv, LockInv
  <2> QED
    BY <1>1, <1>3, <2>1 DEF PublishInv
<1> QED
  BY <1>11, <1>12, <1>13, <1>14, <1>15, <1>16, <1>17

\* Cancelling a stream: it is the one in the map, since only cancel removes it
\* and only one goroutine cancels.
LEMMA CancelWatchKeeps ==
  ASSUME IInv, NEW i \in Inst, NEW k \in Key, CancelWatch(i, k)
  PROVE  IInv'
<1> USE BoundAssumption, WatchFacts DEF IInv
<1>a. PICK t : t = watchOf[i][k]
  OBVIOUS
<1>1. /\ unsub[i][k] = "cancelling" /\ wmMu = None
      /\ watches' = [watches EXCEPT ![k] = None]
      /\ cancelled' = cancelled \cup {t}
      /\ owMu' = [owMu EXCEPT ![t] = "free"]
      /\ unsub' = [unsub EXCEPT ![i][k] = "done"]
      /\ UNCHANGED <<newVars, contextVars, wmMu, watchOf, subs, streamVars, cluster>>
  BY <1>a DEF CancelWatch
<1>2. t \in Watch /\ KeyOf(t) = k /\ Live(t) /\ owMu[t] = "cancel" /\ subs[t] = {}
  BY <1>1, <1>a, SubscriptionFacts DEF LockInv
<1>3. watches[k] = t /\ \A j \in Inst : ~Subscribing(j)
  BY <1>1, <1>2 DEF OneLiveWatchPerKey, LockInv
<1>5. /\ unsub' \in [Inst -> [Key -> {"none", "armed", "cancelling", "done"}]]
      /\ \A j \in Inst, l \in Key : unsub'[j][l] = IF j = i /\ l = k THEN "done" ELSE unsub[j][l]
  BY <1>1 DEF TypeOK
<1>6. /\ owMu' \in [Watch -> {"free", "publish", "cancel"}]
      /\ \A w \in Watch : owMu'[w] = IF w = t THEN "free" ELSE owMu[w]
  BY <1>1, <1>2 DEF TypeOK
<1>7. /\ watches' \in [Key -> Watch \cup {None}]
      /\ \A l \in Key : watches'[l] = IF l = k THEN None ELSE watches[l]
  BY <1>1 DEF TypeOK
<1>8. \A w \in Watch : (Created(w)' <=> Created(w)) /\ (Live(w)' <=> Live(w) /\ w # t)
  BY <1>1 DEF Live, Created
<1>11. TypeOK'
  BY <1>1, <1>2, <1>5, <1>6, <1>7 DEF TypeOK
<1>12. LockInv'
  <2>1. (\A j \in Inst : wmMu = j <=> Subscribing(j))'
    BY <1>1 DEF LockInv, Subscribing
  <2>2. (\A w \in Watch : owMu[w] = "publish" <=> wpc[w] = "sending")'
    BY <1>1, <1>2, <1>6 DEF LockInv
  <2>3. (\A w \in Watch : owMu[w] = "cancel" => Live(w) /\ subs[w] = {})'
    BY <1>1, <1>6, <1>8 DEF LockInv
  <2>4. (\A j \in Inst, l \in Key :
          unsub[j][l] = "cancelling" =>
            /\ owMu[watchOf[j][l]] = "cancel"
            /\ \A m \in Inst : (unsub[m][l] = "cancelling" /\ watchOf[m][l] = watchOf[j][l]) => j = m)'
    <3> SUFFICES ASSUME NEW j \in Inst, NEW l \in Key, unsub'[j][l] = "cancelling"
                 PROVE  /\ owMu'[watchOf[j][l]] = "cancel"
                        /\ \A m \in Inst : (unsub'[m][l] = "cancelling" /\ watchOf[m][l] = watchOf[j][l]) => j = m
      BY <1>1
    <3>1. unsub[j][l] = "cancelling" /\ ~(j = i /\ l = k)
      BY <1>5
    <3>2. watchOf[j][l] \in Watch /\ KeyOf(watchOf[j][l]) = l
      BY <3>1, SubscriptionFacts
    <3>3. watchOf[j][l] # t
      BY <3>1, <3>2, <1>1, <1>2, <1>a DEF LockInv
    <3>4. \A m \in Inst : unsub'[m][l] = "cancelling" => unsub[m][l] = "cancelling"
      BY <1>5
    <3> QED
      BY <3>1, <3>2, <3>3, <3>4, <1>6 DEF LockInv
  <2> QED
    BY <2>1, <2>2, <2>3, <2>4 DEF LockInv
<1>13. OneLiveWatchPerKey'
  BY <1>1, <1>2, <1>3, <1>7, <1>8 DEF OneLiveWatchPerKey
<1>14. StreamInv'
  BY <1>1, <1>2, <1>8 DEF StreamInv, TypeOK, Live
<1>15. SubscriptionInv'
  <2>1. (\A j \in Inst, l \in Key :
           /\ watchOf[j][l] # None => KeyOf(watchOf[j][l]) = l /\ Created(watchOf[j][l])
           /\ unsub[j][l] # "none" => watchOf[j][l] # None
           /\ unsub[j][l] = "none" => sets[j][l] = 0)'
    BY <1>1, <1>5 DEF SubscriptionInv, Created
  <2>2. (\A j \in Inst, w \in Watch :
           j \in subs[w] <=> (watchOf[j][KeyOf(w)] = w /\ unsub[j][KeyOf(w)] = "armed"))'
    BY <1>1, <1>5 DEF SubscriptionInv
  <2>3. \A j \in Inst : ~Subscribing(j)'
    BY <1>1, <1>3 DEF Subscribing
  <2> QED
    BY <2>1, <2>2, <2>3 DEF SubscriptionInv
<1>16. OrderInv'
  <2>1. \A j \in Inst : \A n \in idx[j]..Len(Plan[j]) : Plan[j][n] \in Key
    BY PlanFacts DEF TypeOK
  <2> QED
    BY <1>1, <1>5, <2>1 DEF OrderInv
<1>17. PublishInv'
  BY <1>1 DEF PublishInv
<1> QED
  BY <1>11, <1>12, <1>13, <1>14, <1>15, <1>16, <1>17

\* Sending to one subscriber changes only what that subscriber trusts.
LEMMA DeliverKeeps ==
  ASSUME IInv, NEW w \in Watch, Deliver(w)
  PROVE  IInv'
<1> USE BoundAssumption, WatchFacts DEF IInv
<1>a. PICK i : i = sendTo[w]
  OBVIOUS
<1>b. PICK k \in Key : k = KeyOf(w)
  OBVIOUS
<1>1. /\ i # None /\ wpc[w] = "sending"
      /\ sets' = [sets EXCEPT ![i][k] = seen[w]]
      /\ left' = [left EXCEPT ![w] = @ \ {i}]
      /\ sendTo' = [sendTo EXCEPT ![w] = None]
      /\ UNCHANGED <<newVars, done, updater, hubVars, owMu, subs, cancelled, wpc, seen, cluster>>
  BY <1>a, <1>b DEF Deliver
<1>2. i \in Inst /\ i \in left[w] /\ i \in subs[w] /\ unsub[i][k] = "armed"
  BY <1>1, <1>a, <1>b DEF PublishInv, SubscriptionInv, TypeOK
<1>3. /\ sets' \in [Inst -> [Key -> 0..MaxVersion]]
      /\ \A j \in Inst, l \in Key : ~(j = i /\ l = k) => sets'[j][l] = sets[j][l]
  BY <1>1, <1>2 DEF TypeOK
<1>11. TypeOK'
  BY <1>1, <1>2, <1>3 DEF TypeOK
<1>12. LockInv'
  BY <1>1 DEF LockInv, Subscribing, Live, Created
<1>13. OneLiveWatchPerKey'
  BY <1>1 DEF OneLiveWatchPerKey, Live, Created
<1>14. StreamInv'
  BY <1>1 DEF StreamInv, Created
<1>15. SubscriptionInv'
  <2>1. \A j \in Inst, l \in Key : unsub[j][l] = "none" => sets'[j][l] = 0
    BY <1>2, <1>3 DEF SubscriptionInv
  <2> QED
    BY <1>1, <2>1 DEF SubscriptionInv, Subscribing, Target, CurrentKey, Live, Created
<1>16. OrderInv'
  BY <1>1 DEF OrderInv
<1>17. PublishInv'
  <2>1. \A v \in Watch : /\ left'[v] = IF v = w THEN left[v] \ {i} ELSE left[v]
                         /\ sendTo'[v] = IF v = w THEN None ELSE sendTo[v]
    BY <1>1 DEF TypeOK
  <2> QED
    BY <1>1, <2>1 DEF PublishInv
<1> QED
  BY <1>11, <1>12, <1>13, <1>14, <1>15, <1>16, <1>17

\* Calling New touches no stream.
LEMMA StartKeeps ==
  ASSUME IInv, NEW i \in Inst, Start(i)
  PROVE  IInv'
<1> USE BoundAssumption, WatchFacts DEF IInv, Start, TypeOK
<1>1. TypeOK'
  OBVIOUS
<1>2. LockInv'
  BY DEF LockInv, Subscribing, Live, Created
<1>3. OneLiveWatchPerKey'
  BY DEF OneLiveWatchPerKey, Live, Created
<1>4. StreamInv'
  BY DEF StreamInv, Created
<1>5. SubscriptionInv'
  BY DEF SubscriptionInv, Subscribing, Target, CurrentKey, Live, Created
<1>6. OrderInv'
  BY DEF OrderInv
<1>7. PublishInv'
  BY DEF PublishInv
<1> QED
  BY <1>1, <1>2, <1>3, <1>4, <1>5, <1>6, <1>7

\* The end of a context alone changes nothing the mutexes protect.
LEMMA CtxCancelKeeps ==
  ASSUME IInv, NEW i \in Inst, CtxCancel(i)
  PROVE  IInv'
<1> USE BoundAssumption, WatchFacts DEF IInv, CtxCancel, TypeOK
<1>1. TypeOK'
  OBVIOUS
<1>2. LockInv'
  BY DEF LockInv, Subscribing, Live, Created
<1>3. OneLiveWatchPerKey'
  BY DEF OneLiveWatchPerKey, Live, Created
<1>4. StreamInv'
  BY DEF StreamInv, Created
<1>5. SubscriptionInv'
  BY DEF SubscriptionInv, Subscribing, Target, CurrentKey, Live, Created
<1>6. OrderInv'
  BY OrderFrame
<1>7. PublishInv'
  BY DEF PublishInv
<1> QED
  BY <1>1, <1>2, <1>3, <1>4, <1>5, <1>6, <1>7

\* Neither does the return of an updater.
LEMMA UpdaterExitKeeps ==
  ASSUME IInv, NEW i \in Inst, UpdaterExit(i)
  PROVE  IInv'
<1> USE BoundAssumption, WatchFacts DEF IInv, UpdaterExit, TypeOK
<1>1. TypeOK'
  OBVIOUS
<1>2. LockInv'
  BY DEF LockInv, Subscribing, Live, Created
<1>3. OneLiveWatchPerKey'
  BY DEF OneLiveWatchPerKey, Live, Created
<1>4. StreamInv'
  BY DEF StreamInv, Created
<1>5. SubscriptionInv'
  BY DEF SubscriptionInv, Subscribing, Target, CurrentKey, Live, Created
<1>6. OrderInv'
  BY OrderFrame
<1>7. PublishInv'
  BY DEF PublishInv
<1> QED
  BY <1>1, <1>2, <1>3, <1>4, <1>5, <1>6, <1>7

\* A complete list is published next.
LEMMA ListCompleteKeeps ==
  ASSUME IInv, NEW w \in Watch, ListComplete(w)
  PROVE  IInv'
<1> USE BoundAssumption, WatchFacts DEF IInv, ListComplete, TypeOK
<1>1. TypeOK'
  OBVIOUS
<1>2. LockInv'
  BY DEF LockInv, Subscribing, Live, Created
<1>3. OneLiveWatchPerKey'
  BY DEF OneLiveWatchPerKey, Live, Created
<1>4. StreamInv'
  BY DEF StreamInv, Created
<1>5. SubscriptionInv'
  BY SubscriptionFrame DEF Created
<1>6. OrderInv'
  BY OrderFrame
<1>7. PublishInv'
  BY DEF PublishInv
<1> QED
  BY <1>1, <1>2, <1>3, <1>4, <1>5, <1>6, <1>7

\* So is the list after each later event.
LEMMA EventKeeps ==
  ASSUME IInv, NEW w \in Watch, Event(w)
  PROVE  IInv'
<1> USE BoundAssumption, WatchFacts DEF IInv, Event, TypeOK
<1>1. TypeOK'
  OBVIOUS
<1>2. LockInv'
  BY DEF LockInv, Subscribing, Live, Created
<1>3. OneLiveWatchPerKey'
  BY DEF OneLiveWatchPerKey, Live, Created
<1>4. StreamInv'
  BY DEF StreamInv, Created
<1>5. SubscriptionInv'
  BY SubscriptionFrame DEF Created
<1>6. OrderInv'
  BY OrderFrame
<1>7. PublishInv'
  BY DEF PublishInv
<1> QED
  BY <1>1, <1>2, <1>3, <1>4, <1>5, <1>6, <1>7

\* publish takes ow.mu and has every subscriber left to serve.
LEMMA PublishLockKeeps ==
  ASSUME IInv, NEW w \in Watch, PublishLock(w)
  PROVE  IInv'
<1> USE BoundAssumption, WatchFacts DEF IInv, PublishLock, TypeOK
<1>1. TypeOK'
  OBVIOUS
<1>2. LockInv'
  BY DEF LockInv, Subscribing, Live, Created, OwFree
<1>3. OneLiveWatchPerKey'
  BY DEF OneLiveWatchPerKey, Live, Created
<1>4. StreamInv'
  BY DEF StreamInv, Created
<1>5. SubscriptionInv'
  BY SubscriptionFrame DEF Created
<1>6. OrderInv'
  BY OrderFrame
<1>7. PublishInv'
  BY DEF PublishInv, LockInv, OwFree
<1> QED
  BY <1>1, <1>2, <1>3, <1>4, <1>5, <1>6, <1>7

\* publish turns to one of those it has left.
LEMMA PublishNextKeeps ==
  ASSUME IInv, NEW w \in Watch, NEW i \in Inst, PublishNext(w, i)
  PROVE  IInv'
<1> USE BoundAssumption, WatchFacts DEF IInv, PublishNext, TypeOK
<1>1. TypeOK'
  OBVIOUS
<1>2. LockInv'
  BY LockFrame DEF LockInv, Created
<1>3. OneLiveWatchPerKey'
  BY DEF OneLiveWatchPerKey, Live, Created
<1>4. StreamInv'
  BY DEF StreamInv, Created
<1>5. SubscriptionInv'
  BY SubscriptionFrame DEF Created
<1>6. OrderInv'
  BY OrderFrame
<1>7. PublishInv'
  BY DEF PublishInv
<1> QED
  BY <1>1, <1>2, <1>3, <1>4, <1>5, <1>6, <1>7

\* publish returns when nobody is left: a stream that publishes is not cancelled.
LEMMA PublishReturnKeeps ==
  ASSUME IInv, NEW w \in Watch, PublishReturn(w)
  PROVE  IInv'
<1> USE BoundAssumption, WatchFacts DEF IInv, PublishReturn, TypeOK
<1>1. TypeOK'
  OBVIOUS
<1>2. LockInv'
  <2>1. \A v \in Watch \ {w} : owMu'[v] = owMu[v] /\ wpc'[v] = wpc[v]
    OBVIOUS
  <2>2. owMu[w] = "publish" /\ owMu'[w] = "free" /\ wpc'[w] \in {"stream", "stopped"}
    BY DEF LockInv
  <2> QED
    BY <2>1, <2>2, LockFrame DEF LockInv, Created
<1>3. OneLiveWatchPerKey'
  BY DEF OneLiveWatchPerKey, Live, Created
<1>4. StreamInv'
  BY DEF StreamInv, Created
<1>5. SubscriptionInv'
  BY SubscriptionFrame DEF Created
<1>6. OrderInv'
  BY OrderFrame
<1>7. PublishInv'
  BY DEF PublishInv, PublishOver
<1> QED
  BY <1>1, <1>2, <1>3, <1>4, <1>5, <1>6, <1>7

\* A broken connection leaves the subscriptions.
LEMMA StreamBreakKeeps ==
  ASSUME IInv, NEW w \in Watch, StreamBreak(w)
  PROVE  IInv'
<1> USE BoundAssumption, WatchFacts DEF IInv, StreamBreak, TypeOK
<1>1. TypeOK'
  OBVIOUS
<1>2. LockInv'
  BY DEF LockInv, Subscribing, Live, Created
<1>3. OneLiveWatchPerKey'
  BY DEF OneLiveWatchPerKey, Live, Created
<1>4. StreamInv'
  BY DEF StreamInv, Created
<1>5. SubscriptionInv'
  BY SubscriptionFrame DEF Created
<1>6. OrderInv'
  BY OrderFrame
<1>7. PublishInv'
  BY DEF PublishInv
<1> QED
  BY <1>1, <1>2, <1>3, <1>4, <1>5, <1>6, <1>7

\* So does the next one.
LEMMA ReconnectKeeps ==
  ASSUME IInv, NEW w \in Watch, Reconnect(w)
  PROVE  IInv'
<1> USE BoundAssumption, WatchFacts DEF IInv, Reconnect, TypeOK
<1>1. TypeOK'
  OBVIOUS
<1>2. LockInv'
  BY DEF LockInv, Subscribing, Live, Created
<1>3. OneLiveWatchPerKey'
  BY DEF OneLiveWatchPerKey, Live, Created
<1>4. StreamInv'
  BY DEF StreamInv, Created
<1>5. SubscriptionInv'
  BY SubscriptionFrame DEF Created
<1>6. OrderInv'
  BY OrderFrame
<1>7. PublishInv'
  BY DEF PublishInv
<1> QED
  BY <1>1, <1>2, <1>3, <1>4, <1>5, <1>6, <1>7

\* A stream that stops was cancelled, and has no subscriber.
LEMMA WatchStopKeeps ==
  ASSUME IInv, NEW w \in Watch, WatchStop(w)
  PROVE  IInv'
<1> USE BoundAssumption, WatchFacts DEF IInv, WatchStop, TypeOK
<1>1. TypeOK'
  OBVIOUS
<1>2. LockInv'
  BY DEF LockInv, Subscribing, Live, Created
<1>3. OneLiveWatchPerKey'
  BY DEF OneLiveWatchPerKey, Live, Created
<1>4. StreamInv'
  BY DEF StreamInv, Created
<1>5. SubscriptionInv'
  BY SubscriptionFrame DEF Created
<1>6. OrderInv'
  BY OrderFrame
<1>7. PublishInv'
  BY DEF PublishInv
<1> QED
  BY <1>1, <1>2, <1>3, <1>4, <1>5, <1>6, <1>7

\* The collection changes without any of the plugin's locks.
LEMMA ClusterChangeKeeps ==
  ASSUME IInv, NEW k \in Key, ClusterChange(k)
  PROVE  IInv'
<1> USE BoundAssumption, WatchFacts DEF IInv, ClusterChange, TypeOK
<1>1. TypeOK'
  OBVIOUS
<1>2. LockInv'
  BY DEF LockInv, Subscribing, Live, Created
<1>3. OneLiveWatchPerKey'
  BY DEF OneLiveWatchPerKey, Live, Created
<1>4. StreamInv'
  BY DEF StreamInv, Created
<1>5. SubscriptionInv'
  BY DEF SubscriptionInv, Subscribing, Target, CurrentKey, Live, Created
<1>6. OrderInv'
  BY OrderFrame
<1>7. PublishInv'
  BY DEF PublishInv
<1> QED
  BY <1>1, <1>2, <1>3, <1>4, <1>5, <1>6, <1>7

\* A stuttering step changes nothing.
LEMMA Stutter ==
  ASSUME IInv, UNCHANGED vars
  PROVE  IInv'
<1> USE DEF vars
<1>1. TypeOK'
  BY DEF IInv, TypeOK
<1>2. \A v \in Watch : Created(v)' <=> Created(v)
  BY DEF Created
<1>3. LockInv'
  BY <1>2, LockFrame DEF IInv, LockInv
<1>4. SubscriptionInv'
  BY <1>2, SubscriptionFrame
<1>5. OneLiveWatchPerKey'
  BY <1>2 DEF IInv, OneLiveWatchPerKey, Live
<1>6. StreamInv'
  BY <1>2 DEF IInv, TypeOK, StreamInv
<1>7. OrderInv' /\ PublishInv'
  BY DEF IInv, OrderInv, PublishInv
<1> QED
  BY <1>1, <1>3, <1>4, <1>5, <1>6, <1>7 DEF IInv

-----------------------------------------------------------------------------
(* The theorems.                                                           *)

\* The invariant of the hub: every reachable state has it, so that what the
\* two mutexes protect is consistent whatever the order of New, reloads,
\* publishes, reconnections and cancellations.
THEOREM Invariance == Spec => []IInv
<1>1. IInv /\ [Next]_vars => IInv'
  <2> SUFFICES ASSUME IInv, [Next]_vars PROVE IInv'
    OBVIOUS
  <2>1. CASE \E i \in Inst : InstStep(i)
    BY <2>1, StartKeeps, EnterManagerKeeps, SubscribeKeeps, CtxCancelKeeps, UpdaterExitKeeps DEF InstStep
  <2>2. CASE \E i \in Inst, k \in Key : SubscriptionStep(i, k)
    BY <2>2, UnsubscribeKeeps, CancelWatchKeeps DEF SubscriptionStep
  <2>3. CASE \E w \in Watch : WatchStep(w)
    BY <2>3, ListCompleteKeeps, EventKeeps, PublishLockKeeps, PublishNextKeeps, DeliverKeeps,
       PublishReturnKeeps, StreamBreakKeeps, ReconnectKeeps, WatchStopKeeps DEF WatchStep
  <2>4. CASE \E k \in Key : ClusterChange(k)
    BY <2>4, ClusterChangeKeeps
  <2>5. CASE UNCHANGED vars
    BY <2>5, Stutter
  <2> QED
    BY <2>1, <2>2, <2>3, <2>4, <2>5 DEF Next
<1> QED
  BY Initial, <1>1, PTL DEF Spec

\* Every variable of the hub keeps its type.
THEOREM TypeCorrect == Spec => []TypeOK
<1>1. IInv => TypeOK
  BY DEF IInv
<1> QED
  BY <1>1, Invariance, PTL

\* A key has one running stream, the one in watchManager.watches: cancel
\* never deletes the entry of another stream (main.go, connectOrSubscribe).
THEOREM OneLiveWatch == Spec => []OneLiveWatchPerKey
<1>1. IInv => OneLiveWatchPerKey
  BY DEF IInv
<1> QED
  BY <1>1, Invariance, PTL

\* No subscriber is left on a cancelled stream, and New never joins one
\* (main.go, subscribe, which calls cancel with ow.mu held).
THEOREM CancelledUnused == Spec => []CancelledWatchUnused
<1>1. IInv => CancelledWatchUnused
  BY TargetFacts DEF IInv, CancelledWatchUnused, StreamInv, Live
<1> QED
  BY <1>1, Invariance, PTL

\* The select on ctx.Done in publish never ends a publish that still has a
\* subscriber to serve: cancel needs ow.mu, which publish holds.  This is why
\* a publish to an updater that has returned blocks for ever.
THEOREM PublishNeverCancelled == Spec => []CancelWaitsForPublish
<1>1. IInv => CancelWaitsForPublish
  BY DEF IInv, CancelWaitsForPublish, StreamInv, PublishInv, TypeOK
<1> QED
  BY <1>1, Invariance, PTL

\* An updater is sent nothing once its instance has unsubscribed (publish
\* sends with ow.mu held, the goroutine of subscribe deletes with ow.mu held).
THEOREM NoLateDelivery == Spec => NoDeliveryAfterUnsubscribe
<1>1. ASSUME IInv, [Next]_vars
      PROVE  [\A i \in Inst, k \in Key : sets'[i][k] # sets[i][k] => unsub[i][k] = "armed"]_vars
  <2>1. CASE UNCHANGED sets
    BY <2>1
  <2>2. ASSUME NEW w \in Watch, Deliver(w)
        PROVE  \A i \in Inst, k \in Key : sets'[i][k] # sets[i][k] => unsub[i][k] = "armed"
    <3>a. PICK i : i = sendTo[w]
      OBVIOUS
    <3>1. sets' = [sets EXCEPT ![i][KeyOf(w)] = seen[w]]
      BY <2>2, <3>a DEF Deliver
    <3>2. i \in Inst /\ i \in subs[w]
      BY <1>1, <2>2, <3>a DEF Deliver, IInv, PublishInv, TypeOK
    <3>3. unsub[i][KeyOf(w)] = "armed"
      BY <1>1, <3>2 DEF IInv, SubscriptionInv
    <3>4. \A j \in Inst, l \in Key : ~(j = i /\ l = KeyOf(w)) => sets'[j][l] = sets[j][l]
      BY <1>1, <3>1 DEF IInv, TypeOK
    <3> QED
      BY <3>3, <3>4
  <2>3. UNCHANGED sets \/ \E w \in Watch : Deliver(w)
    BY <1>1 DEF Next, InstStep, SubscriptionStep, WatchStep, vars, Start, EnterManager, Subscribe,
       CtxCancel, UpdaterExit, Unsubscribe, CancelWatch, ListComplete, Event, PublishLock,
       PublishNext, PublishReturn, StreamBreak, Reconnect, WatchStop, ClusterChange
  <2> QED
    BY <2>1, <2>2, <2>3
<1>2. (IInv /\ [Next]_vars) => [\A i \in Inst, k \in Key : sets'[i][k] # sets[i][k] => unsub[i][k] = "armed"]_vars
  BY <1>1
<1> QED
  BY <1>2, Invariance, PTL DEF Spec, NoDeliveryAfterUnsubscribe

-----------------------------------------------------------------------------
(* Who holds the current list of a stream.                                 *)

\* Both parts of the claim about stale subscribers, as one invariant.
FreshInv == NoStaleSubscriber /\ ServedInv

\* The steps outside the goroutine watch: they keep what subscribers hold,
\* and only a new subscriber, which holds nothing yet, joins.
LEMMA FreshOutside ==
  ASSUME IInv, FreshInv,
         UNCHANGED <<sets, seen, left>>,
         \A w \in Watch : wpc'[w] = wpc[w] \/ (wpc'[w] = "list" /\ subs'[w] = {}),
         \A w \in Watch : \A i \in subs'[w] : i \in subs[w] \/ (i \in Inst /\ sets[i][KeyOf(w)] = 0)
  PROVE  FreshInv'
  BY WatchFacts DEF FreshInv, NoStaleSubscriber, ServedInv

\* A stream that has just taken ow.mu has everybody left to serve; when it is
\* done with somebody, that one holds its list.
LEMMA FreshPublish ==
  ASSUME IInv, FreshInv, NEW w \in Watch,
         PublishLock(w) \/ Deliver(w) \/ PublishReturn(w)
  PROVE  FreshInv'
<1> USE WatchFacts DEF IInv, TypeOK, FreshInv
<1>1. CASE PublishLock(w)
  BY <1>1 DEF PublishLock, NoStaleSubscriber, ServedInv
<1>2. CASE Deliver(w)
  <2>a. PICK i : i = sendTo[w]
    OBVIOUS
  <2>1. /\ i \in Inst /\ wpc[w] = "sending"
        /\ sets' = [sets EXCEPT ![i][KeyOf(w)] = seen[w]]
        /\ left' = [left EXCEPT ![w] = @ \ {i}]
        /\ UNCHANGED <<watchOf, subs, wpc, seen>>
    BY <1>2, <2>a DEF Deliver, PublishInv
  <2>2. \A v \in Watch : \A j \in subs[v] : (j # i \/ v # w) => sets'[j][KeyOf(v)] = sets[j][KeyOf(v)]
    BY <2>1, <1>2, <2>a DEF SubscriptionInv, PublishInv, Deliver
  <2>3. sets'[i][KeyOf(w)] = seen[w]
    BY <2>1
  <2>4. \A v \in Watch : left'[v] = IF v = w THEN left[v] \ {i} ELSE left[v]
    BY <2>1
  <2>5. NoStaleSubscriber'
    BY <2>1, <2>2 DEF NoStaleSubscriber
  <2>6. ServedInv'
    <3> SUFFICES ASSUME NEW v \in Watch, wpc[v] = "sending", NEW j \in subs[v] \ left'[v]
                 PROVE  sets'[j][KeyOf(v)] \in {0, seen[v]}
      BY <2>1 DEF ServedInv
    <3>1. CASE v = w /\ j = i
      BY <2>3, <3>1
    <3>2. CASE ~(v = w /\ j = i)
      BY <2>2, <2>4, <3>2 DEF ServedInv
    <3> QED
      BY <3>1, <3>2
  <2> QED
    BY <2>5, <2>6
<1>3. CASE PublishReturn(w)
  <2>1. left[w] = {} \/ subs[w] = {}
    BY <1>3 DEF PublishReturn, PublishOver, StreamInv
  <2> QED
    BY <1>3, <2>1 DEF PublishReturn, NoStaleSubscriber, ServedInv
<1> QED
  BY <1>1, <1>2, <1>3

\* A stream that is not publishing has nobody that missed its last publish.
THEOREM SubscribersFresh == Spec => []NoStaleSubscriber
<1>1. Init => FreshInv
  BY DEF Init, FreshInv, NoStaleSubscriber, ServedInv
<1>2. ASSUME IInv, FreshInv, [Next]_vars PROVE FreshInv'
  <2> USE WatchFacts DEF FreshInv
  <2>1. ASSUME NEW i \in Inst, Start(i) \/ CtxCancel(i) \/ UpdaterExit(i) PROVE FreshInv'
    BY <1>2, <2>1, FreshOutside DEF Start, CtxCancel, UpdaterExit
  <2>2. ASSUME NEW i \in Inst, EnterManager(i) PROVE FreshInv'
    <3>1. \A w \in Watch : wpc'[w] = wpc[w] \/ (wpc'[w] = "list" /\ wpc[w] = "none")
      <4>1. CurrentKey(i) \in Key
        BY <1>2, CurrentKeyType DEF IInv
      <4>2. watchOf[i][CurrentKey(i)] = None
        <5>1. pc[i] = "connecting" /\ idx[i] \in idx[i]..Len(Plan[i])
          BY <1>2, <2>2, PlanFacts DEF EnterManager, IInv, TypeOK
        <5> QED
          BY <1>2, <5>1 DEF IInv, OrderInv, CurrentKey
      <4>3. wpc[Stream(i, CurrentKey(i))] = "none"
        BY <1>2, <4>1, <4>2, BoundAssumption DEF IInv, StreamInv, Created
      <4> QED
        BY <1>2, <2>2, <4>1, <4>3 DEF EnterManager, IInv, TypeOK
    <3>2. \A w \in Watch : wpc[w] = "none" => subs[w] = {}
      BY <1>2, BoundAssumption DEF IInv, SubscriptionInv, TypeOK, Created
    <3> QED
      BY <1>2, <2>2, <3>1, <3>2, FreshOutside DEF EnterManager
  <2>3. ASSUME NEW i \in Inst, Subscribe(i) PROVE FreshInv'
    <3>1. /\ Target(i) \in Watch /\ KeyOf(Target(i)) = CurrentKey(i)
          /\ unsub[i][CurrentKey(i)] = "none" /\ Target(i) = watchOf[i][CurrentKey(i)]
      BY <1>2, <2>3, TargetFacts DEF Subscribe, Subscribing
    <3>2. sets[i][CurrentKey(i)] = 0
      BY <1>2, <3>1, CurrentKeyType DEF IInv, SubscriptionInv
    <3>3. \A w \in Watch : subs'[w] = IF w = Target(i) THEN subs[w] \cup {i} ELSE subs[w]
      BY <1>2, <2>3, <3>1 DEF Subscribe, IInv, TypeOK
    <3> QED
      BY <1>2, <2>3, <3>1, <3>2, <3>3, FreshOutside DEF Subscribe
  <2>4. ASSUME NEW i \in Inst, NEW k \in Key, Unsubscribe(i, k) PROVE FreshInv'
    <3>1. \A w \in Watch : subs'[w] \subseteq subs[w]
      BY <1>2, <2>4 DEF Unsubscribe, IInv, TypeOK
    <3> QED
      BY <1>2, <2>4, <3>1, FreshOutside DEF Unsubscribe
  <2>5. ASSUME NEW i \in Inst, NEW k \in Key, CancelWatch(i, k) PROVE FreshInv'
    BY <1>2, <2>5, FreshOutside DEF CancelWatch
  <2>6. ASSUME NEW w \in Watch, ListComplete(w) \/ Event(w) \/ StreamBreak(w) \/ Reconnect(w) \/ WatchStop(w)
        PROVE  FreshInv'
    <3>1. /\ UNCHANGED <<sets, subs, left>>
          /\ \A v \in Watch \ {w} : wpc'[v] = wpc[v] /\ seen'[v] = seen[v]
          /\ wpc[w] # "sending" /\ wpc'[w] # "sending"
          /\ wpc'[w] \in {"list", "stream", "retry"} => wpc[w] \in {"list", "stream", "retry"} /\ seen'[w] = seen[w]
      BY <1>2, <2>6 DEF ListComplete, Event, StreamBreak, Reconnect, WatchStop, IInv, TypeOK
    <3> QED
      BY <1>2, <3>1 DEF NoStaleSubscriber, ServedInv
  <2>7. ASSUME NEW w \in Watch, NEW i \in Inst, PublishNext(w, i) PROVE FreshInv'
    BY <1>2, <2>7, FreshOutside DEF PublishNext
  <2>8. ASSUME NEW k \in Key, ClusterChange(k) PROVE FreshInv'
    BY <1>2, <2>8, FreshOutside DEF ClusterChange
  <2>9. CASE UNCHANGED vars
    BY <1>2, <2>9, FreshOutside DEF vars
  <2> QED
    BY <1>2, <2>1, <2>2, <2>3, <2>4, <2>5, <2>6, <2>7, <2>8, <2>9, FreshPublish
       DEF Next, InstStep, SubscriptionStep, WatchStep
<1>3. FreshInv => NoStaleSubscriber
  BY DEF FreshInv
<1>4. IInv /\ FreshInv /\ [Next]_vars => FreshInv'
  BY <1>2
<1> QED
  BY <1>1, <1>3, <1>4, Invariance, PTL DEF Spec

-----------------------------------------------------------------------------
(* No stream is left behind.                                               *)

\* The steps that leave alone who subscribes, who cancels and who is inside
\* New keep NoOrphanWatch.
LEMMA OrphanFrame ==
  ASSUME IInv, NoOrphanWatch,
         UNCHANGED <<pc, idx, watchOf>>,
         \A w \in Watch : /\ Live(w)' => Live(w)
                          /\ subs[w] # {} => subs'[w] # {} \/ owMu'[w] = "cancel"
                          /\ owMu[w] = "cancel" => owMu'[w] = "cancel" \/ ~Live(w)'
  PROVE  NoOrphanWatch'
  BY DEF NoOrphanWatch, Subscribing, Target, CurrentKey

\* Every running stream has a subscriber, is about to get one, or is being
\* cancelled: nothing keeps watching the API server for nobody.
THEOREM NoOrphan == Spec => []NoOrphanWatch
<1>1. Init => NoOrphanWatch
  BY DEF Init, NoOrphanWatch, Live, Created
<1>2. ASSUME IInv, NoOrphanWatch, [Next]_vars PROVE NoOrphanWatch'
  <2> USE WatchFacts, BoundAssumption
  <2>1. ASSUME NEW i \in Inst, Start(i) PROVE NoOrphanWatch'
    <3>1. \A j \in Inst : /\ Subscribing(j)' <=> Subscribing(j)
                          /\ Target(j)' = Target(j)
      BY <1>2, <2>1 DEF Start, Subscribing, Target, CurrentKey, IInv, TypeOK
    <3> QED
      BY <1>2, <2>1, <3>1 DEF Start, NoOrphanWatch, Live, Created
  <2>2. ASSUME NEW i \in Inst, EnterManager(i) PROVE NoOrphanWatch'
    <3>1. CurrentKey(i) \in Key /\ ~\E j \in Inst : Subscribing(j)
      BY <1>2, <2>2, CurrentKeyType DEF IInv, EnterManager, LockInv
    <3>2. /\ Subscribing(i)'
          /\ Target(i)' = IF Existing(CurrentKey(i)) THEN watches[CurrentKey(i)] ELSE Stream(i, CurrentKey(i))
      BY <1>2, <2>2, <3>1 DEF EnterManager, IInv, TypeOK, Subscribing, Target, CurrentKey
    <3>3. \A w \in Watch : Live(w)' => Live(w) \/ w = Target(i)'
      BY <1>2, <2>2, <3>1, <3>2 DEF EnterManager, IInv, TypeOK, Live, Created
    <3> QED
      BY <1>2, <2>2, <3>1, <3>2, <3>3 DEF EnterManager, NoOrphanWatch
  <2>3. ASSUME NEW i \in Inst, Subscribe(i) PROVE NoOrphanWatch'
    <3>1. Target(i) \in Watch /\ \A j \in Inst : Subscribing(j) <=> j = i
      BY <1>2, <2>3, TargetFacts DEF Subscribe, IInv, LockInv, Subscribing
    <3>2. \A w \in Watch : subs'[w] = IF w = Target(i) THEN subs[w] \cup {i} ELSE subs[w]
      BY <1>2, <2>3, <3>1 DEF Subscribe, IInv, TypeOK, Target
    <3>3. \A w \in Watch : subs[w] # {} \/ w = Target(i) => subs'[w] # {}
      BY <3>2
    <3>4. UNCHANGED <<owMu, cancelled, wpc>>
      BY <2>3 DEF Subscribe
    <3> QED
      BY <1>2, <3>1, <3>3, <3>4 DEF NoOrphanWatch, Live, Created
  <2>4. ASSUME NEW i \in Inst, NEW k \in Key, Unsubscribe(i, k) PROVE NoOrphanWatch'
    <3>1. watchOf[i][k] \in Watch /\ owMu[watchOf[i][k]] = "free"
      BY <1>2, <2>4, SubscriptionFacts DEF Unsubscribe, OwFree
    <3>2. \A w \in Watch : /\ w # watchOf[i][k] => subs'[w] = subs[w] /\ owMu'[w] = owMu[w]
                           /\ w = watchOf[i][k] => subs'[w] # {} \/ owMu'[w] = "cancel"
      BY <1>2, <2>4, <3>1 DEF Unsubscribe, LastSubscriber, IInv, TypeOK
    <3> QED
      BY <1>2, <2>4, <3>1, <3>2, OrphanFrame DEF Unsubscribe, Live, Created
  <2>5. ASSUME NEW i \in Inst, NEW k \in Key, CancelWatch(i, k) PROVE NoOrphanWatch'
    <3>1. watchOf[i][k] \in Watch
      BY <1>2, <2>5, SubscriptionFacts DEF CancelWatch
    <3> QED
      BY <1>2, <2>5, <3>1, OrphanFrame DEF CancelWatch, Live, Created, IInv, TypeOK
  <2>6. ASSUME NEW w \in Watch, WatchStep(w) PROVE NoOrphanWatch'
    <3>1. UNCHANGED <<pc, idx, watchOf, subs, cancelled>>
      BY <2>6 DEF WatchStep, ListComplete, Event, PublishLock, PublishNext, Deliver, PublishReturn,
         StreamBreak, Reconnect, WatchStop
    <3>2. \A v \in Watch : wpc'[v] = wpc[v] \/ (v = w /\ wpc[w] # "none")
      BY <1>2, <2>6 DEF WatchStep, ListComplete, Event, PublishLock, PublishNext, Deliver,
         PublishReturn, StreamBreak, Reconnect, WatchStop, IInv, TypeOK
    <3>3. \A v \in Watch : owMu[v] = "cancel" => owMu'[v] = "cancel"
      BY <1>2, <2>6 DEF WatchStep, ListComplete, Event, PublishLock, PublishNext, Deliver, OwFree,
         PublishReturn, StreamBreak, Reconnect, WatchStop, IInv, TypeOK, LockInv
    <3> QED
      BY <1>2, <3>1, <3>2, <3>3, OrphanFrame DEF Live, Created
  <2>7. ASSUME NEW i \in Inst, CtxCancel(i) \/ UpdaterExit(i) PROVE NoOrphanWatch'
    BY <1>2, <2>7, OrphanFrame DEF CtxCancel, UpdaterExit, Live, Created
  <2>8. ASSUME NEW k \in Key, ClusterChange(k) PROVE NoOrphanWatch'
    BY <1>2, <2>8, OrphanFrame DEF ClusterChange, Live, Created
  <2>9. CASE UNCHANGED vars
    BY <1>2, <2>9, OrphanFrame DEF vars, Live, Created
  <2> QED
    BY <1>2, <2>1, <2>2, <2>3, <2>4, <2>5, <2>6, <2>7, <2>8, <2>9 DEF Next, InstStep, SubscriptionStep
<1>3. IInv /\ NoOrphanWatch /\ [Next]_vars => NoOrphanWatch'
  BY <1>2
<1> QED
  BY <1>1, <1>3, Invariance, PTL DEF Spec

-----------------------------------------------------------------------------
(* The hub implements the abstract one.                                     *)

\* The steps that read nothing and send nothing; a stream that is asked for is
\* asked for by an instance that has nothing of its collection yet.
LEMMA VersionFrame ==
  ASSUME IInv, VersionInv, UNCHANGED <<sets, seen, cluster>>,
         \A i \in Inst, k \in Key :
           \/ watchOf'[i][k] = watchOf[i][k]
           \/ watchOf'[i][k] \in Watch /\ unsub[i][k] = "none"
  PROVE  VersionInv'
<1>1. \A i \in Inst, k \in Key : unsub[i][k] = "none" => sets[i][k] = 0
  BY DEF IInv, SubscriptionInv
<1>2. \A w \in Watch : seen[w] \in Nat
  BY DEF IInv, TypeOK
<1>3. \A i \in Inst, k \in Key : watchOf'[i][k] # None => sets'[i][k] <= seen'[watchOf'[i][k]]
  BY <1>1, <1>2 DEF VersionInv
<1> QED
  BY <1>3 DEF VersionInv

\* What a stream has seen, or the collection becomes, is not older than before.
LEMMA VersionsGrow ==
  ASSUME IInv, VersionInv, UNCHANGED <<sets, watchOf>>,
         \A w \in Watch : seen'[w] \in Nat /\ seen[w] <= seen'[w] /\ seen'[w] <= cluster'[KeyOf(w)]
  PROVE  VersionInv'
<1>1. ASSUME NEW i \in Inst, NEW k \in Key, watchOf[i][k] # None
      PROVE  sets[i][k] <= seen'[watchOf[i][k]]
  <2>1. watchOf[i][k] \in Watch /\ sets[i][k] \in Nat
    BY <1>1 DEF IInv, TypeOK
  <2>2. sets[i][k] <= seen[watchOf[i][k]] /\ seen[watchOf[i][k]] \in Nat
    BY <1>1, <2>1 DEF VersionInv, IInv, TypeOK
  <2> QED
    BY <2>1, <2>2
<1> QED
  BY <1>1 DEF VersionInv

\* The subscriber that is served is subscribed to the stream and has nothing
\* newer.
LEMMA Served ==
  ASSUME IInv, VersionInv, NEW w \in Watch, Deliver(w)
  PROVE  /\ sendTo[w] \in Inst /\ watchOf[sendTo[w]][KeyOf(w)] = w
         /\ unsub[sendTo[w]][KeyOf(w)] = "armed"
         /\ sets[sendTo[w]][KeyOf(w)] <= seen[w]
         /\ seen[w] \in 0..cluster[KeyOf(w)]
<1>1. sendTo[w] \in Inst /\ sendTo[w] \in subs[w]
  BY DEF Deliver, IInv, PublishInv, TypeOK
<1>2. watchOf[sendTo[w]][KeyOf(w)] = w /\ unsub[sendTo[w]][KeyOf(w)] = "armed"
  BY <1>1 DEF IInv, SubscriptionInv
<1>3. w # None
  BY BoundAssumption
<1>4. cluster[KeyOf(w)] \in Nat /\ seen[w] \in Nat
  BY WatchFacts DEF IInv, TypeOK
<1> QED
  BY <1>1, <1>2, <1>3, <1>4, WatchFacts DEF VersionInv

\* No subscriber is ahead of its stream, and no stream of its collection.
THEOREM InOrder == Spec => []VersionInv
<1>1. Init => VersionInv
  BY WatchFacts DEF Init, VersionInv
<1>2. ASSUME IInv, VersionInv, [Next]_vars PROVE VersionInv'
  <2> USE WatchFacts
  <2>1. ASSUME NEW i \in Inst, InstStep(i) PROVE VersionInv'
    <3>1. CASE EnterManager(i)
      <4>1. CurrentKey(i) \in Key
        BY <1>2, CurrentKeyType DEF IInv
      <4>2. unsub[i][CurrentKey(i)] = "none"
        <5>1. pc[i] = "connecting" /\ idx[i] \in idx[i]..Len(Plan[i])
          BY <1>2, <3>1, PlanFacts DEF EnterManager, IInv, TypeOK
        <5> QED
          BY <1>2, <5>1 DEF IInv, OrderInv, CurrentKey
      <4>3. /\ UNCHANGED <<sets, seen, cluster>>
            /\ \E w \in Watch : watchOf' = [watchOf EXCEPT ![i][CurrentKey(i)] = w]
        BY <1>2, <3>1, <4>1 DEF EnterManager, contextVars, Existing, IInv, TypeOK
      <4>4. \A j \in Inst, k \in Key :
              \/ watchOf'[j][k] = watchOf[j][k]
              \/ watchOf'[j][k] \in Watch /\ unsub[j][k] = "none"
        BY <1>2, <4>1, <4>2, <4>3 DEF IInv, TypeOK
      <4> QED
        BY <1>2, <4>3, <4>4, VersionFrame
    <3>2. CASE ~EnterManager(i)
      <4>1. UNCHANGED <<sets, seen, cluster, watchOf>>
        BY <2>1, <3>2 DEF InstStep, Start, Subscribe, CtxCancel, UpdaterExit, contextVars, hubVars, streamVars
      <4> QED
        BY <1>2, <4>1 DEF VersionInv
    <3> QED
      BY <3>1, <3>2
  <2>2. ASSUME NEW w \in Watch, ListComplete(w) \/ Event(w) PROVE VersionInv'
    <3>1. /\ UNCHANGED <<sets, cluster, watchOf>>
          /\ seen' = [seen EXCEPT ![w] = cluster[KeyOf(w)]] \/ (seen[w] < cluster[KeyOf(w)] /\ seen' = [seen EXCEPT ![w] = @ + 1])
      BY <2>2 DEF ListComplete, Event, contextVars, hubVars
    <3>2. \A v \in Watch : seen[v] \in Nat /\ cluster[KeyOf(v)] \in Nat /\ seen[v] <= cluster[KeyOf(v)]
      BY <1>2 DEF IInv, TypeOK, VersionInv
    <3>3. PICK n \in {seen[w] + 1, cluster[KeyOf(w)]} :
            seen' = [seen EXCEPT ![w] = n] /\ (n = cluster[KeyOf(w)] \/ seen[w] < cluster[KeyOf(w)])
      BY <3>1
    <3>4. n \in Nat /\ seen[w] <= n /\ n <= cluster[KeyOf(w)]
      BY <3>2, <3>3
    <3>5. \A v \in Watch : seen'[v] = IF v = w THEN n ELSE seen[v]
      BY <1>2, <3>3 DEF IInv, TypeOK
    <3>6. \A v \in Watch : seen'[v] \in Nat /\ seen[v] <= seen'[v] /\ seen'[v] <= cluster'[KeyOf(v)]
      BY <3>1, <3>2, <3>4, <3>5
    <3> QED
      BY <1>2, <3>1, <3>6, VersionsGrow
  <2>3. ASSUME NEW w \in Watch, Deliver(w) PROVE VersionInv'
    <3>1. /\ UNCHANGED <<seen, cluster, watchOf>>
          /\ sets' = [sets EXCEPT ![sendTo[w]][KeyOf(w)] = seen[w]]
      BY <2>3 DEF Deliver, hubVars
    <3>2. \A j \in Inst, k \in Key : sets'[j][k] = IF j = sendTo[w] /\ k = KeyOf(w) THEN seen[w] ELSE sets[j][k]
      BY <1>2, <3>1 DEF IInv, TypeOK
    <3>3. seen[w] <= seen[w]
      BY <1>2 DEF IInv, TypeOK
    <3> QED
      BY <1>2, <2>3, <3>1, <3>2, <3>3, Served DEF VersionInv
  <2>4. ASSUME NEW k \in Key, ClusterChange(k) PROVE VersionInv'
    <3>1. UNCHANGED <<sets, seen, watchOf>> /\ cluster' = [cluster EXCEPT ![k] = @ + 1]
      BY <2>4 DEF ClusterChange, contextVars, hubVars, streamVars
    <3>2. \A v \in Watch : seen[v] \in Nat /\ cluster[KeyOf(v)] \in Nat /\ seen[v] <= cluster[KeyOf(v)]
      BY <1>2 DEF IInv, TypeOK, VersionInv
    <3>3. \A v \in Watch : seen'[v] \in Nat /\ seen[v] <= seen'[v] /\ seen'[v] <= cluster'[KeyOf(v)]
      BY <1>2, <3>1, <3>2 DEF IInv, TypeOK
    <3> QED
      BY <1>2, <3>1, <3>3, VersionsGrow
  <2>5. CASE UNCHANGED <<sets, seen, cluster, watchOf>>
    BY <1>2, <2>5 DEF VersionInv
  <2> QED
    BY <1>2, <2>1, <2>2, <2>3, <2>4, <2>5
       DEF Next, SubscriptionStep, WatchStep, Unsubscribe, CancelWatch, PublishLock, PublishNext,
           PublishReturn, StreamBreak, Reconnect, WatchStop, contextVars, hubVars, streamVars, vars
<1>3. IInv /\ VersionInv /\ [Next]_vars => VersionInv'
  BY <1>2
<1> QED
  BY <1>1, <1>3, Invariance, PTL DEF Spec

\* The pairs that are subscribed, or have been, after one of them moves on.
LEMMA StageMoves ==
  ASSUME IInv, NEW i \in Inst, NEW k \in Key, NEW stage,
         unsub' = [unsub EXCEPT ![i][k] = stage], NEW stages
  PROVE  /\ stage \in stages => Subscriptions(stages)' = Subscriptions(stages) \cup {<<i, k>>}
         /\ stage \notin stages => Subscriptions(stages)' = Subscriptions(stages) \ {<<i, k>>}
<1>1. \A s \in Inst \X Key : unsub'[s[1]][s[2]] = IF s = <<i, k>> THEN stage ELSE unsub[s[1]][s[2]]
  BY DEF IInv, TypeOK
<1> QED
  BY <1>1 DEF Subscriptions

\* Every step is one of the abstract hub, or none.
LEMMA HubStep ==
  ASSUME IInv, VersionInv, [Next]_vars
  PROVE  [Hub!Next]_(Hub!vars)
<1>1. ASSUME NEW i \in Inst, Subscribe(i) PROVE Hub!Next
  <2>1. CurrentKey(i) \in Key
    BY CurrentKeyType DEF IInv
  <2>2. /\ unsub[i][CurrentKey(i)] = "none"
        /\ unsub' = [unsub EXCEPT ![i][CurrentKey(i)] = "armed"]
        /\ UNCHANGED <<cluster, sets>>
    BY <1>1, TargetFacts DEF Subscribe, Subscribing, contextVars
  <2> DEFINE k == CurrentKey(i)
  <2>a. Subscriptions({"armed"})' = Subscriptions({"armed"}) \cup {<<i, k>>}
    BY <2>1, <2>2, StageMoves, "armed" \in {"armed"}
  <2>b. Subscriptions({"cancelling", "done"})' = Subscriptions({"cancelling", "done"}) \ {<<i, k>>}
    <3>1. "armed" \notin {"cancelling", "done"}
      OBVIOUS
    <3> QED
      BY <2>1, <2>2, <3>1, StageMoves
  <2>3. /\ Subscriptions({"armed"})' = Subscriptions({"armed"}) \cup {<<i, CurrentKey(i)>>}
        /\ Subscriptions({"cancelling", "done"})' =
             Subscriptions({"cancelling", "done"}) \ {<<i, CurrentKey(i)>>}
    BY <2>a, <2>b
  <2>4. <<i, CurrentKey(i)>> \notin Subscriptions({"armed"}) \cup Subscriptions({"cancelling", "done"})
    BY <2>2 DEF Subscriptions
  <2>5. Hub!Join(i, CurrentKey(i))
    BY <2>2, <2>3, <2>4 DEF Hub!Join
  <2> QED
    BY <2>1, <2>5 DEF Hub!Next
<1>2. ASSUME NEW i \in Inst, NEW k \in Key, Unsubscribe(i, k) PROVE Hub!Next
  <2>1. /\ unsub[i][k] = "armed"
        /\ \E stage \in {"cancelling", "done"} : unsub' = [unsub EXCEPT ![i][k] = stage]
        /\ UNCHANGED <<cluster, sets>>
    BY <1>2 DEF Unsubscribe, contextVars
  <2>2. PICK stage \in {"cancelling", "done"} : unsub' = [unsub EXCEPT ![i][k] = stage]
    BY <2>1
  <2>3. /\ Subscriptions({"armed"})' = Subscriptions({"armed"}) \ {<<i, k>>}
        /\ Subscriptions({"cancelling", "done"})' = Subscriptions({"cancelling", "done"}) \cup {<<i, k>>}
    BY <2>2, StageMoves
  <2>4. <<i, k>> \in Subscriptions({"armed"})
    BY <2>1 DEF Subscriptions
  <2>5. Hub!Leave(i, k)
    BY <2>1, <2>3, <2>4 DEF Hub!Leave
  <2> QED
    BY <2>5 DEF Hub!Next
<1>3. ASSUME NEW i \in Inst, NEW k \in Key, CancelWatch(i, k) PROVE UNCHANGED Hub!vars
  <2>1. /\ unsub[i][k] = "cancelling" /\ unsub' = [unsub EXCEPT ![i][k] = "done"]
        /\ UNCHANGED <<cluster, sets>>
    BY <1>3 DEF CancelWatch, contextVars
  <2>a. Subscriptions({"armed"})' = Subscriptions({"armed"}) \ {<<i, k>>}
    <3>1. "done" \notin {"armed"}
      OBVIOUS
    <3> QED
      BY <2>1, <3>1, StageMoves
  <2>b. Subscriptions({"cancelling", "done"})' = Subscriptions({"cancelling", "done"}) \cup {<<i, k>>}
    BY <2>1, StageMoves, "done" \in {"cancelling", "done"}
  <2>2. /\ Subscriptions({"armed"})' = Subscriptions({"armed"}) \ {<<i, k>>}
        /\ Subscriptions({"cancelling", "done"})' = Subscriptions({"cancelling", "done"}) \cup {<<i, k>>}
    BY <2>a, <2>b
  <2>3. <<i, k>> \notin Subscriptions({"armed"}) /\ <<i, k>> \in Subscriptions({"cancelling", "done"})
    BY <2>1 DEF Subscriptions
  <2> QED
    BY <2>1, <2>2, <2>3 DEF Hub!vars
<1>4. ASSUME NEW w \in Watch, Deliver(w) PROVE [Hub!Next]_(Hub!vars)
  <2>1. /\ UNCHANGED <<cluster, unsub>>
        /\ sets' = [sets EXCEPT ![sendTo[w]][KeyOf(w)] = seen[w]]
    BY <1>4 DEF Deliver, hubVars
  <2>2. \A stages : Subscriptions(stages)' = Subscriptions(stages)
    BY <2>1 DEF Subscriptions
  <2>3. /\ sendTo[w] \in Inst /\ KeyOf(w) \in Key
        /\ <<sendTo[w], KeyOf(w)>> \in Subscriptions({"armed"})
        /\ sets[sendTo[w]][KeyOf(w)] <= seen[w] /\ seen[w] \in 0..cluster[KeyOf(w)]
    BY <1>4, Served, WatchFacts DEF Subscriptions
  <2>4. CASE seen[w] # 0
    <3>1. seen[w] \in 1..cluster[KeyOf(w)]
      BY <2>3, <2>4
    <3>2. Hub!Show(sendTo[w], KeyOf(w))
      BY <2>1, <2>2, <2>3, <3>1 DEF Hub!Show
    <3> QED
      BY <2>3, <3>2 DEF Hub!Next
  <2>5. CASE seen[w] = 0
    <3>1. sets[sendTo[w]][KeyOf(w)] = 0
      BY <2>3, <2>5 DEF IInv, TypeOK
    <3>2. sets' = sets
      BY <2>1, <2>3, <2>5, <3>1 DEF IInv, TypeOK
    <3> QED
      BY <2>1, <2>2, <3>2 DEF Hub!vars
  <2> QED
    BY <2>4, <2>5
<1>5. ASSUME NEW k \in Key, ClusterChange(k) PROVE Hub!Next
  <2>1. UNCHANGED <<unsub, sets>> /\ cluster' = [cluster EXCEPT ![k] = @ + 1]
    BY <1>5 DEF ClusterChange, hubVars, contextVars
  <2>2. \A stages : Subscriptions(stages)' = Subscriptions(stages)
    BY <2>1 DEF Subscriptions
  <2> QED
    BY <2>1, <2>2 DEF Hub!Next, Hub!Change
<1>6. CASE UNCHANGED <<unsub, sets, cluster>>
  <2>1. \A stages : Subscriptions(stages)' = Subscriptions(stages)
    BY <1>6 DEF Subscriptions
  <2> QED
    BY <1>6, <2>1 DEF Hub!vars
<1> QED
  BY <1>1, <1>2, <1>3, <1>4, <1>5, <1>6
     DEF Next, InstStep, SubscriptionStep, WatchStep, Start, EnterManager, CtxCancel, UpdaterExit,
         ListComplete, Event, PublishLock, PublishNext, PublishReturn, StreamBreak, Reconnect,
         WatchStop, contextVars, hubVars, vars

\* The hub implements the abstract one: whatever streams an instance shares,
\* what it trusts are versions of the collection, never an older one than
\* before, and it trusts nothing new after its subscription is over.
THEOREM HubRefinement == Spec => ImplementsHub
<1>1. Init => Hub!Init
  BY DEF Init, Hub!Init, Subscriptions
<1>2. IInv /\ VersionInv /\ [Next]_vars => [Hub!Next]_(Hub!vars)
  BY HubStep
<1> QED
  BY <1>1, <1>2, Invariance, InOrder, PTL DEF Spec, ImplementsHub, Hub!Spec
=============================================================================
