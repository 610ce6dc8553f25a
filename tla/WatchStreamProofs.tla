------------------------- MODULE WatchStreamProofs -------------------------
(***************************************************************************)
(* Proofs about WatchStream: whatever the collection, its changes and the  *)
(* failures of the connection, the stream implements SnapshotFeed.         *)
(***************************************************************************)
EXTENDS WatchStream, TLAPS

USE DEF feedVars, streamVars

\* A state of the collection is in the log; a change adds one at the end.
LEMMA LogFacts ==
  ASSUME TypeOK
  PROVE  /\ \A r \in 1..Len(log) : log[r] \in Collection
         /\ Len(log) \in Nat \ {0}
         /\ \A c \in Collection :
              /\ Append(log, c) \in Seq(Collection)
              /\ Len(Append(log, c)) = Len(log) + 1
              /\ \A r \in 1..Len(log) : Append(log, c)[r] = log[r]
  BY FeedAssumption DEF TypeOK

\* Items hold the CIDRs of the objects they stand for.
LEMMA ItemsFacts ==
  ASSUME NEW c \in Collection, NEW its,
         \A o \in Obj : its[o] = ItemAfter(o, c[o])
  PROVE  CidrsOf(its) = CidrsOf(c)
<1>1. \A o \in Obj, x \in Cidr : (its[o] # Absent /\ x \in its[o]) <=> (c[o] # Absent /\ x \in c[o])
  BY FeedAssumption DEF ItemAfter, Mapper, Collection
<1> QED
  BY <1>1 DEF CidrsOf

\* An entry of the map is a set of CIDRs, or no entry.
LEMMA ItemType ==
  ASSUME NEW o \in Obj, NEW v \in (SUBSET Addr) \cup {Absent}
  PROVE  ItemAfter(o, v) \in (SUBSET Cidr) \cup {Absent}
<1>1. v \cap Cidr \in SUBSET Cidr
  OBVIOUS
<1> QED
  BY <1>1 DEF ItemAfter, Mapper

-----------------------------------------------------------------------------
\* At first the stream is not connected and has published nothing.
LEMMA Initial == Init => IInv
<1> SUFFICES ASSUME Init PROVE IInv
  OBVIOUS
<1> USE FeedAssumption, StreamAssumption DEF Init, FeedInit, NoItems
<1>1. PICK c \in Collection : log = <<c>>
  OBVIOUS
<1>2. log \in Seq(Collection) /\ Len(log) = 1
  BY <1>1
<1>3. TypeOK
  <2>1. items \in [Obj -> (SUBSET Cidr) \cup {Absent}]
    OBVIOUS
  <2>2. Len(log) \in 1..MaxRev /\ feedRev \in 0..Len(log) /\ rev \in 0..Len(log) /\ drops \in 0..MaxDrops
    BY <1>2
  <2> QED
    BY <1>2, <2>1, <2>2 DEF TypeOK
<1>4. ItemsAreTheCollection /\ ReconnectIsNewer /\ FeedIsSnapshot /\ ListedExist
  BY DEF ItemsAreTheCollection, ReconnectIsNewer, FeedIsSnapshot, ListedExist
<1>5. OneObjectChanges
  BY <1>2 DEF OneObjectChanges
<1> QED
  BY <1>3, <1>4, <1>5 DEF IInv

\* A change of one object adds a state to the log and leaves the others.
LEMMA ChangeObjectKeeps ==
  ASSUME IInv, NEW o \in Obj, ChangeObject(o)
  PROVE  IInv' /\ Change
<1> USE FeedAssumption, StreamAssumption DEF IInv
<1>1. PICK c \in Collection : /\ log' = Append(log, c)
                             /\ \A p \in Obj \ {o} : c[p] = log[Len(log)][p]
  <2>1. PICK v \in (SUBSET Addr) \cup {Absent} : log' = Append(log, [log[Len(log)] EXCEPT ![o] = v])
    BY DEF ChangeObject
  <2>2. log[Len(log)] \in Collection
    BY LogFacts
  <2> QED
    BY <2>1, <2>2 DEF Collection
<1>2. /\ Len(log) < MaxRev
      /\ UNCHANGED <<feed, feedRev, streamVars>>
  BY DEF ChangeObject
<1>3. /\ log' \in Seq(Collection) /\ Len(log') = Len(log) + 1
      /\ \A r \in 1..Len(log) : log'[r] = log[r]
  BY <1>1, LogFacts
<1>4. TypeOK'
  BY <1>2, <1>3 DEF TypeOK
<1>5. ItemsAreTheCollection'
  BY <1>2, <1>3 DEF ItemsAreTheCollection, TypeOK, ItemAfter, Mapper
<1>6. ReconnectIsNewer' /\ FeedIsSnapshot'
  BY <1>2, <1>3 DEF ReconnectIsNewer, FeedIsSnapshot, TypeOK
<1>7. ListedExist'
  BY <1>2, <1>3 DEF ListedExist, ItemsAreTheCollection, TypeOK
<1>8. OneObjectChanges'
  <2>1. log'[Len(log) + 1] = c
    BY <1>1, LogFacts
  <2> SUFFICES ASSUME NEW r \in 1..(Len(log') - 1)
               PROVE  \E q \in Obj : \A p \in Obj \ {q} : log'[r + 1][p] = log'[r][p]
    BY DEF OneObjectChanges
  <2>2. CASE r = Len(log)
    BY <1>1, <1>3, <2>1, <2>2, LogFacts
  <2>3. CASE r # Len(log)
    BY <1>3, <2>3, LogFacts DEF OneObjectChanges
  <2> QED
    BY <2>2, <2>3
<1>9. Change
  BY <1>1, <1>2 DEF Change
<1> QED
  BY <1>4, <1>5, <1>6, <1>7, <1>8, <1>9

\* A connection starts with no items and with every object still to come.
LEMMA ConnectKeeps ==
  ASSUME IInv, Connect
  PROVE  IInv' /\ UNCHANGED feedVars
<1> USE FeedAssumption, StreamAssumption DEF IInv
<1>1. /\ rev' = Len(log) /\ items' = NoItems /\ complete' = FALSE
      /\ listing' = {o \in Obj : log[rev'][o] # Absent}
      /\ UNCHANGED <<log, feed, feedRev, drops>> /\ conn' = "up"
  BY DEF Connect, ListRev, FreshItems, NoSync
<1>2. TypeOK'
  <2>1. NoItems \in [Obj -> (SUBSET Cidr) \cup {Absent}]
    BY DEF NoItems
  <2>2. Len(log) \in 0..Len(log) /\ listing' \subseteq Obj
    BY <1>1, LogFacts
  <2> QED
    BY <1>1, <2>1, <2>2 DEF TypeOK
<1>3. ItemsAreTheCollection'
  BY <1>1, LogFacts DEF ItemsAreTheCollection, NoItems, ItemAfter, TypeOK
<1>4. ReconnectIsNewer' /\ FeedIsSnapshot' /\ ListedExist' /\ OneObjectChanges'
  BY <1>1 DEF ReconnectIsNewer, FeedIsSnapshot, TypeOK, ListedExist, OneObjectChanges
<1> QED
  BY <1>1, <1>2, <1>3, <1>4

\* An ADDED event of the initial list brings one of those objects.
LEMMA ListItemKeeps ==
  ASSUME IInv, NEW o \in Obj, ListItem(o)
  PROVE  IInv' /\ UNCHANGED feedVars
<1> USE FeedAssumption, StreamAssumption DEF IInv
<1>1. /\ conn = "up" /\ o \in listing /\ listing' = listing \ {o} /\ ~complete
      /\ items' = [items EXCEPT ![o] = Mapper(log[rev][o])]
      /\ UNCHANGED <<log, feed, feedRev, conn, complete, rev, drops>>
  BY DEF ListItem, FeedIsSnapshot, SyncIfComplete, NoSync
<1>2. rev \in 1..Len(log) /\ log[rev] \in Collection
  BY <1>1, LogFacts DEF ItemsAreTheCollection, TypeOK
<1>3. TypeOK'
  BY <1>1 DEF TypeOK, Mapper
<1>4. ItemsAreTheCollection'
  <2>1. log[rev][o] # Absent
    BY <1>1, <1>2 DEF ItemsAreTheCollection, ListedExist
  <2> QED
    BY <1>1, <1>2, <2>1 DEF ItemsAreTheCollection, ItemAfter, TypeOK
<1>5. ReconnectIsNewer' /\ FeedIsSnapshot' /\ ListedExist' /\ OneObjectChanges'
  BY <1>1 DEF ReconnectIsNewer, FeedIsSnapshot, ListedExist, OneObjectChanges
<1> QED
  BY <1>1, <1>3, <1>4, <1>5

\* The bookmark comes when none is left, so that what is published is a state.
LEMMA ListEndKeeps ==
  ASSUME IInv, ListEnd
  PROVE  IInv' /\ Publish
<1> USE FeedAssumption, StreamAssumption DEF IInv
<1>1. /\ conn = "up" /\ listing = {} /\ ~complete /\ complete' = TRUE
      /\ feed' = CidrsOf(items) /\ feedRev' = rev
      /\ UNCHANGED <<log, conn, items, listing, rev, drops>>
  BY DEF ListEnd, SyncList
<1>2. rev \in 1..Len(log) /\ log[rev] \in Collection
  BY <1>1, LogFacts DEF ItemsAreTheCollection, TypeOK
<1>3. feed' = CidrsOf(log[rev])
  BY <1>1, <1>2, ItemsFacts DEF ItemsAreTheCollection
<1>4. TypeOK'
  BY <1>1, <1>2, <1>3 DEF TypeOK, CidrsOf
<1>5. ItemsAreTheCollection' /\ ReconnectIsNewer' /\ FeedIsSnapshot' /\ ListedExist' /\ OneObjectChanges'
  BY <1>1, <1>2, <1>3 DEF ItemsAreTheCollection, ReconnectIsNewer, FeedIsSnapshot, ListedExist, OneObjectChanges
<1>6. Publish
  BY <1>1, <1>2, <1>3 DEF Publish, ReconnectIsNewer
<1> QED
  BY <1>4, <1>5, <1>6

\* A later event moves the items to the next state of the log.
LEMMA WatchEventKeeps ==
  ASSUME IInv, NEW o \in Obj, WatchEvent(o)
  PROVE  IInv' /\ (Publish \/ UNCHANGED feedVars)
<1> USE FeedAssumption, StreamAssumption DEF IInv
<1>1. /\ conn = "up" /\ listing = {} /\ rev' = rev + 1 /\ rev < Len(log)
      /\ items' = [items EXCEPT ![o] = ItemAfter(o, log[rev + 1][o])]
      /\ UNCHANGED <<log, conn, complete, listing, drops>>
  BY DEF WatchEvent
<1>2. /\ rev \in 1..Len(log) /\ rev' \in 1..Len(log)
      /\ log[rev] \in Collection /\ log[rev'] \in Collection
  BY <1>1, LogFacts DEF ItemsAreTheCollection, TypeOK
<1>3. \A p \in Obj \ {o} : log[rev'][p] = log[rev][p]
  BY <1>1, <1>2 DEF OneObjectChanges, WatchEvent
<1>4. items' \in [Obj -> (SUBSET Cidr) \cup {Absent}] /\ \A p \in Obj : items'[p] = ItemAfter(p, log[rev'][p])
  <2>1. \A p \in Obj : log[rev'][p] \in (SUBSET Addr) \cup {Absent}
    BY <1>2 DEF Collection
  <2>2. \A p \in Obj : ItemAfter(p, log[rev'][p]) \in (SUBSET Cidr) \cup {Absent}
    BY <2>1, ItemType
  <2>3. \A p \in Obj : items[p] = ItemAfter(p, log[rev][p])
    BY <1>1 DEF ItemsAreTheCollection
  <2>4. \A p \in Obj \ {o} : ItemAfter(p, log[rev'][p]) = ItemAfter(p, log[rev][p])
    BY <1>3
  <2>5. items \in [Obj -> (SUBSET Cidr) \cup {Absent}]
    BY DEF TypeOK
  <2>6. items' = [items EXCEPT ![o] = ItemAfter(o, log[rev'][o])]
    BY <1>1
  <2> QED
    BY <2>2, <2>3, <2>4, <2>5, <2>6
<1>5. ItemsAreTheCollection'
  BY <1>1, <1>2, <1>4 DEF ItemsAreTheCollection
<1>8. ListedExist' /\ OneObjectChanges'
  BY <1>1 DEF ListedExist, OneObjectChanges
<1>6. CASE complete
  <2>1. feed' = CidrsOf(log[rev']) /\ feedRev' = rev'
    BY <1>1, <1>2, <1>4, <1>6, ItemsFacts DEF WatchEvent, SyncIfComplete, SyncList
  <2>2. TypeOK'
    BY <1>1, <1>2, <1>4, <2>1 DEF TypeOK, CidrsOf
  <2>3. ReconnectIsNewer' /\ FeedIsSnapshot' /\ Publish
    BY <1>1, <1>2, <2>1 DEF ReconnectIsNewer, FeedIsSnapshot, Publish, TypeOK
  <2> QED
    BY <1>5, <1>8, <2>2, <2>3
<1>7. CASE ~complete
  <2>1. UNCHANGED <<feed, feedRev>>
    BY <1>7 DEF WatchEvent, SyncIfComplete, NoSync
  <2> QED
    BY <1>1, <1>2, <1>4, <1>5, <1>7, <1>8, <2>1 DEF TypeOK, ReconnectIsNewer, FeedIsSnapshot
<1> QED
  BY <1>6, <1>7, <1>8

\* Losing the connection changes nothing that was published.
LEMMA BreakKeeps ==
  ASSUME IInv, Drop \/ LineTooLong \/ UNCHANGED vars
  PROVE  IInv' /\ UNCHANGED feedVars
<1> USE FeedAssumption, StreamAssumption DEF IInv, Drop, LineTooLong, vars, NoSync
<1>1. /\ UNCHANGED <<log, feed, feedRev, items, complete, listing, rev>>
      /\ conn' \in {"down", conn} /\ drops' \in 0..MaxDrops
  BY DEF TypeOK
<1>2. TypeOK'
  BY <1>1 DEF TypeOK
<1>3. ItemsAreTheCollection' /\ ReconnectIsNewer' /\ FeedIsSnapshot' /\ ListedExist' /\ OneObjectChanges'
  BY <1>1 DEF ItemsAreTheCollection, ReconnectIsNewer, FeedIsSnapshot, TypeOK, ListedExist, OneObjectChanges
<1> QED
  BY <1>1, <1>2, <1>3

-----------------------------------------------------------------------------
\* Every step of the stream keeps the invariant, and is a publication, a
\* change of the collection, or no step of the feed.
LEMMA StepKeeps ==
  ASSUME IInv, [Next]_vars
  PROVE  IInv' /\ [FeedNext]_feedVars
<1>1. CASE \E o \in Obj : ChangeObject(o)
  BY <1>1, ChangeObjectKeeps DEF FeedNext
<1>2. CASE Connect
  BY <1>2, ConnectKeeps
<1>3. CASE Read
  BY <1>3, ListEndKeeps, BreakKeeps, ListItemKeeps, WatchEventKeeps DEF Read, FeedNext
<1>4. CASE Drop \/ UNCHANGED vars
  BY <1>4, BreakKeeps
<1> QED
  BY <1>1, <1>2, <1>3, <1>4 DEF Next

\* The state of streamOnce is the collection it was told about (main.go,
\* streamOnce), in every state of every run.
THEOREM Invariance == Spec => []IInv
<1>1. IInv /\ [Next]_vars => IInv'
  BY StepKeeps
<1> QED
  BY Initial, <1>1, PTL DEF Spec

\* The items of a connected stream are those of one state of the collection.
THEOREM ItemsCorrect == Spec => []ItemsAreTheCollection
<1>1. IInv => ItemsAreTheCollection
  BY DEF IInv
<1> QED
  BY <1>1, Invariance, PTL

\* A CIDR that stays in the collection stays trusted, through reconnections
\* and lists that arrive piece by piece.
THEOREM StableTrust == Spec => []StableCidrStaysTrusted
<1>1. IInv => StableCidrStaysTrusted
  <2> SUFFICES ASSUME IInv, feed # Nothing, NEW x \in Cidr,
                      \A r \in feedRev..Len(log) : x \in CidrsOf(log[r])
               PROVE  x \in feed
    BY DEF StableCidrStaysTrusted
  <2>1. feedRev \in 1..Len(log) /\ feed = CidrsOf(log[feedRev])
    BY LogFacts DEF IInv, FeedIsSnapshot, TypeOK
  <2> QED
    BY <2>1, LogFacts DEF IInv
<1> QED
  BY <1>1, Invariance, PTL

\* The stream implements the abstract feed: subscribers only ever see the
\* CIDRs of states the collection was in, in the order it was in them.
THEOREM Refinement == Spec => ImplementsFeed
<1>1. Init => FeedInit
  BY DEF Init
<1>2. IInv /\ [Next]_vars => [FeedNext]_feedVars
  BY StepKeeps
<1> QED
  BY <1>1, <1>2, Invariance, PTL DEF Spec, ImplementsFeed, FeedSpec
=============================================================================
