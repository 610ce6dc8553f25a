----------------------------- MODULE WatchStream -----------------------------
(***************************************************************************)
(* One watch stream of the trusted-IPs plugin: streamOnce reads the events  *)
(* of a watch request line by line into a map of items and publishes the    *)
(* whole map, once the API server has said that its initial list is         *)
(* complete; watch reconnects when streamOnce returns.                      *)
(*                                                                          *)
(* The API server (external) answers a watch with sendInitialEvents: one    *)
(* ADDED event for each object of a state at least as new as the request,   *)
(* then the later changes in order, and a bookmark annotated                *)
(* initial-events-end somewhere after the last ADDED.  Events in flight are *)
(* changes the stream has not reached yet (rev < Len(log)).                 *)
(***************************************************************************)
EXTENDS SnapshotFeed, FiniteSets

CONSTANTS
  MaxDrops,   \* bound on the failures of a connection
  MaxAddr     \* addresses of an object that fit in a line of 64 KiB

ASSUME StreamAssumption ==
  /\ MaxDrops \in Nat
  /\ MaxAddr \in Nat

VARIABLES
  conn,       \* whether streamOnce has a response to read
  items,      \* its map from object names to CIDRs; Absent is no entry
  complete,   \* initialListComplete
  listing,    \* objects of the initial list still in flight
  rev,        \* state of the collection the events read so far amount to
  drops       \* connections lost so far

streamVars == <<conn, items, complete, listing, rev, drops>>
vars == <<feedVars, streamVars>>

NoItems == [o \in Obj |-> Absent]

Init ==
  /\ FeedInit
  /\ conn = "down"
  /\ items = NoItems
  /\ complete = FALSE
  /\ listing = {}
  /\ rev = 0
  /\ drops = 0

-----------------------------------------------------------------------------
(* The collection: one object is created, changed or deleted (or starts or  *)
(* stops matching the label selector) at a time.                            *)

ChangeObject(o) ==
  /\ Len(log) < MaxRev
  /\ \E v \in (SUBSET Addr) \cup {Absent} :
       /\ v # log[Len(log)][o]
       /\ log' = Append(log, [log[Len(log)] EXCEPT ![o] = v])
  /\ UNCHANGED <<feed, feedRev, streamVars>>

-----------------------------------------------------------------------------
(* streamOnce.                                                              *)

\* The mappers: the addresses of an object that parse as CIDRs.
Mapper(v) == v \cap Cidr

\* Whether the event that brings value v is longer than bufio.Scanner's buffer.
\* (DELETED brings the last value, which has been read before.)
TooLong(v) == v # Absent /\ Cardinality(v) > MaxAddr

\* syncList: publish the CIDRs of all items together.
SyncList(its) == feed' = CidrsOf(its) /\ feedRev' = rev'
NoSync == UNCHANGED <<feed, feedRev>>

\* Mutated: items outlives its connection, as it would declared in watch.
ItemsKept == items
FreshItems == NoItems

\* Mutated: without resourceVersionMatch the server may list an old state.
AnyRev == 1..Len(log)
ListRev == {Len(log)}

\* A new request: a new map, and the server's initial list.
Connect ==
  /\ conn = "down"
  /\ conn' = "up"
  /\ items' = FreshItems
  /\ complete' = FALSE
  /\ rev' \in ListRev
  /\ listing' = {o \in Obj : log[rev'][o] # Absent}
  /\ NoSync
  /\ UNCHANGED <<log, drops>>

\* Mutated: every event is published, whether the list is complete or not.
SyncAlways(its) == SyncList(its)
SyncIfComplete(its) == IF complete THEN SyncList(its) ELSE NoSync

\* An ADDED event of the initial list.
ListItem(o) ==
  /\ conn = "up"
  /\ o \in listing
  /\ ~TooLong(log[rev][o])
  /\ listing' = listing \ {o}
  /\ items' = [items EXCEPT ![o] = Mapper(log[rev][o])]
  /\ UNCHANGED <<log, conn, complete, rev, drops>>
  /\ SyncIfComplete(items')

\* BOOKMARK with k8s.io/initial-events-end.  Other bookmarks change nothing.
ListEnd ==
  /\ conn = "up"
  /\ listing = {}
  /\ ~complete
  /\ complete' = TRUE
  /\ UNCHANGED <<log, conn, items, listing, rev, drops>>
  /\ SyncList(items)

\* Mutated: the entry of a DELETED object stays.
ItemKeptOnDelete(o, v) == IF v = Absent THEN items[o] ELSE Mapper(v)
\* ADDED and MODIFIED set the entry of an object, DELETED deletes it.
ItemAfter(o, v) == IF v = Absent THEN Absent ELSE Mapper(v)

\* A change made after the initial list was taken; the bookmark may not have
\* been read yet.
WatchEvent(o) ==
  /\ conn = "up"
  /\ listing = {}
  /\ rev < Len(log)
  /\ log[rev + 1][o] # log[rev][o]
  /\ ~TooLong(log[rev + 1][o])
  /\ rev' = rev + 1
  /\ items' = [items EXCEPT ![o] = ItemAfter(o, log[rev + 1][o])]
  /\ UNCHANGED <<log, conn, complete, listing, drops>>
  /\ SyncIfComplete(items')

\* An ERROR event, an unknown type, invalid JSON, the end of the response:
\* streamOnce returns, and watch connects again after three seconds.
Drop ==
  /\ conn = "up"
  /\ drops < MaxDrops
  /\ drops' = drops + 1
  /\ conn' = "down"
  /\ NoSync
  /\ UNCHANGED <<log, items, complete, listing, rev>>

\* The next line is too long: Scan returns false with
\* bufio.ErrTooLong, which ends streamOnce like any other error.
LineTooLong ==
  /\ conn = "up"
  /\ \E o \in Obj :
       \/ o \in listing /\ TooLong(log[rev][o])
       \/ /\ listing = {} /\ rev < Len(log)
          /\ log[rev + 1][o] # log[rev][o] /\ TooLong(log[rev + 1][o])
  /\ conn' = "down"
  /\ NoSync
  /\ UNCHANGED <<log, items, complete, listing, rev, drops>>

-----------------------------------------------------------------------------
Read ==
  \/ ListEnd
  \/ LineTooLong
  \/ \E o \in Obj : ListItem(o) \/ WatchEvent(o)

Next ==
  \/ \E o \in Obj : ChangeObject(o)
  \/ Connect
  \/ Read
  \/ Drop

Spec == Init /\ [][Next]_vars

(* watch retries for ever and Scan returns what the server sends; neither   *)
(* changes of the collection nor failures have to happen.                   *)
FairSpec == Spec /\ WF_vars(Connect) /\ WF_vars(Read)

-----------------------------------------------------------------------------
(* Properties.                                                              *)

TypeOK ==
  /\ log \in Seq(Collection)
  /\ Len(log) \in 1..MaxRev
  /\ feed \in (SUBSET Cidr) \cup {Nothing}
  /\ feedRev \in 0..Len(log)
  /\ conn \in {"down", "up"}
  /\ items \in [Obj -> (SUBSET Cidr) \cup {Absent}]
  /\ complete \in BOOLEAN
  /\ listing \subseteq Obj
  /\ rev \in 0..Len(log)
  /\ drops \in 0..MaxDrops

\* While it reads, streamOnce holds exactly the objects of the state its
\* events amount to, but for those of the initial list still to come.
ItemsAreTheCollection ==
  conn = "up" =>
    /\ rev > 0
    /\ \A o \in Obj : items[o] = IF o \in listing THEN Absent ELSE ItemAfter(o, log[rev][o])

\* The published CIDRs never go back: a reconnection starts from a state at
\* least as new as the one published last.
ReconnectIsNewer == /\ feedRev <= rev
                    /\ conn = "up" /\ complete => feedRev = rev

\* A proxy that every state since the published one contains is trusted: no
\* reconnection and no partial list takes its trust away for a moment.
StableCidrStaysTrusted ==
  feed # Nothing =>
    \A x \in Cidr : (\A r \in feedRev..Len(log) : x \in CidrsOf(log[r])) => x \in feed

\* What is published is the state it was published from, and the list is
\* complete only when nothing of it is still to come.
FeedIsSnapshot ==
  /\ feed = IF feedRev = 0 THEN Nothing ELSE CidrsOf(log[feedRev])
  /\ complete => listing = {}

\* What the API server sends: the objects that exist, then single changes.
ListedExist == conn = "up" => \A o \in listing : log[rev][o] # Absent
OneObjectChanges ==
  \A r \in 1..(Len(log) - 1) : \E o \in Obj : \A p \in Obj \ {o} : log[r + 1][p] = log[r][p]

\* The inductive invariant behind ImplementsFeed.
IInv ==
  /\ TypeOK
  /\ ItemsAreTheCollection
  /\ ReconnectIsNewer
  /\ FeedIsSnapshot
  /\ ListedExist
  /\ OneObjectChanges

\* The stream implements the abstract feed.
ImplementsFeed == FeedSpec

\* In the end the published CIDRs are those of the latest state, unless one of
\* its objects is too long: what is revoked, even while the stream is down,
\* loses its trust.
Converges ==
  <>[](\/ feed = CidrsOf(log[Len(log)])
       \/ \E o \in Obj : TooLong(log[Len(log)][o]))
=============================================================================
