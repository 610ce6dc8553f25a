---------------------------- MODULE SnapshotFeed ----------------------------
(***************************************************************************)
(* What a watch stream of the trusted-IPs plugin promises to the instances *)
(* subscribed to it, without saying how: the CIDRs it publishes are those  *)
(* of one state the collection really was in, never a mixture of states or *)
(* part of one, and it never goes back to an older state.                  *)
(***************************************************************************)
EXTENDS Naturals, Sequences

CONSTANTS
  Obj,      \* names of the objects of the collection
  Addr,     \* the addresses objects list
  Cidr,     \* those that parse as a CIDR
  Absent,   \* marks an object that does not exist
  MaxRev,   \* bound on the states of the collection
  Nothing   \* the feed before its first publication

ASSUME FeedAssumption ==
  /\ MaxRev \in Nat \ {0}
  /\ Cidr \subseteq Addr
  /\ \A s \in SUBSET Addr : s # Absent /\ s # Nothing

Collection == [Obj -> (SUBSET Addr) \cup {Absent}]

\* The CIDRs of a collection: what all its objects contribute together.
CidrsOf(c) == {x \in Cidr : \E o \in Obj : c[o] # Absent /\ x \in c[o]}

VARIABLES
  log,      \* the states of the collection, oldest first
  feed,     \* the CIDRs last published, or Nothing
  feedRev   \* the state they are from: an index of log, 0 before the first

feedVars == <<log, feed, feedRev>>

FeedInit ==
  /\ log \in {<<c>> : c \in Collection}
  /\ feed = Nothing
  /\ feedRev = 0

Change ==
  /\ Len(log) < MaxRev
  /\ \E c \in Collection : log' = Append(log, c)
  /\ UNCHANGED <<feed, feedRev>>

Publish ==
  \E r \in 1..Len(log) :
    /\ feedRev <= r
    /\ feedRev' = r
    /\ feed' = CidrsOf(log[r])
    /\ UNCHANGED log

FeedNext == Change \/ Publish

FeedSpec == FeedInit /\ [][FeedNext]_feedVars
=============================================================================
