------------------------------ MODULE FeedHub ------------------------------
(***************************************************************************)
(* What a hub of watch streams promises to its subscribers, without streams *)
(* and locks: a subscriber joins a collection once and leaves it once, and  *)
(* in between it is shown versions that the collection has had, never an    *)
(* older one than before.  Which of them, and when, is left open.           *)
(***************************************************************************)
EXTENDS Naturals

CONSTANTS
  Subscriber,  \* those who subscribe
  Collection   \* what they subscribe to

VARIABLES
  version,  \* version[c]: that of a collection, by its number
  open,     \* the pairs of a subscriber and a collection it has joined,
  closed,   \* and left
  shown     \* shown[s][c]: the version a subscriber has been shown, or 0

vars == <<version, open, closed, shown>>

Init ==
  /\ version = [c \in Collection |-> 1]
  /\ open = {} /\ closed = {}
  /\ shown = [s \in Subscriber |-> [c \in Collection |-> 0]]

Change(c) ==
  /\ version' = [version EXCEPT ![c] = @ + 1]
  /\ UNCHANGED <<open, closed, shown>>

Join(s, c) ==
  /\ <<s, c>> \notin open \cup closed
  /\ open' = open \cup {<<s, c>>}
  /\ UNCHANGED <<version, closed, shown>>

Show(s, c) ==
  /\ <<s, c>> \in open
  /\ \E v \in 1..version[c] :
       /\ shown[s][c] <= v
       /\ shown' = [shown EXCEPT ![s][c] = v]
  /\ UNCHANGED <<version, open, closed>>

Leave(s, c) ==
  /\ <<s, c>> \in open
  /\ open' = open \ {<<s, c>>}
  /\ closed' = closed \cup {<<s, c>>}
  /\ UNCHANGED <<version, shown>>

Next ==
  \/ \E c \in Collection : Change(c)
  \/ \E s \in Subscriber, c \in Collection : Join(s, c) \/ Show(s, c) \/ Leave(s, c)

Spec == Init /\ [][Next]_vars
=============================================================================
