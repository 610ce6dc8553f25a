------------------------------- MODULE Backup -------------------------------
(***************************************************************************)
(* What a backup promises to an application whose storage is lost with its  *)
(* pod: the application is started on top of everything that is kept, what   *)
(* is kept never becomes less, and is never more than the application has    *)
(* while it runs, nor than what has ever been written.  How much is kept,    *)
(* and when, is left open.                                                  *)
(***************************************************************************)
VARIABLES
  made,     \* the writes that have been made
  kept,     \* those that a new pod would find
  running,  \* whether the application runs
  held,     \* the writes it holds then
  broken    \* whether a known defect has shown itself

vars == <<made, kept, running, held, broken>>

Init ==
  /\ made = {} /\ kept = {} /\ held = {}
  /\ running = FALSE /\ broken = FALSE

StartApp ==
  /\ ~running /\ running'
  /\ kept \subseteq held' /\ held' \subseteq made
  /\ UNCHANGED <<made, kept>>

\* It may lose what it holds and is not kept.
StopApp ==
  /\ running /\ ~running'
  /\ held' = {}
  /\ UNCHANGED <<made, kept>>

Write ==
  /\ running
  /\ \E w \in made' \ made : made' = made \cup {w} /\ held' = held \cup {w}
  /\ UNCHANGED <<kept, running>>

Replicate ==
  /\ kept \subseteq kept'
  /\ kept' \subseteq IF running THEN held ELSE made
  /\ UNCHANGED <<made, running, held>>

\* From then on nothing is promised.
Break == broken'

Next ==
  \/ Break
  \/ ~broken /\ UNCHANGED broken /\ (StartApp \/ StopApp \/ Write \/ Replicate)

Spec == Init /\ [][Next]_vars
=============================================================================
