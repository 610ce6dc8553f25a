----------------------------- MODULE AlertRelay -----------------------------
(***************************************************************************)
(* What a relay promises to the sender of alerts: a call is settled, and    *)
(* not sent again, only when everything it had to tell has been shown.      *)
(* How often and in which order things are shown is left open.              *)
(***************************************************************************)
CONSTANTS
  Call,      \* the calls of the sender
  Notice(_)  \* Notice(c): what has to be shown for a call

VARIABLES
  owed,   \* calls that are not settled
  shown   \* notices that have been shown

Init == owed = Call /\ shown = {}

Show(c) ==
  /\ c \in owed
  /\ \E n \in Notice(c) : shown' = shown \cup {n}
  /\ UNCHANGED owed

Settle(c) ==
  /\ c \in owed
  /\ Notice(c) \subseteq shown
  /\ owed' = owed \ {c}
  /\ UNCHANGED shown

Next == \E c \in Call : Show(c) \/ Settle(c)

Spec == Init /\ [][Next]_<<owed, shown>>
=============================================================================
