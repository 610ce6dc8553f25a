----------------------------- MODULE DdnsConfig -----------------------------
(* The parameters of Ddns.                                                  *)
EXTENDS Naturals, Sequences

CONSTANTS
  Id,         \* DNS_RECORD_IDS
  Lease,      \* the addresses the ISP assigns, one after the other
  MaxErrors,  \* bound on answers with an error status
  MaxRejects  \* bound on requests to Bunny that reject

ASSUME DdnsAssumption ==
  /\ Id # {}
  /\ Lease # <<>> /\ Lease \in Seq(Nat \ {0})
  /\ {MaxErrors, MaxRejects} \subseteq Nat
=============================================================================
