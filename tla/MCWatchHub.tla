----------------------------- MODULE MCWatchHub -----------------------------
(* Instances of WatchHub small enough for TLC.  New connects to the         *)
(* collections in the same order in every instance; the second plan is the  *)
(* one of a middleware without an endpoint selector.                        *)
EXTENDS WatchHub, TLC

CONSTANTS i1, i2, i3, nodes, groups

BothInst == {i1, i2}
ThreeInst == {i1, i2, i3}
OneKey == {nodes}
TwoKeys == {nodes, groups}
OneKeyPlan == [i \in Inst |-> <<nodes>>]
TwoKeysPlan == [i \in Inst |-> IF i = i1 THEN <<nodes, groups>> ELSE <<nodes>>]

\* Instances with the same plan are alike.
InstSymmetry == Permutations(Inst)
=============================================================================
