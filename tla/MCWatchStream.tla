--------------------------- MODULE MCWatchStream ---------------------------
(* Two objects and two CIDRs: the objects may share a CIDR, have none, or   *)
(* come and go.                                                             *)
EXTENDS WatchStream

CONSTANTS o1, o2, c1, c2, bad

TwoObj == {o1, o2}
TwoCidr == {c1, c2}
TwoAddr == {c1, c2, bad}
=============================================================================
