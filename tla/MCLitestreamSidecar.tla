------------------------- MODULE MCLitestreamSidecar -------------------------
(* Two databases: a restore may fail, and the container end, between them.  *)
EXTENDS LitestreamSidecar

CONSTANTS d1, d2

TwoDbs == <<d1, d2>>
=============================================================================
