---------------------------- MODULE MCValkeySync ----------------------------
(* Three writes over three pods: one may be in the bucket, one in the dump  *)
(* only, and one be made after a restart.                                   *)
EXTENDS ValkeySync
=============================================================================
