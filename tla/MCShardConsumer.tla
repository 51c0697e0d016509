-------------------------- MODULE MCShardConsumer --------------------------
(***************************************************************************)
(* Three messages in batches of two: a batch can end in the middle of the  *)
(* log, hold a redelivered and a new message, or be cut by a crash.  Two   *)
(* faults let the recovery of one be hit by the other.                     *)
(***************************************************************************)
EXTENDS ShardConsumer
=============================================================================
