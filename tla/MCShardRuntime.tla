--------------------------- MODULE MCShardRuntime ---------------------------
(* Two streams added and one removed, two faults, and two failures in a row  *)
(* before the shard gives up.                                                *)
EXTENDS ShardRuntime
=============================================================================
