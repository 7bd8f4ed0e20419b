---------------------------- MODULE MCShardCtrler ----------------------------
(* ShardCtrler for TLC. *)
EXTENDS ShardCtrler

CONSTANT MaxFaults   \* bound: failed calls and restarts in one behaviour

FewFaults == failures + restarts <= MaxFaults
=============================================================================
