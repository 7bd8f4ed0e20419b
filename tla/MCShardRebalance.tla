-------------------------- MODULE MCShardRebalance --------------------------
(***************************************************************************)
(* ShardRebalance for TLC: four groups, but at most MovedGroups after a    *)
(* Move, and Moves that leave every group a shard.  doLeave gives shards   *)
(* to group 0 when no group that stays has one (AllAssigned is about the   *)
(* other cases).                                                           *)
(***************************************************************************)
EXTENDS ShardRebalance

CONSTANT MovedGroups   \* bound: groups of a configuration after the first Move

FewMoved == moves > 0 => Cardinality(config.Groups) <= MovedGroups
NoneEmptied == \A g \in config.Groups : Count(config.Shards, g) > 0
=============================================================================
