--------------------------- MODULE ShardRebalance ---------------------------
(***************************************************************************)
(* The configurations that sequences of Join, Leave and Move lead to, as   *)
(* one shard controler computes them when it applies its log.              *)
(***************************************************************************)
EXTENDS ShardConfig

CONSTANTS
    Batches,    \* sizes of the sets of groups that join or leave together
    MaxMoves    \* bound: Moves

ASSUME BatchAssumption == Batches \subseteq Nat \ {0} /\ MaxMoves \in Nat

VARIABLES config,  \* the latest configuration
          moves    \* Moves so far

vars == <<config, moves>>

Init == config = NoConfig /\ moves = 0

Join(gids) ==
    /\ Cardinality(gids) \in Batches
    /\ gids \cap config.Groups = {}
    /\ config' = doJoin(config, gids)
    /\ UNCHANGED moves

Leave(gids) ==
    /\ Cardinality(gids) \in Batches
    /\ gids \subseteq config.Groups
    /\ config' = doLeave(config, gids)
    /\ UNCHANGED moves

Move(s, g) ==
    /\ moves < MaxMoves
    /\ moves' = moves + 1
    /\ config' = doMove(config, s, g)

Next ==
    \/ \E gids \in SUBSET Gid : Join(gids) \/ Leave(gids)
    \/ \E s \in Shard, g \in config.Groups : Move(s, g)

Spec == Init /\ [][Next]_vars

-----------------------------------------------------------------------------


\* Without Moves, doJoin moves shards only to groups that join.  (After a Move it may
\* also bring an old group back to its share.)
MinimalJoin ==
    [][moves = 0 /\ config.Groups \subseteq config'.Groups /\ config.Groups # config'.Groups
       => \A s \in Shard : \/ config'.Shards[s] = config.Shards[s]
                          \/ config'.Shards[s] \in config'.Groups \ config.Groups]_vars
=============================================================================
