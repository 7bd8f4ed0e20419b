----------------------------- MODULE ShardConfig -----------------------------
(***************************************************************************)
(* How the shard controler computes the next configuration                 *)
(* (shardctrler/server.go): doJoin, doLeave and doMove with initConfifg    *)
(* and rebalanceConfig.  A configuration's Groups is the set of its gids:  *)
(* which servers form a group is of no consequence here; nor is its Num,   *)
(* which is its place in the sequence of configurations.                   *)
(***************************************************************************)
EXTENDS Integers, Sequences, FiniteSets, Functions

CONSTANTS
    NShards,
    Gid         \* the groups that may join

ASSUME ShardAssumption == NShards \in Nat \ {0} /\ Gid \subseteq Nat \ {0}

Shard == 0..(NShards - 1)

\* The elements of S in the order of Before, a strict total order on S.
Sorted(S, Before(_, _)) ==
    [n \in 1..Cardinality(S) |-> CHOOSE x \in S : Cardinality({y \in S : Before(y, x)}) = n - 1]

Count(shards, g) == Cardinality({s \in Shard : shards[s] = g})

\* Config #0: no groups, every shard on the invalid group 0.
NoConfig == [Shards |-> [s \in Shard |-> 0], Groups |-> {}]

\* initConfifg: the shards dealt out in turn to the gids in ascending order.
initConfifg(gids) ==
    LET order == Sorted(gids, <)
    IN  [Shards |-> [s \in Shard |-> order[(s % Len(order)) + 1]], Groups |-> gids]

Part(need, extra) == IF need < extra THEN need ELSE extra

\* The loop of rebalanceConfig: held[g] lists the shards of g, gids the groups by
\* rising count; gids[i] takes from gids[j] until one of them is at avg.
RECURSIVE Spread(_, _, _, _, _)
Spread(held, gids, avg, i, j) ==
    IF ~(i < j /\ Len(held[gids[i]]) < avg /\ Len(held[gids[j]]) > avg) THEN held
    ELSE LET need == avg - Len(held[gids[i]])
             extra == Len(held[gids[j]]) - avg
             part == Part(need, extra)
             from == held[gids[j]]
         IN  Spread([held EXCEPT ![gids[i]] = @ \o SubSeq(from, 1, part),
                                 ![gids[j]] = SubSeq(from, part + 1, Len(from))],
                    gids, avg,
                    IF extra >= need THEN i + 1 ELSE i,
                    IF extra <= need THEN j - 1 ELSE j)

\* gids are sorted by the number of shards they hold, then by gid.
rebalanceConfig(cfg) ==
    LET all == cfg.Groups \cup {cfg.Shards[s] : s \in Shard}
        held == [g \in all |-> Sorted({s \in Shard : cfg.Shards[s] = g}, <)]
        Fewer(g, h) == \/ Len(held[g]) < Len(held[h])
                       \/ Len(held[g]) = Len(held[h]) /\ g < h
        gids == Sorted(all, Fewer)
        share == NShards \div Cardinality(cfg.Groups)
        after == Spread(held, gids, IF share < 1 THEN 1 ELSE share, 1, Len(gids))
    IN  IF cfg.Groups = {} THEN cfg
        ELSE [cfg EXCEPT !.Shards = [s \in Shard |-> CHOOSE g \in all : s \in Range(after[g])]]

doJoinAfresh(cfg, gids) == initConfifg(cfg.Groups \cup gids)
doJoin(cfg, gids) ==
    IF cfg.Shards[0] = 0 THEN initConfifg(gids)
    ELSE rebalanceConfig([cfg EXCEPT !.Groups = @ \cup gids])

\* The group that inherits the shards of the leaving ones: the one with most
\* shards, the lowest gid among equals, and 0 if no group that stays has any.
Richest(cfg, gids) ==
    IF gids = {} THEN 0
    ELSE CHOOSE g \in gids : \A h \in gids : \/ Count(cfg.Shards, g) > Count(cfg.Shards, h)
                                             \/ Count(cfg.Shards, g) = Count(cfg.Shards, h) /\ g <= h
Heir(cfg, gids) == Richest(cfg, {cfg.Shards[s] : s \in Shard} \ gids)

doLeave(cfg, gids) ==
    rebalanceConfig(
        [Shards |-> [s \in Shard |-> IF cfg.Shards[s] \in gids THEN Heir(cfg, gids) ELSE cfg.Shards[s]],
         Groups |-> cfg.Groups \ gids])

doMove(cfg, s, g) == [cfg EXCEPT !.Shards[s] = g]
=============================================================================
