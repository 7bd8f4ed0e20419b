------------------------------ MODULE MCShardKV ------------------------------
(***************************************************************************)
(* ShardKV for TLC, with configurations of the shard controler.            *)
(* Behaviours begin where every server has taken up configuration 1 and    *)
(* group 1 has served a Clerk's first request; servers have a snapshot of  *)
(* that (SnapshotSpec), or have none and replay all (ReplayFairSpec).      *)
(***************************************************************************)
EXTENDS ShardKV

CONSTANT MaxFaults   \* bound: failed calls, snapshots and restarts in one behaviour

\* All groups join at once; then shard 0 moves to group 2, and perhaps back.
Joined == [Shards |-> [s \in Shard |-> (s % Cardinality(Gid)) + 1], Groups |-> Gid]
Moved == [Shards |-> [s \in Shard |-> IF s = 0 THEN 2 ELSE (s % Cardinality(Gid)) + 1], Groups |-> Gid]
OneMove == <<Joined, Moved>>
BackAndForth == <<Joined, Moved, Joined>>

\* These are configurations the controler makes.
C == INSTANCE ShardConfig
ASSUME MadeByControler ==
    /\ Joined = C!doJoin(C!NoConfig, Gid)
    /\ Moved = C!doMove(Joined, 0, 2) /\ Joined = C!doMove(Moved, 0, 1)
ASSUME GroupsStay == NeverEmptied

OnShardZero == [k \in Key |-> 0]
One == [g \in Gid |-> 1]
TwoInFirst == [g \in Gid |-> IF g = 1 THEN 2 ELSE 1]
GroupOne == {s \in Server : s[1] = 1}

Early == [OpType |-> "APPEND", Key |-> CHOOSE k \in Key : TRUE, ClientId |-> CHOOSE c \in Client : TRUE, ReqNo |-> 1]
First == <<[OpType |-> "CONFIG", ConfigNum |-> 1],
           [OpType |-> "SHARDS", ConfigNum |-> 1, out |-> Shard, data |-> NoData, ClientInfo |-> NoInfo]>>
TakenUp(g) ==
    LET v == [StartServer EXCEPT !.CommitedId = 2, !.CurConfig = 1, !.Shards = {s \in Shard : Owner(1, s) = g}]
    IN  IF g = 1 THEN Applied(g, v, Early) ELSE v

\* stored(s): the snapshot server s would restart from.
Settled(stored(_)) ==
    /\ latest = 1
    /\ log = [g \in Gid |-> IF g = 1 THEN Append(First, Early) ELSE First]
    /\ skv = [s \in Server |-> TakenUp(s[1])]
    /\ saved = [s \in Server |-> stored(s)]
    /\ pulls = {}
    /\ CompletedChan = [s \in Server |-> [c \in Client |-> 0]]
    /\ handlers = {}
    /\ clerk = [c \in Client |-> IF c = Early.ClientId THEN [MakeClerk(c) EXCEPT !.config = 1, !.op = Early]
                                ELSE MakeClerk(c)]
    /\ seq = 1
    /\ failures = 0 /\ snapshots = 0 /\ restarts = 0
    /\ decided = [g \in Gid |-> TakenUp(g)]
    /\ versions = [k \in Key |-> IF k = Early.Key THEN << <<>>, <<1>> >> ELSE << <<>> >>]

NoSnapshot(s) == StartServer
OfFirst(s) == TakenUp(s[1])
SnapshotSpec == Settled(OfFirst) /\ [][Next]_vars
ReplayFairSpec == Settled(NoSnapshot) /\ [][Next]_vars /\ Fairness

FewFaults == failures + snapshots + restarts <= MaxFaults

\* Request 2 is a write and request 3 a read.
WriteThenRead ==
    \A c \in Client : /\ clerk'[c].op.ReqNo = 2 => clerk'[c].op.OpType # "GET"
                      /\ clerk'[c].op.ReqNo = 3 => clerk'[c].op.OpType = "GET"
=============================================================================
