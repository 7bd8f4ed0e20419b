-------------------------- MODULE ShardStateProof ---------------------------
(***************************************************************************)
(* Lemmas about ShardKV, for any groups, replicas, keys, Clerks, number of *)
(* configurations and faults: what commands do to the state of a replica,  *)
(* how servers follow the log of their group, what holds of the shards,    *)
(* and that it holds through the CONFIG commands.                          *)
(***************************************************************************)
EXTENDS ShardKV, TLAPS

-----------------------------------------------------------------------------
(***************************************************************************)
(* Types.                                                                  *)
(***************************************************************************)
Errs == {"", "OK", "ErrWrongGroup", "ErrNotReady"}
Info == [Client -> [req : Nat, err : Errs]]
Data == [Key -> Seq(Nat)]
Dock == [out : SUBSET Shard, data : Data]
State == [CommitedId : Nat, LastConfig : Nat, CurConfig : 0..Len(Config), Shards : SUBSET Shard,
          ShardKVMap : Data, ClientInfo : Info, Gid2UnCompletedConfigNum : [Gid -> Nat],
          OutShardsDock : [Num -> Dock], Config2ClientInfo : [Num -> Info]]

ConfigOp  == [OpType : {"CONFIG"}, ConfigNum : Num]
ShardsOp  == [OpType : {"SHARDS"}, ConfigNum : Num, out : SUBSET Shard, data : Data, ClientInfo : Info]
RequestOp == [OpType : {"GET", "PUT", "APPEND"}, Key : Key, ClientId : Client, ReqNo : Nat]
Command == ConfigOp \cup ShardsOp \cup RequestOp

LEMMA ConfigSizes == /\ Len(Config) \in Nat /\ Num \subseteq Nat
                     /\ \A n \in Num : Config[n].Shards \in [Shard -> Gid \cup {0}] /\ Config[n].Groups \subseteq Gid
<1> DEFINE C == [Shards : [Shard -> Gid \cup {0}], Groups : SUBSET Gid]
<1>1. Config \in Seq(C)
  BY ConfigAssumption, Zenon
<1>2. \A c \in C : c.Shards \in [Shard -> Gid \cup {0}] /\ c.Groups \subseteq Gid
  BY Zenon
<1> HIDE DEF C
<1>3. Len(Config) \in Nat /\ \A n \in 1..Len(Config) : Config[n] \in C
  BY <1>1
<1> QED BY <1>2, <1>3 DEF Num

LEMMA Starting == StartServer \in State /\ NoInfo \in Info /\ NoData \in Data /\ NoDock \in Dock
<1>1. NoInfo \in Info
  BY Zenon DEF NoInfo, Info, Errs
<1>2. NoData \in Data
  BY DEF NoData, Data
<1>3. NoDock \in Dock
  BY <1>2, Zenon DEF NoDock, Dock
<1>4. [g \in Gid |-> 0] \in [Gid -> Nat] /\ 0 \in 0..Len(Config)
  BY ConfigSizes
<1>5. [n \in Num |-> NoDock] \in [Num -> Dock] /\ [n \in Num |-> NoInfo] \in [Num -> Info]
  BY <1>1, <1>3, Zenon
<1> QED BY <1>1, <1>2, <1>3, <1>4, <1>5, Zenon DEF StartServer, State

LEMMA StateFields ==
    ASSUME NEW v \in State
    PROVE  /\ v.CommitedId \in Nat /\ v.LastConfig \in Nat /\ v.CurConfig \in 0..Len(Config)
           /\ v.CurConfig \in Nat /\ v.Shards \subseteq Shard
           /\ v.ShardKVMap \in Data /\ v.ClientInfo \in Info /\ v.Gid2UnCompletedConfigNum \in [Gid -> Nat]
           /\ v.OutShardsDock \in [Num -> Dock] /\ v.Config2ClientInfo \in [Num -> Info]
BY ConfigSizes DEF State

LEMMA OpFields ==
    /\ \A op \in ConfigOp : op.OpType = "CONFIG" /\ op.ConfigNum \in Num
    /\ \A op \in ShardsOp : /\ op.OpType = "SHARDS" /\ op.ConfigNum \in Num /\ op.out \subseteq Shard
                            /\ op.data \in Data /\ op.ClientInfo \in Info
    /\ \A op \in RequestOp : /\ op.OpType \in {"GET", "PUT", "APPEND"}
                             /\ op.Key \in Key /\ op.ClientId \in Client /\ op.ReqNo \in Nat
BY Zenon DEF ConfigOp, ShardsOp, RequestOp

\* What applying a command may leave alone.
SameConfig(w, v) == /\ w.LastConfig = v.LastConfig /\ w.CurConfig = v.CurConfig
                    /\ w.OutShardsDock = v.OutShardsDock /\ w.Config2ClientInfo = v.Config2ClientInfo
SameData(w, v) == /\ w.Shards = v.Shards /\ w.ShardKVMap = v.ShardKVMap /\ w.ClientInfo = v.ClientInfo

\* A CONFIG command takes effect.
Updates(g, v, n) == n > v.CurConfig /\ isMigrateFinished(g, v)

LEMMA Counted ==
    ASSUME NEW v \in State, NEW w, w = [v EXCEPT !.CommitedId = @ + 1]
    PROVE  w \in State /\ w.CommitedId = v.CommitedId + 1 /\ SameConfig(w, v) /\ SameData(w, v)
BY DEF State, SameConfig, SameData

\* A CONFIG command that comes too late or too early changes nothing.
LEMMA AppliedNot ==
    ASSUME NEW g, NEW v \in State, NEW op \in Command,
           \/ op \in ConfigOp /\ ~Updates(g, v, op.ConfigNum)
           \/ op \in RequestOp /\ Completed(v, op.ClientId, op.ReqNo)
    PROVE  LET w == Applied(g, v, op) IN
           w \in State /\ w.CommitedId = v.CommitedId + 1 /\ SameConfig(w, v) /\ SameData(w, v)
<1>1. CASE op \in ConfigOp /\ ~Updates(g, v, op.ConfigNum)
  <2>1. op.OpType = "CONFIG" /\ op.ConfigNum \in Nat /\ v.CurConfig \in Nat
    BY <1>1, OpFields, ConfigSizes, StateFields, Zenon
  <2>2. doUpdateConfig(g, v, op.ConfigNum) = v
    BY <1>1, <2>1 DEF doUpdateConfig, Updates
  <2>3. Applied(g, v, op) = [v EXCEPT !.CommitedId = @ + 1]
    BY <2>1, <2>2, Zenon DEF Applied
  <2> QED BY <2>3, Counted, Zenon
<1>2. CASE op \in RequestOp /\ Completed(v, op.ClientId, op.ReqNo)
  <2>1. op.OpType # "CONFIG" /\ op.OpType # "SHARDS"
    BY <1>2, OpFields, Zenon
  <2>3. Applied(g, v, op) = [v EXCEPT !.CommitedId = @ + 1]
    BY <1>2, <2>1, Zenon DEF Applied
  <2> QED BY <2>3, Counted
<1> QED BY <1>1, <1>2, Zenon

\* A CONFIG command that takes effect: the shards that go are docked with the table.
AfterConfig(w, g, v, n) ==
    /\ w.LastConfig = v.CurConfig /\ w.CurConfig = n
    /\ w.Shards = keepShards(g, v, n) /\ w.ClientInfo = v.ClientInfo
    /\ w.ShardKVMap = [k \in Key |-> IF ShardOf[k] \in keepShards(g, v, n) THEN v.ShardKVMap[k] ELSE <<>>]
    /\ w.OutShardsDock = makeOutShards(g, v, n)
    /\ w.Config2ClientInfo = [v.Config2ClientInfo EXCEPT ![n] = v.ClientInfo]

LEMMA AppliedConfig ==
    ASSUME NEW g, NEW v \in State, NEW op \in ConfigOp, Updates(g, v, op.ConfigNum)
    PROVE  LET w == Applied(g, v, op) IN
           w \in State /\ w.CommitedId = v.CommitedId + 1 /\ AfterConfig(w, g, v, op.ConfigNum)
<1> DEFINE n == op.ConfigNum
           kept == [k \in Key |-> IF ShardOf[k] \in keepShards(g, v, n) THEN v.ShardKVMap[k] ELSE <<>>]
           docked == makeOutShards(g, v, n)
           tables == [v.Config2ClientInfo EXCEPT ![n] = v.ClientInfo]
<1>1. /\ op.OpType = "CONFIG" /\ n \in Num /\ n \in Nat /\ n \in 0..Len(Config)
      /\ v.CurConfig \in Nat /\ v.ShardKVMap \in Data /\ v.ClientInfo \in Info /\ v.Shards \subseteq Shard
      /\ v.OutShardsDock \in [Num -> Dock] /\ v.Config2ClientInfo \in [Num -> Info]
  BY OpFields, ConfigSizes, StateFields DEF Num
<1>2. keepShards(g, v, n) \subseteq Shard /\ outShards(g, v, n) \subseteq Shard
  BY <1>1, Zenon DEF keepShards, outShards
<1>3. kept \in Data
  BY <1>1 DEF Data
<1>4. docked \in [Num -> Dock]
  <2>1. [k \in Key |-> IF ShardOf[k] \in outShards(g, v, n) THEN v.ShardKVMap[k] ELSE <<>>] \in Data
    BY <1>1 DEF Data
  <2> QED BY <1>1, <1>2, <2>1, Zenon DEF makeOutShards, Dock
<1>5. tables \in [Num -> Info]
  BY <1>1, Zenon
<1>6. ~(n <= v.CurConfig \/ ~isMigrateFinished(g, v))
  BY <1>1 DEF Updates
<1> DEFINE w == [v EXCEPT !.Config2ClientInfo = tables, !.OutShardsDock = docked, !.ShardKVMap = kept,
                          !.Shards = keepShards(g, v, n), !.LastConfig = v.CurConfig, !.CurConfig = n]
<1>7. doUpdateConfig(g, v, n) = w
  BY <1>6, Zenon DEF doUpdateConfig
<1> HIDE DEF n, kept, docked, tables
<1>8. /\ w \in State /\ w.CommitedId = v.CommitedId
      /\ w.LastConfig = v.CurConfig /\ w.CurConfig = n
      /\ w.Shards = keepShards(g, v, n) /\ w.ClientInfo = v.ClientInfo
      /\ w.ShardKVMap = kept /\ w.OutShardsDock = docked /\ w.Config2ClientInfo = tables
  BY <1>1, <1>2, <1>3, <1>4, <1>5, Zenon DEF State
<1> HIDE DEF w
<1>9. Applied(g, v, op) = [w EXCEPT !.CommitedId = @ + 1]
  BY <1>1, <1>7, Zenon DEF Applied, n
<1>10. LET u == Applied(g, v, op) IN u \in State /\ u.CommitedId = w.CommitedId + 1 /\ SameConfig(u, w) /\ SameData(u, w)
  BY <1>8, <1>9, Counted, Zenon
<1> QED BY <1>8, <1>10, Zenon DEF SameConfig, SameData, AfterConfig, n, kept, docked, tables

LEMMA MergeType == ASSUME NEW mine \in Info, NEW info \in Info PROVE merge(mine, info) \in Info
BY Zenon DEF merge, Info

\* A SHARDS command: what is accepted, and the table.
AfterShards(w, g, v, op) ==
    LET new == Accepted(g, v, op) IN
    /\ SameConfig(w, v)
    /\ w.Shards = v.Shards \cup new /\ w.ClientInfo = merge(v.ClientInfo, op.ClientInfo)
    /\ w.ShardKVMap = [k \in Key |-> IF ShardOf[k] \in new /\ op.data[k] # <<>>
                                     THEN op.data[k] ELSE v.ShardKVMap[k]]

LEMMA AppliedShards ==
    ASSUME NEW g, NEW v \in State, NEW op \in ShardsOp
    PROVE  LET w == Applied(g, v, op) IN
           w \in State /\ w.CommitedId = v.CommitedId + 1 /\ AfterShards(w, g, v, op)
<1> DEFINE new == Accepted(g, v, op)
           map == [k \in Key |-> IF ShardOf[k] \in new /\ op.data[k] # <<>> THEN op.data[k] ELSE v.ShardKVMap[k]]
           table == merge(v.ClientInfo, op.ClientInfo)
           w == [v EXCEPT !.Shards = v.Shards \cup new, !.ShardKVMap = map, !.ClientInfo = table]
<1>1. /\ op.OpType = "SHARDS" /\ op.out \subseteq Shard /\ op.data \in Data /\ op.ClientInfo \in Info
      /\ v.ShardKVMap \in Data /\ v.ClientInfo \in Info /\ v.Shards \subseteq Shard
  BY OpFields, StateFields, Zenon
<1>2. new \subseteq Shard
  BY <1>1, Zenon DEF Accepted
<1>3. map \in Data
  BY <1>1, Zenon DEF Data
<1>4. table \in Info
  BY <1>1, MergeType, Zenon
<1>5. acceptShards(g, v, op) = w
  BY Zenon DEF acceptShards
<1> HIDE DEF new, map, table
<1>6. /\ w \in State /\ w.CommitedId = v.CommitedId /\ SameConfig(w, v)
      /\ w.Shards = v.Shards \cup new /\ w.ClientInfo = table /\ w.ShardKVMap = map
  BY <1>1, <1>2, <1>3, <1>4, Zenon DEF State, SameConfig
<1> HIDE DEF w
<1>7. Applied(g, v, op) = [w EXCEPT !.CommitedId = @ + 1]
  BY <1>1, <1>5, Zenon DEF Applied
<1>8. LET u == Applied(g, v, op) IN u \in State /\ u.CommitedId = w.CommitedId + 1 /\ SameConfig(u, w) /\ SameData(u, w)
  BY <1>6, <1>7, Counted, Zenon
<1> QED BY <1>6, <1>8, Zenon DEF SameConfig, SameData, AfterShards, new, map, table

LEMMA ErrIs ==
    ASSUME NEW g, NEW v, NEW op
    PROVE  /\ Err(g, v, op) \in Errs
           /\ Err(g, v, op) = "OK" <=> Owner(v.CurConfig, ShardOf[op.Key]) = g /\ ShardOf[op.Key] \in v.Shards
BY Zenon DEF Err, Errs

LEMMA WrittenType ==
    ASSUME NEW old \in Seq(Nat), NEW op \in RequestOp
    PROVE  /\ Written(old, op) \in Seq(Nat)
           /\ op.OpType = "GET" => Written(old, op) = old
           /\ op.OpType # "GET" => Last(Written(old, op)) = op.ReqNo
<1>1. op.OpType \in {"GET", "PUT", "APPEND"} /\ op.ReqNo \in Nat
  BY OpFields, Zenon
<1>2. CASE op.OpType = "GET"
  BY <1>2, Zenon DEF Written
<1>3. CASE op.OpType = "PUT"
  <2>1. Written(old, op) = <<op.ReqNo>>
    BY <1>3, Zenon DEF Written
  <2> QED BY <1>1, <1>3, <2>1 DEF Last
<1>4. CASE op.OpType = "APPEND"
  <2>1. Written(old, op) = Append(old, op.ReqNo)
    BY <1>4, Zenon DEF Written
  <2> QED BY <1>1, <1>4, <2>1 DEF Last
<1> QED BY <1>1, <1>2, <1>3, <1>4, Zenon

\* A request that is not completed: the key is written if the shard is held, and the
\* outcome is entered in the table.
AfterRequest(w, g, v, op) ==
    LET err == Err(g, v, op) IN
    /\ SameConfig(w, v) /\ w.Shards = v.Shards
    /\ w.ClientInfo = [v.ClientInfo EXCEPT ![op.ClientId] = [req |-> op.ReqNo, err |-> err]]
    /\ w.ShardKVMap = [v.ShardKVMap EXCEPT ![op.Key] = IF err = "OK" THEN Written(@, op) ELSE @]

LEMMA AppliedRequest ==
    ASSUME NEW g, NEW v \in State, NEW op \in RequestOp, ~Completed(v, op.ClientId, op.ReqNo)
    PROVE  LET w == Applied(g, v, op) IN
           w \in State /\ w.CommitedId = v.CommitedId + 1 /\ AfterRequest(w, g, v, op)
<1> DEFINE err == Err(g, v, op)
           table == [v.ClientInfo EXCEPT ![op.ClientId] = [req |-> op.ReqNo, err |-> err]]
           map == [v.ShardKVMap EXCEPT ![op.Key] = IF err = "OK" THEN Written(@, op) ELSE @]
           w == [v EXCEPT !.ShardKVMap = map, !.ClientInfo = table]
<1>1. /\ op.OpType # "CONFIG" /\ op.OpType # "SHARDS" /\ op.Key \in Key /\ op.ClientId \in Client /\ op.ReqNo \in Nat
      /\ v.ShardKVMap \in Data /\ v.ClientInfo \in Info
  BY OpFields, StateFields, Zenon
<1>2. map \in Data
  <2>1. v.ShardKVMap[op.Key] \in Seq(Nat)
    BY <1>1, Zenon DEF Data
  <2>2. Written(v.ShardKVMap[op.Key], op) \in Seq(Nat)
    BY <2>1, WrittenType, Zenon
  <2> QED BY <1>1, <2>1, <2>2, Zenon DEF Data
<1>3. table \in Info
  <2>1. err \in Errs
    BY ErrIs, Zenon
  <2>2. [req |-> op.ReqNo, err |-> err] \in [req : Nat, err : Errs]
    BY <1>1, <2>1, Zenon
  <2> QED BY <1>1, <2>2, Zenon DEF Info
<1>4. doOperation(g, v, op) = w
  BY Zenon DEF doOperation
<1> HIDE DEF err, map, table
<1>5. /\ w \in State /\ w.CommitedId = v.CommitedId /\ SameConfig(w, v) /\ w.Shards = v.Shards
      /\ w.ClientInfo = table /\ w.ShardKVMap = map
  BY <1>2, <1>3, Zenon DEF State, SameConfig
<1> HIDE DEF w
<1>6. Applied(g, v, op) = [w EXCEPT !.CommitedId = @ + 1]
  BY <1>1, <1>4, Zenon DEF Applied
<1>7. LET u == Applied(g, v, op) IN u \in State /\ u.CommitedId = w.CommitedId + 1 /\ SameConfig(u, w) /\ SameData(u, w)
  BY <1>5, <1>6, Counted, Zenon
<1> QED BY <1>5, <1>7, Zenon DEF SameConfig, SameData, AfterRequest, map, table, err

LEMMA AppliedType ==
    ASSUME NEW g, NEW v \in State, NEW op \in Command
    PROVE  Applied(g, v, op) \in State /\ Applied(g, v, op).CommitedId = v.CommitedId + 1
<1>1. CASE op \in ConfigOp /\ Updates(g, v, op.ConfigNum)
  BY <1>1, AppliedConfig, Zenon
<1>2. CASE op \in ShardsOp
  BY <1>2, AppliedShards, Zenon
<1>3. CASE op \in RequestOp /\ ~Completed(v, op.ClientId, op.ReqNo)
  BY <1>3, AppliedRequest, Zenon
<1>4. CASE \/ op \in ConfigOp /\ ~Updates(g, v, op.ConfigNum)
           \/ op \in RequestOp /\ Completed(v, op.ClientId, op.ReqNo)
  BY <1>4, AppliedNot, Zenon
<1> QED BY <1>1, <1>2, <1>3, <1>4, Zenon DEF Command

-----------------------------------------------------------------------------
(***************************************************************************)
(* A server's state is what its group's log makes of the start state, up   *)
(* to what clean has deleted.                                              *)
(***************************************************************************)
Cleared(v, n) == v.OutShardsDock[n] = NoDock /\ v.Config2ClientInfo[n] = NoInfo
SameDock(v, w, n) == v.OutShardsDock[n] = w.OutShardsDock[n] /\ v.Config2ClientInfo[n] = w.Config2ClientInfo[n]

\* v is w, but for what clean and sayHello do.
Follows(v, w) ==
    /\ v.CommitedId = w.CommitedId /\ v.LastConfig = w.LastConfig /\ v.CurConfig = w.CurConfig /\ SameData(v, w)
    /\ \A n \in Num : Cleared(v, n) \/ SameDock(v, w, n)

InOrder(w) == w.LastConfig = IF w.CurConfig = 0 THEN 0 ELSE w.CurConfig - 1

\* w is an earlier state of the replica that is now in state d: what was docked stays.
Past(w, d) ==
    /\ InOrder(w) /\ w.CurConfig <= d.CurConfig
    /\ \A n \in Num : IF n <= w.CurConfig THEN SameDock(w, d, n) ELSE Cleared(w, n)

\* St are the states of a replica of group g that applies the log l; it is now in state d.
Replay(g, St, l, d) ==
    /\ St \in [0..Len(l) -> State] /\ St[Len(l)] = d
    /\ \A i \in 1..Len(l) : St[i] = Applied(g, St[i - 1], l[i])
    /\ \A i \in 0..Len(l) : Past(St[i], d)

\* A server in state v has applied a part of the log.
View(v, St, l) == v \in State /\ v.CommitedId \in 0..Len(l) /\ Follows(v, St[v.CommitedId])

\* What is to be known of a server: it is at an earlier configuration, or at the same,
\* and has docked what the group has docked, or has deleted it.
Behind(v, d) ==
    /\ v \in State /\ v.CurConfig <= d.CurConfig /\ InOrder(v)
    /\ \A n \in Num : Cleared(v, n) \/ SameDock(v, d, n)

LEMMA ViewBehind ==
    ASSUME NEW g, NEW St, NEW l, NEW d \in State, NEW v, Replay(g, St, l, d), View(v, St, l)
    PROVE  Behind(v, d)
<1> DEFINE w == St[v.CommitedId]
<1>1. v \in State /\ Follows(v, w) /\ Past(w, d)
  BY Zenon DEF Replay, View
<1> HIDE DEF w
<1>2. v.CurConfig <= d.CurConfig /\ InOrder(v)
  BY <1>1, Zenon DEF Follows, Past, InOrder
<1>3. \A n \in Num : Cleared(v, n) \/ SameDock(v, d, n)
  BY <1>1, Zenon DEF Follows, Past, Cleared, SameDock
<1> QED BY <1>1, <1>2, <1>3, Zenon DEF Behind

LEMMA FollowsConfig ==
    ASSUME NEW g, NEW v \in State, NEW w \in State, NEW n \in Num, Follows(v, w), NEW v1 \in State, NEW w1 \in State,
           v1.CommitedId = v.CommitedId + 1, w1.CommitedId = w.CommitedId + 1,
           AfterConfig(v1, g, v, n), AfterConfig(w1, g, w, n)
    PROVE  Follows(v1, w1)
<1>1. keepShards(g, v, n) = keepShards(g, w, n) /\ outShards(g, v, n) = outShards(g, w, n)
  BY Zenon DEF Follows, SameData, keepShards, outShards
<1>2. v.CommitedId = w.CommitedId /\ v.LastConfig = w.LastConfig /\ v.CurConfig = w.CurConfig /\ SameData(v, w)
  BY Zenon DEF Follows
<1>3. SameData(v1, w1)
  BY <1>1, <1>2 DEF AfterConfig, SameData
<1>4. \A m \in Num : Cleared(v1, m) \/ SameDock(v1, w1, m)
  <2> TAKE m \in Num
  <2>1. /\ v.OutShardsDock \in [Num -> Dock] /\ w.OutShardsDock \in [Num -> Dock]
        /\ v.Config2ClientInfo \in [Num -> Info] /\ w.Config2ClientInfo \in [Num -> Info]
    BY StateFields, Zenon
  <2>2. CASE m # n
    <3>1. SameDock(v1, v, m) /\ SameDock(w1, w, m)
      BY <2>1, <2>2, Zenon DEF AfterConfig, makeOutShards, SameDock
    <3>2. Cleared(v, m) \/ SameDock(v, w, m)
      BY Zenon DEF Follows
    <3> QED BY <3>1, <3>2, Zenon DEF Cleared, SameDock
  <2>3. CASE m = n
    <3>1. v1.OutShardsDock[m] = w1.OutShardsDock[m]
      BY <1>1, <1>2, <2>1, <2>3 DEF AfterConfig, makeOutShards, SameData
    <3>2. v1.Config2ClientInfo[m] = w1.Config2ClientInfo[m]
      BY <1>2, <2>1, <2>3, Zenon DEF AfterConfig, SameData
    <3> QED BY <3>1, <3>2, Zenon DEF SameDock
  <2> QED BY <2>2, <2>3, Zenon
<1> QED BY <1>2, <1>3, <1>4, Zenon DEF Follows, AfterConfig

LEMMA FollowsSame ==
    ASSUME NEW v, NEW w, Follows(v, w), NEW v1, NEW w1,
           v1.CommitedId = v.CommitedId + 1, w1.CommitedId = w.CommitedId + 1,
           SameConfig(v1, v), SameConfig(w1, w), SameData(v1, w1)
    PROVE  Follows(v1, w1)
<1>1. \A m \in Num : Cleared(v1, m) \/ SameDock(v1, w1, m)
  BY Zenon DEF Follows, SameConfig, Cleared, SameDock
<1> QED BY <1>1, Zenon DEF Follows, SameConfig

\* Two replicas that agree so far agree after the next command.
LEMMA FollowsApplied ==
    ASSUME NEW g, NEW v \in State, NEW w \in State, NEW op \in Command, Follows(v, w)
    PROVE  Follows(Applied(g, v, op), Applied(g, w, op))
<1> DEFINE v1 == Applied(g, v, op)
           w1 == Applied(g, w, op)
<1>1. /\ v1 \in State /\ v1.CommitedId = v.CommitedId + 1
      /\ w1 \in State /\ w1.CommitedId = w.CommitedId + 1
  BY AppliedType, Zenon
<1>2. v.CurConfig = w.CurConfig /\ SameData(v, w)
  BY Zenon DEF Follows
<1>3. CASE op \in ConfigOp
  <2>1. Updates(g, v, op.ConfigNum) <=> Updates(g, w, op.ConfigNum)
    BY <1>2, Zenon DEF Updates, isMigrateFinished, UnFinished, SameData
  <2>2. CASE Updates(g, v, op.ConfigNum)
    <3>1. AfterConfig(v1, g, v, op.ConfigNum) /\ AfterConfig(w1, g, w, op.ConfigNum)
      BY <1>3, <2>1, <2>2, AppliedConfig, Zenon
    <3>2. op.ConfigNum \in Num
      BY <1>3, OpFields, Zenon
    <3> HIDE DEF v1, w1
    <3>3. Follows(v1, w1)
      BY <1>1, <3>1, <3>2, FollowsConfig, Zenon
    <3> QED BY <3>3, Zenon DEF v1, w1
  <2>3. CASE ~Updates(g, v, op.ConfigNum)
    <3>1. SameConfig(v1, v) /\ SameData(v1, v)
      BY <1>3, <2>3, AppliedNot, Zenon
    <3>2. SameConfig(w1, w) /\ SameData(w1, w)
      BY <1>3, <2>1, <2>3, AppliedNot, Zenon
    <3> HIDE DEF v1, w1
    <3>3. SameData(v1, w1)
      BY <1>2, <3>1, <3>2, Zenon DEF SameData
    <3>4. Follows(v1, w1)
      BY <1>1, <3>1, <3>2, <3>3, FollowsSame, Zenon
    <3> QED BY <3>4 DEF v1, w1
  <2> QED BY <2>2, <2>3, Zenon
<1>4. CASE op \in ShardsOp
  <2>1. AfterShards(v1, g, v, op) /\ AfterShards(w1, g, w, op)
    BY <1>4, AppliedShards, Zenon
  <2> HIDE DEF v1, w1
  <2>2. Accepted(g, v, op) = Accepted(g, w, op)
    BY <1>2, Zenon DEF Accepted, SameData
  <2>3. SameData(v1, w1)
    BY <1>2, <2>1, <2>2, Zenon DEF AfterShards, SameData
  <2>4. SameConfig(v1, v) /\ SameConfig(w1, w)
    BY <2>1, Zenon DEF AfterShards
  <2>5. Follows(v1, w1)
    BY <1>1, <2>3, <2>4, FollowsSame, Zenon
  <2> QED BY <2>5 DEF v1, w1
<1>5. CASE op \in RequestOp
  <2>1. Completed(v, op.ClientId, op.ReqNo) <=> Completed(w, op.ClientId, op.ReqNo)
    BY <1>2, Zenon DEF Completed, SameData
  <2>2. CASE Completed(v, op.ClientId, op.ReqNo)
    <3>1. SameConfig(v1, v) /\ SameData(v1, v)
      BY <1>5, <2>2, AppliedNot, Zenon
    <3>2. SameConfig(w1, w) /\ SameData(w1, w)
      BY <1>5, <2>1, <2>2, AppliedNot, Zenon
    <3> HIDE DEF v1, w1
    <3>3. SameData(v1, w1)
      BY <1>2, <3>1, <3>2 DEF SameData
    <3>4. Follows(v1, w1)
      BY <1>1, <3>1, <3>2, <3>3, FollowsSame
    <3> QED BY <3>4 DEF v1, w1
  <2>3. CASE ~Completed(v, op.ClientId, op.ReqNo)
    <3>1. AfterRequest(v1, g, v, op) /\ AfterRequest(w1, g, w, op)
      BY <1>5, <2>1, <2>3, AppliedRequest, Zenon
    <3> HIDE DEF v1, w1
    <3>2. Err(g, v, op) = Err(g, w, op)
      BY <1>2, Zenon DEF Err, SameData
    <3>3. SameData(v1, w1)
      BY <1>2, <3>1, <3>2, Zenon DEF AfterRequest, SameData
    <3>4. SameConfig(v1, v) /\ SameConfig(w1, w)
      BY <3>1, Zenon DEF AfterRequest
    <3>5. Follows(v1, w1)
      BY <1>1, <3>3, <3>4, FollowsSame
    <3> QED BY <3>5 DEF v1, w1
  <2> QED BY <2>2, <2>3, Zenon
<1> QED BY <1>3, <1>4, <1>5, Zenon DEF Command

\* The next command keeps the configuration, or goes on to the next one, and docks only there.
NextConfig(e, d) ==
    \/ SameConfig(e, d)
    \/ /\ e.CurConfig = d.CurConfig + 1 /\ e.LastConfig = d.CurConfig
       /\ \A n \in Num : n # e.CurConfig => SameDock(e, d, n)

LEMMA AppliedNext ==
    ASSUME NEW g, NEW d \in State, NEW op \in Command,
           op \in ConfigOp => op.ConfigNum <= d.CurConfig + 1
    PROVE  NextConfig(Applied(g, d, op), d)
<1> DEFINE e == Applied(g, d, op)
<1>1. CASE op \in ConfigOp /\ Updates(g, d, op.ConfigNum)
  <2>1. AfterConfig(e, g, d, op.ConfigNum)
    BY <1>1, AppliedConfig, Zenon
  <2>2. /\ op.ConfigNum \in Num /\ op.ConfigNum \in Nat /\ d.CurConfig \in Nat
        /\ d.OutShardsDock \in [Num -> Dock] /\ d.Config2ClientInfo \in [Num -> Info]
    BY <1>1, OpFields, ConfigSizes, StateFields, Zenon
  <2>3. op.ConfigNum = d.CurConfig + 1
    BY <1>1, <2>2 DEF Updates
  <2> HIDE DEF e
  <2>4. \A n \in Num : n # e.CurConfig => SameDock(e, d, n)
    BY <2>1, <2>2, Zenon DEF AfterConfig, makeOutShards, SameDock
  <2>5. NextConfig(e, d)
    BY <2>1, <2>3, <2>4, Zenon DEF NextConfig, AfterConfig
  <2> QED BY <2>5, Zenon DEF e
<1>2. CASE op \in ShardsOp
  <2>1. AfterShards(e, g, d, op)
    BY <1>2, AppliedShards, Zenon
  <2> QED BY <2>1, Zenon DEF AfterShards, NextConfig
<1>3. CASE op \in RequestOp /\ ~Completed(d, op.ClientId, op.ReqNo)
  <2>1. AfterRequest(e, g, d, op)
    BY <1>3, AppliedRequest, Zenon
  <2> QED BY <2>1, Zenon DEF AfterRequest, NextConfig
<1>4. CASE \/ op \in ConfigOp /\ ~Updates(g, d, op.ConfigNum)
           \/ op \in RequestOp /\ Completed(d, op.ClientId, op.ReqNo)
  <2>1. SameConfig(e, d)
    BY <1>4, AppliedNot, Zenon
  <2> QED BY <2>1, Zenon DEF NextConfig
<1> QED BY <1>1, <1>2, <1>3, <1>4, Zenon DEF Command

LEMMA PastNext ==
    ASSUME NEW d \in State, NEW e \in State, NextConfig(e, d), Past(d, d), NEW w \in State, Past(w, d)
    PROVE  Past(w, e)
<1>1. w.CurConfig \in Nat /\ d.CurConfig \in Nat /\ e.CurConfig \in Nat /\ Num \subseteq Nat
  BY StateFields, ConfigSizes, Zenon
<1>2. w.CurConfig <= d.CurConfig /\ d.CurConfig <= e.CurConfig
  BY <1>1 DEF NextConfig, SameConfig, Past
<1>3. \A n \in Num : n <= d.CurConfig => SameDock(e, d, n)
  <2>1. CASE SameConfig(e, d)
    BY <2>1, Zenon DEF SameConfig, SameDock
  <2>2. CASE e.CurConfig = d.CurConfig + 1 /\ \A n \in Num : n # e.CurConfig => SameDock(e, d, n)
    BY <1>1, <2>2
  <2> QED BY <2>1, <2>2, Zenon DEF NextConfig
<1>4. \A n \in Num : n <= w.CurConfig => SameDock(w, e, n)
  <2> TAKE n \in Num
  <2> HAVE n <= w.CurConfig
  <2>1. SameDock(w, d, n) /\ n <= d.CurConfig
    BY <1>1, <1>2 DEF Past
  <2> QED BY <1>3, <2>1, Zenon DEF SameDock
<1> QED BY <1>1, <1>2, <1>4 DEF Past

LEMMA PastSelf ==
    ASSUME NEW d \in State, NEW e \in State, NextConfig(e, d), Past(d, d)
    PROVE  Past(e, e)
<1>1. d.CurConfig \in Nat /\ e.CurConfig \in Nat /\ Num \subseteq Nat
  BY StateFields, ConfigSizes, Zenon
<1>2. InOrder(e)
  BY <1>1 DEF NextConfig, SameConfig, Past, InOrder
<1>3. \A n \in Num : ~(n <= e.CurConfig) => Cleared(e, n)
  <2> TAKE n \in Num
  <2> HAVE ~(n <= e.CurConfig)
  <2>1. ~(n <= d.CurConfig) /\ n # e.CurConfig
    BY <1>1 DEF NextConfig, SameConfig
  <2>2. Cleared(d, n)
    BY <2>1, Zenon DEF Past
  <2>3. SameDock(e, d, n)
    BY <2>1, Zenon DEF NextConfig, SameConfig, SameDock
  <2> QED BY <2>2, <2>3, Zenon DEF Cleared, SameDock
<1>4. \A n \in Num : SameDock(e, e, n)
  BY Zenon DEF SameDock
<1> QED BY <1>1, <1>2, <1>3, <1>4 DEF Past

\* The states go on with the next command.
Continues(g, St, l, d, op) ==
    \E Tt : /\ Replay(g, Tt, Append(l, op), Applied(g, d, op))
            /\ \A i \in 0..Len(l) : Tt[i] = St[i]

LEMMA ReplayDecide ==
    ASSUME NEW g, NEW l \in Seq(Command), NEW d \in State, NEW St, Replay(g, St, l, d), NEW op \in Command,
           op \in ConfigOp => op.ConfigNum <= d.CurConfig + 1
    PROVE  Continues(g, St, l, d, op)
<1> DEFINE e == Applied(g, d, op)
           l1 == Append(l, op)
           Tt == [i \in 0..Len(l1) |-> IF i <= Len(l) THEN St[i] ELSE e]
<1>1. e \in State /\ NextConfig(e, d)
  BY AppliedType, AppliedNext, Zenon
<1>2. /\ St \in [0..Len(l) -> State] /\ St[Len(l)] = d
      /\ \A i \in 1..Len(l) : St[i] = Applied(g, St[i - 1], l[i])
      /\ \A i \in 0..Len(l) : Past(St[i], d)
  BY Zenon DEF Replay
<1>3. /\ Len(l) \in Nat /\ Len(l1) = Len(l) + 1 /\ l1[Len(l) + 1] = op
      /\ \A i \in 1..Len(l) : l1[i] = l[i]
  OBVIOUS
<1>4. \A i \in 0..Len(l) : Tt[i] = St[i] /\ Past(St[i], e)
  <2>1. Past(d, d)
    BY <1>2, <1>3
  <2>2. \A i \in 0..Len(l) : Past(St[i], e)
    BY <1>1, <1>2, <2>1, PastNext, Zenon
  <2>3. \A i \in 0..Len(l) : i \in 0..Len(l1) /\ i <= Len(l)
    BY <1>3
  <2> HIDE DEF l1, e
  <2> QED BY <2>2, <2>3, Zenon
<1>5. Tt[Len(l1)] = e /\ Tt \in [0..Len(l1) -> State]
  BY <1>1, <1>2, <1>3
<1>6. Past(e, e)
  BY <1>1, <1>2, <1>3, PastSelf
<1>7. \A i \in 1..Len(l1) : Tt[i] = Applied(g, Tt[i - 1], l1[i])
  <2> HIDE DEF l1
  <2> TAKE i \in 1..Len(l1)
  <2>1. CASE i <= Len(l)
    <3>1. Tt[i] = St[i] /\ Tt[i - 1] = St[i - 1] /\ l1[i] = l[i] /\ St[i] = Applied(g, St[i - 1], l[i])
      BY <1>2, <1>3, <2>1
    <3> QED BY <3>1, Zenon
  <2>2. CASE i = Len(l) + 1
    <3>1. Tt[i] = e /\ Tt[i - 1] = d /\ l1[i] = op
      BY <1>2, <1>3, <2>2
    <3> QED BY <3>1, Zenon
  <2> QED BY <1>3, <2>1, <2>2
<1>8. \A i \in 0..Len(l1) : Past(Tt[i], e)
  <2> HIDE DEF l1, Tt, e
  <2> TAKE i \in 0..Len(l1)
  <2>1. CASE i <= Len(l)
    BY <1>3, <1>4, <2>1
  <2>2. CASE i = Len(l1)
    BY <1>5, <1>6, <2>2, Zenon
  <2> QED BY <1>3, <2>1, <2>2
<1> HIDE DEF Tt, e, l1
<1>9. Replay(g, Tt, l1, e)
  BY <1>5, <1>7, <1>8, Zenon DEF Replay
<1> QED BY <1>4, <1>9, Zenon DEF Continues, e, l1

-----------------------------------------------------------------------------
(***************************************************************************)
(* The migration of shards.  What follows is about the states d of the     *)
(* groups, d[g] being that of a replica of g that has applied all its log, *)
(* the versions V of the keys, and the Clerks ck.                          *)
(***************************************************************************)

\* The group that is to have shard x in configuration m has got it there.
Acquired(d, x, m) ==
    LET v == d[Owner(m, x)] IN v.CurConfig > m \/ (v.CurConfig = m /\ x \in v.Shards)

\* A group holds only what is its own, and keeps nothing of other shards' keys.
HoldsOwn(d) ==
    \A g \in Gid : /\ \A x \in d[g].Shards : Owner(d[g].CurConfig, x) = g
                   /\ \A k \in Key : ShardOf[k] \notin d[g].Shards => d[g].ShardKVMap[k] = <<>>

\* When a shard has arrived in a configuration, all its earlier groups have left theirs.
HandedOver(d) ==
    \A x \in Shard, m \in Num, n \in Num :
        n < m /\ Owner(m, x) # 0 /\ Owner(n, x) # 0 /\ Acquired(d, x, m) => d[Owner(n, x)].CurConfig > n

\* What a group has docked for configuration m was its own in the one before.
DocksOwn(d) ==
    \A g \in Gid, m \in Num : \A x \in d[g].OutShardsDock[m].out :
        m - 1 \in Num /\ m <= d[g].CurConfig /\ Owner(m - 1, x) = g

\* Shard x is on its way: g has it docked for configuration m, whose group lacks it.
Moving(d, g, m, x) == x \in d[g].OutShardsDock[m].out /\ ~Acquired(d, x, m)

\* The first group that is to have shard x, in configuration m, lacks it.
Unused(d, m, x) == Owner(m, x) # 0 /\ Owner(m - 1, x) = 0 /\ ~Acquired(d, x, m)

\* The data of a shard that is held, on its way or unused is what the key's last write left.
Current(d, V) ==
    /\ \A g \in Gid, k \in Key : ShardOf[k] \in d[g].Shards => d[g].ShardKVMap[k] = Last(V[k])
    /\ \A g \in Gid, m \in Num, k \in Key : Moving(d, g, m, ShardOf[k]) => d[g].OutShardsDock[m].data[k] = Last(V[k])
    /\ \A m \in Num, k \in Key : Unused(d, m, ShardOf[k]) => V[k] = << <<>> >>

\* The table tells that the request is completed.
Covers(info, c, no) == no < info[c].req \/ (no = info[c].req /\ info[c].err = "OK")

\* The table tells of every write in vs that a Clerk may still repeat.
Covered(info, vs, ck) ==
    \A n \in 2..Len(vs), c \in Client : ck[c].op.ReqNo = Last(vs[n]) => Covers(info, c, Last(vs[n]))

\* The table goes with the shard.
Remembered(d, V, ck) ==
    /\ \A g \in Gid, k \in Key : ShardOf[k] \in d[g].Shards => Covered(d[g].ClientInfo, V[k], ck)
    /\ \A g \in Gid, m \in Num, k \in Key :
            Moving(d, g, m, ShardOf[k]) => Covered(d[g].Config2ClientInfo[m], V[k], ck)

\* Requests are numbered, and Clerks repeat only the one they are at.
Numbered(ck, q) ==
    /\ \A c \in Client : /\ ck[c].op.ReqNo \in 0..q
                         /\ ck[c].stage # "idle" => ck[c].op \in RequestOp /\ ck[c].op.ClientId = c /\ ck[c].op.ReqNo # 0
    /\ \A c, b \in Client : ck[c].op.ReqNo = ck[b].op.ReqNo /\ ck[c].op.ReqNo # 0 => c = b

\* Every version but the first is due to one request, which made no other.
Once(V, q) ==
    \A k \in Key : /\ V[k] \in Seq(Seq(Nat)) /\ Len(V[k]) >= 1
                   /\ \A n \in 2..Len(V[k]) : Last(V[k][n]) \in 1..q
                   /\ \A m, n \in 2..Len(V[k]) : m # n => Last(V[k][m]) # Last(V[k][n])

LEMMA Owners ==
    /\ 0 \notin Gid
    /\ \A x : Owner(0, x) = 0
    /\ \A m \in Num, x \in Shard : Owner(m, x) # 0 => Owner(m, x) \in Gid
<1>1. 0 \notin Gid /\ 0 \notin Num
  BY ConfigAssumption DEF Num
<1>2. \A m \in Num, x \in Shard : Owner(m, x) \in Gid \cup {0}
  BY <1>1, ConfigSizes, Zenon DEF Owner
<1> QED BY <1>1, <1>2, Zenon DEF Owner

\* After a configuration with groups comes none without.
LEMMA StaysAssigned ==
    ASSUME NeverEmptied, NEW m \in Num, NEW n \in Num, m <= n, NEW x \in Shard, NEW y \in Shard, Owner(m, x) # 0
    PROVE  Owner(n, y) # 0
<1>1. m \in 1..n
  BY ConfigSizes DEF Num
<1> QED BY <1>1, Zenon DEF NeverEmptied

LEMMA HolderAt ==
    ASSUME NEW d \in [Gid -> State], HoldsOwn(d), NEW g \in Gid, NEW x \in d[g].Shards
    PROVE  LET a == d[g].CurConfig IN a \in Num /\ a \in Nat /\ x \in Shard /\ Owner(a, x) = g /\ Acquired(d, x, a)
<1>1. d[g] \in State
  BY Zenon
<1>2. d[g].CurConfig \in 0..Len(Config) /\ x \in Shard /\ Owner(d[g].CurConfig, x) = g /\ Len(Config) \in Nat
  BY <1>1, StateFields, ConfigSizes, Zenon DEF HoldsOwn
<1>3. d[g].CurConfig # 0
  BY <1>2, Owners, Zenon
<1> QED BY <1>2, <1>3 DEF Num, Acquired

\* A shard is in one place: the group that holds it is alone, and it is neither on its
\* way nor unused.
LEMMA SoleHolder ==
    ASSUME NEW d \in [Gid -> State], HoldsOwn(d), HandedOver(d), NEW g \in Gid, NEW h \in Gid,
           NEW x \in d[g].Shards, x \in d[h].Shards
    PROVE  g = h
<1> DEFINE a == d[g].CurConfig
           b == d[h].CurConfig
<1>1. a \in Num /\ a \in Nat /\ x \in Shard /\ Owner(a, x) = g /\ Acquired(d, x, a)
  BY HolderAt, Zenon
<1>2. b \in Num /\ b \in Nat /\ Owner(b, x) = h /\ Acquired(d, x, b)
  BY HolderAt, Zenon
<1>3. g # 0 /\ h # 0
  BY Owners, Zenon
<1>4. ~(a < b)
  BY <1>1, <1>2, <1>3 DEF HandedOver
<1>5. ~(b < a)
  BY <1>1, <1>2, <1>3 DEF HandedOver
<1> QED BY <1>1, <1>2, <1>4, <1>5

LEMMA HeldNotMoving ==
    ASSUME NeverEmptied, NEW d \in [Gid -> State], HoldsOwn(d), HandedOver(d), DocksOwn(d),
           NEW g \in Gid, NEW x \in d[g].Shards, NEW h \in Gid, NEW m \in Num
    PROVE  ~Moving(d, h, m, x)
<1> SUFFICES ASSUME Moving(d, h, m, x) PROVE FALSE
  BY Zenon
<1> DEFINE a == d[g].CurConfig
<1>1. a \in Num /\ a \in Nat /\ x \in Shard /\ Owner(a, x) = g /\ Acquired(d, x, a)
  BY HolderAt, Zenon
<1>2. /\ m \in Nat /\ m - 1 \in Num /\ m - 1 \in Nat /\ m <= d[h].CurConfig /\ d[h].CurConfig \in Nat
      /\ Owner(m - 1, x) = h
  BY ConfigSizes, StateFields, Zenon DEF Moving, DocksOwn
<1>3. g # 0 /\ h # 0
  BY Owners, Zenon
<1>4. Owner(m, x) # 0 /\ Owner(m, x) \in Gid
  BY <1>1, <1>2, <1>3, StaysAssigned, Owners
<1>5. ~Acquired(d, x, m)
  BY Zenon DEF Moving
<1>6. CASE m = a
  BY <1>1, <1>5, <1>6, Zenon
<1>7. CASE m < a
  <2>1. d[Owner(m, x)].CurConfig > m
    BY <1>1, <1>3, <1>4, <1>7, Zenon DEF HandedOver
  <2> QED BY <1>5, <2>1, Zenon DEF Acquired
<1>8. CASE m - 1 = a
  BY <1>1, <1>2, <1>8
<1>9. CASE m - 1 > a
  <2>1. Acquired(d, x, m - 1)
    BY <1>2 DEF Acquired
  <2>2. d[Owner(a, x)].CurConfig > a
    BY <1>1, <1>2, <1>3, <1>9, <2>1, Zenon DEF HandedOver
  <2> QED BY <1>1, <2>2
<1> QED BY <1>1, <1>2, <1>6, <1>7, <1>8, <1>9

LEMMA HeldNotUnused ==
    ASSUME NeverEmptied, NEW d \in [Gid -> State], HoldsOwn(d), HandedOver(d),
           NEW g \in Gid, NEW x \in d[g].Shards, NEW m \in Num
    PROVE  ~Unused(d, m, x)
<1> SUFFICES ASSUME Unused(d, m, x) PROVE FALSE
  BY Zenon
<1> DEFINE a == d[g].CurConfig
<1>1. a \in Num /\ a \in Nat /\ x \in Shard /\ Owner(a, x) = g /\ Acquired(d, x, a)
  BY HolderAt, Zenon
<1>2. m \in Nat /\ Owner(m, x) # 0 /\ Owner(m - 1, x) = 0 /\ ~Acquired(d, x, m)
  BY ConfigSizes, Zenon DEF Unused
<1>3. g # 0
  BY Owners, Zenon
<1>4. CASE m = a
  BY <1>1, <1>2, <1>4, Zenon
<1>5. CASE m < a
  <2>1. d[Owner(m, x)].CurConfig > m
    BY <1>1, <1>2, <1>3, <1>5, Zenon DEF HandedOver
  <2> QED BY <1>2, <2>1, Zenon DEF Acquired
<1>6. CASE a <= m - 1
  <2>1. m - 1 \in Num
    BY <1>1, <1>2, <1>6 DEF Num
  <2> QED BY <1>1, <1>2, <1>3, <1>6, <2>1, StaysAssigned, Zenon
<1> QED BY <1>1, <1>2, <1>4, <1>5, <1>6

\* Group g takes a step from d to e.
StepOf(d, e, g) == d \in [Gid -> State] /\ e \in [Gid -> State] /\ \A h \in Gid : h # g => e[h] = d[h]

\* Group g has all its shards and goes on to configuration n.
ConfigStep(d, e, g, n) ==
    /\ StepOf(d, e, g) /\ g \in Gid /\ n \in Num /\ n = d[g].CurConfig + 1
    /\ isMigrateFinished(g, d[g]) /\ AfterConfig(e[g], g, d[g], n)

LEMMA ConfigFacts ==
    ASSUME NEW d, NEW e, NEW g, NEW n, ConfigStep(d, e, g, n)
    PROVE  /\ n \in Num /\ n \in Nat /\ d[g] \in State /\ e[g] \in State /\ d[g].CurConfig \in Nat
           /\ d[g].CurConfig = n - 1 /\ e[g].CurConfig = n
           /\ \A x : x \in e[g].Shards <=> x \in d[g].Shards /\ Owner(n, x) = g
           /\ \A x \in Shard : Owner(n - 1, x) = g => x \in d[g].Shards
<1>1. /\ g \in Gid /\ n \in Num /\ d[g] \in State /\ e[g] \in State /\ n = d[g].CurConfig + 1
      /\ isMigrateFinished(g, d[g]) /\ AfterConfig(e[g], g, d[g], n)
  BY Zenon DEF ConfigStep, StepOf
<1>2. n \in Nat /\ d[g].CurConfig \in Nat
  BY <1>1, ConfigSizes, StateFields, Zenon
<1>3. e[g].CurConfig = n /\ e[g].Shards = keepShards(g, d[g], n)
  BY <1>1, Zenon DEF AfterConfig
<1>4. \A x : x \in e[g].Shards <=> x \in d[g].Shards /\ Owner(n, x) = g
  BY <1>3, Zenon DEF keepShards
<1>5. d[g].CurConfig = n - 1
  BY <1>1, <1>2
<1>6. \A x \in Shard : Owner(n - 1, x) = g => x \in d[g].Shards
  BY <1>1, <1>5, Zenon DEF isMigrateFinished, UnFinished
<1> QED BY <1>1, <1>2, <1>3, <1>4, <1>5, <1>6, Zenon

LEMMA ConfigDocks ==
    ASSUME NEW d, NEW e, NEW g, NEW n, ConfigStep(d, e, g, n)
    PROVE  /\ e[g].ClientInfo = d[g].ClientInfo
           /\ \A k \in Key : e[g].ShardKVMap[k] = IF ShardOf[k] \in e[g].Shards THEN d[g].ShardKVMap[k] ELSE <<>>
           /\ \A m \in Num : m # n => SameDock(e[g], d[g], m)
           /\ \A x : x \in e[g].OutShardsDock[n].out <=> x \in d[g].Shards /\ Owner(n, x) # g
           /\ \A k \in Key : ShardOf[k] \in e[g].OutShardsDock[n].out
                             => e[g].OutShardsDock[n].data[k] = d[g].ShardKVMap[k]
           /\ e[g].Config2ClientInfo[n] = d[g].ClientInfo
<1> DEFINE v == d[g]
           w == e[g]
<1>1. n \in Num /\ v \in State /\ AfterConfig(w, g, v, n)
  BY ConfigFacts, Zenon DEF ConfigStep
<1>2. v.OutShardsDock \in [Num -> Dock] /\ v.Config2ClientInfo \in [Num -> Info]
  BY <1>1, StateFields, Zenon
<1> HIDE DEF v, w
<1>3. w.ClientInfo = v.ClientInfo /\ w.Shards = keepShards(g, v, n)
  BY <1>1, Zenon DEF AfterConfig
<1>4. \A k \in Key : w.ShardKVMap[k] = IF ShardOf[k] \in w.Shards THEN v.ShardKVMap[k] ELSE <<>>
  BY <1>1, <1>3 DEF AfterConfig
<1>5. \A m \in Num : m # n => SameDock(w, v, m)
  BY <1>1, <1>2, Zenon DEF AfterConfig, makeOutShards, SameDock
<1>6. /\ w.OutShardsDock[n].out = outShards(g, v, n)
      /\ w.OutShardsDock[n].data = [k \in Key |-> IF ShardOf[k] \in outShards(g, v, n) THEN v.ShardKVMap[k] ELSE <<>>]
  BY <1>1, <1>2 DEF AfterConfig, makeOutShards
<1>7. w.Config2ClientInfo[n] = v.ClientInfo
  BY <1>1, <1>2, Zenon DEF AfterConfig
<1>8. \A x : x \in w.OutShardsDock[n].out <=> x \in v.Shards /\ Owner(n, x) # g
  BY <1>6, Zenon DEF outShards
<1>9. \A k \in Key : ShardOf[k] \in w.OutShardsDock[n].out => w.OutShardsDock[n].data[k] = v.ShardKVMap[k]
  BY <1>6, Zenon
<1> QED BY <1>3, <1>4, <1>5, <1>7, <1>8, <1>9, Zenon DEF v, w

\* What is acquired by going on are the shards that stay.
LEMMA ConfigAcquires ==
    ASSUME NEW d, NEW e, NEW g, NEW n, ConfigStep(d, e, g, n),
           NEW x \in Shard, NEW m \in Num, Owner(m, x) # 0
    PROVE  Acquired(e, x, m) <=> Acquired(d, x, m) \/ (m = n /\ Owner(n, x) = g /\ x \in d[g].Shards)
<1>1. /\ n \in Num /\ n \in Nat /\ d[g].CurConfig = n - 1 /\ e[g].CurConfig = n
      /\ \A y : y \in e[g].Shards <=> y \in d[g].Shards /\ Owner(n, y) = g
      /\ \A y \in Shard : Owner(n - 1, y) = g => y \in d[g].Shards
  BY ConfigFacts
<1>2. Owner(m, x) \in Gid /\ m \in Nat
  BY Owners, ConfigSizes, Zenon
<1>3. CASE Owner(m, x) = g
  BY <1>1, <1>2, <1>3 DEF Acquired
<1>4. CASE Owner(m, x) # g
  BY <1>2, <1>4, Zenon DEF Acquired, ConfigStep, StepOf
<1> QED BY <1>3, <1>4, Zenon

LEMMA ConfigHoldsOwn ==
    ASSUME NEW d, NEW e, NEW g, NEW n, ConfigStep(d, e, g, n), HoldsOwn(d)
    PROVE  HoldsOwn(e)
<1> SUFFICES ASSUME NEW h \in Gid
             PROVE  /\ \A x \in e[h].Shards : Owner(e[h].CurConfig, x) = h
                    /\ \A k \in Key : ShardOf[k] \notin e[h].Shards => e[h].ShardKVMap[k] = <<>>
  BY Zenon DEF HoldsOwn
<1>1. CASE h = g
  <2>1. e[g].CurConfig = n /\ \A x : x \in e[g].Shards <=> x \in d[g].Shards /\ Owner(n, x) = g
    BY ConfigFacts
  <2>2. \A k \in Key : e[g].ShardKVMap[k] = IF ShardOf[k] \in e[g].Shards THEN d[g].ShardKVMap[k] ELSE <<>>
    BY ConfigDocks
  <2> QED BY <1>1, <2>1, <2>2, Zenon
<1>2. CASE h # g
  <2>1. e[h] = d[h]
    BY <1>2, Zenon DEF ConfigStep, StepOf
  <2> QED BY <2>1, Zenon DEF HoldsOwn
<1> QED BY <1>1, <1>2, Zenon

LEMMA ConfigHandsOver ==
    ASSUME NEW d, NEW e, NEW g, NEW n, ConfigStep(d, e, g, n), HoldsOwn(d), HandedOver(d)
    PROVE  HandedOver(e)
<1> SUFFICES ASSUME NEW x \in Shard, NEW m \in Num, NEW j \in Num,
                    j < m, Owner(m, x) # 0, Owner(j, x) # 0, Acquired(e, x, m)
             PROVE  e[Owner(j, x)].CurConfig > j
  BY Zenon DEF HandedOver
<1>1. /\ n \in Nat /\ d[g].CurConfig \in Nat /\ d[g].CurConfig = n - 1 /\ e[g].CurConfig = n
      /\ d \in [Gid -> State] /\ g \in Gid /\ \A h \in Gid : h # g => e[h] = d[h]
  BY ConfigFacts DEF ConfigStep, StepOf
<1>2. Owner(j, x) \in Gid /\ j \in Nat /\ m \in Nat
  BY Owners, ConfigSizes, Zenon
<1>3. d[Owner(j, x)].CurConfig > j => e[Owner(j, x)].CurConfig > j
  BY <1>1, <1>2
<1>4. CASE Acquired(d, x, m)
  BY <1>3, <1>4, Zenon DEF HandedOver
<1>5. CASE m = n /\ x \in d[g].Shards
  <2>1. n - 1 \in Num /\ Owner(n - 1, x) = g /\ Acquired(d, x, n - 1)
    BY <1>1, <1>5, HolderAt
  <2>2. CASE j = n - 1
    BY <1>1, <2>1, <2>2
  <2>3. CASE j < n - 1
    <3>1. Owner(n - 1, x) # 0
      BY <1>1, <2>1, Owners, Zenon
    <3> QED BY <1>3, <2>1, <2>3, <3>1, Zenon DEF HandedOver
  <2> QED BY <1>1, <1>2, <1>5, <2>2, <2>3
<1> QED BY <1>4, <1>5, ConfigAcquires

LEMMA ConfigDocksOwn ==
    ASSUME NEW d, NEW e, NEW g, NEW n, ConfigStep(d, e, g, n), HoldsOwn(d), DocksOwn(d)
    PROVE  DocksOwn(e)
<1> SUFFICES ASSUME NEW h \in Gid, NEW m \in Num, NEW x \in e[h].OutShardsDock[m].out
             PROVE  m - 1 \in Num /\ m <= e[h].CurConfig /\ Owner(m - 1, x) = h
  BY Zenon DEF DocksOwn
<1>1. /\ n \in Nat /\ d[g].CurConfig \in Nat /\ d[g].CurConfig = n - 1 /\ e[g].CurConfig = n
      /\ d \in [Gid -> State] /\ g \in Gid /\ \A i \in Gid : i # g => e[i] = d[i]
  BY ConfigFacts DEF ConfigStep, StepOf
<1>2. CASE h # g
  BY <1>1, <1>2, Zenon DEF DocksOwn
<1>3. CASE h = g /\ m = n
  <2>1. x \in d[g].Shards
    BY <1>3, ConfigDocks
  <2>2. n - 1 \in Num /\ Owner(n - 1, x) = g
    BY <1>1, <2>1, HolderAt
  <2> QED BY <1>1, <1>3, <2>2
<1>4. CASE h = g /\ m # n
  <2>1. x \in d[g].OutShardsDock[m].out
    BY <1>4, ConfigDocks DEF SameDock
  <2>2. m - 1 \in Num /\ m <= d[g].CurConfig /\ Owner(m - 1, x) = g
    BY <1>1, <2>1, Zenon DEF DocksOwn
  <2>3. m \in Nat
    BY ConfigSizes, Zenon
  <2> QED BY <1>1, <1>4, <2>2, <2>3
<1> QED BY <1>2, <1>3, <1>4, Zenon

LEMMA DockedAssigned ==
    ASSUME NeverEmptied, NEW d \in [Gid -> State], DocksOwn(d), NEW h \in Gid, NEW m \in Num,
           NEW x \in d[h].OutShardsDock[m].out
    PROVE  x \in Shard /\ Owner(m, x) # 0
<1>1. x \in Shard
  <2>1. d[h].OutShardsDock[m] \in Dock
    BY StateFields, Zenon
  <2> QED BY <2>1, Zenon DEF Dock
<1>2. m - 1 \in Num /\ Owner(m - 1, x) = h /\ h # 0 /\ m - 1 <= m
  BY Owners, ConfigSizes DEF DocksOwn
<1> QED BY <1>1, <1>2, StaysAssigned, Zenon

\* What is on its way after the step was so before, or has just been docked.
LEMMA ConfigMoves ==
    ASSUME NeverEmptied, NEW d, NEW e, NEW g, NEW n, ConfigStep(d, e, g, n), DocksOwn(d),
           NEW h \in Gid, NEW m \in Num, NEW x, Moving(e, h, m, x)
    PROVE  \/ Moving(d, h, m, x) /\ SameDock(e[h], d[h], m)
           \/ h = g /\ m = n /\ x \in d[g].Shards
<1>1. d \in [Gid -> State] /\ \A i \in Gid : i # g => e[i] = d[i]
  BY Zenon DEF ConfigStep, StepOf
<1>2. CASE h = g /\ m = n
  <2>1. x \in e[g].OutShardsDock[n].out
    BY <1>2, Zenon DEF Moving
  <2> QED BY <1>2, <2>1, ConfigDocks
<1>3. CASE ~(h = g /\ m = n)
  <2>1. SameDock(e[h], d[h], m)
    BY <1>1, <1>3, ConfigDocks, SMTT(60) DEF SameDock
  <2>2. x \in d[h].OutShardsDock[m].out /\ ~Acquired(e, x, m)
    BY <2>1, Zenon DEF Moving, SameDock
  <2>3. x \in Shard /\ Owner(m, x) # 0
    BY <1>1, <2>2, DockedAssigned, Zenon
  <2>4. ~Acquired(d, x, m)
    BY <2>2, <2>3, ConfigAcquires, Zenon
  <2> QED BY <2>1, <2>2, <2>4, Zenon DEF Moving
<1> QED BY <1>2, <1>3, Zenon

LEMMA ConfigCurrent ==
    ASSUME NeverEmptied, NEW d, NEW e, NEW g, NEW n, ConfigStep(d, e, g, n), DocksOwn(d),
           NEW V, Current(d, V)
    PROVE  Current(e, V)
<1>1. d \in [Gid -> State] /\ g \in Gid /\ \A i \in Gid : i # g => e[i] = d[i]
  BY Zenon DEF ConfigStep, StepOf
<1>2. ASSUME NEW h \in Gid, NEW k \in Key, ShardOf[k] \in e[h].Shards
      PROVE  e[h].ShardKVMap[k] = Last(V[k])
  <2>1. CASE h = g
    <3>1. ShardOf[k] \in d[g].Shards
      BY <1>2, <2>1, ConfigFacts, Zenon
    <3>2. e[g].ShardKVMap[k] = d[g].ShardKVMap[k]
      BY <1>2, <2>1, ConfigDocks
    <3> QED BY <1>1, <2>1, <3>1, <3>2, Zenon DEF Current
  <2>2. CASE h # g
    BY <1>1, <1>2, <2>2 DEF Current
  <2> QED BY <2>1, <2>2, Zenon
<1>3. ASSUME NEW h \in Gid, NEW m \in Num, NEW k \in Key, Moving(e, h, m, ShardOf[k])
      PROVE  e[h].OutShardsDock[m].data[k] = Last(V[k])
  <2>1. CASE Moving(d, h, m, ShardOf[k]) /\ SameDock(e[h], d[h], m)
    BY <2>1 DEF Current, SameDock
  <2>2. CASE h = g /\ m = n /\ ShardOf[k] \in d[g].Shards
    <3>1. ShardOf[k] \in e[g].OutShardsDock[n].out
      BY <1>3, <2>2, Zenon DEF Moving
    <3>2. e[g].OutShardsDock[n].data[k] = d[g].ShardKVMap[k]
      BY <3>1, ConfigDocks
    <3> QED BY <1>1, <2>2, <3>2, Zenon DEF Current
  <2> QED BY <1>3, <2>1, <2>2, ConfigMoves
<1>4. ASSUME NEW m \in Num, NEW k \in Key, Unused(e, m, ShardOf[k])
      PROVE  V[k] = << <<>> >>
  <2>1. ShardOf[k] \in Shard
    BY KeyAssumption, Zenon
  <2>2. Unused(d, m, ShardOf[k])
    BY <1>4, <2>1, ConfigAcquires, Zenon DEF Unused
  <2> QED BY <2>2, Zenon DEF Current
<1> QED BY <1>2, <1>3, <1>4, Zenon DEF Current

LEMMA ConfigRemembers ==
    ASSUME NeverEmptied, NEW d, NEW e, NEW g, NEW n, ConfigStep(d, e, g, n), DocksOwn(d),
           NEW V, NEW ck, Remembered(d, V, ck)
    PROVE  Remembered(e, V, ck)
<1>1. g \in Gid /\ \A i \in Gid : i # g => e[i] = d[i]
  BY Zenon DEF ConfigStep, StepOf
<1>2. ASSUME NEW h \in Gid, NEW k \in Key, ShardOf[k] \in e[h].Shards
      PROVE  Covered(e[h].ClientInfo, V[k], ck)
  <2>1. CASE h = g
    <3>1. ShardOf[k] \in d[g].Shards
      BY <1>2, <2>1, ConfigFacts, Zenon
    <3>2. e[g].ClientInfo = d[g].ClientInfo
      BY ConfigDocks
    <3> QED BY <1>1, <2>1, <3>1, <3>2, Zenon DEF Remembered
  <2>2. CASE h # g
    BY <1>1, <1>2, <2>2, Zenon DEF Remembered
  <2> QED BY <2>1, <2>2, Zenon
<1>3. ASSUME NEW h \in Gid, NEW m \in Num, NEW k \in Key, Moving(e, h, m, ShardOf[k])
      PROVE  Covered(e[h].Config2ClientInfo[m], V[k], ck)
  <2>1. CASE Moving(d, h, m, ShardOf[k]) /\ SameDock(e[h], d[h], m)
    BY <2>1, Zenon DEF Remembered, SameDock
  <2>2. CASE h = g /\ m = n /\ ShardOf[k] \in d[g].Shards
    <3>1. e[g].Config2ClientInfo[n] = d[g].ClientInfo
      BY ConfigDocks, SMTT(60)
    <3> QED BY <1>1, <2>2, <3>1, Zenon DEF Remembered
  <2> QED BY <1>3, <2>1, <2>2, ConfigMoves
<1> QED BY <1>2, <1>3, Zenon DEF Remembered
=============================================================================
