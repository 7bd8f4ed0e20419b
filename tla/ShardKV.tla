------------------------------- MODULE ShardKV -------------------------------
(***************************************************************************)
(* The sharded key/value service: groups of replicas that serve, hand over *)
(* and pull shards as the shard controler changes the configuration        *)
(* (shardkv/server.go), and Clerks (shardkv/client.go).                    *)
(*                                                                         *)
(* Two services are external.  The controler's configurations are the      *)
(* constant Config, of which `latest' have been made.  A group's Raft is   *)
(* its decided log: Start appends to it or is in vain, every replica       *)
(* applies it at its own pace, and any replica may believe it leads.       *)
(***************************************************************************)
EXTENDS Integers, Sequences, FiniteSets

CONSTANTS
    Gid, NShards,
    Config,        \* Config[n] is configuration n: [Shards |-> shard to gid, Groups |-> gids]
    NReplicas,     \* [Gid -> Nat]: group g's servers are <<g, 1>> .. <<g, NReplicas[g]>>
    Client, Key,
    ShardOf,       \* [Key -> Shard], for key2shard
    Kinds,         \* the requests Clerks make: a subset of {"GET", "PUT", "APPEND"}
    Greeter,       \* the servers whose sayHello runs
    MaxReq,        \* bound: requests of all Clerks
    MaxTries,      \* bound: entries of one request in all logs
    MaxCopies,     \* bound: equal CONFIG or SHARDS entries a replica has yet to apply
    MaxFailures,   \* bound: calls that are lost, find no leader, or time out
    MaxSnapshots,  \* bound: snapshots taken
    MaxRestarts    \* bound: crashes and restarts

Shard == 0..(NShards - 1)
Num == 1..Len(Config)

ASSUME ConfigAssumption ==
    /\ Gid \subseteq Nat \ {0} /\ NShards \in Nat \ {0}
    /\ Config \in Seq([Shards : [Shard -> Gid \cup {0}], Groups : SUBSET Gid])
ASSUME KeyAssumption == Key # {} /\ ShardOf \in [Key -> Shard] /\ Kinds \subseteq {"GET", "PUT", "APPEND"}
ASSUME BoundAssumption ==
    /\ NReplicas \in [Gid -> Nat \ {0}]
    /\ {MaxReq, MaxTries, MaxCopies, MaxFailures, MaxSnapshots, MaxRestarts} \subseteq Nat

Server == UNION {{g} \X (1..NReplicas[g]) : g \in Gid}

VARIABLES
    latest,         \* configurations the controler has made
    log,            \* the decided commands of each group
    skv,            \* the ShardKV struct of each server
    saved,          \* the snapshot in each server's persister
    pulls,          \* the goroutines running doPullShards
    CompletedChan,  \* for each server and client, the handler whose channel is in the map, or 0
    handlers,       \* Get and PutAppend handlers waiting in their select
    clerk, seq,     \* the Clerks, and the last ReqNo given out
    failures, snapshots, restarts,
    decided,        \* history: what a replica that has applied the whole log holds
    versions        \* history: the values a key has had, each with the requests it is made of

serviceVars == <<skv, saved, pulls>>
clientVars  == <<CompletedChan, handlers, clerk, seq>>
bounds      == <<failures, snapshots, restarts>>
history     == <<decided, versions>>
vars == <<latest, log, serviceVars, clientVars, bounds, history>>

-----------------------------------------------------------------------------
(***************************************************************************)
(* Configurations and the state of a server.  Configurations are known by  *)
(* their numbers; number 0 has no groups and every shard on gid 0.         *)
(***************************************************************************)

Owner(n, s) == IF n = 0 THEN 0 ELSE Config[n].Shards[s]
Groups(n)   == IF n = 0 THEN {} ELSE Config[n].Groups

\* A value is the sequence of the requests that wrote it, <<>> for a key that is absent.
NoData == [k \in Key |-> <<>>]
NoInfo == [c \in Client |-> [req |-> 0, err |-> ""]]   \* CompletedReq and CompletedResult
NoDock == [out |-> {}, data |-> NoData]

StartServer ==
    [CommitedId |-> 0, LastConfig |-> 0, CurConfig |-> 0, Shards |-> {}, ShardKVMap |-> NoData,
     ClientInfo |-> NoInfo,
     Gid2UnCompletedConfigNum |-> [g \in Gid |-> 0],          \* 0: no entry
     OutShardsDock |-> [n \in Num |-> NoDock],
     Config2ClientInfo |-> [n \in Num |-> NoInfo]]

\* The shards the current configuration gives to g that v does not have yet.
UnFinished(g, v) == {s \in Shard : Owner(v.CurConfig, s) = g /\ s \notin v.Shards}
isMigrateFinished(g, v) == UnFinished(g, v) = {}

Greater(m, n) == IF m > n THEN m ELSE n
Last(seqn) == seqn[Len(seqn)]

-----------------------------------------------------------------------------
(***************************************************************************)
(* applyLog: what a command does to the state v of a server of group g.    *)
(***************************************************************************)

\* A request is executed unless the client's later one has been, or itself with success.
Completed(v, c, no) ==
    \/ no < v.ClientInfo[c].req
    \/ no = v.ClientInfo[c].req /\ v.ClientInfo[c].err = "OK"

ErrUnreadyGet(g, v, op) ==
    CASE Owner(v.CurConfig, ShardOf[op.Key]) # g -> "ErrWrongGroup"
      [] Owner(v.CurConfig, ShardOf[op.Key]) = g /\ op.OpType # "GET"
            /\ ShardOf[op.Key] \notin v.Shards -> "ErrNotReady"
      [] OTHER -> "OK"
Err(g, v, op) ==
    CASE Owner(v.CurConfig, ShardOf[op.Key]) # g -> "ErrWrongGroup"
      [] Owner(v.CurConfig, ShardOf[op.Key]) = g /\ ShardOf[op.Key] \notin v.Shards -> "ErrNotReady"
      [] OTHER -> "OK"

Written(old, op) ==
    CASE op.OpType = "GET"    -> old
      [] op.OpType = "PUT"    -> <<op.ReqNo>>
      [] op.OpType = "APPEND" -> Append(old, op.ReqNo)

doOperation(g, v, op) ==
    LET err == Err(g, v, op) IN
    [v EXCEPT !.ShardKVMap[op.Key] = IF err = "OK" THEN Written(@, op) ELSE @,
              !.ClientInfo[op.ClientId] = [req |-> op.ReqNo, err |-> err]]

merge(mine, info) ==
    [c \in Client |-> IF \/ info[c].req > mine[c].req
                         \/ info[c].req = mine[c].req /\ mine[c].err # "OK"
                      THEN info[c] ELSE mine[c]]

\* The shards of a SHARDS command that v takes.
AcceptedAgain(g, v, op) ==
    {s \in op.out : op.ConfigNum = v.CurConfig /\ Owner(v.CurConfig, s) = g}
Accepted(g, v, op) ==
    {s \in op.out : op.ConfigNum = v.CurConfig /\ Owner(v.CurConfig, s) = g /\ s \notin v.Shards}

acceptShardsOnly(g, v, op) ==
    LET new == Accepted(g, v, op) IN
    [v EXCEPT !.Shards = @ \cup new,
              !.ShardKVMap = [k \in Key |-> IF ShardOf[k] \in new /\ op.data[k] # <<>>
                                            THEN op.data[k] ELSE @[k]]]
acceptShards(g, v, op) ==
    LET new == Accepted(g, v, op) IN
    [v EXCEPT !.Shards = @ \cup new,
              !.ShardKVMap = [k \in Key |-> IF ShardOf[k] \in new /\ op.data[k] # <<>>
                                            THEN op.data[k] ELSE @[k]],
              !.ClientInfo = merge(@, op.ClientInfo)]

\* compareConfig: the shards of v that stay, and those that go, with configuration n.
keepShardsAll(g, v, n) == v.Shards
keepShards(g, v, n) == {s \in v.Shards : Owner(n, s) = g}
outShards(g, v, n)  == {s \in v.Shards : Owner(n, s) # g}

\* makeOutShards: the shards that go, with their keys, docked for configuration n.
makeOutShards(g, v, n) ==
    [v.OutShardsDock EXCEPT ![n] =
        [out |-> outShards(g, v, n),
         data |-> [k \in Key |-> IF ShardOf[k] \in outShards(g, v, n) THEN v.ShardKVMap[k] ELSE <<>>]]]

doUpdateConfig(g, v, n) ==
    IF n <= v.CurConfig \/ ~isMigrateFinished(g, v) THEN v
    ELSE [v EXCEPT !.Config2ClientInfo[n] = v.ClientInfo,
                   !.OutShardsDock = makeOutShards(g, v, n),
                   !.ShardKVMap = [k \in Key |-> IF ShardOf[k] \in keepShards(g, v, n)
                                                 THEN v.ShardKVMap[k] ELSE <<>>],
                   !.Shards = keepShards(g, v, n),
                   !.LastConfig = v.CurConfig,
                   !.CurConfig = n]

\* The state after the next command of the log.
Applied(g, v, op) ==
    LET done == CASE op.OpType = "CONFIG" -> doUpdateConfig(g, v, op.ConfigNum)
                  [] op.OpType = "SHARDS" -> acceptShards(g, v, op)
                  [] OTHER -> IF Completed(v, op.ClientId, op.ReqNo) THEN v ELSE doOperation(g, v, op)
    IN  [done EXCEPT !.CommitedId = @ + 1]

\* The command is a request, and is executed with success.
Executes(g, v, op) ==
    /\ op.OpType \notin {"CONFIG", "SHARDS"}
    /\ ~Completed(v, op.ClientId, op.ReqNo)
    /\ Err(g, v, op) = "OK"

-----------------------------------------------------------------------------
(***************************************************************************)
(* Raft and the controler, as the service uses them.                       *)
(***************************************************************************)

\* op becomes the next command of group g.
Decide(g, op) ==
    /\ log' = [log EXCEPT ![g] = Append(@, op)]
    /\ decided' = [decided EXCEPT ![g] = Applied(g, @, op)]
    /\ versions' = IF Executes(g, decided[g], op) /\ op.OpType # "GET"
                   THEN [versions EXCEPT ![op.Key] = Append(@, Written(Last(@), op))]
                   ELSE versions

\* Start is in vain: the server is not the leader, or is deposed before op is decided.
Lost == UNCHANGED <<log, history>>

Copies(g, from, op) == Cardinality({n \in (from + 1)..Len(log[g]) : log[g][n] = op})
Tries(op) == Cardinality(UNION {{g} \X {n \in DOMAIN log[g] : log[g][n] = op} : g \in Gid})

\* Server s starts a CONFIG or SHARDS command.
Start(s, op) ==
    /\ Copies(s[1], skv[s].CommitedId, op) < MaxCopies
    /\ Decide(s[1], op)

Reconfigure ==
    /\ latest < Len(Config)
    /\ latest' = latest + 1
    /\ UNCHANGED <<log, serviceVars, clientVars, bounds, history>>

-----------------------------------------------------------------------------
(***************************************************************************)
(* The goroutines of a server.                                             *)
(***************************************************************************)

\* updateConfig: a leader that has all its shards asks for the next configuration.
updateConfig(s) ==
    LET v == skv[s] IN
    /\ isMigrateFinished(s[1], v)
    /\ v.CurConfig < latest
    /\ Start(s, [OpType |-> "CONFIG", ConfigNum |-> v.CurConfig + 1])
    /\ UNCHANGED <<latest, serviceVars, clientVars, bounds>>

\* checkMissShards and pullShards: after the first configuration there is nowhere to
\* pull from, and every shard starts empty; later, one goroutine per group to ask.
checkMissShards(s) ==
    LET v == skv[s]
        missing == UnFinished(s[1], v)
        From(h) == {x \in missing : Owner(v.LastConfig, x) = h}
    IN
    /\ missing # {}
    /\ \/ /\ Owner(v.LastConfig, 0) = 0
          /\ Start(s, [OpType |-> "SHARDS", ConfigNum |-> v.CurConfig, out |-> Shard,
                       data |-> NoData, ClientInfo |-> NoInfo])
          /\ UNCHANGED pulls
       \/ /\ Owner(v.LastConfig, 0) # 0
          /\ pulls' = pulls \cup {[server |-> s, from |-> h, ConfigNum |-> v.CurConfig, shards |-> From(h)] :
                                    h \in {g \in Groups(v.LastConfig) : From(g) # {}}}
          /\ UNCHANGED <<log, history>>
    /\ UNCHANGED <<latest, skv, saved, clientVars, bounds>>

\* ShardDock: what server t has docked of the shards for configuration n.
DockedBefore(t, n, shards) == IF n = 1 THEN {} ELSE skv[t].OutShardsDock[n - 1].out \cap shards
Docked(t, n, shards) == skv[t].OutShardsDock[n].out \cap shards

\* doPullShards asks server t and gets an answer; it starts the command and returns.
doPullShards(p, t) ==
    LET got == Docked(t, p.ConfigNum, p.shards)
        dock == skv[t].OutShardsDock[p.ConfigNum]
    IN
    /\ t[1] = p.from
    /\ got # {}
    /\ pulls' = pulls \ {p}
    /\ \/ Start(p.server, [OpType |-> "SHARDS", ConfigNum |-> p.ConfigNum, out |-> got,
                           data |-> [k \in Key |-> IF ShardOf[k] \in got THEN dock.data[k] ELSE <<>>],
                           ClientInfo |-> skv[t].Config2ClientInfo[p.ConfigNum]])
       \/ Lost
    /\ UNCHANGED <<latest, skv, saved, clientVars, bounds>>

\* doPullShards has asked in vain, and its server has left the configuration.
doPullShardsEnds(p) ==
    /\ skv[p.server].CurConfig # p.ConfigNum
    /\ pulls' = pulls \ {p}
    /\ UNCHANGED <<latest, log, skv, saved, clientVars, bounds, history>>

\* Hello: the first configuration that server t may still have to finish.
HelloAhead(t) == skv[t].CurConfig + 1
Hello(t) == IF isMigrateFinished(t[1], skv[t]) THEN skv[t].CurConfig + 1 ELSE skv[t].CurConfig

cleanNothing(v) == v
\* clean deletes what is docked for configurations that all known groups have finished.
clean(v) ==
    LET known == {v.Gid2UnCompletedConfigNum[g] : g \in Gid} \ {0}
        expired == {n \in Num : \A m \in known : n < m}
    IN  [v EXCEPT !.OutShardsDock = [n \in Num |-> IF n \in expired THEN NoDock ELSE @[n]],
                  !.Config2ClientInfo = [n \in Num |-> IF n \in expired THEN NoInfo ELSE @[n]]]

\* One round of sayHello: heard[h] is the greatest answer of group h's leaders, if any.
sayHelloRound(s, heard) ==
    LET v == skv[s]
        w == [v EXCEPT !.Gid2UnCompletedConfigNum =
                [g \in Gid |-> IF g \in DOMAIN heard THEN Greater(@[g], heard[g]) ELSE @[g]]]
    IN
    /\ skv' = [skv EXCEPT ![s] =
                IF Cardinality({g \in Gid : w.Gid2UnCompletedConfigNum[g] # 0}) > 1 THEN clean(w) ELSE w]
    /\ UNCHANGED <<latest, log, saved, pulls, clientVars, bounds, history>>

Answers(h) == {Hello(t) : t \in {u \in Server : u[1] = h}}

sayHello(s) ==
    /\ s \in Greeter
    /\ \E who \in SUBSET (Groups(skv[s].CurConfig) \ {s[1]}) :
         \E heard \in [who -> UNION {Answers(h) : h \in who}] :
            (\A h \in who : heard[h] \in Answers(h)) /\ sayHelloRound(s, heard)

\* applyLog executes the next command; doOperation hands the result to the handler
\* whose channel is in CompletedChan, which may be one of another request.
Apply(s) ==
    LET g == s[1]
        v == skv[s]
        op == log[g][v.CommitedId + 1]
        result == [ReqNo |-> op.ReqNo, Err |-> Err(g, v, op), Value |-> v.ShardKVMap[op.Key]]
        waiting(h) == h.server = s /\ h.client = op.ClientId /\ h.id = CompletedChan[s][op.ClientId]
    IN
    /\ v.CommitedId < Len(log[g])
    /\ skv' = [skv EXCEPT ![s] = Applied(g, v, op)]
    /\ handlers' = IF op.OpType \in {"CONFIG", "SHARDS"} \/ Completed(v, op.ClientId, op.ReqNo) THEN handlers
                   ELSE {IF waiting(h) THEN [h EXCEPT !.offered = @ \cup {result}] ELSE h : h \in handlers}
    /\ UNCHANGED <<latest, log, saved, pulls, CompletedChan, clerk, seq, bounds, history>>

\* Snapshot: the struct is encoded and handed to Raft.
Snapshot(s) ==
    /\ snapshots < MaxSnapshots
    /\ skv[s].CommitedId > saved[s].CommitedId
    /\ saved' = [saved EXCEPT ![s] = skv[s]]
    /\ snapshots' = snapshots + 1
    /\ UNCHANGED <<latest, log, skv, pulls, clientVars, failures, restarts, history>>

\* applyLog and ReadSnapshot: Raft delivers the snapshot of another server of the group.
ReadSnapshot(s, t) ==
    /\ t[1] = s[1]
    /\ saved[t].CommitedId > skv[s].CommitedId
    /\ skv' = [skv EXCEPT ![s] = saved[t]]
    /\ saved' = [saved EXCEPT ![s] = saved[t]]
    /\ UNCHANGED <<latest, log, pulls, clientVars, bounds, history>>

-----------------------------------------------------------------------------
(***************************************************************************)
(* Clerks, and the handlers Get and PutAppend.                             *)
(***************************************************************************)

\* since, value: history, the version the key had when the request began, and the result.
MakeClerk(c) ==
    [stage |-> "idle", config |-> 0, si |-> 1, call |-> 0, since |-> 1, value |-> <<>>,
     op |-> [OpType |-> "GET", Key |-> CHOOSE k \in Key : TRUE, ClientId |-> c, ReqNo |-> 0]]

\* The Clerk goes on to the next server of the group.  A call that finds no leader,
\* or that the network loses, has no other effect.
NextServer(ck) == [ck EXCEPT !.stage = "trying", !.si = @ + 1, !.call = 0]

\* What the Clerk does with a reply: done, break out of the loop over the group's
\* servers, or go on to the next.
Replied(ck, err, value) ==
    CASE err = "OK"            -> [ck EXCEPT !.stage = "idle", !.value = value, !.call = 0]
      [] err = "ErrWrongGroup" -> [ck EXCEPT !.stage = "asking", !.call = 0]
      [] OTHER                 -> NextServer(ck)

Request(c, kind, k) ==
    /\ clerk[c].stage = "idle"
    /\ seq < MaxReq
    /\ seq' = seq + 1
    /\ clerk' = [clerk EXCEPT ![c] = [@ EXCEPT !.stage = "trying", !.si = 1, !.since = Len(versions[k]),
                    !.op = [OpType |-> kind, Key |-> k, ClientId |-> c, ReqNo |-> seq + 1]]]
    /\ UNCHANGED <<latest, log, serviceVars, CompletedChan, handlers, bounds, history>>

Target(c) == <<Owner(clerk[c].config, ShardOf[clerk[c].op.Key]), clerk[c].si>>

\* No server is left to try: the Clerk asks the controler.  An empty configuration,
\* the answer to a Query that is repeated (module ShardCtrler), has it ask again.
Query(c) ==
    /\ \/ clerk[c].stage = "asking"
       \/ clerk[c].stage = "trying" /\ Target(c) \notin Server
    /\ clerk' = [clerk EXCEPT ![c] = [@ EXCEPT !.stage = "trying", !.si = 1, !.config = latest]]
    /\ UNCHANGED <<latest, log, serviceVars, CompletedChan, handlers, seq, bounds, history>>

Fail == failures < MaxFailures /\ failures' = failures + 1

\* The call ends without having had an effect on the server: it is lost, or answered
\* ErrWrongLeader, or ErrWrongGroup, or, as the request is completed, at once.
HandleAtOnce(c) ==
    LET s == Target(c)
        op == clerk[c].op
        shard == ShardOf[op.Key]
        v == skv[s]
        err == CASE Owner(v.CurConfig, shard) # s[1] -> "ErrWrongGroup"
                 [] op.OpType = "GET" /\ shard \notin v.Shards -> "ErrNotReady"
                 [] OTHER -> "OK"
    IN
    /\ clerk[c].stage = "trying" /\ s \in Server
    /\ \/ /\ clerk' = [clerk EXCEPT ![c] = NextServer(@)]
          /\ Fail
       \/ /\ Owner(v.CurConfig, shard) # s[1] \/ Completed(v, c, op.ReqNo)
          /\ clerk' = [clerk EXCEPT ![c] = Replied(@, err, v.ShardKVMap[op.Key])]
          /\ UNCHANGED failures
    /\ UNCHANGED <<latest, log, serviceVars, CompletedChan, handlers, seq, snapshots, restarts, history>>

\* The handler starts the command and waits on a channel of its own.
Handle(c) ==
    LET s == Target(c)
        op == clerk[c].op
        id == CHOOSE i \in 1..(Cardinality(handlers) + 1) : \A h \in handlers : h.client = c => h.id # i
    IN
    /\ clerk[c].stage = "trying" /\ s \in Server
    /\ Owner(skv[s].CurConfig, ShardOf[op.Key]) = s[1]
    /\ ~Completed(skv[s], c, op.ReqNo)
    /\ Tries(op) < MaxTries
    /\ Decide(s[1], op) \/ (Lost /\ failures < MaxFailures)
    /\ CompletedChan' = [CompletedChan EXCEPT ![s][c] = id]
    /\ handlers' = handlers \cup {[id |-> id, client |-> c, server |-> s, ReqNo |-> op.ReqNo, offered |-> {}]}
    /\ clerk' = [clerk EXCEPT ![c].stage = "waiting", ![c].call = id]
    /\ UNCHANGED <<latest, serviceVars, seq, bounds>>

\* The select of handler h: a result, perhaps not the one of its request, or the
\* timeout.  It then deletes the client's channel, be it its own or a later one.
Resume(h) ==
    LET c == h.client
        awaited == clerk[c].stage = "waiting" /\ clerk[c].call = h.id
        Reply(err, value) == clerk' = IF awaited THEN [clerk EXCEPT ![c] = Replied(@, err, value)] ELSE clerk
    IN
    /\ \/ /\ \E r \in h.offered : Reply(IF r.ReqNo = h.ReqNo THEN r.Err ELSE "", r.Value)
          /\ UNCHANGED failures
       \/ /\ Reply("ErrTimeOut", <<>>)
          /\ IF awaited THEN Fail ELSE UNCHANGED failures
    /\ CompletedChan' = [CompletedChan EXCEPT ![h.server][c] = 0]
    /\ handlers' = handlers \ {h}
    /\ UNCHANGED <<latest, log, serviceVars, seq, snapshots, restarts, history>>

\* The network fails the call while its handler waits: the Clerk goes on without it.
Abandon(c) ==
    /\ clerk[c].stage = "waiting"
    /\ Fail
    /\ clerk' = [clerk EXCEPT ![c] = NextServer(@)]
    /\ UNCHANGED <<latest, log, serviceVars, CompletedChan, handlers, seq, snapshots, restarts, history>>

\* Kill, and StartServer with the same persister.  Calls to the server fail.
Restart(s) ==
    LET Cut(c) == \E h \in handlers : h.server = s /\ h.client = c /\ h.id = clerk[c].call
    IN
    /\ restarts < MaxRestarts
    /\ restarts' = restarts + 1
    /\ skv' = [skv EXCEPT ![s] = saved[s]]
    /\ pulls' = {p \in pulls : p.server # s}
    /\ CompletedChan' = [CompletedChan EXCEPT ![s] = [c \in Client |-> 0]]
    /\ handlers' = {h \in handlers : h.server # s}
    /\ clerk' = [c \in Client |-> IF clerk[c].stage = "waiting" /\ Cut(c) THEN NextServer(clerk[c]) ELSE clerk[c]]
    /\ UNCHANGED <<latest, log, saved, seq, failures, snapshots, history>>

-----------------------------------------------------------------------------
Init ==
    /\ latest = 0
    /\ log = [g \in Gid |-> <<>>]
    /\ skv = [s \in Server |-> StartServer]
    /\ saved = [s \in Server |-> StartServer]
    /\ pulls = {}
    /\ CompletedChan = [s \in Server |-> [c \in Client |-> 0]]
    /\ handlers = {}
    /\ clerk = [c \in Client |-> MakeClerk(c)]
    /\ seq = 0
    /\ failures = 0 /\ snapshots = 0 /\ restarts = 0
    /\ decided = [g \in Gid |-> StartServer]
    /\ versions = [k \in Key |-> << <<>> >>]

Next ==
    \/ Reconfigure
    \/ \E s \in Server : \/ updateConfig(s) \/ checkMissShards(s) \/ sayHello(s)
                         \/ Apply(s) \/ Snapshot(s) \/ Restart(s)
                         \/ \E t \in Server : ReadSnapshot(s, t)
    \/ \E p \in pulls : doPullShardsEnds(p) \/ \E t \in Server : doPullShards(p, t)
    \/ \E c \in Client : \/ \E kind \in Kinds, k \in Key : Request(c, kind, k)
                         \/ Query(c) \/ HandleAtOnce(c) \/ Handle(c) \/ Abandon(c)
    \/ \E h \in handlers : Resume(h)

Spec == Init /\ [][Next]_vars

\* What the code's loops and a connected network guarantee: the goroutines of a
\* server run again and again, Raft applies what it has decided and, with a leader
\* that stays long enough, decides what is started, and calls get through in the end.
PullDecided(s) == \E p \in pulls, t \in Server : p.server = s /\ doPullShards(p, t) /\ log' # log
AllHeard(s) ==
    LET who == Groups(skv[s].CurConfig) \ {s[1]} IN
    \E heard \in [who -> UNION {Answers(h) : h \in who}] :
        (\A h \in who : heard[h] \in Answers(h)) /\ sayHelloRound(s, heard)
Fairness ==
    /\ \A s \in Server : /\ WF_vars(Apply(s)) /\ WF_vars(updateConfig(s) \/ checkMissShards(s))
                         /\ SF_vars(PullDecided(s))
    /\ \A s \in Greeter : WF_vars(AllHeard(s))
FairSpec == Spec /\ Fairness

-----------------------------------------------------------------------------
(***************************************************************************)
(* Properties.                                                             *)
(***************************************************************************)

\* Once there are groups, every shard has one: the groups never all leave, and no Leave
\* strands a shard.  pullShards relies on it: a configuration with shard 0 on no group
\* is taken for the one before the first, and all shards for new.
NeverEmptied ==
    \A n \in Num : \/ \A x \in Shard : Owner(n, x) # 0
                   \/ \A m \in 1..n, x \in Shard : Owner(m, x) = 0

\* No two groups hold a shard at the same point of their logs: doUpdateConfig gives
\* it up before ShardDock hands it out, and acceptShards takes it once.
OneOwner ==
    \A g, h \in Gid : g # h => decided[g].Shards \cap decided[h].Shards = {}

\* A group that holds a shard has every write to its keys, whichever group executed
\* it: makeOutShards docks the latest data, and a SHARDS command that is decided
\* again or late overwrites nothing.
HolderCurrent ==
    \A g \in Gid, k \in Key :
        ShardOf[k] \in decided[g].Shards => decided[g].ShardKVMap[k] = Last(versions[k])

\* No write is executed twice, though its Clerk repeats it at the group the shard has
\* moved to: the table of completed requests moves with the shard.
ExactlyOnce ==
    \A k \in Key : \A m, n \in 2..Len(versions[k]) : m # n => Last(versions[k][m]) # Last(versions[k][n])

\* A finished Get returns a value the key had after the Get began, and a finished Put
\* or Append has been executed: also when the Clerk was sent from group to group, its
\* calls were repeated, or a deposed or restarted leader answered a repeated Get.
Linearizable ==
    \A c \in Client :
        LET ck == clerk[c]
            had == versions[ck.op.Key]
        IN  ck.stage = "idle" =>
                IF ck.op.OpType = "GET" THEN \E n \in ck.since..Len(had) : had[n] = ck.value
                ELSE \E n \in (ck.since + 1)..Len(had) : Last(had[n]) = ck.op.ReqNo

\* Garbage collection (sayHello and clean) never deletes what a group still has to
\* pull: as long as the new group lacks the shard, every server of the old group has
\* it docked or has yet to reach the configuration.  (True of up to three groups: the
\* two answers clean waits for are then those of all others.)
DockAvailable ==
    \A g \in Gid : \A x \in UnFinished(g, decided[g]) :
        LET v == decided[g] IN
        \A t \in Server : t[1] = Owner(v.LastConfig, x) /\ Owner(v.LastConfig, 0) # 0 =>
            skv[t].CurConfig < v.CurConfig \/ x \in skv[t].OutShardsDock[v.CurConfig].out

\* Once the controler makes no more configurations, every server of every group gets
\* to the last one with all the shards it is to have, and stays there: no group
\* waits for a shard for ever, whatever goroutines and restarts did on the way.
Migrates ==
    <>[](\A s \in Server : skv[s].CurConfig = latest /\ isMigrateFinished(s[1], skv[s]))

\* And what was docked for the groups that pulled it is deleted, if no group leaves:
\* sayHello asks the groups of the current configuration only.
Collected == <>[](\A s \in Greeter, n \in Num : skv[s].OutShardsDock[n] = NoDock)
=============================================================================
