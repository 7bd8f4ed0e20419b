----------------------------- MODULE ShardCtrler -----------------------------
(***************************************************************************)
(* The replicated shard controler: Clerks (shardctrler/client.go) and      *)
(* servers (server.go), over RPCs that may fail and over a Raft group.     *)
(* Raft is external, as in module KVRaft.  The service takes no snapshots: *)
(* a server that restarts replays its log from the first entry.            *)
(***************************************************************************)
EXTENDS ShardConfig, SequencesExt

CONSTANTS
    NServers,      \* servers are 0 .. NServers-1, as in the Clerk's servers[]
    Client,
    Types,         \* the requests Clerks make: a subset of {"Join", "Leave", "Move", "Query"}
    MaxReq,        \* bound: requests of all Clerks
    MaxFailures,   \* bound: calls the network fails
    MaxTerm,       \* bound: leader changes
    MaxRestarts    \* bound: crashes and restarts

ASSUME BoundAssumption == /\ NServers \in Nat \ {0}
                          /\ Types \subseteq {"Join", "Leave", "Move", "Query"}
                          /\ {MaxReq, MaxFailures, MaxTerm, MaxRestarts} \subseteq Nat

Server == 0..(NServers - 1)

VARIABLES
    seq,                     \* the last ReqNo given out: one counter for all Clerks
    request, probe,          \* what the Clerk is calling for, or Idle, and the server it has come to
    calls,                   \* calls and their handlers, as in module KVRaft
    log, pending, term, leaders,
    configs, CompletedPool, CommitedId,
    failures, restarts,
    known,                   \* history: the latest Num a completed request depends on
    floor,                   \* history: known when the Clerk's request began
    answer                   \* history: the last request's least Num due, its Num, if it was a repeat

clerkVars == <<seq, request, probe, known, floor, answer>>
raftVars  == <<log, pending, term, leaders>>
ctrlVars  == <<configs, CompletedPool, CommitedId>>
bounds    == <<failures, restarts>>
vars == <<clerkVars, calls, raftVars, ctrlVars, bounds>>

-----------------------------------------------------------------------------
\* Requests: gids join or leave, shard moves to the one gid, num is queried.
Args == {a \in [type : Types, gids : SUBSET Gid \ {{}}, shard : Shard, num : {-1, 1}] :
            /\ a.type # "Move" => a.shard = 0
            /\ a.type # "Query" => a.num = -1
            /\ a.type = "Move" => Cardinality(a.gids) = 1
            /\ a.type = "Query" => a.gids = Gid}
Op == [args : Args, client : Client, no : 1..MaxReq]
Idle == [args |-> "none"]

LastTerm == CHOOSE t \in {term[s] : s \in Server} : \A s \in Server : term[s] <= t

Call(op, s) ==
    [op |-> op, server |-> s, live |-> TRUE, term |-> 0, stage |-> "sent",
     try |-> CHOOSE n \in 1..(Cardinality(calls) + 1) : \A r \in calls : r.try # n]

Init ==
    /\ seq = 0
    /\ request = [c \in Client |-> Idle]
    /\ probe = [c \in Client |-> 0]
    /\ calls = {}
    /\ log = <<>> /\ pending = {}
    /\ term = [s \in Server |-> 0] /\ leaders = {}
    /\ configs = [s \in Server |-> <<NoConfig>>]
    /\ CompletedPool = [s \in Server |-> [c \in Client |-> 0]]
    /\ CommitedId = [s \in Server |-> 0]
    /\ failures = 0 /\ restarts = 0
    /\ known = 0
    /\ floor = [c \in Client |-> 0]
    /\ answer = [c \in Client |-> [floor |-> 0, num |-> 0, repeated |-> FALSE]]

-----------------------------------------------------------------------------
(***************************************************************************)
(* Clerks.                                                                 *)
(***************************************************************************)

\* Query, Join, Leave and Move up to the first Call.
Begin(c, args) ==
    LET op == [args |-> args, client |-> c, no |-> seq + 1] IN
    /\ request[c] = Idle
    /\ seq < MaxReq
    /\ seq' = seq + 1
    /\ request' = [request EXCEPT ![c] = op]
    /\ probe' = [probe EXCEPT ![c] = 0]
    /\ floor' = [floor EXCEPT ![c] = known]
    /\ calls' = calls \cup {Call(op, 0)}
    /\ UNCHANGED <<known, answer, raftVars, ctrlVars, bounds>>

\* Call r fails, or returns WrongLeader: the Clerk, if it waits, tries the next server.
GiveUp(r, rest) ==
    LET c == r.op.client
        next == (probe[c] + 1) % NServers
    IN
    /\ IF r.live
       THEN /\ probe' = [probe EXCEPT ![c] = next]
            /\ calls' = rest \cup {Call(r.op, next)}
       ELSE calls' = rest /\ UNCHANGED probe
    /\ UNCHANGED <<seq, request, known, floor, answer>>

\* The number of the configuration that op made; -1 if it was not decided.
Changes(n) == {m \in 1..n : log[m].args.type # "Query" /\ \A l \in 1..(m - 1) : log[l] # log[m]}
First(op) == CHOOSE n \in DOMAIN log : log[n] = op /\ \A m \in 1..(n - 1) : log[m] # op
Made(op) == IF op \in Range(log) THEN Cardinality(Changes(First(op))) ELSE -1

\* Call r returns a reply, with configuration number num for a Query.  The answer
\* to a Query for a number is due to be that one, or the latest if that is lower.
Answer(r, num, repeated) ==
    LET c == r.op.client
        n == IF r.op.args.type = "Query" THEN num ELSE Made(r.op)
        least == IF r.op.args.num \in 0..floor[c] THEN r.op.args.num ELSE floor[c]
    IN
    /\ calls' = calls \ {r}
    /\ IF r.live
       THEN /\ request' = [request EXCEPT ![c] = Idle]
            /\ answer' = [answer EXCEPT ![c] = [floor |-> least, num |-> n, repeated |-> repeated]]
            /\ known' = IF n > known THEN n ELSE known
            /\ UNCHANGED <<seq, probe, floor>>
       ELSE UNCHANGED clerkVars

\* A handler's reply reaches its Clerk or is lost.
Reply(r, num, repeated) ==
    \/ Answer(r, num, repeated) /\ UNCHANGED bounds
    \/ /\ r.live /\ failures < MaxFailures
       /\ failures' = failures + 1
       /\ GiveUp(r, calls \ {r})
       /\ UNCHANGED restarts

\* The network fails a call whose handler has not returned.
Fail(r) ==
    /\ r.live
    /\ \/ /\ r.stage = "dead"
          /\ GiveUp(r, calls \ {r})
          /\ UNCHANGED failures
       \/ /\ r.stage # "dead" /\ failures < MaxFailures
          /\ failures' = failures + 1
          /\ \/ r.stage = "sent" /\ GiveUp(r, calls \ {r})
             \/ GiveUp(r, (calls \ {r}) \cup {[r EXCEPT !.live = FALSE]})
    /\ UNCHANGED <<raftVars, ctrlVars, restarts>>

-----------------------------------------------------------------------------
(***************************************************************************)
(* Servers.  The four handlers differ only in the Op and in Query's reply. *)
(***************************************************************************)

Handle(r) ==
    LET s == r.server
        repeated == r.op.no <= CompletedPool[s][r.op.client]
    IN
    /\ r.stage = "sent"
    /\ UNCHANGED <<log, term, leaders, ctrlVars>>
    /\ \/ /\ s \notin leaders
          /\ GiveUp(r, calls \ {r})
          /\ UNCHANGED <<pending, bounds>>
       \/ /\ s \in leaders /\ repeated
          /\ Reply(r, 0, TRUE)   \* a Query's Config is left at its zero value
          /\ UNCHANGED pending
       \/ /\ s \in leaders /\ ~repeated
          /\ pending' = pending \cup {[op |-> r.op, try |-> r.try, server |-> s, term |-> term[s]]}
          /\ calls' = {IF q = r THEN [r EXCEPT !.stage = "current", !.term = term[s]]
                       ELSE IF q.server = s /\ q.op.client = r.op.client /\ q.stage = "current"
                            THEN [q EXCEPT !.stage = "stale"] ELSE q : q \in calls}
          /\ UNCHANGED <<clerkVars, bounds>>

Woken(s, cs) ==
    {IF q.server = s /\ q.op.client \in cs /\ q.stage = "current"
     THEN [q EXCEPT !.stage = "woken"] ELSE q : q \in calls}

BroadcastAllPeoridly(s) ==
    /\ \E r \in calls : r.server = s /\ r.stage = "current"
    /\ calls' = Woken(s, Client)
    /\ UNCHANGED <<clerkVars, raftVars, ctrlVars, bounds>>

\* The woken handler of op finds it applied.
DoneAnyway(s, op) == TRUE
Done(s, op) == CompletedPool[s][op.client] = op.no

\* The number of the configuration a Query for num is answered with at server s.
QueryNum(s, num) == IF num = -1 \/ num >= Len(configs[s]) THEN Len(configs[s]) - 1 ELSE num

Resume(r) ==
    LET s == r.server
        led == s \in leaders /\ term[s] = r.term
    IN
    /\ r.stage = "woken"
    /\ UNCHANGED <<raftVars, ctrlVars>>
    /\ \/ ~led /\ GiveUp(r, calls \ {r}) /\ UNCHANGED bounds
       \/ led /\ Done(s, r.op) /\ Reply(r, QueryNum(s, r.op.args.num), FALSE)
       \/ /\ led /\ ~Done(s, r.op)
          /\ calls' = (calls \ {r}) \cup {[r EXCEPT !.stage = "current"]}
          /\ UNCHANGED <<clerkVars, bounds>>

\* The configurations after a request is executed on cs.
Execute(cs, a) ==
    CASE a.type = "Join"  -> Append(cs, doJoin(Last(cs), a.gids))
      [] a.type = "Leave" -> Append(cs, doLeave(Last(cs), a.gids))
      [] a.type = "Move"  -> Append(cs, doMove(Last(cs), a.shard, CHOOSE g \in a.gids : TRUE))
      [] a.type = "Query" -> cs

\* applyLog executes a command unless the client's later one has been executed.
IsNewAlways(s, op) == TRUE
IsNew(s, op) == op.no > CompletedPool[s][op.client]

Apply(s) ==
    LET op == log[CommitedId[s] + 1]
        new == IsNew(s, op)
    IN
    /\ CommitedId[s] < Len(log)
    /\ configs' = IF new THEN [configs EXCEPT ![s] = Execute(@, op.args)] ELSE configs
    /\ CompletedPool' = IF new THEN [CompletedPool EXCEPT ![s][op.client] = op.no] ELSE CompletedPool
    /\ CommitedId' = [CommitedId EXCEPT ![s] = @ + 1]
    /\ calls' = Woken(s, {op.client})
    /\ UNCHANGED <<clerkVars, raftVars, bounds>>

\* Kill, and StartServer with the same persister.
Restart(s) ==
    /\ restarts < MaxRestarts
    /\ restarts' = restarts + 1
    /\ configs' = [configs EXCEPT ![s] = <<NoConfig>>]
    /\ CompletedPool' = [CompletedPool EXCEPT ![s] = [c \in Client |-> 0]]
    /\ CommitedId' = [CommitedId EXCEPT ![s] = 0]
    /\ leaders' = leaders \ {s}
    /\ calls' = {r \in calls : r.server # s}
                \cup {[r EXCEPT !.stage = "dead"] : r \in {q \in calls : q.server = s /\ q.live}}
    /\ UNCHANGED <<clerkVars, log, pending, term, failures>>

-----------------------------------------------------------------------------
(***************************************************************************)
(* Raft, as the service uses it.                                           *)
(***************************************************************************)

Decide(p) ==
    /\ log' = Append(log, p.op)
    /\ pending' = pending \ {p}
    /\ UNCHANGED <<clerkVars, calls, term, leaders, ctrlVars, bounds>>

Elect(s) ==
    /\ s \notin leaders
    /\ LastTerm < MaxTerm
    /\ term' = [term EXCEPT ![s] = LastTerm + 1]
    /\ leaders' = leaders \cup {s}
    /\ UNCHANGED <<clerkVars, calls, log, pending, ctrlVars, bounds>>

Depose(s) ==
    /\ s \in leaders /\ term[s] < LastTerm
    /\ term' = [term EXCEPT ![s] = LastTerm]
    /\ leaders' = leaders \ {s}
    /\ pending' \in {pending, {p \in pending : p.server # s}}
    /\ UNCHANGED <<clerkVars, calls, log, ctrlVars, bounds>>

Next ==
    \/ \E c \in Client, args \in Args : Begin(c, args)
    \/ \E r \in calls : Handle(r) \/ Resume(r) \/ Fail(r)
    \/ \E s \in Server : BroadcastAllPeoridly(s) \/ Apply(s) \/ Restart(s) \/ Elect(s) \/ Depose(s)
    \/ \E p \in pending : Decide(p)

Spec == Init /\ [][Next]_vars

-----------------------------------------------------------------------------
(***************************************************************************)
(* Properties.                                                             *)
(***************************************************************************)

\* Every server's configurations are those of the decided requests, each executed
\* once, where it was decided first: retries, duplicates in the log and replays
\* after a restart add no configuration, and the servers agree on them.
OneConfigPerChange ==
    \A s \in Server :
        LET first == {n \in 1..CommitedId[s] : \A m \in 1..(n - 1) : log[m] # log[n]}
        IN  configs[s] = FoldLeft(LAMBDA cs, n : IF n \in first THEN Execute(cs, log[n].args) ELSE cs,
                                  <<NoConfig>>, [n \in 1..CommitedId[s] |-> n])

\* The answer to a Query is at least as new as every change and answer completed
\* before it began, except when the server takes the Query for a repeated one and
\* leaves the reply's Config empty.
FreshUnlessRepeated == \A c \in Client : answer[c].repeated \/ answer[c].num >= answer[c].floor
=============================================================================
