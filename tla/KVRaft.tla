------------------------------- MODULE KVRaft -------------------------------
(***************************************************************************)
(* The replicated key/value service of kvraft: Clerks (client.go) and      *)
(* KVServers (server.go), over an RPC layer that may fail a call at any    *)
(* point of it and over a Raft group.  Raft is external here: it keeps     *)
(* what module ReplicatedLog states (one decided log, applied in order)    *)
(* and nothing about which proposals get decided.                          *)
(*                                                                         *)
(* A value is the sequence of the writes it is made of, each the tag       *)
(* <<client, reqNo>>: Put starts a value afresh, Append extends it.        *)
(***************************************************************************)
EXTENDS Integers, Sequences, FiniteSets

CONSTANTS
    NServers,      \* servers are 0 .. NServers-1, as in the Clerk's servers[]
    Client, Key,
    Kinds,         \* the operations Clerks issue: a subset of {"Get", "Put", "Append"}
    MaxReq,        \* bound: requests per Clerk
    MaxFailures,   \* bound: calls the network fails
    MaxTerm,       \* bound: leader changes
    MaxSnapshots,  \* bound: snapshots taken
    MaxRestarts    \* bound: crashes and restarts

ASSUME BoundAssumption == /\ NServers \in Nat \ {0}
                          /\ Kinds \subseteq {"Get", "Put", "Append"}
                          /\ {MaxReq, MaxFailures, MaxTerm, MaxSnapshots, MaxRestarts} \subseteq Nat

Server == 0..(NServers - 1)

VARIABLES
    reqNo, recentLeader,  \* the Clerk's fields
    request,              \* what the Clerk is calling for, or Idle
    probe,                \* the server its loop has come to; -1: the call to recentLeader
    calls,                \* calls and their handlers; see Call
    log, pending,         \* Raft: the decided Ops, and those started and not yet decided
    term, leaders,        \* Raft: what GetState returns at each server
    KVMap, CompletedPool, CommitedId,
    saved,                \* the snapshot in each server's persister
    failures, snapshots, restarts,
    frontier,             \* history: the last log position a completed request depends on
    floor,                \* history: the frontier when the Clerk's request began
    results               \* history: floor of the Clerk's last request, and position it is due to

clerkVars == <<reqNo, recentLeader, request, probe, frontier, floor, results>>
raftVars  == <<log, pending, term, leaders>>
kvVars    == <<KVMap, CompletedPool, CommitedId>>
bounds    == <<failures, snapshots, restarts>>
vars == <<clerkVars, calls, raftVars, kvVars, saved, bounds>>

-----------------------------------------------------------------------------
Op == [kind : Kinds, key : Key, client : Client, no : 1..MaxReq]
Idle == [kind |-> "none"]

Empty == [map |-> [k \in Key |-> <<>>], completed |-> [c \in Client |-> 0], index |-> 0]

LastTerm == CHOOSE t \in {term[s] : s \in Server} : \A s \in Server : term[s] <= t

(***************************************************************************)
(* A call is under way from the Clerk's Call to the handler's return.      *)
(* `live` holds while the Clerk waits for it.  Its stage is "sent" before  *)
(* the handler starts; then the handler sleeps on the client's entry of    *)
(* CompletedCondPool ("current") or on a Cond that a later handler has     *)
(* replaced there ("stale": nobody will wake it), or has been woken        *)
(* ("woken"); it is "dead" when its server is gone.                        *)
(***************************************************************************)
CallType == [op : Op, try : Nat, server : Server, live : BOOLEAN, term : Nat,
             stage : {"sent", "current", "stale", "woken", "dead"}]

\* The Clerk's Call(op) to server s; `try` tells apart calls that are under way.
Call(op, s) ==
    [op |-> op, server |-> s, live |-> TRUE, term |-> 0, stage |-> "sent",
     try |-> CHOOSE n \in 1..(Cardinality(calls) + 1) : \A r \in calls : r.try # n]

Init ==
    /\ reqNo = [c \in Client |-> 0]
    /\ recentLeader = [c \in Client |-> 0]
    /\ request = [c \in Client |-> Idle]
    /\ probe = [c \in Client |-> -1]
    /\ calls = {}
    /\ log = <<>> /\ pending = {}
    /\ term = [s \in Server |-> 0] /\ leaders = {}
    /\ KVMap = [s \in Server |-> Empty.map]
    /\ CompletedPool = [s \in Server |-> Empty.completed]
    /\ CommitedId = [s \in Server |-> 0]
    /\ saved = [s \in Server |-> Empty]
    /\ failures = 0 /\ snapshots = 0 /\ restarts = 0
    /\ frontier = 0
    /\ floor = [c \in Client |-> 0]
    /\ results = [c \in Client |-> [floor |-> 0, at |-> 0]]

-----------------------------------------------------------------------------
(***************************************************************************)
(* Clerks.                                                                 *)
(***************************************************************************)

\* Get, Put and Append up to the first Call.
Begin(c, kind, k) ==
    LET op == [kind |-> kind, key |-> k, client |-> c, no |-> reqNo[c] + 1] IN
    /\ request[c] = Idle
    /\ reqNo[c] < MaxReq
    /\ reqNo' = [reqNo EXCEPT ![c] = @ + 1]
    /\ request' = [request EXCEPT ![c] = op]
    /\ floor' = [floor EXCEPT ![c] = frontier]
    /\ calls' = calls \cup {Call(op, recentLeader[c])}
    /\ UNCHANGED <<recentLeader, probe, frontier, results, raftVars, kvVars, saved, bounds>>

\* The server the Clerk's loops try after the one at p.
NextProbeRunsOn(p) == p + 1
NextProbe(p) == IF p = NServers - 1 THEN -1 ELSE p + 1

\* The position of op in the decided log (its first, if it was decided twice).
Position(op) == IF \E n \in DOMAIN log : log[n] = op
                THEN CHOOSE n \in DOMAIN log : log[n] = op /\ \A m \in 1..(n - 1) : log[m] # op
                ELSE -1

\* Call r returns ok to its Clerk, if that still waits for it; `rest` are the
\* other calls.
Return(r, ok, rest) ==
    LET c == r.op.client
        next == NextProbe(probe[c])
        at == IF r.op.kind = "Get" THEN CommitedId[r.server] ELSE Position(r.op)
    IN
    \/ /\ ~r.live
       /\ calls' = rest
       /\ UNCHANGED clerkVars
    \/ /\ r.live /\ ok
       /\ calls' = rest
       /\ request' = [request EXCEPT ![c] = Idle]
       /\ probe' = [probe EXCEPT ![c] = -1]
       /\ recentLeader' = [recentLeader EXCEPT ![c] = r.server]
       /\ results' = [results EXCEPT ![c] = [floor |-> floor[c], at |-> at]]
       /\ frontier' = IF at > frontier THEN at ELSE frontier
       /\ UNCHANGED <<reqNo, floor>>
    \/ /\ r.live /\ ~ok
       /\ probe' = [probe EXCEPT ![c] = next]
       /\ calls' = rest \cup {Call(r.op, IF next = -1 THEN recentLeader[c] ELSE next)}
       /\ UNCHANGED <<reqNo, recentLeader, request, frontier, floor, results>>

\* A handler returns; its reply may be lost, and then Call returns false.
Reply(r, success) ==
    \/ /\ Return(r, success, calls \ {r})
       /\ UNCHANGED bounds
    \/ /\ success /\ r.live /\ failures < MaxFailures
       /\ failures' = failures + 1
       /\ Return(r, FALSE, calls \ {r})
       /\ UNCHANGED <<snapshots, restarts>>

\* The network fails a call whose handler has not returned: the request is lost,
\* or is still executed (or already waiting) with nobody there for the reply.
Fail(r) ==
    /\ r.live
    /\ \/ /\ r.stage = "dead"
          /\ Return(r, FALSE, calls \ {r})
          /\ UNCHANGED failures
       \/ /\ r.stage # "dead" /\ failures < MaxFailures
          /\ failures' = failures + 1
          /\ \/ r.stage = "sent" /\ Return(r, FALSE, calls \ {r})
             \/ Return(r, FALSE, (calls \ {r}) \cup {[r EXCEPT !.live = FALSE]})
    /\ UNCHANGED <<raftVars, kvVars, saved, snapshots, restarts>>

-----------------------------------------------------------------------------
(***************************************************************************)
(* KVServer.  Get and PutAppend differ in the Op they start and in the     *)
(* value they read at the end.                                             *)
(***************************************************************************)

\* The request is one the server has already applied.
CompletedOrGet(s, op) == op.kind = "Get" \/ op.no <= CompletedPool[s][op.client]
Completed(s, op) == op.no <= CompletedPool[s][op.client]

\* Get or PutAppend from its start to its reply or to its first Wait.
Handle(r) ==
    LET s == r.server IN
    /\ r.stage = "sent"
    /\ UNCHANGED <<log, term, leaders, kvVars, saved>>
    /\ \/ /\ s \notin leaders
          /\ Reply(r, FALSE)
          /\ UNCHANGED pending
       \/ /\ s \in leaders /\ Completed(s, r.op)
          /\ Reply(r, TRUE)
          /\ UNCHANGED pending
       \/ /\ s \in leaders /\ ~Completed(s, r.op)
          /\ pending' = pending \cup {[op |-> r.op, try |-> r.try, server |-> s, term |-> term[s]]}
          /\ calls' = {IF q = r THEN [r EXCEPT !.stage = "current", !.term = term[s]]
                       ELSE IF q.server = s /\ q.op.client = r.op.client /\ q.stage = "current"
                            THEN [q EXCEPT !.stage = "stale"] ELSE q : q \in calls}
          /\ UNCHANGED <<clerkVars, bounds>>

\* The calls after a Broadcast on the Conds of server s for the clients cs.
Woken(s, cs) ==
    {IF q.server = s /\ q.op.client \in cs /\ q.stage = "current"
     THEN [q EXCEPT !.stage = "woken"] ELSE q : q \in calls}

BroadcastNever(s) == FALSE /\ UNCHANGED vars
BroadcastAllPeoridly(s) ==
    /\ \E r \in calls : r.server = s /\ r.stage = "current"
    /\ calls' = Woken(s, Client)
    /\ UNCHANGED <<clerkVars, raftVars, kvVars, saved, bounds>>

\* The handler's loop after Wait returned.
Resume(r) ==
    LET s == r.server
        led == s \in leaders /\ term[s] = r.term
        completed == CompletedPool[s][r.op.client] = r.op.no
    IN
    /\ r.stage = "woken"
    /\ UNCHANGED <<raftVars, kvVars, saved>>
    /\ \/ ~led /\ Reply(r, FALSE)
       \/ led /\ completed /\ Reply(r, TRUE)
       \/ /\ led /\ ~completed
          /\ calls' = (calls \ {r}) \cup {[r EXCEPT !.stage = "current"]}
          /\ UNCHANGED <<clerkVars, bounds>>

\* The effect of op on a value, if the service has not seen it yet.
Effect(op, value) ==
    CASE op.kind = "Put"    -> <<<<op.client, op.no>>>>
      [] op.kind = "Append" -> Append(value, <<op.client, op.no>>)
      [] op.kind = "Get"    -> value

\* applyLog, for a command.
Apply(s) ==
    LET op == log[CommitedId[s] + 1]
        new == ~Completed(s, op)
    IN
    /\ CommitedId[s] < Len(log)
    /\ KVMap' = IF new THEN [KVMap EXCEPT ![s][op.key] = Effect(op, @)] ELSE KVMap
    /\ CompletedPool' = IF new THEN [CompletedPool EXCEPT ![s][op.client] = op.no] ELSE CompletedPool
    /\ CommitedId' = [CommitedId EXCEPT ![s] = @ + 1]
    /\ calls' = Woken(s, {op.client})
    /\ UNCHANGED <<clerkVars, raftVars, saved, bounds>>

\* Server s takes the state in snapshot d.
Load(s, d) ==
    /\ KVMap' = [KVMap EXCEPT ![s] = d.map]
    /\ CompletedPool' = [CompletedPool EXCEPT ![s] = d.completed]
    /\ CommitedId' = [CommitedId EXCEPT ![s] = d.index]

\* applyLog, for a snapshot that Raft got from server t: ReadSnapshot, which also
\* hands it to s's Raft.  One that is not ahead is ignored.
ReadSnapshot(s, t) ==
    /\ saved[t].index > CommitedId[s]
    /\ Load(s, saved[t])
    /\ saved' = [saved EXCEPT ![s] = saved[t]]
    /\ UNCHANGED <<clerkVars, calls, raftVars, bounds>>

\* What Snapshot() encodes.
EncodedWithoutPool(s) == [Empty EXCEPT !.map = KVMap[s], !.index = CommitedId[s]]
Encoded(s) == [map |-> KVMap[s], completed |-> CompletedPool[s], index |-> CommitedId[s]]

\* Snapshot(): Raft's state has grown beyond maxraftstate.
Snapshot(s) ==
    /\ snapshots < MaxSnapshots
    /\ saved[s].index < CommitedId[s]
    /\ snapshots' = snapshots + 1
    /\ saved' = [saved EXCEPT ![s] = Encoded(s)]
    /\ UNCHANGED <<clerkVars, calls, raftVars, kvVars, failures, restarts>>

\* Kill, and StartKVServer with the same persister.
Restart(s) ==
    /\ restarts < MaxRestarts
    /\ restarts' = restarts + 1
    /\ Load(s, saved[s])
    /\ leaders' = leaders \ {s}
    /\ calls' = {r \in calls : r.server # s}
                \cup {[r EXCEPT !.stage = "dead"] : r \in {q \in calls : q.server = s /\ q.live}}
    /\ UNCHANGED <<clerkVars, log, pending, term, saved, failures, snapshots>>

-----------------------------------------------------------------------------
(***************************************************************************)
(* Raft, as the service uses it.                                           *)
(***************************************************************************)

Decide(p) ==
    /\ log' = Append(log, p.op)
    /\ pending' = pending \ {p}
    /\ UNCHANGED <<clerkVars, calls, term, leaders, kvVars, saved, bounds>>

Elect(s) ==
    /\ s \notin leaders
    /\ LastTerm < MaxTerm
    /\ term' = [term EXCEPT ![s] = LastTerm + 1]
    /\ leaders' = leaders \cup {s}
    /\ UNCHANGED <<clerkVars, calls, log, pending, kvVars, saved, bounds>>

\* A deposed leader learns of it; what it started may be lost or still be decided.
Depose(s) ==
    /\ s \in leaders /\ term[s] < LastTerm
    /\ term' = [term EXCEPT ![s] = LastTerm]
    /\ leaders' = leaders \ {s}
    /\ pending' \in {pending, {p \in pending : p.server # s}}
    /\ UNCHANGED <<clerkVars, calls, log, kvVars, saved, bounds>>

Next ==
    \/ \E c \in Client, kind \in Kinds, k \in Key : Begin(c, kind, k)
    \/ \E r \in calls : Handle(r) \/ Resume(r) \/ Fail(r)
    \/ \E s \in Server : \/ BroadcastAllPeoridly(s) \/ Apply(s) \/ Snapshot(s) \/ Restart(s)
                         \/ Elect(s) \/ Depose(s)
    \/ \E s, t \in Server : ReadSnapshot(s, t)
    \/ \E p \in pending : Decide(p)

Spec == Init /\ [][Next]_vars

(***************************************************************************)
(* Fairness: goroutines are scheduled, applyLog runs, a peer group without *)
(* a leader elects one, a deposed leader hears of it, and what the last    *)
(* leader started is decided.                                              *)
(***************************************************************************)
Fairness ==
    /\ \A s \in Server : /\ WF_vars(BroadcastAllPeoridly(s))
                         /\ WF_vars(Apply(s))
                         /\ WF_vars(Depose(s))
    /\ WF_vars(leaders = {} /\ \E s \in Server : Elect(s))
    /\ WF_vars(\E p \in pending : p.term = LastTerm /\ Decide(p))
    /\ \A c \in Client :
          /\ WF_vars(\E r \in calls : r.op.client = c /\ r.live /\ Handle(r))
          /\ WF_vars(\E r \in calls : r.op.client = c /\ r.live /\ Resume(r))
          /\ WF_vars(\E r \in calls : r.op.client = c /\ r.stage = "dead" /\ Fail(r))

FairSpec == Spec /\ Fairness

-----------------------------------------------------------------------------
(***************************************************************************)
(* Properties.                                                             *)
(***************************************************************************)

\* Every variable has its type: in particular the Clerk's loop stays inside its
\* servers[].
TypeOK ==
    /\ reqNo \in [Client -> 0..MaxReq]
    /\ recentLeader \in [Client -> Server]
    /\ request \in [Client -> Op \cup {Idle}]
    /\ probe \in [Client -> Server \cup {-1}]
    /\ calls \subseteq CallType
    /\ log \in Seq(Op)
    /\ pending \subseteq [op : Op, try : Nat, server : Server, term : Nat]
    /\ term \in [Server -> Nat] /\ leaders \subseteq Server
    /\ KVMap \in [Server -> [Key -> Seq(Client \X Nat)]]
    /\ CompletedPool \in [Server -> [Client -> Nat]]
    /\ CommitedId \in [Server -> Nat]

\* Reference: the writes of key k that the first n log entries amount to, each
\* counted where it was decided first, from the last Put on.
FirstWrites(k, n) ==
    LET first == {m \in 1..n : /\ log[m].key = k /\ log[m].kind # "Get"
                               /\ \A l \in 1..(m - 1) : log[l] # log[m]}
        puts == {m \in first : log[m].kind = "Put"}
    IN  {m \in first : \A p \in puts : p <= m}

\* Every server's map holds each write of the decided log exactly once and in
\* order, however often Clerks repeated it and whatever snapshots and restarts
\* the server went through.
ExactlyOnce ==
    \A s \in Server, k \in Key :
        LET ws == FirstWrites(k, CommitedId[s]) IN
        /\ Len(KVMap[s][k]) = Cardinality(ws)
        /\ \A m \in ws : KVMap[s][k][Cardinality({l \in ws : l <= m})] = <<log[m].client, log[m].no>>

\* A completed request is due to a state at least as new as everything completed
\* before it began: writes that were acknowledged are decided, and Get never
\* answers from the past, also not from a deposed leader.
Linearizable == \A c \in Client : results[c].at >= results[c].floor

\* A Clerk's request returns in the end.
EveryRequestReturns == \A c \in Client : request[c] # Idle ~> request[c] = Idle
=============================================================================
