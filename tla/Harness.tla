------------------------------- MODULE Harness -------------------------------
(***************************************************************************)
(* How servers are crashed and restarted (raft/config.go) on the network   *)
(* of labrpc.go, with state in a Persister (raft/persister.go).            *)
(*                                                                         *)
(* A process cannot really be killed: after crash1 its handlers run on,    *)
(* write to its Persister and send on its ends.  What keeps it from doing  *)
(* harm is the order of the steps of crash1, the fresh Persister and end   *)
(* names, and the checks of the network.  A handler stands for any that    *)
(* records its call in the state of its process and persists before it     *)
(* answers; the tester is one goroutine.                                   *)
(***************************************************************************)
EXTENDS LabRPC, Sequences

CONSTANT MaxStarts    \* bound: processes started

ASSUME HarnessAssumption == /\ ServerName \subseteq Nat \ {0} /\ Calls \subseteq Nat /\ MaxStarts \in Nat
                            /\ ServerName \X ServerName \X (1..MaxStarts) \subseteq End

VARIABLES
    procs,       \* the processes started: server, end names, Persister and state in memory
    persisters,  \* the Persisters made
    saved,       \* the Persister of each server, or 0
    endnames,    \* the end names of each server, by the process they were made for, or 0
    connected,
    crash,       \* how far crash1 is: its server, or 0, its next step, what it has read
    late         \* history: the calls that a process made after its server had crashed

configVars == <<procs, persisters, saved, endnames, connected, crash>>
vars == <<netVars, configVars, late>>

\* The log, the entries (calls) it has been trimmed of, and the snapshot of those.
Empty == [log |-> {}, base |-> {}, snapshot |-> {}]
NoCrash == [server |-> 0, step |-> "", raftlog |-> Empty]

Copy(ps) == [log |-> ps.log, base |-> ps.base, snapshot |-> ps.snapshot]
SaveRaftState(ps, state) == [ps EXCEPT !.log = state.log, !.base = state.base]
SaveStateAndSnapshot(ps, state, snapshot) ==
    [log |-> state.log, base |-> state.base, snapshot |-> snapshot]

Outgoing(i, j) == <<i, j, endnames[i]>>
Around(i, others) == {Outgoing(i, j) : j \in others} \cup {Outgoing(j, i) : j \in others}

Running(p) == servers[procs[p].server] = p /\ crash.server # procs[p].server

Init ==
    /\ MakeNetwork
    /\ procs = <<>> /\ persisters = <<>>
    /\ saved = [i \in ServerName |-> 0]
    /\ endnames = [i \in ServerName |-> 0]
    /\ connected = {}
    /\ crash = NoCrash
    /\ late = {}

-----------------------------------------------------------------------------
(***************************************************************************)
(* The tester.  It stops with cleanup.                                     *)
(***************************************************************************)

Ready == crash = NoCrash /\ ~done

connect(i) ==
    /\ Ready /\ servers[i] # 0
    /\ connected' = connected \cup {i}
    /\ Enable(Around(i, connected'), TRUE)
    /\ UNCHANGED <<reliable, longReordering, connections, servers, serving, done, call,
                   procs, persisters, saved, endnames, crash, late>>

disconnect(i) ==
    /\ connected' = connected \ {i}
    /\ Enable(Around(i, {j \in ServerName : endnames[j] # 0}), FALSE)
    /\ UNCHANGED <<reliable, longReordering, connections, servers, serving, done, call,
                   procs, persisters, saved, endnames, late>>

Detach(i) == Ready /\ i \in connected /\ disconnect(i) /\ UNCHANGED crash

\* crash1: disconnect, then DeleteServer, then a copy of the Persister for good.
crashBegins(i) ==
    /\ Ready /\ servers[i] # 0
    /\ crash' = [NoCrash EXCEPT !.server = i, !.step = "delete"]
    /\ disconnect(i)

crashDeletes ==
    /\ crash.step = "delete"
    /\ DeleteServer(crash.server)
    /\ crash' = [crash EXCEPT !.step = "copy"]
    /\ UNCHANGED <<reliable, longReordering, enabled, connections, serving, done, call,
                   procs, persisters, saved, endnames, connected, late>>

\* The Persister is superseded by a copy.
supersedeNot(i) == UNCHANGED <<persisters, saved>>
supersede(i) ==
    /\ persisters' = Append(persisters, Copy(persisters[saved[i]]))
    /\ saved' = [saved EXCEPT ![i] = Len(persisters) + 1]

crashCopies ==
    /\ crash.step = "copy"
    /\ supersede(crash.server)
    /\ crash' = [crash EXCEPT !.step = "raftstate"]
    /\ UNCHANGED <<netVars, procs, endnames, connected, late>>

\* ReadRaftState and ReadSnapshot lock the Persister one after the other.
crashReads ==
    /\ crash.step = "raftstate"
    /\ crash' = [crash EXCEPT !.step = "snapshot", !.raftlog = persisters[saved[crash.server]]]
    /\ UNCHANGED <<netVars, procs, persisters, saved, endnames, connected, late>>

crashSaves ==
    LET snapshot == persisters[saved[crash.server]].snapshot IN
    /\ crash.step = "snapshot"
    /\ persisters' = Append(persisters, SaveStateAndSnapshot(Empty, crash.raftlog, snapshot))
    /\ saved' = [saved EXCEPT ![crash.server] = Len(persisters) + 1]
    /\ crash' = NoCrash
    /\ UNCHANGED <<netVars, procs, endnames, connected, late>>

\* start1 of a server that is down: fresh end names, a Persister of its own with what
\* the last one holds, and Make, which reads it.
freshEndsNot(i, p) == IF endnames[i] = 0 THEN p ELSE endnames[i]
freshEnds(i, p) == p

start1(i) ==
    LET p == Len(procs) + 1
        g == freshEnds(i, p)
        ps == IF saved[i] = 0 THEN Empty ELSE Copy(persisters[saved[i]])
    IN
    /\ Ready /\ servers[i] = 0 /\ Len(procs) < MaxStarts
    /\ endnames' = [endnames EXCEPT ![i] = g]
    /\ Connect([e \in {<<i, j, g>> : j \in ServerName} |-> e[2]])
    /\ persisters' = Append(persisters, ps)
    /\ saved' = [saved EXCEPT ![i] = Len(persisters) + 1]
    /\ procs' = Append(procs, [server |-> i, ends |-> g, persister |-> Len(persisters) + 1,
                               state |-> ps])
    /\ AddServer(i, p)
    /\ UNCHANGED <<reliable, longReordering, serving, done, call, connected, crash, late>>

-----------------------------------------------------------------------------
(***************************************************************************)
(* The processes, crashed ones included.                                   *)
(***************************************************************************)

Request(c, p, j) ==
    /\ Call(c, <<procs[p].server, j, procs[p].ends>>)
    /\ late' = IF Running(p) THEN late ELSE late \cup {c}
    /\ UNCHANGED <<reliable, longReordering, enabled, connections, servers, serving, done, configVars>>

\* A handler, and dispatch: it records the call and persists, with a snapshot or
\* without, and its answer goes to the network.
Handle(c) ==
    LET p == call[c].server
        s == procs[p].state
        all == s.base \cup s.log \cup {c}
        Saves(state, ps) ==
            /\ procs' = [procs EXCEPT ![p].state = state]
            /\ persisters' = [persisters EXCEPT ![procs[p].persister] = ps]
        longer == [s EXCEPT !.log = @ \cup {c}]
        trimmed == [log |-> {}, base |-> all, snapshot |-> all]
        ps == persisters[procs[p].persister]
    IN
    /\ call[c].handler = "running"
    /\ \/ Saves(longer, SaveRaftState(ps, longer))
       \/ Saves(trimmed, SaveStateAndSnapshot(ps, trimmed, all))
    /\ Becomes(c, [call[c] EXCEPT !.handler = "done"])
    /\ UNCHANGED <<reliable, longReordering, enabled, connections, servers, serving, done,
                   saved, endnames, connected, crash, late>>

Next ==
    \/ \E i \in ServerName : connect(i) \/ Detach(i) \/ crashBegins(i) \/ start1(i)
    \/ crashDeletes \/ crashCopies \/ crashReads \/ crashSaves
    \/ /\ \/ Ready /\ \E yes \in BOOLEAN : Reliable(yes) \/ LongReordering(yes)
          \/ Ready /\ Cleanup
          \/ StopServing
          \/ \E c \in Calls : processReq(c)
       /\ UNCHANGED <<configVars, late>>
    \/ \E c \in Calls : \/ Handle(c)
                        \/ \E p \in DOMAIN procs : \E j \in ServerName \ {procs[p].server} : Request(c, p, j)

Spec == Init /\ [][Next]_vars

\* The goroutines of the network run on; a handler need not return.
Fairness == \A c \in Calls : WF_vars(processReq(c) /\ UNCHANGED <<configVars, late>>)
FairSpec == Spec /\ Fairness

-----------------------------------------------------------------------------
(***************************************************************************)
(* Properties.                                                             *)
(***************************************************************************)

\* A call that has returned true has its effect in the Persister the server runs on or
\* will be restarted from: the second isServerDead of processReq, and the order of
\* crash1 (DeleteServer before the Persister is superseded).
PositiveIsDurable ==
    \A c \in Calls : call[c].stage = "returned" /\ call[c].ok =>
        LET ps == persisters[saved[call[c].name]] IN c \in ps.log \cup ps.base

\* The log and the snapshot a server is restarted from go together, however crash1
\* and the last writes of the crashed process interleave.
SavedInSync ==
    \A i \in ServerName : saved[i] # 0 => persisters[saved[i]].snapshot = persisters[saved[i]].base

\* A call made by a process after its server has crashed never gets to a handler,
\* also when the server has been restarted and connected since.
CrashedCannotSend == \A c \in late : call[c].handler = "none"

\* A call returns, unless its handler hangs in a server that stays: also when the
\* server is deleted while it waits, and when the network is cleaned up before it is sent.
Hangs(c) == call[c].stage = "waiting" /\ call[c].handler = "running" /\ servers[call[c].name] = call[c].server
CallsReturn ==
    \A c \in Calls : (call[c].stage \notin {"unused", "returned"} /\ ~Hangs(c))
                         ~> (call[c].stage = "returned" \/ Hangs(c))
=============================================================================
