------------------------------- MODULE LabRPC -------------------------------
(***************************************************************************)
(* The simulated network of labrpc.go: what becomes of a Call on a         *)
(* ClientEnd while ends are enabled and disabled, servers are added and    *)
(* deleted, and the network drops, delays and reorders.                    *)
(*                                                                         *)
(* A Server of the network is known by the number of the process behind    *)
(* it; a deleted one may run on.  What its handlers do, and who adds and   *)
(* deletes servers, is left to the module that uses the network.  Lengths  *)
(* of delays are left out: a delay ends at any later time.                 *)
(***************************************************************************)
EXTENDS Integers, FiniteSets

CONSTANTS
    ServerName,
    End,      \* end names
    Calls     \* bound: the calls made on all ends

VARIABLES
    reliable, longReordering,
    enabled,          \* the ends that are enabled
    connections,      \* the server name each end is connected to, or 0
    servers,          \* the process added under each server name, or 0
    serving,          \* the goroutine of MakeNetwork runs
    done,             \* Cleanup has closed the channel `done'
    call              \* where each call is

netVars == <<reliable, longReordering, enabled, connections, servers, serving, done, call>>

\* handler: what dispatch has come to.  server, name, unreliable, reorder: what
\* readEndnameInfo found.  replyOK: the handler's answer has been received.
NoCall == [stage |-> "unused", end |-> <<>>, handler |-> "none", name |-> 0, server |-> 0,
           unreliable |-> FALSE, reorder |-> FALSE, replyOK |-> FALSE, ok |-> FALSE]

MakeNetwork ==
    /\ reliable = TRUE /\ longReordering = FALSE
    /\ enabled = {} /\ connections = [e \in End |-> 0]
    /\ servers = [n \in ServerName |-> 0]
    /\ serving = TRUE /\ done = FALSE
    /\ call = [c \in Calls |-> NoCall]

Becomes(c, r) == call' = [call EXCEPT ![c] = r]
Returns(c, ok) == Becomes(c, [call[c] EXCEPT !.stage = "returned", !.ok = ok])

-----------------------------------------------------------------------------
(***************************************************************************)
(* The life of a call: Call, the goroutine of MakeNetwork, processReq.     *)
(***************************************************************************)

\* Calls are made in the order of their numbers.
Call(c, e) ==
    /\ call[c].stage = "unused" /\ \A b \in Calls : b < c => call[b].stage # "unused"
    /\ Becomes(c, [NoCall EXCEPT !.stage = "calling", !.end = e])

\* The select of Call: the goroutine of MakeNetwork takes the request, or, after
\* Cleanup, the call fails.
CallWithoutDone(c) ==
    /\ call[c].stage = "calling" /\ serving
    /\ Becomes(c, [call[c] EXCEPT !.stage = "accepted"])
Sent(c) ==
    /\ call[c].stage = "calling"
    /\ \/ serving /\ Becomes(c, [call[c] EXCEPT !.stage = "accepted"])
       \/ done /\ Returns(c, FALSE)

\* processReq reads where the end leads, once: an end that leads nowhere fails the
\* call after a while.
readEndnameInfo(c) ==
    LET e == call[c].end
        n == connections[e]
    IN
    /\ call[c].stage = "accepted"
    /\ Becomes(c, IF e \in enabled /\ n # 0 /\ servers[n] # 0
                  THEN [call[c] EXCEPT !.stage = "bound", !.name = n, !.server = servers[n],
                                       !.unreliable = ~reliable, !.reorder = longReordering]
                  ELSE [call[c] EXCEPT !.stage = "nowhere"])

NoReply(c) == call[c].stage = "nowhere" /\ Returns(c, FALSE)

\* The request is dropped, or its handler is started in a goroutine of its own.
Dispatch(c) ==
    /\ call[c].stage = "bound"
    /\ \/ Becomes(c, [call[c] EXCEPT !.stage = "waiting", !.handler = "running"])
       \/ call[c].unreliable /\ Returns(c, FALSE)

\* Also true of a server that lives, when the end has been disabled.
isServerDead(c) == call[c].end \notin enabled \/ servers[call[c].name] # call[c].server

\* The loop of processReq ends with the handler's answer, or when it finds the server dead.
Await(c) ==
    /\ call[c].stage = "waiting"
    /\ \/ call[c].handler = "done" /\ Becomes(c, [call[c] EXCEPT !.stage = "ended", !.replyOK = TRUE])
       \/ isServerDead(c) /\ Becomes(c, [call[c] EXCEPT !.stage = "ended"])

\* The second look at the server, and the reply: an error, the answer at once, or the
\* answer later.
SettleUnchecked(c) ==
    /\ call[c].stage = "ended"
    /\ \/ (~call[c].replyOK \/ call[c].unreliable) /\ Returns(c, FALSE)
       \/ /\ call[c].replyOK
          /\ \/ call[c].reorder /\ Becomes(c, [call[c] EXCEPT !.stage = "delayed"])
             \/ Returns(c, TRUE)
Settle(c) ==
    LET failed == ~call[c].replyOK \/ isServerDead(c) IN
    /\ call[c].stage = "ended"
    /\ \/ (failed \/ call[c].unreliable) /\ Returns(c, FALSE)
       \/ /\ ~failed
          /\ \/ call[c].reorder /\ Becomes(c, [call[c] EXCEPT !.stage = "delayed"])
             \/ Returns(c, TRUE)

Delayed(c) == call[c].stage = "delayed" /\ Returns(c, TRUE)

\* A step of the network on behalf of call c.
processReq(c) ==
    /\ \/ Sent(c) \/ readEndnameInfo(c) \/ NoReply(c) \/ Dispatch(c)
       \/ Await(c) \/ Settle(c) \/ Delayed(c)
    /\ UNCHANGED <<reliable, longReordering, enabled, connections, servers, serving, done>>

-----------------------------------------------------------------------------
(***************************************************************************)
(* The operations on a Network.                                            *)
(***************************************************************************)

Reliable(yes) ==
    reliable' = yes
    /\ UNCHANGED <<longReordering, enabled, connections, servers, serving, done, call>>
LongReordering(yes) ==
    longReordering' = yes
    /\ UNCHANGED <<reliable, enabled, connections, servers, serving, done, call>>
Cleanup ==
    done' = TRUE
    /\ UNCHANGED <<reliable, longReordering, enabled, connections, servers, serving, call>>
StopServing ==
    done /\ serving' = FALSE
    /\ UNCHANGED <<reliable, longReordering, enabled, connections, servers, done, call>>
Enable(ends, on) ==
    enabled' = IF on THEN enabled \cup ends ELSE enabled \ ends
AddServer(n, p) == servers' = [servers EXCEPT ![n] = p]
DeleteServer(n) == servers' = [servers EXCEPT ![n] = 0]
\* MakeEnd and Connect, for the ends of `to': an end is made disabled.
Connect(to) ==
    /\ connections' = [e \in End |-> IF e \in DOMAIN to THEN to[e] ELSE connections[e]]
    /\ enabled' = enabled \ DOMAIN to
=============================================================================
