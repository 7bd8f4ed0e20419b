---------------------------- MODULE ReplicatedLog ----------------------------
(***************************************************************************)
(* What Raft promises the services built on it (kvraft, shardctrler,       *)
(* shardkv): one log, decided one entry at a time and never changed, of    *)
(* which every service has applied a prefix.  A service advances by one    *)
(* command, or by a snapshot that covers several.                          *)
(***************************************************************************)
EXTENDS Naturals, Sequences

CONSTANTS Server, Command

VARIABLES
    log,   \* what has been decided
    app    \* what each service has applied

Init == log = <<>> /\ app = [i \in Server |-> <<>>]

\* The entry after the log's last one is decided.
Decide == /\ log' # <<>>
          /\ log' = Append(log, log'[Len(log')])
          /\ log'[Len(log')] \in Command

\* The service of i advances to a longer prefix of the log; the entry it applies
\* may be decided in the same step.
Advance(i) ==
    /\ Decide \/ UNCHANGED log
    /\ \E n \in (Len(app[i]) + 1)..(Len(log) + 1) :
          n <= Len(log') /\ app' = [app EXCEPT ![i] = SubSeq(log', 1, n)]

Next == \E i \in Server : Advance(i)

Spec == Init /\ [][Next]_<<log, app>>
=============================================================================
