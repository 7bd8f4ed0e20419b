------------------------------ MODULE MCHarness ------------------------------
(***************************************************************************)
(* Harness for TLC.  End names are made of the two servers and the process *)
(* they are for.  Behaviours begin where make_config ends: every server    *)
(* has been started, in order, and connected.                              *)
(***************************************************************************)
EXTENDS Harness

Ends == ServerName \X ServerName \X (1..MaxStarts)

Made ==
    LET n == Cardinality(ServerName) IN
    /\ reliable \in BOOLEAN /\ longReordering = FALSE
    /\ enabled = {e \in End : e[3] = e[1]}
    /\ connections = [e \in End |-> IF e[3] = e[1] THEN e[2] ELSE 0]
    /\ servers = [i \in ServerName |-> i]
    /\ serving = TRUE /\ done = FALSE
    /\ call = [c \in Calls |-> NoCall]
    /\ procs = [i \in 1..n |-> [server |-> i, ends |-> i, persister |-> i, state |-> Empty]]
    /\ persisters = [i \in 1..n |-> Empty]
    /\ saved = [i \in ServerName |-> i]
    /\ endnames = [i \in ServerName |-> i]
    /\ connected = ServerName
    /\ crash = NoCrash
    /\ late = {}

\* The network is set up before the first call, and one server is made to suffer.
OneVictim ==
    /\ crash'.server # 2 /\ 2 \in connected'
    /\ <<reliable, longReordering>>' # <<reliable, longReordering>> => \A c \in Calls : call[c].stage = "unused"

MadeSpec == Made /\ [][Next]_vars /\ Fairness
=============================================================================
