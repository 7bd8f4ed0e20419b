---------------------------- MODULE MCRaftLagging ----------------------------
(***************************************************************************)
(* Three peers in term 1.  Leader s1 has committed, applied and            *)
(* snapshotted entry 1, which all three hold, but the reply of s3 was      *)
(* lost: s1 still has NextIndex 1 for it and will send it the snapshot.    *)
(* From this reachable state the snapshot races the commands that s3       *)
(* receives through AppendEntries.                                         *)
(***************************************************************************)
EXTENDS Raft

CONSTANTS s1, s2, s3, c1

Lagging ==
    LET entry == [Term |-> 1, Index |-> 1, Command |-> c1]
        zero == [j \in Server |-> 0]
        OnlyS1(a, b) == [i \in Server |-> IF i = s1 THEN a ELSE b]
    IN
    /\ CurrentTerm = [i \in Server |-> 1]
    /\ VotedFor = [i \in Server |-> s1]
    /\ LeaderTerm = OnlyS1(-1, 1)
    /\ State = OnlyS1("Leader", "Follower")
    /\ Logs = OnlyS1(<<>>, <<entry>>)
    /\ CommitIndex = OnlyS1(1, 0)
    /\ LastNewEntryIndex = OnlyS1(0, 1)
    /\ SnapshotLastIncludedIndex = OnlyS1(1, 0)
    /\ SnapshotLastIncludedTerm = OnlyS1(1, 0)
    /\ votes = {<<s1, 1, s1>>, <<s1, 1, s2>>}
    /\ leadTerm = OnlyS1(1, -1)
    /\ NextIndex = OnlyS1([j \in Server |-> IF j = s3 THEN 1 ELSE 2], zero)
    /\ MatchIndex = OnlyS1([j \in Server |-> IF j = s3 THEN 0 ELSE 1], zero)
    /\ LastApplied = OnlyS1(1, 0)
    /\ snapshotMsg = [i \in Server |-> NoSnapshotMsg]
    /\ applyMsgs = [i \in Server |-> <<>>]
    /\ applyTo = zero
    /\ applying = [i \in Server |-> FALSE]
    /\ app = OnlyS1(<<entry>>, <<>>)
    /\ raftstate = [i \in Server |-> Durable(i)]
    /\ snapshot = OnlyS1(<<entry>>, <<>>)
    /\ rvCalls = {} /\ aeCalls = {} /\ isCalls = {}
    /\ rvReturns = {} /\ aeReturns = {} /\ isReturns = {}
    /\ restarts = 0

\* The peer that restarts is the leader or the lagging one: s2 plays the part
\* s3 plays once it has caught up.  A restart forgets LeaderTerm.
LeaderOrLagging == restarts' # restarts => LeaderTerm'[s2] = LeaderTerm[s2]

LaggingSpec == Lagging /\ [][Next]_vars
=============================================================================
