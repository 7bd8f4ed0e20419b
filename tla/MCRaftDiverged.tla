--------------------------- MODULE MCRaftDiverged ---------------------------
(***************************************************************************)
(* Three peers whose logs have diverged: s1 led term 1 and appended an     *)
(* entry; s2, which had not seen it, led term 2 with the vote of s3 and    *)
(* appended another that nobody received; s1 leads term 3 with the vote of *)
(* s3, has brought its old entry to s3, and has just appended a new one.   *)
(* s2 has heard of term 3.  The state is reachable from Init; from it the  *)
(* interesting cases (conflicting entries, an entry of an old term on a    *)
(* majority, a leader of a fourth term that overwrites it) are a few steps *)
(* away.                                                                   *)
(***************************************************************************)
EXTENDS Raft

CONSTANTS s1, s2, s3, c1

Diverged ==
    LET entry(t, n) == [Term |-> t, Index |-> n, Command |-> c1]
        match(i) == [j \in Server |-> IF j = i THEN 1 ELSE 0]
        next(i) == [j \in Server |-> IF i # s1 /\ j # i THEN 1 ELSE 2]
        zero == [j \in Server |-> 0]
        By(a, b, c) == [i \in Server |-> IF i = s1 THEN a ELSE IF i = s2 THEN b ELSE c]
    IN
    /\ CurrentTerm = By(3, 3, 3)
    /\ VotedFor = By(s1, None, s1)
    /\ LeaderTerm = By(2, 3, 3)
    /\ State = By("Leader", "Follower", "Follower")
    /\ Logs = By(<<entry(1, 1), entry(3, 2)>>, <<entry(2, 1)>>, <<entry(1, 1)>>)
    /\ CommitIndex = zero
    /\ LastNewEntryIndex = By(0, 0, 1)
    /\ SnapshotLastIncludedIndex = zero
    /\ SnapshotLastIncludedTerm = zero
    /\ votes = {<<s1, 1, s1>>, <<s1, 1, s3>>, <<s2, 2, s2>>, <<s2, 2, s3>>,
                <<s1, 3, s1>>, <<s1, 3, s3>>}
    /\ leadTerm = By(3, 2, -1)
    /\ NextIndex = By([next(s1) EXCEPT ![s1] = 3], next(s2), zero)
    /\ MatchIndex = By([match(s1) EXCEPT ![s1] = 2, ![s3] = 1], match(s2), zero)
    /\ LastApplied = zero
    /\ snapshotMsg = [i \in Server |-> NoSnapshotMsg]
    /\ applyMsgs = [i \in Server |-> <<>>]
    /\ applyTo = zero
    /\ applying = [i \in Server |-> FALSE]
    /\ app = [i \in Server |-> <<>>]
    /\ raftstate = [i \in Server |-> Durable(i)]
    /\ snapshot = [i \in Server |-> <<>>]
    /\ rvCalls = {} /\ aeCalls = {} /\ isCalls = {}
    /\ rvReturns = {} /\ aeReturns = {} /\ isReturns = {}
    /\ restarts = 0

DivergedSpec == Diverged /\ [][Next]_vars
=============================================================================
