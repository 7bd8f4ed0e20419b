-------------------------------- MODULE Raft --------------------------------
(***************************************************************************)
(* One Raft peer group, as implemented in raft/raft.go.  Every action is   *)
(* one critical section of the code: a ticker step, an RPC handler, the    *)
(* handling of an RPC's reply, one round of a leader goroutine, one phase  *)
(* of the apply goroutine, a call from the service, or a crash and restart *)
(* of a peer.  rf.X of peer i is X[i].                                     *)
(*                                                                         *)
(* Elapsed time is not modelled: an election timeout may fire whenever the *)
(* ticker would look at it.  A snapshot's bytes are the sequence of log     *)
(* entries it covers, which is also how the service's state is represented *)
(* (app): a history of what was applied rather than its result.            *)
(***************************************************************************)
EXTENDS Integers, Sequences, FiniteSets

CONSTANTS
    Server,       \* the peers
    Command,      \* what clients submit
    None,         \* the -1 of VotedFor
    MaxTerm,      \* bound: no election starts at or above this term
    MaxElections, \* bound: elections started, over all peers and terms
    MaxIndex,     \* bound: no Start beyond this log index
    MaxRestarts,  \* bound: crashes and restarts, over all peers
    MaxInFlight,  \* bound: messages of one kind under way; the network loses the others
    SnapshotAt    \* the service snapshots when it has applied one of these indices

ASSUME ServerAssumption == IsFiniteSet(Server) /\ None \notin Server
ASSUME BoundAssumption  == /\ MaxTerm \in Nat
                           /\ MaxElections \in Nat
                           /\ MaxIndex \in Nat
                           /\ MaxRestarts \in Nat
                           /\ MaxInFlight \in Nat
                           /\ SnapshotAt \subseteq Nat

VARIABLES
    CurrentTerm, VotedFor, LeaderTerm, State,
    Logs, CommitIndex, LastNewEntryIndex,
    SnapshotLastIncludedIndex, SnapshotLastIncludedTerm,
    votes,        \* <<i, t, j>>: i's election of term t has counted the vote of j
    leadTerm,     \* term of the last becomeLeader: its goroutines run while it is CurrentTerm
    NextIndex, MatchIndex,
    LastApplied, snapshotMsg,
    applyMsgs,    \* what applyLog still has to send on applyChan
    applyTo,      \* index LastApplied rises to after that batch (0: no entry in it)
    applying,     \* applyLog is between its two critical sections
    app,          \* the log entries reflected in the service's state
    raftstate, snapshot,                 \* the persister
    rvCalls, aeCalls, isCalls,           \* RPC requests in flight
    rvReturns, aeReturns, isReturns,     \* RPC replies in flight, with their arguments
    restarts

termVars   == <<CurrentTerm, VotedFor, LeaderTerm, State>>
logVars    == <<Logs, SnapshotLastIncludedIndex, SnapshotLastIncludedTerm>>
commitVars == <<CommitIndex, LastNewEntryIndex>>
leaderVars == <<votes, leadTerm, NextIndex, MatchIndex>>
batchVars  == <<applyMsgs, applyTo, applying>>
rvNet      == <<rvCalls, rvReturns>>
aeNet      == <<aeCalls, aeReturns>>
isNet      == <<isCalls, isReturns>>
vars == <<termVars, logVars, commitVars, leaderVars, LastApplied, snapshotMsg,
          batchVars, app, raftstate, snapshot, rvNet, aeNet, isNet, restarts>>

-----------------------------------------------------------------------------
Max(x, y) == IF x < y THEN y ELSE x
Min(x, y) == IF x < y THEN x ELSE y

Half == Cardinality(Server) \div 2

Entry == [Term : Nat, Index : Nat, Command : Command]

\* The last entry's index and term, or the snapshot's when the log is empty.
LastLogIndex(i) == IF Logs[i] = <<>> THEN SnapshotLastIncludedIndex[i]
                                     ELSE Logs[i][Len(Logs[i])].Index
LastLogTerm(i)  == IF Logs[i] = <<>> THEN SnapshotLastIncludedTerm[i]
                                     ELSE Logs[i][Len(Logs[i])].Term

\* What persist() encodes, evaluated on the state after the step.
Durable(i) == [CurrentTerm |-> CurrentTerm[i], VotedFor |-> VotedFor[i], Logs |-> Logs[i],
               Index |-> SnapshotLastIncludedIndex[i], Term |-> SnapshotLastIncludedTerm[i]]
persistTermOnly(i) ==
    raftstate' = [raftstate EXCEPT ![i].CurrentTerm = CurrentTerm'[i], ![i].VotedFor = VotedFor'[i]]
persist(i) == raftstate' = [raftstate EXCEPT ![i] = Durable(i)']

\* The persister's SaveStateAndSnapshot.
SaveStateOnly(i, rs, data) ==
    raftstate' = [raftstate EXCEPT ![i] = rs] /\ UNCHANGED snapshot
SaveStateAndSnapshot(i, rs, data) ==
    /\ raftstate' = [raftstate EXCEPT ![i] = rs]
    /\ snapshot' = [snapshot EXCEPT ![i] = data]

\* The block every peer runs when it meets a higher term t.
StepDown(i, t) ==
    /\ State' = [State EXCEPT ![i] = "Follower"]
    /\ CurrentTerm' = [CurrentTerm EXCEPT ![i] = t]
    /\ VotedFor' = [VotedFor EXCEPT ![i] = None]
    /\ LeaderTerm' = [LeaderTerm EXCEPT ![i] = t]
    /\ LastNewEntryIndex' = [LastNewEntryIndex EXCEPT ![i] = CommitIndex[i]]

\* The network may lose any message; it loses one when too many are under way.
Transit(msgs) ==
    {kept \in SUBSET msgs : Cardinality(kept) = Min(Cardinality(msgs), MaxInFlight)}

\* The reply r to request m.  One that grants nothing and has no higher term than
\* the request is ignored by the caller in every state (reply.Term <= args.Term <=
\* CurrentTerm), and one to a caller that restarted has nobody to read it, so only
\* the others are put on the wire.
Heeded(m, grants, r) == IF ~m.orphan /\ (grants \/ r.ReplyTerm > r.Term) THEN {r} ELSE {}

\* The requests left when peer i restarts: those to i were bound to the old
\* instance, those from i are still delivered.
Survive(calls, i) == {[m EXCEPT !.orphan = @ \/ m.from = i] : m \in {c \in calls : c.to # i}}

NoSnapshotMsg == [SnapshotValid |-> TRUE, SnapshotIndex |-> 0, Snapshot |-> <<>>]

Init ==
    /\ CurrentTerm = [i \in Server |-> 0]
    /\ VotedFor = [i \in Server |-> None]
    /\ LeaderTerm = [i \in Server |-> -1]
    /\ State = [i \in Server |-> "Follower"]
    /\ Logs = [i \in Server |-> <<>>]
    /\ CommitIndex = [i \in Server |-> 0]
    /\ LastNewEntryIndex = [i \in Server |-> 0]
    /\ SnapshotLastIncludedIndex = [i \in Server |-> 0]
    /\ SnapshotLastIncludedTerm = [i \in Server |-> 0]
    /\ votes = {}
    /\ leadTerm = [i \in Server |-> -1]
    /\ NextIndex = [i \in Server |-> [j \in Server |-> 0]]
    /\ MatchIndex = [i \in Server |-> [j \in Server |-> 0]]
    /\ LastApplied = [i \in Server |-> 0]
    /\ snapshotMsg = [i \in Server |-> NoSnapshotMsg]
    /\ applyMsgs = [i \in Server |-> <<>>]
    /\ applyTo = [i \in Server |-> 0]
    /\ applying = [i \in Server |-> FALSE]
    /\ app = [i \in Server |-> <<>>]
    /\ raftstate = [i \in Server |-> Durable(i)]
    /\ snapshot = [i \in Server |-> <<>>]
    /\ rvCalls = {} /\ aeCalls = {} /\ isCalls = {}
    /\ rvReturns = {} /\ aeReturns = {} /\ isReturns = {}
    /\ restarts = 0

-----------------------------------------------------------------------------
(***************************************************************************)
(* Elections.                                                              *)
(***************************************************************************)

\* ticker, in state Follower or Candidate, once the election timeout passed:
\* prepareElection and the sends of issueLeaderElection.
prepareElection(i) ==
    /\ State[i] \in {"Follower", "Candidate"}
    /\ CurrentTerm[i] < MaxTerm
    /\ Cardinality({v \in votes : v[1] = v[3]}) < MaxElections
    /\ CurrentTerm' = [CurrentTerm EXCEPT ![i] = @ + 1]
    /\ VotedFor' = [VotedFor EXCEPT ![i] = i]
    /\ State' = [State EXCEPT ![i] = "Candidate"]
    /\ votes' = votes \cup {<<i, CurrentTerm[i] + 1, i>>}
    /\ rvCalls' \in Transit(rvCalls \cup
          {[from |-> i, to |-> j, orphan |-> FALSE, Term |-> CurrentTerm[i] + 1,
            LastLogIndex |-> LastLogIndex(i), LastLogTerm |-> LastLogTerm(i)] : j \in Server \ {i}})
    /\ UNCHANGED <<LeaderTerm, logVars, commitVars, leadTerm, NextIndex, MatchIndex, LastApplied,
                   snapshotMsg, batchVars, app, snapshot, rvReturns, aeNet, isNet, restarts>>
    /\ persist(i)

UpToDate(i, m) ==
    \/ m.LastLogTerm > LastLogTerm(i)
    \/ m.LastLogTerm = LastLogTerm(i) /\ m.LastLogIndex >= LastLogIndex(i)

\* i has not voted for another candidate in the request's term.
MayVoteAgain(i, m) == m.Term >= CurrentTerm[i]
MayVote(i, m) ==
    \/ m.Term > CurrentTerm[i]
    \/ m.Term = CurrentTerm[i] /\ VotedFor[i] \in {None, m.from}

\* Handler RequestVote.  A candidate asks each peer once per term, so the
\* request is consumed.
RequestVote(m) ==
    LET i == m.to
        newer == m.Term > CurrentTerm[i]
        grant == MayVote(i, m) /\ UpToDate(i, m)
    IN
    /\ rvCalls' = rvCalls \ {m}
    /\ rvReturns' \in Transit(rvReturns \cup Heeded(m, grant,
          [from |-> m.from, by |-> i, Term |-> m.Term, ReplyTerm |-> CurrentTerm[i],
           VoteGranted |-> grant]))
    /\ IF newer
       THEN /\ State' = [State EXCEPT ![i] = "Follower"]
            /\ CurrentTerm' = [CurrentTerm EXCEPT ![i] = m.Term]
            /\ LeaderTerm' = [LeaderTerm EXCEPT ![i] = m.Term]
            /\ LastNewEntryIndex' = [LastNewEntryIndex EXCEPT ![i] = CommitIndex[i]]
       ELSE UNCHANGED <<State, CurrentTerm, LeaderTerm, LastNewEntryIndex>>
    /\ VotedFor' = [VotedFor EXCEPT ![i] = IF grant THEN m.from ELSE IF newer THEN None ELSE @]
    /\ UNCHANGED <<logVars, CommitIndex, leaderVars, LastApplied, snapshotMsg, batchVars, app,
                   snapshot, aeNet, isNet, restarts>>
    /\ IF newer \/ grant THEN persist(i) ELSE UNCHANGED raftstate

\* The entry before index n of i's log; the snapshot stands for what it covers.
PrevEntry(i, n) ==
    IF Logs[i] # <<>> /\ n > SnapshotLastIncludedIndex[i] + 1
    THEN Logs[i][n - SnapshotLastIncludedIndex[i] - 1]
    ELSE [Index |-> SnapshotLastIncludedIndex[i], Term |-> SnapshotLastIncludedTerm[i]]

AppendEntriesArgs(i, j, n, entries) ==
    [from |-> i, to |-> j, orphan |-> FALSE, Term |-> CurrentTerm[i], PrevLogIndex |-> PrevEntry(i, n).Index,
     PrevLogTerm |-> PrevEntry(i, n).Term, Entries |-> entries, LeaderCommit |-> CommitIndex[i]]

\* An index into i's log that the code's slice expressions accept.
InRange(i, n) == n <= SnapshotLastIncludedIndex[i] + Len(Logs[i]) + 1

sendHeartBeat(i, next) ==
    aeCalls' \in Transit(aeCalls \cup {AppendEntriesArgs(i, j, next[j], <<>>) : j \in Server \ {i}})

becomeLeader(i) ==
    LET next == [j \in Server |-> LastLogIndex(i) + 1] IN
    /\ leadTerm' = [leadTerm EXCEPT ![i] = CurrentTerm[i]]
    /\ MatchIndex' = [MatchIndex EXCEPT ![i] = [j \in Server |-> IF j = i THEN LastLogIndex(i) ELSE 0]]
    /\ NextIndex' = [NextIndex EXCEPT ![i] = next]
    /\ sendHeartBeat(i, next)

\* The peers i's election of term t has counted.
VotesOf(i, t) == {j \in Server : <<i, t, j>> \in votes}

\* issueLeaderElection's goroutine, after its Call returned true.  `done` is
\* leadTerm[i] = r.Term.  The tally of an election that is done or of an earlier
\* term is never read again, so it is not kept up to date.
handleVote(r) ==
    LET i == r.from
        counts == r.VoteGranted /\ r.Term = CurrentTerm[i] /\ leadTerm[i] # r.Term
    IN
    /\ rvReturns' = rvReturns \ {r}
    /\ UNCHANGED <<logVars, CommitIndex, LastApplied, snapshotMsg, batchVars, app, snapshot,
                   rvCalls, aeReturns, isNet, restarts>>
    /\ \/ /\ counts
          /\ votes' = votes \cup {<<i, r.Term, r.by>>}
          /\ IF Cardinality(VotesOf(i, r.Term) \cup {r.by}) > Half
             THEN State' = [State EXCEPT ![i] = "Leader"] /\ becomeLeader(i)
             ELSE UNCHANGED <<State, leadTerm, NextIndex, MatchIndex, aeCalls>>
          /\ UNCHANGED <<CurrentTerm, VotedFor, LeaderTerm, LastNewEntryIndex, raftstate>>
       \/ /\ ~r.VoteGranted /\ r.ReplyTerm > CurrentTerm[i]
          /\ StepDown(i, r.ReplyTerm)
          /\ UNCHANGED <<leaderVars, aeCalls>>
          /\ persist(i)
       \/ /\ ~counts /\ (r.VoteGranted \/ r.ReplyTerm <= CurrentTerm[i])
          /\ UNCHANGED <<termVars, leaderVars, LastNewEntryIndex, aeCalls, raftstate>>

-----------------------------------------------------------------------------
(***************************************************************************)
(* Log replication.  replicateLog resends every 10 ms and the ticker every *)
(* 100 ms, so many equal copies of a request may be under way: aeCalls and *)
(* isCalls hold what has been sent, and a copy may arrive at any later     *)
(* time, any number of times, or never.  The same goes for the replies.    *)
(***************************************************************************)

\* ticker, in state Leader.
ticker(i) ==
    /\ State[i] = "Leader"
    /\ \A j \in Server \ {i} : InRange(i, NextIndex[i][j])
    /\ sendHeartBeat(i, NextIndex[i])
    /\ UNCHANGED <<termVars, logVars, commitVars, leaderVars, LastApplied, snapshotMsg, batchVars,
                   app, raftstate, snapshot, rvNet, aeReturns, isNet, restarts>>

\* One round of the replicateLog goroutine of leader i for peer j.
replicateLog(i, j) ==
    LET next == NextIndex[i][j] IN
    /\ i # j
    /\ leadTerm[i] = CurrentTerm[i]
    /\ next # NextIndex[i][i]
    /\ InRange(i, next)
    /\ IF next <= SnapshotLastIncludedIndex[i]
       THEN /\ isCalls' \in Transit(isCalls \cup
                 {[from |-> i, to |-> j, orphan |-> FALSE, Term |-> CurrentTerm[i],
                   LastIncludedIndex |-> SnapshotLastIncludedIndex[i],
                   LastIncludedTerm |-> SnapshotLastIncludedTerm[i], Data |-> snapshot[i]]})
            /\ UNCHANGED aeCalls
       ELSE /\ aeCalls' \in Transit(aeCalls \cup
                 {AppendEntriesArgs(i, j, next,
                     SubSeq(Logs[i], next - SnapshotLastIncludedIndex[i], Len(Logs[i])))})
            /\ UNCHANGED isCalls
    /\ UNCHANGED <<termVars, logVars, commitVars, leaderVars, LastApplied, snapshotMsg, batchVars,
                   app, raftstate, snapshot, rvNet, aeReturns, isReturns, restarts>>

\* A call from the service: append to the leader's log.
Start(i, c) ==
    LET index == LastLogIndex(i) + 1 IN
    /\ State[i] = "Leader"
    /\ index <= MaxIndex
    /\ Logs' = [Logs EXCEPT ![i] = Append(@, [Term |-> CurrentTerm[i], Index |-> index, Command |-> c])]
    /\ NextIndex' = [NextIndex EXCEPT ![i][i] = index + 1]
    /\ MatchIndex' = [MatchIndex EXCEPT ![i][i] = index]
    /\ UNCHANGED <<termVars, commitVars, SnapshotLastIncludedIndex, SnapshotLastIncludedTerm, votes,
                   leadTerm, LastApplied, snapshotMsg, batchVars, app, snapshot, rvNet, aeNet, isNet,
                   restarts>>
    /\ persist(i)

\* Steps 3 and 4 of the handler: entries the snapshot covers are skipped, equal
\* ones kept, and from the first difference on the log is replaced.
MergeEntries(i, m) ==
    LET off == m.PrevLogIndex - SnapshotLastIncludedIndex[i]
        Matches(k) == \/ off + k <= 0
                      \/ /\ off + k <= Len(Logs[i])
                         /\ Logs[i][off + k].Index = m.Entries[k].Index
                         /\ Logs[i][off + k].Term = m.Entries[k].Term
        IsFirstNew(k) == ~Matches(k) /\ \A l \in 1..(k - 1) : Matches(l)
        first == CHOOSE k \in DOMAIN m.Entries : IsFirstNew(k)
    IN  IF \A k \in DOMAIN m.Entries : ~IsFirstNew(k) THEN Logs[i]
        ELSE SubSeq(Logs[i], 1, off + first - 1) \o SubSeq(m.Entries, first, Len(m.Entries))

\* ConflictIndex: the entry after the last one before position p whose term
\* differs from the term at p, or the entry at p when all terms are equal.
ConflictIndexAt(i, p) ==
    LET Differs(k) == /\ Logs[i][k].Term # Logs[i][p].Term
                      /\ \A l \in (k + 1)..p : Logs[i][l].Term = Logs[i][p].Term
    IN  IF \E k \in 1..p : Differs(k) THEN Logs[i][(CHOOSE k \in 1..p : Differs(k)) + 1].Index
                                      ELSE Logs[i][p].Index

\* i's log has an entry at m.PrevLogIndex, of another term.
ClashIgnored(i, m) == FALSE
Clash(i, m) ==
    LET p == m.PrevLogIndex - SnapshotLastIncludedIndex[i]
    IN  p > 0 /\ p <= Len(Logs[i]) /\ Logs[i][p].Term # m.PrevLogTerm

CommitTo(m, last) == Min(m.LeaderCommit, last)

\* Handler AppendEntries.
AppendEntries(m) ==
    LET i == m.to
        p == m.PrevLogIndex - SnapshotLastIncludedIndex[i]
        fresh == m.Term # LeaderTerm[i] \/ m.Term > CurrentTerm[i]
        short == p > Len(Logs[i])
        newLast == IF fresh THEN CommitIndex[i] ELSE LastNewEntryIndex[i]
        reply == [from |-> m.from, by |-> i, Term |-> m.Term, PrevLogIndex |-> m.PrevLogIndex,
                  Count |-> Len(m.Entries), ReplyTerm |-> CurrentTerm[i], Success |-> FALSE,
                  Conflict |-> FALSE, ConflictTerm |-> 0, ConflictIndex |-> 0]
    IN
    /\ UNCHANGED <<SnapshotLastIncludedIndex, SnapshotLastIncludedTerm, leaderVars, LastApplied,
                   snapshotMsg, batchVars, app, snapshot, rvNet, aeCalls, isNet, restarts>>
    /\ \/ /\ m.Term < CurrentTerm[i]
          /\ aeReturns' \in Transit(aeReturns \cup Heeded(m, FALSE, reply))
          /\ UNCHANGED <<termVars, Logs, commitVars, raftstate>>
       \/ /\ m.Term >= CurrentTerm[i]
          /\ State' = [State EXCEPT ![i] = "Follower"]
          /\ CurrentTerm' = [CurrentTerm EXCEPT ![i] = m.Term]
          /\ LeaderTerm' = [LeaderTerm EXCEPT ![i] = m.Term]
          /\ VotedFor' = [VotedFor EXCEPT ![i] = IF fresh THEN None ELSE @]
          /\ IF short \/ Clash(i, m)
             THEN \* return without persist()
                  /\ aeReturns' \in Transit(aeReturns \cup Heeded(m, m.Term = CurrentTerm[i],
                       [reply EXCEPT !.Conflict = TRUE,
                                     !.ConflictTerm = IF short THEN 0 ELSE Logs[i][p].Term,
                                     !.ConflictIndex = IF short
                                        THEN SnapshotLastIncludedIndex[i] + Len(Logs[i])
                                        ELSE ConflictIndexAt(i, p)]))
                  /\ LastNewEntryIndex' = [LastNewEntryIndex EXCEPT ![i] = newLast]
                  /\ UNCHANGED <<Logs, CommitIndex, raftstate>>
             ELSE LET last == IF m.Entries = <<>> THEN newLast
                              ELSE Max(newLast, m.PrevLogIndex + Len(m.Entries))
                  IN
                  /\ aeReturns' \in Transit(aeReturns \cup
                       Heeded(m, m.Term = CurrentTerm[i], [reply EXCEPT !.Success = TRUE]))
                  /\ Logs' = [Logs EXCEPT ![i] = MergeEntries(i, m)]
                  /\ LastNewEntryIndex' = [LastNewEntryIndex EXCEPT ![i] = last]
                  /\ CommitIndex' = [CommitIndex EXCEPT ![i] =
                                       IF m.LeaderCommit > @ THEN CommitTo(m, last) ELSE @]
                  /\ IF fresh \/ Logs'[i] # Logs[i] THEN persist(i) ELSE UNCHANGED raftstate

\* Where the leader's search for ConflictTerm leaves `index`: one past the first
\* run of entries of term t (possibly one past the log).
AfterTerm(i, t) ==
    CHOOSE k \in 2..(Len(Logs[i]) + 1) :
        /\ k <= Len(Logs[i]) => Logs[i][k].Term # t
        /\ \E f \in 1..(k - 1) : /\ \A l \in f..(k - 1) : Logs[i][l].Term = t
                                 /\ \A l \in 1..(f - 1) : Logs[i][l].Term # t

HasTerm(i, t) == \E k \in DOMAIN Logs[i] : Logs[i][k].Term = t

\* The reply sets NextIndex from a conflict, by indexing the log after the run.
UsesAfterTerm(r) ==
    /\ r.ReplyTerm = CurrentTerm[r.from] /\ r.Term = CurrentTerm[r.from]
    /\ r.Conflict /\ NextIndex[r.from][r.by] = r.PrevLogIndex + 1
    /\ r.ConflictTerm # 0 /\ HasTerm(r.from, r.ConflictTerm)

\* The NextIndex a conflict reply leads to.
ConflictNextLower(r) == r.ConflictIndex - 1
ConflictNext(r) ==
    IF r.ConflictTerm = 0 THEN Max(r.ConflictIndex, 1)
    ELSE IF HasTerm(r.from, r.ConflictTerm)
         THEN Logs[r.from][AfterTerm(r.from, r.ConflictTerm)].Index
         ELSE r.ConflictIndex

\* sendAppendEntries, after its Call returned.  A failed Call leaves the reply
\* zero, which changes nothing.
handleAppendReply(r) ==
    LET i == r.from
        j == r.by
    IN
    /\ UNCHANGED <<logVars, CommitIndex, votes, leadTerm, LastApplied, snapshotMsg, batchVars, app,
                   snapshot, rvNet, aeNet, isNet, restarts>>
    /\ \/ /\ r.ReplyTerm > CurrentTerm[i]
          /\ StepDown(i, r.ReplyTerm)
          /\ UNCHANGED <<NextIndex, MatchIndex>>
          /\ persist(i)
       \/ /\ r.ReplyTerm = CurrentTerm[i] /\ r.Term = CurrentTerm[i]
          /\ \/ /\ r.Success
                /\ MatchIndex' = [MatchIndex EXCEPT ![i][j] = Max(@, r.PrevLogIndex + r.Count)]
                /\ NextIndex' = [NextIndex EXCEPT ![i][j] = Max(@, r.PrevLogIndex + r.Count + 1)]
             \/ /\ r.Conflict
                /\ NextIndex[i][j] = r.PrevLogIndex + 1
                /\ UsesAfterTerm(r) => AfterTerm(i, r.ConflictTerm) \in DOMAIN Logs[i]
                /\ NextIndex' = [NextIndex EXCEPT ![i][j] = ConflictNext(r)]
                /\ UNCHANGED MatchIndex
          /\ UNCHANGED <<termVars, LastNewEntryIndex, raftstate>>

\* The positions of i's log from which on all entries are of its own term.
AnyTerm(i) == DOMAIN Logs[i]
OwnTerm(i) ==
    {k \in DOMAIN Logs[i] : \A l \in k..Len(Logs[i]) : Logs[i][l].Term = CurrentTerm[i]}

\* One round of the updateCommitIndex goroutine of leader i: the highest entry of
\* its own term that more than half of the peers hold.
updateCommitIndex(i) ==
    LET agreed == {k \in OwnTerm(i) : Cardinality({j \in Server : MatchIndex[i][j] >= Logs[i][k].Index}) > Half}
    IN
    /\ leadTerm[i] = CurrentTerm[i]
    /\ \E top \in agreed :
          /\ \A k \in agreed : k <= top
          /\ CommitIndex' = [CommitIndex EXCEPT ![i] = Max(@, Logs[i][top].Index)]
    /\ UNCHANGED <<termVars, logVars, LastNewEntryIndex, leaderVars, LastApplied, snapshotMsg,
                   batchVars, app, raftstate, snapshot, rvNet, aeNet, isNet, restarts>>

-----------------------------------------------------------------------------
(***************************************************************************)
(* Snapshots.                                                              *)
(***************************************************************************)

\* makeRaftState(upto + 1): the trimmed log, and the snapshot index and term
\* that go to the persister with it.
makeRaftStateKeepsOne(i, upto) ==
    LET n == Min(upto + 1 - Logs[i][1].Index, Len(Logs[i]))
        trims == Logs[i] # <<>> /\ upto + 1 > Logs[i][1].Index
    IN  [CurrentTerm |-> CurrentTerm'[i], VotedFor |-> VotedFor'[i], Index |-> upto,
         Logs |-> IF trims THEN SubSeq(Logs[i], n, Len(Logs[i])) ELSE Logs[i],
         Term |-> SnapshotLastIncludedTerm[i]]
makeRaftState(i, upto) ==
    LET n == Min(upto + 1 - Logs[i][1].Index, Len(Logs[i]))
        trims == Logs[i] # <<>> /\ upto + 1 > Logs[i][1].Index
    IN  [CurrentTerm |-> CurrentTerm'[i], VotedFor |-> VotedFor'[i],
         Logs |-> IF trims THEN SubSeq(Logs[i], n + 1, Len(Logs[i])) ELSE Logs[i],
         Index |-> Max(IF trims THEN Logs[i][n].Index ELSE SnapshotLastIncludedIndex[i], upto),
         Term |-> IF trims THEN Logs[i][n].Term ELSE SnapshotLastIncludedTerm[i]]

\* Raft's Snapshot(index, data), called by the service.
TrimTo(i, index, data) ==
    IF SnapshotLastIncludedIndex[i] > index
    THEN UNCHANGED <<logVars, CommitIndex, LastApplied, raftstate, snapshot>>
    ELSE LET rs == makeRaftState(i, index) IN
         /\ SaveStateAndSnapshot(i, rs, data)
         /\ Logs' = [Logs EXCEPT ![i] = rs.Logs]
         /\ SnapshotLastIncludedIndex' = [SnapshotLastIncludedIndex EXCEPT ![i] = Max(rs.Index, index)]
         /\ SnapshotLastIncludedTerm' = [SnapshotLastIncludedTerm EXCEPT ![i] = rs.Term]
         /\ CommitIndex' = [CommitIndex EXCEPT ![i] = Max(@, index)]
         /\ LastApplied' = [LastApplied EXCEPT ![i] = Max(@, index)]

\* The service has applied enough to snapshot its state.
Snapshot(i) ==
    /\ Len(app[i]) \in SnapshotAt
    /\ UNCHANGED <<termVars, LastNewEntryIndex, leaderVars, snapshotMsg, batchVars, app, rvNet, aeNet,
                   isNet, restarts>>
    /\ TrimTo(i, Len(app[i]), app[i])

\* Handler InstallSnapshot.
InstallSnapshot(m) ==
    LET i == m.to
        fresh == m.Term # LeaderTerm[i] \/ m.Term > CurrentTerm[i]
        old == \/ SnapshotLastIncludedIndex[i] >= m.LastIncludedIndex
               \/ snapshotMsg[i].SnapshotIndex > m.LastIncludedIndex
        reply == [from |-> m.from, by |-> i, Term |-> m.Term, ReplyTerm |-> CurrentTerm[i],
                  LastIncludedIndex |-> m.LastIncludedIndex, Success |-> m.Term >= CurrentTerm[i]]
    IN
    /\ isReturns' \in Transit(isReturns \cup Heeded(m, m.Term = CurrentTerm[i], reply))
    /\ UNCHANGED <<leaderVars, batchVars, app, rvNet, aeNet, isCalls, restarts>>
    /\ \/ /\ m.Term < CurrentTerm[i]
          /\ UNCHANGED <<termVars, logVars, commitVars, LastApplied, snapshotMsg, raftstate, snapshot>>
       \/ /\ m.Term >= CurrentTerm[i]
          /\ State' = [State EXCEPT ![i] = "Follower"]
          /\ CurrentTerm' = [CurrentTerm EXCEPT ![i] = m.Term]
          /\ LeaderTerm' = [LeaderTerm EXCEPT ![i] = m.Term]
          /\ VotedFor' = [VotedFor EXCEPT ![i] = IF fresh THEN None ELSE @]
          /\ LastNewEntryIndex' = [LastNewEntryIndex EXCEPT ![i] = IF fresh THEN CommitIndex[i] ELSE @]
          /\ IF old
             THEN /\ UNCHANGED <<logVars, CommitIndex, LastApplied, snapshotMsg, snapshot>>
                  /\ persist(i)
             ELSE LET rs == makeRaftState(i, m.LastIncludedIndex) IN
                  /\ snapshotMsg' = [snapshotMsg EXCEPT ![i] =
                        [SnapshotValid |-> TRUE, SnapshotIndex |-> m.LastIncludedIndex,
                         Snapshot |-> m.Data]]
                  /\ SaveStateAndSnapshot(i, rs, m.Data)
                  /\ Logs' = [Logs EXCEPT ![i] = rs.Logs]
                  /\ SnapshotLastIncludedIndex' =
                        [SnapshotLastIncludedIndex EXCEPT ![i] = m.LastIncludedIndex]
                  /\ SnapshotLastIncludedTerm' =
                        [SnapshotLastIncludedTerm EXCEPT ![i] = m.LastIncludedTerm]
                  /\ CommitIndex' = [CommitIndex EXCEPT ![i] = Max(@, m.LastIncludedIndex)]
                  /\ LastApplied' = [LastApplied EXCEPT ![i] = Max(@, m.LastIncludedIndex)]

\* sendInstallSnapshot, after its Call returned.
handleSnapshotReply(r) ==
    LET i == r.from
        j == r.by
    IN
    /\ UNCHANGED <<logVars, CommitIndex, votes, leadTerm, LastApplied, snapshotMsg, batchVars, app,
                   snapshot, rvNet, aeNet, isNet, restarts>>
    /\ \/ /\ r.ReplyTerm > CurrentTerm[i]
          /\ StepDown(i, r.ReplyTerm)
          /\ UNCHANGED <<NextIndex, MatchIndex>>
          /\ persist(i)
       \/ /\ r.ReplyTerm = CurrentTerm[i] /\ r.Term = CurrentTerm[i] /\ r.Success
          /\ MatchIndex' = [MatchIndex EXCEPT ![i][j] = Max(@, r.LastIncludedIndex)]
          /\ NextIndex' = [NextIndex EXCEPT ![i][j] = Max(@, r.LastIncludedIndex + 1)]
          /\ UNCHANGED <<termVars, LastNewEntryIndex, raftstate>>

-----------------------------------------------------------------------------
(***************************************************************************)
(* The apply goroutine: collect a batch under the lock, send it on         *)
(* applyChan without the lock, record it under the lock again.             *)
(***************************************************************************)

applyLogCollect(i) ==
    LET base == SnapshotLastIncludedIndex[i]
        snap == snapshotMsg[i]
        some == CommitIndex[i] > LastApplied[i]
        news == IF some THEN SubSeq(Logs[i], Max(LastApplied[i], snap.SnapshotIndex) - base + 1,
                                    CommitIndex[i] - base)
                        ELSE <<>>
    IN
    /\ ~applying[i]
    /\ some \/ snap.SnapshotIndex # 0
    /\ some => LastApplied[i] >= base /\ CommitIndex[i] <= base + Len(Logs[i])
    /\ applying' = [applying EXCEPT ![i] = TRUE]
    /\ applyMsgs' = [applyMsgs EXCEPT ![i] =
          (IF snap.SnapshotIndex # 0 THEN <<snap>> ELSE <<>>)
          \o [k \in 1..Len(news) |-> [SnapshotValid |-> FALSE, Command |-> news[k]]]]
    /\ applyTo' = [applyTo EXCEPT ![i] = IF some THEN Logs[i][CommitIndex[i] - base].Index ELSE 0]
    /\ snapshotMsg' = [snapshotMsg EXCEPT ![i] = NoSnapshotMsg]
    /\ UNCHANGED <<termVars, logVars, commitVars, leaderVars, LastApplied, app, raftstate, snapshot,
                   rvNet, aeNet, isNet, restarts>>

\* A snapshot message is ahead of the service: kvraft and shardkv skip others.
AheadAlways(i, m) == TRUE
Ahead(i, m) == m.SnapshotIndex > Len(app[i])

\* The service takes one message from applyChan.  kvraft and shardkv skip a
\* snapshot that is not ahead of them and hand one they load back to Raft; they
\* do not ask CondInstallSnapshot, which approves everything.
deliver(i) ==
    LET m == Head(applyMsgs[i]) IN
    /\ applyMsgs[i] # <<>>
    /\ applyMsgs' = [applyMsgs EXCEPT ![i] = Tail(@)]
    /\ UNCHANGED <<termVars, LastNewEntryIndex, leaderVars, snapshotMsg, applyTo, applying, rvNet,
                   aeNet, isNet, restarts>>
    /\ \/ /\ ~m.SnapshotValid
          /\ app' = [app EXCEPT ![i] = Append(@, m.Command)]
          /\ UNCHANGED <<logVars, CommitIndex, LastApplied, raftstate, snapshot>>
       \/ /\ m.SnapshotValid /\ Ahead(i, m)
          /\ app' = [app EXCEPT ![i] = m.Snapshot]
          /\ TrimTo(i, Len(m.Snapshot), m.Snapshot)
       \/ /\ m.SnapshotValid /\ ~Ahead(i, m)
          /\ UNCHANGED <<logVars, CommitIndex, LastApplied, app, raftstate, snapshot>>

applyLogForgets(i) ==
    /\ applying[i] /\ applyMsgs[i] = <<>>
    /\ applying' = [applying EXCEPT ![i] = FALSE]
    /\ applyTo' = [applyTo EXCEPT ![i] = 0]
    /\ UNCHANGED <<termVars, logVars, commitVars, leaderVars, LastApplied, snapshotMsg, applyMsgs, app,
                   raftstate, snapshot, rvNet, aeNet, isNet, restarts>>
applyLogDone(i) ==
    /\ applying[i] /\ applyMsgs[i] = <<>>
    /\ applying' = [applying EXCEPT ![i] = FALSE]
    /\ applyTo' = [applyTo EXCEPT ![i] = 0]
    /\ LastApplied' = [LastApplied EXCEPT ![i] = Max(@, applyTo[i])]
    /\ UNCHANGED <<termVars, logVars, commitVars, leaderVars, snapshotMsg, applyMsgs, app, raftstate,
                   snapshot, rvNet, aeNet, isNet, restarts>>

-----------------------------------------------------------------------------
\* A peer is killed and made again from its persister (Make, readPersist).  The
\* network drops requests bound to the old instance, and the old instance's own
\* pending calls are never answered to the new one.
Restart(i) ==
    LET rs == raftstate[i] IN
    /\ restarts < MaxRestarts
    /\ restarts' = restarts + 1
    /\ CurrentTerm' = [CurrentTerm EXCEPT ![i] = rs.CurrentTerm]
    /\ VotedFor' = [VotedFor EXCEPT ![i] = rs.VotedFor]
    /\ Logs' = [Logs EXCEPT ![i] = rs.Logs]
    /\ SnapshotLastIncludedIndex' = [SnapshotLastIncludedIndex EXCEPT ![i] = rs.Index]
    /\ SnapshotLastIncludedTerm' = [SnapshotLastIncludedTerm EXCEPT ![i] = rs.Term]
    /\ CommitIndex' = [CommitIndex EXCEPT ![i] = rs.Index]
    /\ LastApplied' = [LastApplied EXCEPT ![i] = rs.Index]
    /\ LeaderTerm' = [LeaderTerm EXCEPT ![i] = -1]
    /\ State' = [State EXCEPT ![i] = "Follower"]
    /\ LastNewEntryIndex' = [LastNewEntryIndex EXCEPT ![i] = 0]
    /\ votes' = {v \in votes : v[1] # i}
    /\ leadTerm' = [leadTerm EXCEPT ![i] = -1]
    /\ NextIndex' = [NextIndex EXCEPT ![i] = [j \in Server |-> 0]]
    /\ MatchIndex' = [MatchIndex EXCEPT ![i] = [j \in Server |-> 0]]
    /\ snapshotMsg' = [snapshotMsg EXCEPT ![i] = NoSnapshotMsg]
    /\ applyMsgs' = [applyMsgs EXCEPT ![i] = <<>>]
    /\ applyTo' = [applyTo EXCEPT ![i] = 0]
    /\ applying' = [applying EXCEPT ![i] = FALSE]
    /\ app' = [app EXCEPT ![i] = snapshot[i]]
    /\ rvCalls' = Survive(rvCalls, i)
    /\ aeCalls' = Survive(aeCalls, i)
    /\ isCalls' = Survive(isCalls, i)
    /\ rvReturns' = {r \in rvReturns : r.from # i}
    /\ aeReturns' = {r \in aeReturns : r.from # i}
    /\ isReturns' = {r \in isReturns : r.from # i}
    /\ UNCHANGED <<raftstate, snapshot>>

Next ==
    \/ \E i \in Server :
          \/ prepareElection(i) \/ ticker(i) \/ updateCommitIndex(i)
          \/ applyLogCollect(i) \/ deliver(i) \/ applyLogDone(i)
          \/ Snapshot(i) \/ Restart(i)
    \/ \E i, j \in Server : replicateLog(i, j)
    \/ \E i \in Server, c \in Command : Start(i, c)
    \/ \E m \in rvCalls : RequestVote(m)
    \/ \E m \in aeCalls : AppendEntries(m)
    \/ \E m \in isCalls : InstallSnapshot(m)
    \/ \E r \in rvReturns : handleVote(r)
    \/ \E r \in aeReturns : handleAppendReply(r)
    \/ \E r \in isReturns : handleSnapshotReply(r)

Spec == Init /\ [][Next]_vars

-----------------------------------------------------------------------------
(***************************************************************************)
(* Properties.                                                             *)
(***************************************************************************)

RVCall == [from : Server, to : Server, orphan : BOOLEAN, Term : Nat, LastLogIndex : Nat, LastLogTerm : Nat]
AECall == [from : Server, to : Server, orphan : BOOLEAN, Term : Nat, PrevLogIndex : Nat, PrevLogTerm : Nat,
           Entries : Seq(Entry), LeaderCommit : Nat]
ISCall == [from : Server, to : Server, orphan : BOOLEAN, Term : Nat, LastIncludedIndex : Nat, LastIncludedTerm : Nat,
           Data : Seq(Entry)]
RVReturn == [from : Server, by : Server, Term : Nat, ReplyTerm : Nat, VoteGranted : BOOLEAN]
AEReturn == [from : Server, by : Server, Term : Nat, PrevLogIndex : Nat, Count : Nat,
             ReplyTerm : Nat, Success : BOOLEAN, Conflict : BOOLEAN,
             ConflictTerm : Nat, ConflictIndex : Nat]
ISReturn == [from : Server, by : Server, Term : Nat, ReplyTerm : Nat, LastIncludedIndex : Nat,
             Success : BOOLEAN]
SnapshotMsg == [SnapshotValid : {TRUE}, SnapshotIndex : Nat, Snapshot : Seq(Entry)]
CommandMsg  == [SnapshotValid : {FALSE}, Command : Entry]
RaftState == [CurrentTerm : Nat, VotedFor : Server \cup {None}, Logs : Seq(Entry),
              Index : Nat, Term : Nat]

\* The state of every peer and of the network is well formed.
TypeOK ==
    /\ CurrentTerm \in [Server -> Nat]
    /\ VotedFor \in [Server -> Server \cup {None}]
    /\ LeaderTerm \in [Server -> Nat \cup {-1}]
    /\ State \in [Server -> {"Leader", "Follower", "Candidate"}]
    /\ Logs \in [Server -> Seq(Entry)]
    /\ CommitIndex \in [Server -> Nat]
    /\ LastNewEntryIndex \in [Server -> Nat]
    /\ SnapshotLastIncludedIndex \in [Server -> Nat]
    /\ SnapshotLastIncludedTerm \in [Server -> Nat]
    /\ votes \subseteq Server \X Nat \X Server
    /\ leadTerm \in [Server -> Nat \cup {-1}]
    /\ NextIndex \in [Server -> [Server -> Nat]]
    /\ MatchIndex \in [Server -> [Server -> Nat]]
    /\ LastApplied \in [Server -> Nat]
    /\ snapshotMsg \in [Server -> SnapshotMsg]
    /\ applyMsgs \in [Server -> Seq(SnapshotMsg \cup CommandMsg)]
    /\ applyTo \in [Server -> Nat]
    /\ applying \in [Server -> BOOLEAN]
    /\ app \in [Server -> Seq(Entry)]
    /\ raftstate \in [Server -> RaftState]
    /\ snapshot \in [Server -> Seq(Entry)]
    /\ rvCalls \subseteq RVCall /\ aeCalls \subseteq AECall /\ isCalls \subseteq ISCall
    /\ rvReturns \subseteq RVReturn /\ aeReturns \subseteq AEReturn /\ isReturns \subseteq ISReturn
    /\ restarts \in Nat

IsPrefix(s, t) == Len(s) <= Len(t) /\ \A k \in DOMAIN s : s[k] = t[k]

\* The whole log of peer i from index 1, in memory and on disk.
Held(i)   == snapshot[i] \o Logs[i]
Stored(i) == snapshot[i] \o raftstate[i].Logs

\* At most one peer leads a term: what the tester's checkOneLeader demands of
\* the votes RequestVote grants and issueLeaderElection counts.
ElectionSafety ==
    \A i, j \in Server : State[i] = "Leader" /\ State[j] = "Leader" /\ CurrentTerm[i] = CurrentTerm[j]
                            => i = j

\* The Index field of every log entry is its position after the snapshot, in
\* memory and in the persister: all the slice arithmetic of raft.go rests on it.
LogsContiguous ==
    \A i \in Server :
        /\ \A k \in DOMAIN Logs[i] : Logs[i][k].Index = SnapshotLastIncludedIndex[i] + k
        /\ \A k \in DOMAIN raftstate[i].Logs : raftstate[i].Logs[k].Index = raftstate[i].Index + k

\* The persisted Raft state and the persisted snapshot meet: the log starts
\* where the snapshot ends, also for a reader between any two steps.
SnapshotInSync ==
    \A i \in Server : /\ Len(snapshot[i]) = raftstate[i].Index
                      /\ SnapshotLastIncludedIndex[i] = raftstate[i].Index

\* Two peers holding an entry of the same index and term hold the same entries
\* up to that index.
LogMatching ==
    \A i, j \in Server : \A k \in DOMAIN Logs[i], l \in DOMAIN Logs[j] :
        Logs[i][k].Index = Logs[j][l].Index /\ Logs[i][k].Term = Logs[j][l].Term
        => SubSeq(Held(i), 1, Logs[i][k].Index) = SubSeq(Held(j), 1, Logs[i][k].Index)

\* What any service has applied is held by every leader of the highest term.
LeaderCompleteness ==
    \A i \in Server :
        State[i] = "Leader" /\ (\A j \in Server : CurrentTerm[j] <= CurrentTerm[i])
        => \A j \in Server : IsPrefix(app[j], Held(i))

\* Two services have applied the same entries, as far as both have come.
StateMachineSafety ==
    \A i, j \in Server : IsPrefix(app[i], app[j]) \/ IsPrefix(app[j], app[i])

\* The next command applyLog sends is the one after what the service has.
DeliveredInOrder ==
    \A i \in Server : applyMsgs[i] # <<>> /\ ~Head(applyMsgs[i]).SnapshotValid
                         => Head(applyMsgs[i]).Command.Index = Len(app[i]) + 1

\* What any service has applied is in the persisters of a majority.
AppliedIsDurable ==
    \A i \in Server : Cardinality({j \in Server : IsPrefix(app[i], Stored(j))}) > Half


\* A service's state only grows, except when its peer restarts from a snapshot.
AppliedOnlyGrows ==
    [][restarts' = restarts => \A i \in Server : IsPrefix(app[i], app'[i])]_vars
=============================================================================
