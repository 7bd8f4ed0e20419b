---------------------------- MODULE RaftLogProof ----------------------------
(***************************************************************************)
(* The inductive invariant of Raft's logs, LogInv, that it holds           *)
(* initially, and that every step but a restart preserves it; the lemmas   *)
(* this rests on say what the operators on logs, messages and raft states  *)
(* return.  First AppendEntries: the entries that replace the end of a log *)
(* continue what is left of it.                                            *)
(***************************************************************************)
EXTENDS Raft, TLAPS, SequenceTheorems

\* The entries of an AppendEntries request are numbered from PrevLogIndex + 1.
AEContiguous ==
    \A m \in aeCalls : \A k \in DOMAIN m.Entries : m.Entries[k].Index = m.PrevLogIndex + k

\* The data of an InstallSnapshot request covers what its index says.
ISContiguous ==
    \A m \in isCalls : Len(m.Data) = m.LastIncludedIndex

\* So does a snapshot that waits for applyLog or is in its batch.
BatchContiguous ==
    \A i \in Server :
        /\ Len(snapshotMsg[i].Snapshot) = snapshotMsg[i].SnapshotIndex
        /\ \A k \in DOMAIN applyMsgs[i] :
              applyMsgs[i][k].SnapshotValid
              => Len(applyMsgs[i][k].Snapshot) = applyMsgs[i][k].SnapshotIndex

\* What is under way is well numbered.
MessagesContiguous == AEContiguous /\ ISContiguous /\ BatchContiguous

\* The inductive invariant: logs only stay contiguous because the messages that
\* are merged into them are.
LogInv == TypeOK /\ LogsContiguous /\ SnapshotInSync /\ MessagesContiguous

\* All logs are empty when the peers are made.
LEMMA InitLogInv == Init => LogInv
  BY ServerAssumption DEF Init, LogInv, TypeOK, LogsContiguous, SnapshotInSync, MessagesContiguous, AEContiguous,
     ISContiguous, BatchContiguous, Durable,
     NoSnapshotMsg, SnapshotMsg, RaftState

\* An entry of a log has a number and a term.
LEMMA EntryLemma ==
  ASSUME NEW s \in Seq(Entry), NEW k \in DOMAIN s
  PROVE  s[k] \in Entry /\ s[k].Index \in Nat /\ s[k].Term \in Nat
  <1>1. s[k] \in Entry
    OBVIOUS
  <1> QED BY <1>1, Zenon DEF Entry

\* What max returns.
LEMMA MaxLemma ==
  ASSUME NEW x \in Nat, NEW y \in Nat
  PROVE  /\ Max(x, y) \in Nat /\ Max(x, y) >= x /\ Max(x, y) >= y
         /\ x >= y => Max(x, y) = x
         /\ y >= x => Max(x, y) = y
  BY DEF Max

\* What min returns.
LEMMA MinLemma ==
  ASSUME NEW x \in Nat, NEW y \in Nat
  PROVE  \/ Min(x, y) = x /\ x <= y
         \/ Min(x, y) = y /\ y < x
  BY DEF Min

\* Writing one cell of NextIndex or MatchIndex.
LEMMA CellLemma ==
  ASSUME NEW f \in [Server -> [Server -> Nat]], NEW i \in Server, NEW j \in Server, NEW n \in Nat
  PROVE  /\ [f EXCEPT ![i][j] = n] \in [Server -> [Server -> Nat]]
         /\ [f EXCEPT ![i][j] = Max(@, n)] \in [Server -> [Server -> Nat]]
  <1>1. [f EXCEPT ![i][j] = n] \in [Server -> [Server -> Nat]]
    BY Zenon
  <1>2. Max(f[i][j], n) \in Nat
    BY MaxLemma
  <1>3. [f EXCEPT ![i][j] = Max(f[i][j], n)] \in [Server -> [Server -> Nat]]
    BY <1>2, Zenon
  <1> QED BY <1>1, <1>3, Zenon

\* Type and length of a sequence cut at the front.
LEMMA SuffixLemma ==
  ASSUME NEW S, NEW s \in Seq(S), NEW a \in Nat \ {0}
  PROVE  /\ SubSeq(s, a, Len(s)) \in Seq(S)
         /\ Len(SubSeq(s, a, Len(s))) = IF a <= Len(s) THEN Len(s) - a + 1 ELSE 0
         /\ \A k \in 1..Len(SubSeq(s, a, Len(s))) : SubSeq(s, a, Len(s))[k] = s[a + k - 1]
  <1>1. Len(s) \in Nat /\ a \in Int /\ Len(s) \in Int
    OBVIOUS
  <1>2. \A k \in a..Len(s) : s[k] \in S
    OBVIOUS
  <1> QED BY <1>1, <1>2, SubSeqProperties

\* Type, length and elements of a sequence cut at the back.
LEMMA PrefixLemma ==
  ASSUME NEW S, NEW s \in Seq(S), NEW b \in 0..Len(s)
  PROVE  /\ SubSeq(s, 1, b) \in Seq(S)
         /\ Len(SubSeq(s, 1, b)) = b
         /\ \A k \in 1..b : SubSeq(s, 1, b)[k] = s[k]
  <1>1. Len(s) \in Nat /\ b \in Int
    OBVIOUS
  <1>2. \A k \in 1..b : s[k] \in S
    OBVIOUS
  <1> QED BY <1>1, <1>2, SubSeqProperties

\* A log whose entries are numbered from b + 1 stays so numbered when it is cut
\* at the front.
LEMMA SuffixContiguous ==
  ASSUME NEW s \in Seq(Entry), NEW b \in Nat, \A k \in DOMAIN s : s[k].Index = b + k,
         NEW a \in Nat \ {0}
  PROVE  /\ SubSeq(s, a, Len(s)) \in Seq(Entry)
         /\ \A k \in DOMAIN SubSeq(s, a, Len(s)) : SubSeq(s, a, Len(s))[k].Index = b + a - 1 + k
  <1> DEFINE r == SubSeq(s, a, Len(s))
  <1>1. /\ r \in Seq(Entry)
        /\ Len(r) = IF a <= Len(s) THEN Len(s) - a + 1 ELSE 0
        /\ \A k \in 1..Len(r) : r[k] = s[a + k - 1]
    BY SuffixLemma, Zenon
  <1> HIDE DEF r
  <1>2. ASSUME NEW k \in DOMAIN r PROVE r[k].Index = b + a - 1 + k
    <2>1. k \in 1..Len(r) /\ Len(s) \in Nat
      BY <1>1
    <2>2. a + k - 1 \in 1..Len(s)
      BY <1>1, <2>1
    <2>3. s[a + k - 1].Index = b + (a + k - 1)
      BY <2>2
    <2>4. r[k] = s[a + k - 1]
      BY <1>1, <2>1, Zenon
    <2>5. b + (a + k - 1) = b + a - 1 + k
      BY <2>1
    <2> QED BY <2>3, <2>4, <2>5, Zenon
  <1> QED BY <1>1, <1>2, Zenon DEF r

\* The last index of a contiguous log is its length on top of its snapshot's.
LEMMA LogIndexLemma ==
  ASSUME LogInv, NEW i \in Server
  PROVE  /\ LastLogIndex(i) = SnapshotLastIncludedIndex[i] + Len(Logs[i])
         /\ LastLogTerm(i) \in Nat
         /\ LastLogIndex(i) \in Nat
  <1>1. /\ Logs[i] \in Seq(Entry)
        /\ SnapshotLastIncludedIndex[i] \in Nat
        /\ SnapshotLastIncludedTerm[i] \in Nat
        /\ \A k \in DOMAIN Logs[i] : Logs[i][k].Index = SnapshotLastIncludedIndex[i] + k
    BY Zenon DEF LogInv, TypeOK, LogsContiguous
  <1>2. CASE Logs[i] = <<>>
    BY <1>1, <1>2 DEF LastLogIndex, LastLogTerm
  <1>3. CASE Logs[i] # <<>>
    <2>1. Len(Logs[i]) \in DOMAIN Logs[i] /\ Logs[i][Len(Logs[i])] \in Entry
      BY <1>1, <1>3
    <2>2. QED BY <1>1, <1>3, <2>1, Zenon DEF LastLogIndex, LastLogTerm, Entry
  <1> QED BY <1>2, <1>3, Zenon

\* The network delivers, keeps or drops messages: it makes none up.
LEMMA TransitLemma ==
  ASSUME NEW msgs, NEW kept \in Transit(msgs)
  PROVE  kept \subseteq msgs
  BY Zenon DEF Transit

\* persist() leaves a well-formed record of peer i in its persister.
LEMMA PersistLemma ==
  ASSUME NEW i \in Server, persist(i), raftstate \in [Server -> RaftState],
         CurrentTerm'[i] \in Nat, VotedFor'[i] \in Server \cup {None}, Logs'[i] \in Seq(Entry),
         SnapshotLastIncludedIndex'[i] \in Nat, SnapshotLastIncludedTerm'[i] \in Nat
  PROVE  /\ raftstate' \in [Server -> RaftState]
         /\ raftstate'[i].Logs = Logs'[i]
         /\ raftstate'[i].Index = SnapshotLastIncludedIndex'[i]
         /\ \A j \in Server \ {i} : raftstate'[j] = raftstate[j]
  BY Zenon DEF persist, Durable, RaftState

\* A step that leaves the log and the snapshot alone keeps them contiguous,
\* whether or not it persists.
LEMMA LogFrameLemma ==
  ASSUME LogInv, NEW i \in Server, UNCHANGED <<logVars, snapshot>>,
         CurrentTerm'[i] \in Nat, VotedFor'[i] \in Server \cup {None},
         persist(i) \/ UNCHANGED raftstate
  PROVE  /\ raftstate' \in [Server -> RaftState]
         /\ LogsContiguous' /\ SnapshotInSync'
  <1>1. CASE UNCHANGED raftstate
    BY <1>1, Zenon DEF LogInv, TypeOK, LogsContiguous, SnapshotInSync, logVars
  <1>2. CASE persist(i)
    <2>1. /\ raftstate \in [Server -> RaftState] /\ Logs'[i] \in Seq(Entry)
          /\ SnapshotLastIncludedIndex'[i] \in Nat /\ SnapshotLastIncludedTerm'[i] \in Nat
      BY Zenon DEF LogInv, TypeOK, logVars
    <2>2. /\ raftstate' \in [Server -> RaftState]
          /\ raftstate'[i].Logs = Logs[i]
          /\ raftstate'[i].Index = SnapshotLastIncludedIndex[i]
          /\ \A j \in Server \ {i} : raftstate'[j] = raftstate[j]
      BY <1>2, <2>1, PersistLemma, Zenon DEF logVars
    <2> QED BY <2>2 DEF LogInv, LogsContiguous, SnapshotInSync, logVars
  <1> QED BY <1>1, <1>2, Zenon

\* Stepping down leaves the terms well formed.
LEMMA StepDownLemma ==
  ASSUME LogInv, NEW i \in Server, NEW t \in Nat, StepDown(i, t)
  PROVE  /\ CurrentTerm' \in [Server -> Nat] /\ VotedFor' \in [Server -> Server \cup {None}]
         /\ LeaderTerm' \in [Server -> Nat \cup {-1}]
         /\ State' \in [Server -> {"Leader", "Follower", "Candidate"}]
         /\ LastNewEntryIndex' \in [Server -> Nat]
  BY Zenon DEF StepDown, LogInv, TypeOK

-----------------------------------------------------------------------------
\* Steps 3 and 4 of AppendEntries keep the log contiguous: the entries carry the
\* indices after PrevLogIndex, and PrevLogIndex is not past the end of the log.
LEMMA MergeEntriesLemma ==
  ASSUME LogInv, NEW m \in aeCalls,
         ~(m.PrevLogIndex - SnapshotLastIncludedIndex[m.to] > Len(Logs[m.to]))
  PROVE  /\ MergeEntries(m.to, m) \in Seq(Entry)
         /\ \A k \in DOMAIN MergeEntries(m.to, m) :
               MergeEntries(m.to, m)[k].Index = SnapshotLastIncludedIndex[m.to] + k
  <1> DEFINE i == m.to
             base == SnapshotLastIncludedIndex[i]
             off == m.PrevLogIndex - base
             log == Logs[i]
             es == m.Entries
             Matches(k) == \/ off + k <= 0
                           \/ /\ off + k <= Len(log)
                              /\ log[off + k].Index = es[k].Index
                              /\ log[off + k].Term = es[k].Term
             IsFirstNew(k) == ~Matches(k) /\ \A l \in 1..(k - 1) : Matches(l)
             first == CHOOSE k \in DOMAIN es : IsFirstNew(k)
             keep == SubSeq(log, 1, off + first - 1)
             add == SubSeq(es, first, Len(es))
  <1>1. /\ i \in Server /\ m.PrevLogIndex \in Nat /\ es \in Seq(Entry)
        /\ base \in Nat /\ log \in Seq(Entry)
    BY Zenon DEF LogInv, TypeOK, AECall
  <1>2. /\ \A k \in DOMAIN log : log[k].Index = base + k
        /\ \A k \in DOMAIN es : es[k].Index = m.PrevLogIndex + k
    BY <1>1, Zenon DEF LogInv, LogsContiguous, MessagesContiguous, AEContiguous
  <1>3. MergeEntries(i, m) = IF \A k \in DOMAIN es : ~IsFirstNew(k) THEN log ELSE keep \o add
    BY Zenon DEF MergeEntries
  <1>4. CASE \A k \in DOMAIN es : ~IsFirstNew(k)
    BY <1>1, <1>2, <1>3, <1>4, ZenonT(60)
  <1>5. CASE \E k \in DOMAIN es : IsFirstNew(k)
    <2>1. first \in DOMAIN es /\ IsFirstNew(first)
      BY <1>5, ZenonT(60)
    <2>2. MergeEntries(i, m) = keep \o add
      BY <1>3, <1>5, ZenonT(60)
    <2> HIDE DEF first
    <2>20. first \in Nat \ {0}
      <3>1. es \in Seq(Entry) /\ first \in DOMAIN es
        BY <1>1, <2>1, Zenon
      <3> QED BY <3>1
    <2>21. off \in Int /\ ~(off > Len(log)) /\ Len(log) \in Nat
      BY <1>1
    <2>22. ~(off + first <= 0) /\ \A l \in 1..(first - 1) : off + l <= 0 \/ off + l <= Len(log)
      BY <2>1, Zenon
    <2> HIDE DEF off, log, es
    <2>3. off \in Int /\ first \in Nat \ {0} /\ off <= Len(log) /\ Len(log) \in Nat
      BY <2>20, <2>21
    <2>4. off + first > 0
      BY <2>3, <2>22
    <2>5. off + first - 1 <= Len(log)
      <3>1. CASE first = 1
        BY <2>3, <3>1
      <3>2. CASE first # 1
        <4>1. first - 1 \in 1..(first - 1)
          BY <2>3, <3>2
        <4>2. off + (first - 1) <= 0 \/ off + (first - 1) <= Len(log)
          BY <2>22, <4>1, Zenon
        <4>3. off + (first - 1) <= Len(log)
          BY <2>3, <4>2
        <4> QED BY <2>3, <4>3, Zenon
      <3> QED BY <3>1, <3>2, Zenon
    <2> DEFINE b == off + first - 1
    <2>6. b \in 0..Len(log)
      BY <2>3, <2>4, <2>5
    <2>7. base + b = m.PrevLogIndex + first - 1
      <3>1. base \in Nat /\ m.PrevLogIndex \in Nat /\ off = m.PrevLogIndex - base
        BY <1>1, Zenon DEF off
      <3> HIDE DEF base
      <3> QED BY <2>3, <3>1
    <2> HIDE DEF b
    <2>8. /\ keep \in Seq(Entry) /\ Len(keep) = b
          /\ \A k \in 1..b : keep[k] = log[k]
      <3>1. keep = SubSeq(log, 1, b)
        BY Zenon DEF b
      <3> HIDE DEF keep
      <3> QED BY <1>1, <2>6, <3>1, PrefixLemma, Zenon
    <2>9. /\ add \in Seq(Entry)
          /\ \A k \in DOMAIN add : add[k].Index = m.PrevLogIndex + first - 1 + k
      BY <1>1, <1>2, <2>3, SuffixContiguous, Zenon
    <2> HIDE DEF keep, add, base
    <2>10. /\ keep \o add \in Seq(Entry) /\ Len(keep \o add) = b + Len(add)
           /\ \A k \in 1..(b + Len(add)) : (keep \o add)[k] = IF k <= b THEN keep[k] ELSE add[k - b]
      BY <2>8, <2>9, ConcatProperties, Zenon
    <2>11. ASSUME NEW k \in DOMAIN (keep \o add)
           PROVE  (keep \o add)[k].Index = base + k
      <3>1. k \in 1..(b + Len(add)) /\ k \in Nat \ {0} /\ b \in Nat /\ Len(add) \in Nat
        BY <2>6, <2>9, <2>10
      <3>2. CASE k <= b
        <4>1. k \in 1..b /\ k \in DOMAIN log
          BY <1>1, <2>6, <3>1, <3>2
        <4>2. (keep \o add)[k] = log[k]
          BY <2>8, <2>10, <3>1, <3>2, <4>1, Zenon
        <4> QED BY <1>2, <4>1, <4>2, Zenon
      <3>3. CASE ~(k <= b)
        <4>1. k - b \in DOMAIN add
          BY <2>9, <3>1, <3>3
        <4>2. (keep \o add)[k] = add[k - b]
          BY <2>10, <3>1, <3>3, Zenon
        <4>3. add[k - b].Index = m.PrevLogIndex + first - 1 + (k - b)
          BY <2>9, <4>1, Zenon
        <4>4. m.PrevLogIndex + first - 1 + (k - b) = base + k
          <5>1. base \in Nat /\ m.PrevLogIndex \in Nat /\ first \in Nat /\ b \in Nat /\ k \in Nat
            BY <1>1, <2>3, <3>1, Zenon
          <5> QED BY <2>7, <5>1
        <4> QED BY <4>2, <4>3, <4>4, Zenon
      <3> QED BY <3>2, <3>3, Zenon
    <2> QED BY <2>2, <2>10, <2>11, ZenonT(60) DEF base
  <1> QED BY <1>4, <1>5, Zenon

\* The domain of a sequence, as its length gives it.
LEMMA DomainLemma ==
  ASSUME NEW S, NEW s \in Seq(S), NEW p \in DOMAIN s
  PROVE  p \in 1..Len(s)
  OBVIOUS

\* The index AppendEntries reports for a conflicting term is a natural number.
LEMMA ConflictIndexLemma ==
  ASSUME LogInv, NEW i \in Server, NEW p \in DOMAIN Logs[i]
  PROVE  ConflictIndexAt(i, p) \in Nat
  <1> DEFINE Differs(k) == /\ Logs[i][k].Term # Logs[i][p].Term
                           /\ \A l \in (k + 1)..p : Logs[i][l].Term = Logs[i][p].Term
             last == CHOOSE k \in 1..p : Differs(k)
  <1>1. Logs[i] \in Seq(Entry)
    BY Zenon DEF LogInv, TypeOK
  <1>2. p \in 1..Len(Logs[i]) /\ Logs[i][p].Index \in Nat
    <2>1. Logs[i][p].Index \in Nat
      BY <1>1, EntryLemma, Zenon
    <2>2. p \in 1..Len(Logs[i])
      BY <1>1, DomainLemma, Zenon
    <2> QED BY <2>1, <2>2, Zenon
  <1>3. ConflictIndexAt(i, p) = IF \E k \in 1..p : Differs(k) THEN Logs[i][last + 1].Index
                                                             ELSE Logs[i][p].Index
    BY Zenon DEF ConflictIndexAt
  <1>4. CASE \E k \in 1..p : Differs(k)
    <2>1. last \in 1..p /\ Logs[i][last].Term # Logs[i][p].Term
      BY <1>4, Zenon
    <2> HIDE DEF last
    <2>2. last + 1 \in 1..Len(Logs[i])
      <3>1. last # p
        BY <2>1, Zenon
      <3> QED BY <1>1, <1>2, <2>1, <3>1
    <2>3. Logs[i][last + 1].Index \in Nat
      BY <1>1, <2>2, EntryLemma
    <2> HIDE DEF Differs
    <2> QED BY <1>3, <1>4, <2>3, Zenon
  <1>5. CASE ~\E k \in 1..p : Differs(k)
    BY <1>2, <1>3, <1>5, Zenon
  <1> QED BY <1>4, <1>5, Zenon

\* AppendEntries merges entries into the log only where they connect to it.
LEMMA AppendEntriesLogInv ==
  ASSUME LogInv, NEW m \in aeCalls, AppendEntries(m)
  PROVE  LogInv'
  <1> DEFINE i == m.to
             base == SnapshotLastIncludedIndex[i]
             p == m.PrevLogIndex - base
             fresh == m.Term # LeaderTerm[i] \/ m.Term > CurrentTerm[i]
             short == p > Len(Logs[i])
             newLast == IF fresh THEN CommitIndex[i] ELSE LastNewEntryIndex[i]
             last == IF m.Entries = <<>> THEN newLast ELSE Max(newLast, m.PrevLogIndex + Len(m.Entries))
             reply == [from |-> m.from, by |-> i, Term |-> m.Term, PrevLogIndex |-> m.PrevLogIndex,
                       Count |-> Len(m.Entries), ReplyTerm |-> CurrentTerm[i], Success |-> FALSE,
                       Conflict |-> FALSE, ConflictTerm |-> 0, ConflictIndex |-> 0]
             refusal == [reply EXCEPT !.Conflict = TRUE,
                                      !.ConflictTerm = IF short THEN 0 ELSE Logs[i][p].Term,
                                      !.ConflictIndex = IF short THEN base + Len(Logs[i])
                                                        ELSE ConflictIndexAt(i, p)]
             success == [reply EXCEPT !.Success = TRUE]
  <1>1. /\ i \in Server /\ m.from \in Server /\ m.Term \in Nat /\ m.PrevLogIndex \in Nat
        /\ m.LeaderCommit \in Nat /\ m.Entries \in Seq(Entry)
    BY Zenon DEF LogInv, TypeOK, AECall
  <1>2. /\ base \in Nat /\ Logs[i] \in Seq(Entry) /\ CurrentTerm[i] \in Nat
        /\ CommitIndex[i] \in Nat /\ LastNewEntryIndex[i] \in Nat
    BY <1>1, Zenon DEF LogInv, TypeOK
  <1>3. UNCHANGED <<SnapshotLastIncludedIndex, SnapshotLastIncludedTerm, leaderVars, LastApplied,
                    snapshotMsg, batchVars, app, snapshot, rvNet, aeCalls, isNet, restarts>>
    BY Zenon DEF AppendEntries
  <1>4. reply \in AEReturn /\ success \in AEReturn
    <2>1. Len(m.Entries) \in Nat
      BY <1>1
    <2> QED BY <1>1, <1>2, <2>1, Zenon DEF AEReturn
  <1>5. short \/ Clash(i, m) => refusal \in AEReturn
    <2>1. short => base + Len(Logs[i]) \in Nat
      BY <1>2
    <2>2. Clash(i, m) => Logs[i][p].Term \in Nat /\ ConflictIndexAt(i, p) \in Nat
      <3> SUFFICES ASSUME Clash(i, m) PROVE Logs[i][p].Term \in Nat /\ ConflictIndexAt(i, p) \in Nat
        BY Zenon
      <3>1. p \in DOMAIN Logs[i]
        BY <1>1, <1>2 DEF Clash
      <3> QED BY <1>1, <1>2, <3>1, EntryLemma, ConflictIndexLemma, Zenon
    <2> DEFINE ct == IF short THEN 0 ELSE Logs[i][p].Term
               ci == IF short THEN base + Len(Logs[i]) ELSE ConflictIndexAt(i, p)
    <2>3. short \/ Clash(i, m) => ct \in Nat /\ ci \in Nat
      <3> HIDE DEF short, p
      <3> QED BY <2>1, <2>2, Zenon
    <2>4. refusal = [reply EXCEPT !.Conflict = TRUE, !.ConflictTerm = ct, !.ConflictIndex = ci]
      BY Zenon
    <2> HIDE DEF ct, ci, refusal
    <2> QED BY <1>4, <2>3, <2>4, Zenon DEF AEReturn
  <1>6. /\ AEContiguous' /\ ISContiguous' /\ BatchContiguous'
    BY <1>3, Zenon DEF LogInv, MessagesContiguous, AEContiguous, ISContiguous, BatchContiguous, isNet, batchVars
  <1>7. CASE m.Term < CurrentTerm[i]
    <2>1. /\ aeReturns' \in Transit(aeReturns \cup Heeded(m, FALSE, reply))
          /\ UNCHANGED <<termVars, Logs, commitVars, raftstate>>
      <3>1. m.Term \in Nat /\ CurrentTerm[i] \in Nat
        BY <1>1, <1>2, Zenon
      <3>2. ~(m.Term >= CurrentTerm[i])
        BY <1>7, <3>1, SMTT(60)
      <3> QED BY <3>2, ZenonT(60) DEF AppendEntries
    <2>2. aeReturns' \subseteq aeReturns \cup {reply}
      BY <2>1, TransitLemma, Zenon DEF Heeded
    <2> HIDE DEF reply
    <2>3. aeReturns' \subseteq AEReturn
      BY <1>4, <2>2, Zenon DEF LogInv, TypeOK
    <2>4. LogsContiguous' /\ SnapshotInSync'
      BY <1>3, <2>1, Zenon DEF LogInv, LogsContiguous, SnapshotInSync
    <2> QED BY <1>3, <1>6, <2>1, <2>3, <2>4, ZenonT(60) DEF LogInv, TypeOK, MessagesContiguous, termVars, commitVars,
            leaderVars, batchVars, rvNet, isNet
  <1>8. CASE ~(m.Term < CurrentTerm[i])
    <2>1. /\ State' = [State EXCEPT ![i] = "Follower"]
          /\ CurrentTerm' = [CurrentTerm EXCEPT ![i] = m.Term]
          /\ LeaderTerm' = [LeaderTerm EXCEPT ![i] = m.Term]
          /\ VotedFor' = [VotedFor EXCEPT ![i] = IF fresh THEN None ELSE @]
      BY <1>8, Zenon DEF AppendEntries
    <2>2. /\ CurrentTerm' \in [Server -> Nat] /\ VotedFor' \in [Server -> Server \cup {None}]
          /\ LeaderTerm' \in [Server -> Nat \cup {-1}]
          /\ State' \in [Server -> {"Leader", "Follower", "Candidate"}]
      <3> HIDE DEF fresh
      <3> QED BY <1>1, <2>1, ZenonT(60) DEF LogInv, TypeOK
    <2>3. newLast \in Nat /\ last \in Nat
      <3>1. newLast \in Nat
        BY <1>2, Zenon
      <3>2. m.PrevLogIndex + Len(m.Entries) \in Nat
        BY <1>1
      <3> HIDE DEF newLast
      <3> QED BY <3>1, <3>2, MaxLemma
    <2>4. CASE short \/ Clash(i, m)
      <3>1. /\ aeReturns' \in Transit(aeReturns \cup Heeded(m, m.Term = CurrentTerm[i], refusal))
            /\ LastNewEntryIndex' = [LastNewEntryIndex EXCEPT ![i] = newLast]
            /\ UNCHANGED <<Logs, CommitIndex, raftstate>>
        BY <1>8, <2>4, Zenon DEF AppendEntries
      <3>2. aeReturns' \subseteq aeReturns \cup {refusal}
        BY <3>1, TransitLemma, Zenon DEF Heeded
      <3>3. refusal \in AEReturn
        BY <1>5, <2>4, Zenon
      <3> HIDE DEF refusal, newLast
      <3>4. aeReturns' \subseteq AEReturn /\ LastNewEntryIndex' \in [Server -> Nat]
        BY <1>1, <2>3, <3>1, <3>2, <3>3, ZenonT(60) DEF LogInv, TypeOK
      <3>5. LogsContiguous' /\ SnapshotInSync'
        BY <1>3, <3>1, ZenonT(60) DEF LogInv, LogsContiguous, SnapshotInSync
      <3> QED BY <1>3, <1>6, <2>2, <3>1, <3>4, <3>5, Zenon DEF LogInv, TypeOK, MessagesContiguous,
              leaderVars, batchVars, rvNet, isNet
    <2>5. CASE ~(short \/ Clash(i, m))
      <3>1. /\ aeReturns' \in Transit(aeReturns \cup Heeded(m, m.Term = CurrentTerm[i], success))
            /\ Logs' = [Logs EXCEPT ![i] = MergeEntries(i, m)]
            /\ LastNewEntryIndex' = [LastNewEntryIndex EXCEPT ![i] = last]
            /\ CommitIndex' = [CommitIndex EXCEPT ![i] =
                                 IF m.LeaderCommit > @ THEN CommitTo(m, last) ELSE @]
            /\ persist(i) \/ UNCHANGED raftstate
        BY <1>8, <2>5, Zenon DEF AppendEntries
      <3>2. aeReturns' \subseteq aeReturns \cup {success}
        BY <3>1, TransitLemma, ZenonT(60) DEF Heeded
      <3> HIDE DEF success, last
      <3>3. aeReturns' \subseteq AEReturn /\ LastNewEntryIndex' \in [Server -> Nat]
        BY <1>1, <1>4, <2>3, <3>1, <3>2, Zenon DEF LogInv, TypeOK
      <3>4. CommitIndex' \in [Server -> Nat]
        <4>1. CommitTo(m, last) \in Nat
          BY <1>1, <2>3, MinLemma, Zenon DEF CommitTo
        <4> QED BY <1>1, <3>1, <4>1, Zenon DEF LogInv, TypeOK
      <3>5. /\ MergeEntries(i, m) \in Seq(Entry)
            /\ \A k \in DOMAIN MergeEntries(i, m) : MergeEntries(i, m)[k].Index = base + k
        BY <2>5, MergeEntriesLemma, ZenonT(60)
      <3>6. /\ Logs' \in [Server -> Seq(Entry)] /\ Logs'[i] = MergeEntries(i, m)
            /\ \A j \in Server \ {i} : Logs'[j] = Logs[j]
        <4>1. Logs \in [Server -> Seq(Entry)]
          BY Zenon DEF LogInv, TypeOK
        <4> QED BY <1>1, <3>1, <3>5, <4>1, ZenonT(60)
      <3>7. raftstate' \in [Server -> RaftState] /\ LogsContiguous' /\ SnapshotInSync'
        <4>1. /\ raftstate' \in [Server -> RaftState]
              /\ \/ UNCHANGED raftstate
                 \/ /\ raftstate'[i].Logs = Logs'[i] /\ raftstate'[i].Index = base
                    /\ \A j \in Server \ {i} : raftstate'[j] = raftstate[j]
          <5>1. CASE UNCHANGED raftstate
            BY <5>1, ZenonT(60) DEF LogInv, TypeOK
          <5>2. CASE persist(i)
            <6>1. /\ raftstate \in [Server -> RaftState] /\ CurrentTerm'[i] \in Nat
                  /\ VotedFor'[i] \in Server \cup {None} /\ Logs'[i] \in Seq(Entry)
                  /\ SnapshotLastIncludedIndex'[i] = base /\ SnapshotLastIncludedIndex'[i] \in Nat
                  /\ SnapshotLastIncludedTerm'[i] \in Nat
              BY <1>1, <1>3, <2>2, <3>6, ZenonT(60) DEF LogInv, TypeOK
            <6> QED BY <1>1, <5>2, <6>1, PersistLemma, ZenonT(60)
          <5> QED BY <3>1, <5>1, <5>2, ZenonT(60)
        <4>2. SnapshotInSync'
          BY <1>3, <4>1, Zenon DEF LogInv, SnapshotInSync
        <4>3. ASSUME NEW j \in Server
              PROVE  /\ \A k \in DOMAIN Logs'[j] : Logs'[j][k].Index = SnapshotLastIncludedIndex'[j] + k
                     /\ \A k \in DOMAIN raftstate'[j].Logs :
                            raftstate'[j].Logs[k].Index = raftstate'[j].Index + k
          <5>1. CASE j = i
            <6>1. /\ Logs'[j] = MergeEntries(i, m) /\ SnapshotLastIncludedIndex'[j] = base
                  /\ \A k \in DOMAIN MergeEntries(i, m) : MergeEntries(i, m)[k].Index = base + k
              BY <1>3, <3>5, <3>6, <5>1, Zenon
            <6>2. \/ raftstate'[j] = raftstate[j]
                  \/ raftstate'[j].Logs = Logs'[j] /\ raftstate'[j].Index = base
              BY <4>1, <5>1, Zenon
            <6>3. \A k \in DOMAIN raftstate[j].Logs : raftstate[j].Logs[k].Index = raftstate[j].Index + k
              BY Zenon DEF LogInv, LogsContiguous
            <6> HIDE DEF base
            <6> QED BY <6>1, <6>2, <6>3, Zenon
          <5>2. CASE j # i
            <6>1. Logs'[j] = Logs[j] /\ raftstate'[j] = raftstate[j]
              BY <3>6, <4>1, <5>2, Zenon
            <6>2. SnapshotLastIncludedIndex'[j] = SnapshotLastIncludedIndex[j]
              BY <1>3, Zenon
            <6> QED BY <6>1, <6>2, Zenon DEF LogInv, LogsContiguous
          <5> QED BY <5>1, <5>2, Zenon
        <4> QED BY <4>1, <4>2, <4>3, Zenon DEF LogsContiguous
      <3> QED BY <1>3, <1>6, <2>2, <3>3, <3>4, <3>6, <3>7, Zenon DEF LogInv, TypeOK, MessagesContiguous,
              leaderVars, batchVars, rvNet, isNet
    <2> QED BY <2>4, <2>5, Zenon
  <1> QED BY <1>7, <1>8, Zenon

-----------------------------------------------------------------------------
(***************************************************************************)
(* Elections, the messages a leader sends, what it does with commands and  *)
(* replies, its commits, and the end of a round of applyLog.               *)
(***************************************************************************)

\* prepareElection touches no log, and persists the one it has.
LEMMA prepareElectionLogInv ==
  ASSUME LogInv, NEW i \in Server, prepareElection(i)
  PROVE  LogInv'
  <1> DEFINE Ask(j) == [from |-> i, to |-> j, orphan |-> FALSE, Term |-> CurrentTerm[i] + 1,
                        LastLogIndex |-> LastLogIndex(i), LastLogTerm |-> LastLogTerm(i)]
  <1>1. rvCalls' \subseteq RVCall
    <2>1. rvCalls' \subseteq rvCalls \cup {Ask(j) : j \in Server \ {i}}
      BY TransitLemma, Zenon DEF prepareElection
    <2>2. \A j \in Server \ {i} : Ask(j) \in RVCall
      <3>1. CurrentTerm[i] \in Nat
        BY Zenon DEF LogInv, TypeOK
      <3> QED BY <3>1, LogIndexLemma DEF RVCall
    <2>3. rvCalls \subseteq RVCall
      BY Zenon DEF LogInv, TypeOK
    <2> HIDE DEF Ask
    <2> QED BY <2>1, <2>2, <2>3, Zenon
  <1>2. /\ CurrentTerm' \in [Server -> Nat] /\ VotedFor' \in [Server -> Server \cup {None}]
        /\ State' \in [Server -> {"Leader", "Follower", "Candidate"}]
    <2>1. /\ CurrentTerm \in [Server -> Nat] /\ VotedFor \in [Server -> Server \cup {None}]
          /\ State \in [Server -> {"Leader", "Follower", "Candidate"}]
      BY Zenon DEF LogInv, TypeOK
    <2>2. /\ CurrentTerm' = [CurrentTerm EXCEPT ![i] = @ + 1] /\ VotedFor' = [VotedFor EXCEPT ![i] = i]
          /\ State' = [State EXCEPT ![i] = "Candidate"]
      BY Zenon DEF prepareElection
    <2> QED BY <2>1, <2>2, SMTT(60)
  <1>3. votes' \subseteq Server \X Nat \X Server
    BY DEF prepareElection, LogInv, TypeOK
  <1>4. raftstate' \in [Server -> RaftState] /\ LogsContiguous' /\ SnapshotInSync'
    BY <1>2, LogFrameLemma, Zenon DEF prepareElection
  <1>5. MessagesContiguous'
    BY Zenon DEF prepareElection, LogInv, MessagesContiguous, AEContiguous, ISContiguous, BatchContiguous,
       aeNet, isNet, batchVars
  <1> QED
    BY <1>1, <1>2, <1>3, <1>4, <1>5, Zenon DEF prepareElection, LogInv, TypeOK, logVars, commitVars,
       batchVars, aeNet, isNet

\* RequestVote touches no log, and persists the one it has.
LEMMA RequestVoteLogInv ==
  ASSUME LogInv, NEW m \in rvCalls, RequestVote(m)
  PROVE  LogInv'
  <1> DEFINE i == m.to
  <1>1. m \in RVCall /\ i \in Server /\ m.from \in Server /\ m.Term \in Nat
    BY Zenon DEF LogInv, TypeOK, RVCall
  <1>2. rvCalls' \subseteq RVCall
    BY Zenon DEF RequestVote, LogInv, TypeOK
  <1>3. rvReturns' \subseteq RVReturn
    <2>1. PICK grant \in BOOLEAN : rvReturns' \in Transit(rvReturns \cup Heeded(m, grant,
          [from |-> m.from, by |-> i, Term |-> m.Term, ReplyTerm |-> CurrentTerm[i], VoteGranted |-> grant]))
      <3>1. (MayVote(i, m) /\ UpToDate(i, m)) \in BOOLEAN
        BY Zenon DEF MayVote, UpToDate
      <3> QED BY <3>1, Zenon DEF RequestVote
    <2>2. [from |-> m.from, by |-> i, Term |-> m.Term, ReplyTerm |-> CurrentTerm[i],
           VoteGranted |-> grant] \in RVReturn
      BY <1>1, Zenon DEF RVReturn, LogInv, TypeOK
    <2> QED BY <2>1, <2>2, TransitLemma DEF Heeded, LogInv, TypeOK
  <1>4. /\ CurrentTerm' \in [Server -> Nat] /\ LeaderTerm' \in [Server -> Nat \cup {-1}]
        /\ State' \in [Server -> {"Leader", "Follower", "Candidate"}]
        /\ LastNewEntryIndex' \in [Server -> Nat]
    <2>1. /\ CurrentTerm \in [Server -> Nat] /\ LeaderTerm \in [Server -> Nat \cup {-1}]
          /\ State \in [Server -> {"Leader", "Follower", "Candidate"}]
          /\ LastNewEntryIndex \in [Server -> Nat] /\ CommitIndex \in [Server -> Nat]
      BY Zenon DEF LogInv, TypeOK
    <2> QED BY <1>1, <2>1 DEF RequestVote
  <1>5. VotedFor' \in [Server -> Server \cup {None}]
    BY <1>1, Zenon DEF RequestVote, LogInv, TypeOK
  <1>6. raftstate' \in [Server -> RaftState] /\ LogsContiguous' /\ SnapshotInSync'
    BY <1>1, <1>4, <1>5, LogFrameLemma, Zenon DEF RequestVote
  <1>7. MessagesContiguous'
    BY Zenon DEF RequestVote, LogInv, MessagesContiguous, AEContiguous, ISContiguous, BatchContiguous,
       aeNet, isNet, batchVars
  <1> QED
    BY <1>2, <1>3, <1>4, <1>5, <1>6, <1>7, Zenon DEF RequestVote, LogInv, TypeOK, logVars, commitVars,
       leaderVars, batchVars, aeNet, isNet

\* The request a leader makes for an index inside its log is well formed, and
\* carries the index before it.
LEMMA AppendEntriesArgsLemma ==
  ASSUME LogInv, NEW i \in Server, NEW j \in Server, NEW n \in Nat, InRange(i, n),
         NEW entries \in Seq(Entry)
  PROVE  /\ AppendEntriesArgs(i, j, n, entries) \in AECall
         /\ AppendEntriesArgs(i, j, n, entries).Entries = entries
         /\ n > SnapshotLastIncludedIndex[i]
            => AppendEntriesArgs(i, j, n, entries).PrevLogIndex = n - 1
  <1>1. /\ Logs[i] \in Seq(Entry)
        /\ SnapshotLastIncludedIndex[i] \in Nat /\ SnapshotLastIncludedTerm[i] \in Nat
        /\ CurrentTerm[i] \in Nat /\ CommitIndex[i] \in Nat
        /\ \A k \in DOMAIN Logs[i] : Logs[i][k].Index = SnapshotLastIncludedIndex[i] + k
    BY Zenon DEF LogInv, TypeOK, LogsContiguous
  <1>2. /\ PrevEntry(i, n).Index \in Nat /\ PrevEntry(i, n).Term \in Nat
        /\ n > SnapshotLastIncludedIndex[i] => PrevEntry(i, n).Index = n - 1
    <2>1. CASE Logs[i] # <<>> /\ n > SnapshotLastIncludedIndex[i] + 1
      <3>1. n - SnapshotLastIncludedIndex[i] - 1 \in DOMAIN Logs[i]
        BY <1>1, <2>1 DEF InRange
      <3>2. Logs[i][n - SnapshotLastIncludedIndex[i] - 1] \in Entry
        BY <1>1, <3>1
      <3>3. PrevEntry(i, n) = Logs[i][n - SnapshotLastIncludedIndex[i] - 1]
        BY <2>1, Zenon DEF PrevEntry
      <3>4. PrevEntry(i, n).Index = SnapshotLastIncludedIndex[i] + (n - SnapshotLastIncludedIndex[i] - 1)
        BY <1>1, <3>1, <3>3, Zenon
      <3> QED BY <1>1, <3>2, <3>3, <3>4 DEF Entry
    <2>2. CASE ~(Logs[i] # <<>> /\ n > SnapshotLastIncludedIndex[i] + 1)
      BY <1>1, <2>2 DEF PrevEntry, InRange
    <2> QED BY <2>1, <2>2, Zenon
  <1> QED BY <1>1, <1>2, Zenon DEF AppendEntriesArgs, AECall

\* Heartbeats are well formed while NextIndex stays inside the leader's log.
LEMMA sendHeartBeatLemma ==
  ASSUME LogInv, NEW i \in Server, NEW next \in [Server -> Nat],
         \A j \in Server \ {i} : InRange(i, next[j]), sendHeartBeat(i, next)
  PROVE  aeCalls' \subseteq AECall /\ AEContiguous'
  <1> DEFINE Beat(j) == AppendEntriesArgs(i, j, next[j], <<>>)
  <1>1. aeCalls' \subseteq aeCalls \cup {Beat(j) : j \in Server \ {i}}
    BY TransitLemma, Zenon DEF sendHeartBeat
  <1>2. \A j \in Server \ {i} : Beat(j) \in AECall /\ Beat(j).Entries = <<>>
    <2> SUFFICES ASSUME NEW j \in Server \ {i}
                 PROVE  Beat(j) \in AECall /\ Beat(j).Entries = <<>>
      BY Zenon
    <2>1. next[j] \in Nat /\ InRange(i, next[j]) /\ <<>> \in Seq(Entry)
      BY EmptySeq, Zenon
    <2> QED BY <2>1, AppendEntriesArgsLemma, Zenon
  <1>3. aeCalls \subseteq AECall /\ AEContiguous
    BY Zenon DEF LogInv, TypeOK, MessagesContiguous
  <1> HIDE DEF Beat
  <1> QED BY <1>1, <1>2, <1>3 DEF AEContiguous

\* The leader's ticker only sends heartbeats, which are well numbered.
LEMMA tickerLogInv ==
  ASSUME LogInv, NEW i \in Server, ticker(i)
  PROVE  LogInv'
  <1>1. NextIndex[i] \in [Server -> Nat]
    BY Zenon DEF LogInv, TypeOK
  <1>2. aeCalls' \subseteq AECall /\ AEContiguous'
    BY <1>1, sendHeartBeatLemma, Zenon DEF ticker
  <1>3. LogsContiguous' /\ SnapshotInSync' /\ MessagesContiguous'
    BY <1>2, ZenonT(60) DEF ticker, LogInv, LogsContiguous, SnapshotInSync, MessagesContiguous, ISContiguous,
       BatchContiguous, logVars, isNet, batchVars
  <1> QED
    BY <1>2, <1>3, ZenonT(60) DEF ticker, LogInv, TypeOK, termVars, logVars, commitVars, leaderVars, batchVars,
       rvNet, isNet

\* replicateLog sends entries numbered from NextIndex, or the stored snapshot.
LEMMA replicateLogLogInv ==
  ASSUME LogInv, NEW i \in Server, NEW j \in Server, replicateLog(i, j)
  PROVE  LogInv'
  <1> DEFINE base == SnapshotLastIncludedIndex[i]
             next == NextIndex[i][j]
             args == AppendEntriesArgs(i, j, next, SubSeq(Logs[i], next - base, Len(Logs[i])))
             arg == [from |-> i, to |-> j, orphan |-> FALSE, Term |-> CurrentTerm[i],
                     LastIncludedIndex |-> SnapshotLastIncludedIndex[i],
                     LastIncludedTerm |-> SnapshotLastIncludedTerm[i], Data |-> snapshot[i]]
  <1>1. /\ Logs[i] \in Seq(Entry) /\ snapshot[i] \in Seq(Entry)
        /\ SnapshotLastIncludedIndex[i] \in Nat /\ SnapshotLastIncludedTerm[i] \in Nat
        /\ CurrentTerm[i] \in Nat /\ next \in Nat
        /\ aeCalls \subseteq AECall /\ isCalls \subseteq ISCall
    BY Zenon DEF LogInv, TypeOK
  <1>2. aeCalls' \subseteq AECall /\ isCalls' \subseteq ISCall
        /\ AEContiguous' /\ ISContiguous'
    <2>1. CASE next <= base
      <3>1. arg \in ISCall /\ Len(arg.Data) = arg.LastIncludedIndex
        BY <1>1, Zenon DEF ISCall, LogInv, SnapshotInSync
      <3>2. isCalls' \subseteq isCalls \cup {arg} /\ aeCalls' = aeCalls
        BY <2>1, TransitLemma, Zenon DEF replicateLog
      <3> HIDE DEF arg
      <3> QED BY <1>1, <3>1, <3>2, Zenon DEF LogInv, MessagesContiguous, AEContiguous, ISContiguous
    <2>2. CASE next > base
      <3>1. aeCalls' \subseteq aeCalls \cup {args} /\ isCalls' = isCalls
        <4>1. ~(next <= base)
          BY <1>1, <2>2
        <4>2. aeCalls' \in Transit(aeCalls \cup {args}) /\ isCalls' = isCalls
          BY <4>1, Zenon DEF replicateLog
        <4> QED BY <4>2, TransitLemma, Zenon
      <3> DEFINE rest == SubSeq(Logs[i], next - base, Len(Logs[i]))
      <3>2. rest \in Seq(Entry) /\ \A k \in DOMAIN rest : rest[k].Index = next - 1 + k
        <4>1. \A k \in DOMAIN Logs[i] : Logs[i][k].Index = base + k
          BY Zenon DEF LogInv, LogsContiguous
        <4>2. base \in Nat /\ next \in Nat
          BY <1>1, Zenon
        <4>3. next - base \in Nat \ {0} /\ base + (next - base) - 1 = next - 1
          BY <2>2, <4>2
        <4> HIDE DEF base, next
        <4>4. /\ SubSeq(Logs[i], next - base, Len(Logs[i])) \in Seq(Entry)
              /\ \A k \in DOMAIN SubSeq(Logs[i], next - base, Len(Logs[i])) :
                    SubSeq(Logs[i], next - base, Len(Logs[i]))[k].Index = base + (next - base) - 1 + k
          BY <1>1, <4>1, <4>2, <4>3, SuffixContiguous, Zenon
        <4> QED BY <4>3, <4>4, Zenon
      <3>3. InRange(i, next)
        BY Zenon DEF replicateLog
      <3>4. args \in AECall /\ args.Entries = rest /\ args.PrevLogIndex = next - 1
        <4> HIDE DEF rest
        <4>1. /\ AppendEntriesArgs(i, j, next, rest) \in AECall
              /\ AppendEntriesArgs(i, j, next, rest).Entries = rest
              /\ AppendEntriesArgs(i, j, next, rest).PrevLogIndex = next - 1
          BY <1>1, <2>2, <3>2, <3>3, AppendEntriesArgsLemma
        <4> QED BY <4>1, Zenon DEF rest
      <3> HIDE DEF rest
      <3> HIDE DEF args
      <3> QED BY <1>1, <3>1, <3>2, <3>4, Zenon DEF LogInv, MessagesContiguous, AEContiguous, ISContiguous
    <2> QED BY <1>1, <2>1, <2>2
  <1>3. LogsContiguous' /\ SnapshotInSync'
    BY Zenon DEF replicateLog, LogInv, LogsContiguous, SnapshotInSync, logVars
  <1>4. MessagesContiguous'
    <2>1. UNCHANGED <<snapshotMsg, applyMsgs>>
      BY Zenon DEF replicateLog, batchVars
    <2> QED BY <1>2, <2>1, Zenon DEF LogInv, MessagesContiguous, BatchContiguous
  <1> QED
    BY <1>2, <1>3, <1>4, Zenon DEF replicateLog, LogInv, TypeOK, termVars, logVars, commitVars, leaderVars,
       batchVars, rvNet

\* A new leader's NextIndex and MatchIndex are inside its log, and so are its
\* heartbeats.
LEMMA becomeLeaderLemma ==
  ASSUME LogInv, NEW i \in Server, becomeLeader(i)
  PROVE  /\ leadTerm' \in [Server -> Nat \cup {-1}]
         /\ NextIndex' \in [Server -> [Server -> Nat]]
         /\ MatchIndex' \in [Server -> [Server -> Nat]]
         /\ aeCalls' \subseteq AECall /\ AEContiguous'
  <1> DEFINE next == [j \in Server |-> LastLogIndex(i) + 1]
  <1>1. /\ LastLogIndex(i) = SnapshotLastIncludedIndex[i] + Len(Logs[i])
        /\ LastLogIndex(i) \in Nat
    BY LogIndexLemma, Zenon
  <1>2. next \in [Server -> Nat] /\ \A j \in Server : InRange(i, next[j])
    BY <1>1 DEF InRange
  <1>3. /\ leadTerm' = [leadTerm EXCEPT ![i] = CurrentTerm[i]]
        /\ MatchIndex' = [MatchIndex EXCEPT ![i] = [j \in Server |-> IF j = i THEN LastLogIndex(i) ELSE 0]]
        /\ NextIndex' = [NextIndex EXCEPT ![i] = next]
        /\ sendHeartBeat(i, next)
    BY Zenon DEF becomeLeader
  <1> HIDE DEF next
  <1>4. aeCalls' \subseteq AECall /\ AEContiguous'
    BY <1>2, <1>3, sendHeartBeatLemma, Zenon
  <1>5. leadTerm' \in [Server -> Nat \cup {-1}] /\ NextIndex' \in [Server -> [Server -> Nat]]
    BY <1>2, <1>3, Zenon DEF LogInv, TypeOK
  <1>6. MatchIndex' \in [Server -> [Server -> Nat]]
    BY <1>1, <1>3, Zenon DEF LogInv, TypeOK
  <1> QED BY <1>4, <1>5, <1>6, Zenon

\* Handling a vote touches no log, also when it makes the peer leader.
LEMMA handleVoteLogInv ==
  ASSUME LogInv, NEW r \in rvReturns, handleVote(r)
  PROVE  LogInv'
  <1> DEFINE i == r.from
  <1>1. /\ r \in RVReturn /\ i \in Server /\ r.by \in Server /\ r.Term \in Nat
        /\ r.ReplyTerm \in Nat /\ rvReturns' \subseteq RVReturn
    BY Zenon DEF LogInv, TypeOK, RVReturn, handleVote
  <1>2. UNCHANGED <<logVars, CommitIndex, LastApplied, snapshotMsg, batchVars, app, snapshot,
                    rvCalls, aeReturns, isNet, restarts>>
    BY Zenon DEF handleVote
  <1>3. \/ UNCHANGED <<CurrentTerm, VotedFor, LeaderTerm, LastNewEntryIndex, raftstate>>
        \/ StepDown(i, r.ReplyTerm) /\ persist(i)
    BY Zenon DEF handleVote, termVars
  <1>4. /\ CurrentTerm' \in [Server -> Nat] /\ VotedFor' \in [Server -> Server \cup {None}]
        /\ LeaderTerm' \in [Server -> Nat \cup {-1}] /\ LastNewEntryIndex' \in [Server -> Nat]
    BY <1>1, <1>3, StepDownLemma, Zenon DEF LogInv, TypeOK
  <1>5. State' \in [Server -> {"Leader", "Follower", "Candidate"}]
    <2>1. \/ State' = State \/ State' = [State EXCEPT ![i] = "Leader"]
          \/ State' = [State EXCEPT ![i] = "Follower"]
      BY Zenon DEF handleVote, StepDown, termVars
    <2> QED BY <1>1, <2>1, Zenon DEF LogInv, TypeOK
  <1>6. votes' \subseteq Server \X Nat \X Server
    <2>1. votes' = votes \/ votes' = votes \cup {<<i, r.Term, r.by>>}
      BY Zenon DEF handleVote, leaderVars
    <2>2. votes \subseteq Server \X Nat \X Server
      BY Zenon DEF LogInv, TypeOK
    <2> QED BY <1>1, <2>1, <2>2
  <1>7. /\ leadTerm' \in [Server -> Nat \cup {-1}]
        /\ NextIndex' \in [Server -> [Server -> Nat]] /\ MatchIndex' \in [Server -> [Server -> Nat]]
        /\ aeCalls' \subseteq AECall /\ AEContiguous'
    <2>1. becomeLeader(i) \/ UNCHANGED <<leadTerm, NextIndex, MatchIndex, aeCalls>>
      BY Zenon DEF handleVote, leaderVars
    <2>2. CASE becomeLeader(i)
      BY <1>1, <2>2, becomeLeaderLemma, Zenon
    <2>3. CASE UNCHANGED <<leadTerm, NextIndex, MatchIndex, aeCalls>>
      BY <2>3, Zenon DEF LogInv, TypeOK, MessagesContiguous, AEContiguous
    <2> QED BY <2>1, <2>2, <2>3, Zenon
  <1>8. raftstate' \in [Server -> RaftState] /\ LogsContiguous' /\ SnapshotInSync'
    <2>1. CurrentTerm'[i] \in Nat /\ VotedFor'[i] \in Server \cup {None}
      BY <1>1, <1>4, Zenon
    <2>2. persist(i) \/ UNCHANGED raftstate
      BY <1>3, Zenon
    <2> QED BY <1>1, <1>2, <2>1, <2>2, LogFrameLemma, Zenon
  <1>9. MessagesContiguous'
    BY <1>2, <1>7, ZenonT(60) DEF LogInv, MessagesContiguous, ISContiguous, BatchContiguous, isNet, batchVars
  <1> QED
    BY <1>1, <1>2, <1>4, <1>5, <1>6, <1>7, <1>8, <1>9, Zenon DEF LogInv, TypeOK, logVars, batchVars, isNet

-----------------------------------------------------------------------------
\* Start appends an entry with the next number.
LEMMA StartLogInv ==
  ASSUME LogInv, NEW i \in Server, NEW c \in Command, Start(i, c)
  PROVE  LogInv'
  <1> DEFINE index == LastLogIndex(i) + 1
             e == [Term |-> CurrentTerm[i], Index |-> index, Command |-> c]
  <1>1. /\ index = SnapshotLastIncludedIndex[i] + Len(Logs[i]) + 1 /\ index \in Nat
        /\ Logs \in [Server -> Seq(Entry)] /\ SnapshotLastIncludedIndex[i] \in Nat
    <2>1. Logs \in [Server -> Seq(Entry)] /\ SnapshotLastIncludedIndex[i] \in Nat
      BY Zenon DEF LogInv, TypeOK
    <2> QED BY <2>1, LogIndexLemma
  <1>2. e \in Entry
    BY <1>1, Zenon DEF LogInv, TypeOK, Entry
  <1>3. /\ Logs' \in [Server -> Seq(Entry)] /\ Logs'[i] = Append(Logs[i], e)
        /\ \A j \in Server \ {i} : Logs'[j] = Logs[j]
    BY <1>1, <1>2 DEF Start
  <1>4. \A k \in DOMAIN Logs'[i] : Logs'[i][k].Index = SnapshotLastIncludedIndex[i] + k
    <2> HIDE DEF e
    <2> SUFFICES ASSUME NEW k \in DOMAIN Append(Logs[i], e)
                 PROVE  Append(Logs[i], e)[k].Index = SnapshotLastIncludedIndex[i] + k
      BY <1>3, Zenon
    <2>1. CASE k \in DOMAIN Logs[i]
      <3>1. Append(Logs[i], e)[k] = Logs[i][k]
        BY <1>1, <1>2, <2>1
      <3> QED BY <2>1, <3>1, Zenon DEF LogInv, LogsContiguous
    <2>2. CASE k \notin DOMAIN Logs[i]
      <3>1. k = Len(Logs[i]) + 1 /\ Append(Logs[i], e)[k] = e /\ e.Index = index
        BY <1>1, <1>2, <2>2 DEF e
      <3> QED BY <1>1, <3>1
    <2> QED BY <2>1, <2>2, Zenon
  <1>5. NextIndex' \in [Server -> [Server -> Nat]] /\ MatchIndex' \in [Server -> [Server -> Nat]]
    <2>1. NextIndex \in [Server -> [Server -> Nat]] /\ MatchIndex \in [Server -> [Server -> Nat]]
      BY Zenon DEF LogInv, TypeOK
    <2>2. /\ NextIndex' = [NextIndex EXCEPT ![i][i] = index + 1]
          /\ MatchIndex' = [MatchIndex EXCEPT ![i][i] = index]
      BY Zenon DEF Start
    <2> HIDE DEF index
    <2> QED BY <1>1, <2>1, <2>2
  <1>6. /\ raftstate' \in [Server -> RaftState]
        /\ raftstate'[i].Logs = Logs'[i]
        /\ raftstate'[i].Index = SnapshotLastIncludedIndex'[i]
        /\ \A j \in Server \ {i} : raftstate'[j] = raftstate[j]
    <2>1. /\ raftstate \in [Server -> RaftState] /\ CurrentTerm'[i] \in Nat
          /\ VotedFor'[i] \in Server \cup {None} /\ Logs'[i] \in Seq(Entry)
          /\ SnapshotLastIncludedIndex'[i] \in Nat /\ SnapshotLastIncludedTerm'[i] \in Nat
      BY <1>3, Zenon DEF Start, LogInv, TypeOK, termVars
    <2> QED BY <2>1, PersistLemma, Zenon DEF Start
  <1>7. LogsContiguous' /\ SnapshotInSync'
    <2>1. UNCHANGED <<SnapshotLastIncludedIndex, snapshot>>
      BY Zenon DEF Start
    <2>2. SnapshotInSync'
      BY <1>6, <2>1, Zenon DEF LogInv, SnapshotInSync
    <2>3. ASSUME NEW j \in Server
          PROVE  /\ \A k \in DOMAIN Logs'[j] : Logs'[j][k].Index = SnapshotLastIncludedIndex'[j] + k
                 /\ \A k \in DOMAIN raftstate'[j].Logs : raftstate'[j].Logs[k].Index = raftstate'[j].Index + k
      <3>1. CASE j = i
        BY <1>4, <1>6, <2>1, <3>1, Zenon
      <3>2. CASE j # i
        BY <1>3, <1>6, <2>1, <3>2 DEF LogInv, LogsContiguous
      <3> QED BY <3>1, <3>2, Zenon
    <2> QED BY <2>2, <2>3, Zenon DEF LogsContiguous
  <1>8. MessagesContiguous'
    BY Zenon DEF Start, LogInv, MessagesContiguous, AEContiguous, ISContiguous, BatchContiguous, aeNet, isNet,
       batchVars
  <1> QED
    BY <1>3, <1>5, <1>6, <1>7, <1>8, Zenon DEF Start, LogInv, TypeOK, termVars, commitVars, batchVars, rvNet,
       aeNet, isNet

\* updateCommitIndex only moves CommitIndex.
LEMMA updateCommitIndexLogInv ==
  ASSUME LogInv, NEW i \in Server, updateCommitIndex(i)
  PROVE  LogInv'
  <1>1. /\ CommitIndex \in [Server -> Nat] /\ Logs[i] \in Seq(Entry)
    BY Zenon DEF LogInv, TypeOK
  <1>2. PICK top \in DOMAIN Logs[i] : CommitIndex' = [CommitIndex EXCEPT ![i] = Max(@, Logs[i][top].Index)]
    BY Zenon DEF updateCommitIndex, OwnTerm
  <1>3. Logs[i][top].Index \in Nat
    BY <1>1, <1>2, EntryLemma, Zenon
  <1>4. CommitIndex' \in [Server -> Nat]
    <2>1. Max(CommitIndex[i], Logs[i][top].Index) \in Nat
      BY <1>1, <1>3, MaxLemma, Zenon
    <2> QED BY <1>1, <1>2, <2>1, Zenon
  <1>5. UNCHANGED <<termVars, logVars, LastNewEntryIndex, leaderVars, LastApplied, snapshotMsg,
                    batchVars, app, raftstate, snapshot, rvNet, aeNet, isNet, restarts>>
    BY Zenon DEF updateCommitIndex
  <1>6. LogsContiguous' /\ SnapshotInSync' /\ MessagesContiguous'
    BY <1>5, Zenon DEF LogInv, LogsContiguous, SnapshotInSync, MessagesContiguous, AEContiguous, ISContiguous,
       BatchContiguous, logVars, aeNet, isNet, batchVars
  <1> QED
    BY <1>4, <1>5, <1>6, Zenon DEF LogInv, TypeOK, termVars, logVars, leaderVars, batchVars, rvNet, aeNet, isNet

\* Both reply handlers only touch the terms, the peer's indices and the persister.
LEMMA ReplyFrameLemma ==
  ASSUME LogInv, NEW i \in Server, NEW t \in Nat,
         UNCHANGED <<logVars, CommitIndex, votes, leadTerm, LastApplied, snapshotMsg, batchVars, app,
                     snapshot, rvNet, aeNet, isNet, restarts>>,
         \/ StepDown(i, t) /\ persist(i)
         \/ UNCHANGED <<termVars, LastNewEntryIndex, raftstate>>,
         NextIndex' \in [Server -> [Server -> Nat]], MatchIndex' \in [Server -> [Server -> Nat]]
  PROVE  LogInv'
  <1>1. /\ CurrentTerm' \in [Server -> Nat] /\ VotedFor' \in [Server -> Server \cup {None}]
        /\ LeaderTerm' \in [Server -> Nat \cup {-1}]
        /\ State' \in [Server -> {"Leader", "Follower", "Candidate"}]
        /\ LastNewEntryIndex' \in [Server -> Nat]
    BY StepDownLemma, Zenon DEF LogInv, TypeOK, termVars
  <1>2. raftstate' \in [Server -> RaftState] /\ LogsContiguous' /\ SnapshotInSync'
    <2>1. CurrentTerm'[i] \in Nat /\ VotedFor'[i] \in Server \cup {None}
      BY <1>1, Zenon
    <2> QED BY <2>1, LogFrameLemma, Zenon
  <1>3. MessagesContiguous'
    BY Zenon DEF LogInv, MessagesContiguous, AEContiguous, ISContiguous, BatchContiguous, aeNet, isNet, batchVars
  <1> QED
    BY <1>1, <1>2, <1>3, Zenon DEF LogInv, TypeOK, logVars, batchVars, rvNet, aeNet, isNet

\* The reply to InstallSnapshot moves NextIndex and MatchIndex within the naturals.
LEMMA handleSnapshotReplyLogInv ==
  ASSUME LogInv, NEW r \in isReturns, handleSnapshotReply(r)
  PROVE  LogInv'
  <1> DEFINE i == r.from
             j == r.by
  <1>1. /\ i \in Server /\ j \in Server /\ r.ReplyTerm \in Nat /\ r.LastIncludedIndex \in Nat
        /\ NextIndex \in [Server -> [Server -> Nat]] /\ MatchIndex \in [Server -> [Server -> Nat]]
    BY Zenon DEF LogInv, TypeOK, ISReturn
  <1>2. \/ StepDown(i, r.ReplyTerm) /\ persist(i) /\ UNCHANGED <<NextIndex, MatchIndex>>
        \/ /\ UNCHANGED <<termVars, LastNewEntryIndex, raftstate>>
           /\ MatchIndex' = [MatchIndex EXCEPT ![i][j] = Max(@, r.LastIncludedIndex)]
           /\ NextIndex' = [NextIndex EXCEPT ![i][j] = Max(@, r.LastIncludedIndex + 1)]
    BY Zenon DEF handleSnapshotReply
  <1>3. UNCHANGED <<logVars, CommitIndex, votes, leadTerm, LastApplied, snapshotMsg, batchVars, app,
                    snapshot, rvNet, aeNet, isNet, restarts>>
    BY Zenon DEF handleSnapshotReply
  <1> HIDE DEF i, j
  <1>4. NextIndex' \in [Server -> [Server -> Nat]] /\ MatchIndex' \in [Server -> [Server -> Nat]]
    <2>1. r.LastIncludedIndex \in Nat /\ r.LastIncludedIndex + 1 \in Nat
      <3>1. r.LastIncludedIndex \in Nat
        BY <1>1, Zenon
      <3> QED BY <3>1
    <2>2. /\ [MatchIndex EXCEPT ![i][j] = Max(@, r.LastIncludedIndex)] \in [Server -> [Server -> Nat]]
          /\ [NextIndex EXCEPT ![i][j] = Max(@, r.LastIncludedIndex + 1)] \in [Server -> [Server -> Nat]]
      BY <1>1, <2>1, CellLemma, Zenon
    <2> QED BY <1>1, <1>2, <2>2, Zenon
  <1> QED BY <1>1, <1>2, <1>3, <1>4, ReplyFrameLemma, Zenon

\* The reply to AppendEntries moves NextIndex and MatchIndex within the naturals.
LEMMA handleAppendReplyLogInv ==
  ASSUME LogInv, NEW r \in aeReturns, handleAppendReply(r)
  PROVE  LogInv'
  <1> DEFINE i == r.from
             j == r.by
             found == Logs[i][AfterTerm(i, r.ConflictTerm)].Index
  <1>1. /\ i \in Server /\ j \in Server /\ r.ReplyTerm \in Nat /\ r.ConflictIndex \in Nat
        /\ r.PrevLogIndex \in Nat /\ r.Count \in Nat /\ Logs[i] \in Seq(Entry)
        /\ NextIndex \in [Server -> [Server -> Nat]] /\ MatchIndex \in [Server -> [Server -> Nat]]
    BY ZenonT(60) DEF LogInv, TypeOK, AEReturn
  <1>2. UNCHANGED <<logVars, CommitIndex, votes, leadTerm, LastApplied, snapshotMsg, batchVars, app,
                    snapshot, rvNet, aeNet, isNet, restarts>>
    BY Zenon DEF handleAppendReply
  <1>3. \/ StepDown(i, r.ReplyTerm) /\ persist(i)
        \/ UNCHANGED <<termVars, LastNewEntryIndex, raftstate>>
    BY Zenon DEF handleAppendReply
  <1>4. \/ UNCHANGED <<NextIndex, MatchIndex>>
        \/ /\ MatchIndex' = [MatchIndex EXCEPT ![i][j] = Max(@, r.PrevLogIndex + r.Count)]
           /\ NextIndex' = [NextIndex EXCEPT ![i][j] = Max(@, r.PrevLogIndex + r.Count + 1)]
        \/ /\ UNCHANGED MatchIndex
           /\ \E n \in Nat : NextIndex' = [NextIndex EXCEPT ![i][j] = n]
    <2>1. CASE /\ r.ReplyTerm = CurrentTerm[i] /\ r.Term = CurrentTerm[i]
               /\ r.Conflict /\ NextIndex[i][j] = r.PrevLogIndex + 1
               /\ UsesAfterTerm(r) => AfterTerm(i, r.ConflictTerm) \in DOMAIN Logs[i]
               /\ NextIndex' = [NextIndex EXCEPT ![i][j] = ConflictNext(r)]
               /\ UNCHANGED MatchIndex
      <3>1. r.ConflictTerm # 0 /\ HasTerm(i, r.ConflictTerm) => found \in Nat
        BY <1>1, <2>1, EntryLemma, Zenon DEF UsesAfterTerm
      <3>2. Max(r.ConflictIndex, 1) \in Nat
        BY <1>1, Zenon DEF Max
      <3>3. ConflictNext(r) = IF r.ConflictTerm = 0 THEN Max(r.ConflictIndex, 1)
                              ELSE IF HasTerm(i, r.ConflictTerm) THEN found ELSE r.ConflictIndex
        BY Zenon DEF ConflictNext
      <3> HIDE DEF found
      <3>4. ConflictNext(r) \in Nat
        BY <1>1, <3>1, <3>2, <3>3, Zenon
      <3> QED BY <2>1, <3>4, Zenon
    <2> QED BY <2>1, Zenon DEF handleAppendReply
  <1> HIDE DEF i, j
  <1>5. NextIndex' \in [Server -> [Server -> Nat]] /\ MatchIndex' \in [Server -> [Server -> Nat]]
    <2>1. r.PrevLogIndex + r.Count \in Nat /\ r.PrevLogIndex + r.Count + 1 \in Nat
      <3>1. r.PrevLogIndex \in Nat /\ r.Count \in Nat
        BY <1>1, Zenon
      <3> QED BY <3>1
    <2>2. /\ [MatchIndex EXCEPT ![i][j] = Max(@, r.PrevLogIndex + r.Count)] \in [Server -> [Server -> Nat]]
          /\ [NextIndex EXCEPT ![i][j] = Max(@, r.PrevLogIndex + r.Count + 1)] \in [Server -> [Server -> Nat]]
          /\ \A n \in Nat : [NextIndex EXCEPT ![i][j] = n] \in [Server -> [Server -> Nat]]
      BY <1>1, <2>1, CellLemma, Zenon
    <2>3. CASE UNCHANGED <<NextIndex, MatchIndex>>
      BY <1>1, <2>3, Zenon
    <2>4. CASE /\ MatchIndex' = [MatchIndex EXCEPT ![i][j] = Max(@, r.PrevLogIndex + r.Count)]
               /\ NextIndex' = [NextIndex EXCEPT ![i][j] = Max(@, r.PrevLogIndex + r.Count + 1)]
      BY <2>2, <2>4, Zenon
    <2>5. CASE UNCHANGED MatchIndex /\ \E n \in Nat : NextIndex' = [NextIndex EXCEPT ![i][j] = n]
      <3>1. PICK n \in Nat : NextIndex' = [NextIndex EXCEPT ![i][j] = n]
        BY <2>5, Zenon
      <3>2. NextIndex' \in [Server -> [Server -> Nat]]
        BY <2>2, <3>1, Zenon
      <3> QED BY <1>1, <2>5, <3>2, Zenon
    <2> QED BY <1>4, <2>3, <2>4, <2>5, Zenon
  <1> QED BY <1>1, <1>2, <1>3, <1>5, ReplyFrameLemma, Zenon

\* The end of applyLog's batch moves LastApplied.
LEMMA applyLogDoneLogInv ==
  ASSUME LogInv, NEW i \in Server, applyLogDone(i)
  PROVE  LogInv'
  <1>1. /\ applying' \in [Server -> BOOLEAN] /\ applyTo' \in [Server -> Nat]
        /\ LastApplied' \in [Server -> Nat]
    BY Zenon DEF applyLogDone, LogInv, TypeOK, Max
  <1>2. UNCHANGED <<termVars, logVars, commitVars, leaderVars, snapshotMsg, applyMsgs, app, raftstate,
                    snapshot, rvNet, aeNet, isNet, restarts>>
    BY Zenon DEF applyLogDone
  <1>3. LogsContiguous' /\ SnapshotInSync' /\ MessagesContiguous'
    BY <1>2, Zenon DEF LogInv, LogsContiguous, SnapshotInSync, MessagesContiguous, AEContiguous, ISContiguous,
       BatchContiguous, logVars, aeNet, isNet
  <1> QED
    BY <1>1, <1>2, <1>3, Zenon DEF LogInv, TypeOK, termVars, logVars, commitVars, leaderVars, rvNet, aeNet, isNet

-----------------------------------------------------------------------------
(***************************************************************************)
(* Taking, sending, installing and delivering snapshots: log, snapshot and *)
(* raft state are trimmed together.                                        *)
(***************************************************************************)

\* makeRaftState(upto + 1), for a point at or after the snapshot, numbers what it
\* keeps from upto + 1.
LEMMA makeRaftStateLemma ==
  ASSUME LogInv, NEW i \in Server, NEW upto \in Nat, upto >= SnapshotLastIncludedIndex[i],
         CurrentTerm'[i] \in Nat, VotedFor'[i] \in Server \cup {None}
  PROVE  /\ makeRaftState(i, upto) \in RaftState
         /\ makeRaftState(i, upto).Index = upto
         /\ \A k \in DOMAIN makeRaftState(i, upto).Logs :
               makeRaftState(i, upto).Logs[k].Index = upto + k
  <1> DEFINE base == SnapshotLastIncludedIndex[i]
             n == Min(upto + 1 - Logs[i][1].Index, Len(Logs[i]))
             trims == Logs[i] # <<>> /\ upto + 1 > Logs[i][1].Index
             kept == IF trims THEN SubSeq(Logs[i], n + 1, Len(Logs[i])) ELSE Logs[i]
             idx == Max(IF trims THEN Logs[i][n].Index ELSE base, upto)
             trm == IF trims THEN Logs[i][n].Term ELSE SnapshotLastIncludedTerm[i]
  <1>1. Logs[i] \in Seq(Entry) /\ base \in Nat /\ SnapshotLastIncludedTerm[i] \in Nat
    BY Zenon DEF LogInv, TypeOK
  <1>2. \A k \in DOMAIN Logs[i] : Logs[i][k].Index = base + k
    BY ZenonT(60) DEF LogInv, LogsContiguous
  <1>3. makeRaftState(i, upto) = [CurrentTerm |-> CurrentTerm'[i], VotedFor |-> VotedFor'[i],
                                  Logs |-> kept, Index |-> idx, Term |-> trm]
    BY Zenon DEF makeRaftState
  <1> HIDE DEF base
  <1>4. /\ kept \in Seq(Entry) /\ idx = upto /\ trm \in Nat
        /\ \A k \in DOMAIN kept : kept[k].Index = upto + k
    <2>1. CASE trims
      <3>1. 1 \in DOMAIN Logs[i] /\ Logs[i][1].Index = base + 1
        BY <1>1, <1>2, <2>1
      <3>2. Len(Logs[i]) \in Nat \ {0}
        BY <1>1, <3>1
      <3>3. /\ n \in Nat \ {0} /\ n <= Len(Logs[i])
            /\ n = upto - base \/ n = Len(Logs[i])
            /\ n <= upto - base
        <4>1. upto + 1 > base + 1
          BY <2>1, <3>1, Zenon
        <4>2. upto + 1 - (base + 1) = upto - base /\ upto - base \in Nat \ {0}
          BY <1>1, <4>1
        <4>3. n = Min(upto - base, Len(Logs[i]))
          BY <3>1, <4>2, Zenon
        <4> HIDE DEF n
        <4>4. \/ n = upto - base /\ upto - base <= Len(Logs[i])
              \/ n = Len(Logs[i]) /\ Len(Logs[i]) < upto - base
          BY <3>2, <4>2, <4>3, MinLemma, Zenon
        <4> QED BY <3>2, <4>2, <4>4
      <3> HIDE DEF n
      <3>4. n \in DOMAIN Logs[i]
        BY <1>1, <3>3
      <3>5. Logs[i][n].Index = base + n /\ Logs[i][n].Term \in Nat
        BY <1>1, <1>2, <3>4, EntryLemma, Zenon
      <3>6. base + n <= upto /\ base + n \in Nat
        BY <1>1, <3>3
      <3>7. idx = upto /\ trm \in Nat
        BY <2>1, <3>5, <3>6, MaxLemma
      <3>8. kept = SubSeq(Logs[i], n + 1, Len(Logs[i]))
        BY <2>1, Zenon
      <3>9. n + 1 \in Nat \ {0}
        BY <3>3
      <3>10. /\ kept \in Seq(Entry) /\ Len(kept) = IF n + 1 <= Len(Logs[i]) THEN Len(Logs[i]) - (n + 1) + 1 ELSE 0
             /\ \A k \in DOMAIN kept : kept[k].Index = base + (n + 1) - 1 + k
        <4> HIDE DEF kept
        <4>1. /\ SubSeq(Logs[i], n + 1, Len(Logs[i])) \in Seq(Entry)
              /\ Len(SubSeq(Logs[i], n + 1, Len(Logs[i])))
                   = IF n + 1 <= Len(Logs[i]) THEN Len(Logs[i]) - (n + 1) + 1 ELSE 0
          BY <1>1, <3>9, SuffixLemma, Zenon
        <4>2. \A k \in DOMAIN SubSeq(Logs[i], n + 1, Len(Logs[i])) :
                  SubSeq(Logs[i], n + 1, Len(Logs[i]))[k].Index = base + (n + 1) - 1 + k
          BY <1>1, <1>2, <3>9, SuffixContiguous, Zenon
        <4> QED BY <3>8, <4>1, <4>2, Zenon
      <3> HIDE DEF kept
      <3>11. CASE n = upto - base
        <4>1. base + (n + 1) - 1 = upto
          BY <1>1, <3>3, <3>11
        <4> QED BY <3>7, <3>10, <4>1, Zenon
      <3>12. CASE n = Len(Logs[i])
        <4>1. Len(kept) = 0
          BY <3>2, <3>10, <3>12
        <4>2. DOMAIN kept = {}
          BY <3>10, <4>1
        <4> QED BY <3>7, <3>10, <4>2, Zenon
      <3> QED BY <3>3, <3>11, <3>12, Zenon
    <2>2. CASE ~trims
      <3>1. kept = Logs[i] /\ idx = Max(base, upto) /\ trm = SnapshotLastIncludedTerm[i]
        BY <2>2, Zenon
      <3>2. idx = upto
        BY <1>1, <3>1, MaxLemma, ZenonT(60) DEF base
      <3>3. CASE Logs[i] = <<>>
        <4>1. DOMAIN <<>> = {}
          BY SMTT(60)
        <4> QED BY <1>1, <3>1, <3>2, <3>3, <4>1, ZenonT(60)
      <3>4. CASE Logs[i] # <<>>
        <4>1. 1 \in DOMAIN Logs[i] /\ Logs[i][1].Index = base + 1
          BY <1>1, <1>2, <3>4
        <4>2. ~(upto + 1 > base + 1)
          BY <2>2, <3>4, <4>1, Zenon
        <4>3. upto = base
          BY <1>1, <4>2 DEF base
        <4> QED BY <1>1, <1>2, <3>1, <3>2, <4>3, ZenonT(60)
      <3> QED BY <3>3, <3>4, ZenonT(60)
    <2> QED BY <2>1, <2>2, Zenon
  <1> HIDE DEF kept, idx, trm
  <1> QED BY <1>3, <1>4, SMTT(60) DEF RaftState

\* Replacing log, snapshot and raft state of peer i together keeps them contiguous.
LEMMA TrimLemma ==
  ASSUME LogInv, NEW i \in Server, NEW upto \in Nat, upto >= SnapshotLastIncludedIndex[i],
         CurrentTerm'[i] \in Nat, VotedFor'[i] \in Server \cup {None},
         NEW data \in Seq(Entry), Len(data) = upto,
         raftstate' = [raftstate EXCEPT ![i] = makeRaftState(i, upto)],
         snapshot' = [snapshot EXCEPT ![i] = data],
         Logs' = [Logs EXCEPT ![i] = makeRaftState(i, upto).Logs],
         SnapshotLastIncludedIndex' = [SnapshotLastIncludedIndex EXCEPT ![i] = upto]
  PROVE  /\ raftstate' \in [Server -> RaftState] /\ snapshot' \in [Server -> Seq(Entry)]
         /\ Logs' \in [Server -> Seq(Entry)] /\ SnapshotLastIncludedIndex' \in [Server -> Nat]
         /\ LogsContiguous' /\ SnapshotInSync'
  <1> DEFINE rs == makeRaftState(i, upto)
  <1>1. /\ rs \in RaftState /\ rs.Index = upto
        /\ \A k \in DOMAIN rs.Logs : rs.Logs[k].Index = upto + k
    BY makeRaftStateLemma, Zenon
  <1>2. rs.Logs \in Seq(Entry)
    BY <1>1, Zenon DEF RaftState
  <1> HIDE DEF rs
  <1>3. /\ raftstate \in [Server -> RaftState] /\ snapshot \in [Server -> Seq(Entry)]
        /\ Logs \in [Server -> Seq(Entry)] /\ SnapshotLastIncludedIndex \in [Server -> Nat]
    BY Zenon DEF LogInv, TypeOK
  <1>4. /\ raftstate' = [raftstate EXCEPT ![i] = rs] /\ Logs' = [Logs EXCEPT ![i] = rs.Logs]
    BY Zenon DEF rs
  <1>5. /\ raftstate' \in [Server -> RaftState] /\ snapshot' \in [Server -> Seq(Entry)]
        /\ Logs' \in [Server -> Seq(Entry)] /\ SnapshotLastIncludedIndex' \in [Server -> Nat]
    BY <1>1, <1>2, <1>3, <1>4
  <1>6. /\ raftstate'[i] = rs /\ Logs'[i] = rs.Logs /\ snapshot'[i] = data
        /\ SnapshotLastIncludedIndex'[i] = upto
        /\ \A j \in Server \ {i} : /\ raftstate'[j] = raftstate[j] /\ Logs'[j] = Logs[j]
                                   /\ snapshot'[j] = snapshot[j]
                                   /\ SnapshotLastIncludedIndex'[j] = SnapshotLastIncludedIndex[j]
    BY <1>3, <1>4, Zenon
  <1>7. SnapshotInSync'
    BY <1>1, <1>6 DEF LogInv, SnapshotInSync
  <1>8. ASSUME NEW j \in Server
        PROVE  /\ \A k \in DOMAIN Logs'[j] : Logs'[j][k].Index = SnapshotLastIncludedIndex'[j] + k
               /\ \A k \in DOMAIN raftstate'[j].Logs : raftstate'[j].Logs[k].Index = raftstate'[j].Index + k
    <2>1. CASE j = i
      BY <1>1, <1>6, <2>1
    <2>2. CASE j # i
      BY <1>6, <2>2 DEF LogInv, LogsContiguous
    <2> QED BY <2>1, <2>2, Zenon
  <1> QED BY <1>5, <1>7, <1>8, Zenon DEF LogsContiguous

\* TrimTo, the common part of Snapshot and InstallSnapshot, keeps log, snapshot and
\* persister in step.
LEMMA TrimToLemma ==
  ASSUME LogInv, NEW i \in Server, NEW index \in Nat, NEW data \in Seq(Entry), Len(data) = index,
         TrimTo(i, index, data), UNCHANGED termVars
  PROVE  /\ raftstate' \in [Server -> RaftState] /\ snapshot' \in [Server -> Seq(Entry)]
         /\ Logs' \in [Server -> Seq(Entry)] /\ SnapshotLastIncludedIndex' \in [Server -> Nat]
         /\ SnapshotLastIncludedTerm' \in [Server -> Nat]
         /\ CommitIndex' \in [Server -> Nat] /\ LastApplied' \in [Server -> Nat]
         /\ LogsContiguous' /\ SnapshotInSync'
  <1> DEFINE rs == makeRaftState(i, index)
  <1>1. CASE SnapshotLastIncludedIndex[i] > index
    <2>1. UNCHANGED <<logVars, CommitIndex, LastApplied, raftstate, snapshot>>
      BY <1>1, Zenon DEF TrimTo, SaveStateAndSnapshot
    <2> QED BY <2>1, Zenon DEF LogInv, TypeOK, LogsContiguous, SnapshotInSync, logVars
  <1>2. CASE ~(SnapshotLastIncludedIndex[i] > index)
    <2>1. /\ CurrentTerm'[i] \in Nat /\ VotedFor'[i] \in Server \cup {None}
          /\ SnapshotLastIncludedIndex[i] \in Nat
          /\ CommitIndex \in [Server -> Nat] /\ LastApplied \in [Server -> Nat]
          /\ SnapshotLastIncludedTerm \in [Server -> Nat]
      BY Zenon DEF LogInv, TypeOK, termVars
    <2>2. index >= SnapshotLastIncludedIndex[i]
      BY <1>2, <2>1
    <2>3. rs \in RaftState /\ rs.Index = index
      BY <2>1, <2>2, makeRaftStateLemma, Zenon
    <2>4. /\ raftstate' = [raftstate EXCEPT ![i] = rs]
          /\ snapshot' = [snapshot EXCEPT ![i] = data]
          /\ Logs' = [Logs EXCEPT ![i] = rs.Logs]
          /\ SnapshotLastIncludedIndex' = [SnapshotLastIncludedIndex EXCEPT ![i] = Max(rs.Index, index)]
          /\ SnapshotLastIncludedTerm' = [SnapshotLastIncludedTerm EXCEPT ![i] = rs.Term]
          /\ CommitIndex' = [CommitIndex EXCEPT ![i] = Max(@, index)]
          /\ LastApplied' = [LastApplied EXCEPT ![i] = Max(@, index)]
      BY <1>2, Zenon DEF TrimTo, SaveStateAndSnapshot
    <2>5. Max(rs.Index, index) = index
      BY <2>3, MaxLemma
    <2>6. /\ raftstate' \in [Server -> RaftState] /\ snapshot' \in [Server -> Seq(Entry)]
          /\ Logs' \in [Server -> Seq(Entry)] /\ SnapshotLastIncludedIndex' \in [Server -> Nat]
          /\ LogsContiguous' /\ SnapshotInSync'
      BY <2>1, <2>2, <2>4, <2>5, TrimLemma, ZenonT(60)
    <2> HIDE DEF rs
    <2>7. SnapshotLastIncludedTerm' \in [Server -> Nat]
      BY <2>1, <2>3, <2>4, ZenonT(60) DEF RaftState
    <2>8. Max(CommitIndex[i], index) \in Nat /\ Max(LastApplied[i], index) \in Nat
      BY <2>1, MaxLemma, ZenonT(60)
    <2>9. CommitIndex' \in [Server -> Nat] /\ LastApplied' \in [Server -> Nat]
      BY <2>1, <2>4, <2>8, Zenon
    <2> QED BY <2>6, <2>7, <2>9, Zenon
  <1> QED BY <1>1, <1>2, Zenon

\* Snapshot trims the log to an index the service has applied.
LEMMA SnapshotLogInv ==
  ASSUME LogInv, NEW i \in Server, Snapshot(i)
  PROVE  LogInv'
  <1>1. app[i] \in Seq(Entry) /\ Len(app[i]) \in Nat
    BY DEF LogInv, TypeOK
  <1>2. /\ UNCHANGED <<termVars, LastNewEntryIndex, leaderVars, snapshotMsg, batchVars, app, rvNet, aeNet,
                       isNet, restarts>>
        /\ TrimTo(i, Len(app[i]), app[i])
    BY Zenon DEF Snapshot
  <1>3. /\ raftstate' \in [Server -> RaftState] /\ snapshot' \in [Server -> Seq(Entry)]
        /\ Logs' \in [Server -> Seq(Entry)] /\ SnapshotLastIncludedIndex' \in [Server -> Nat]
        /\ SnapshotLastIncludedTerm' \in [Server -> Nat]
        /\ CommitIndex' \in [Server -> Nat] /\ LastApplied' \in [Server -> Nat]
        /\ LogsContiguous' /\ SnapshotInSync'
    BY <1>1, <1>2, TrimToLemma, Zenon
  <1>4. MessagesContiguous'
    BY <1>2, ZenonT(60) DEF LogInv, MessagesContiguous, AEContiguous, ISContiguous, BatchContiguous, aeNet, isNet,
       batchVars
  <1> QED
    BY <1>2, <1>3, <1>4, ZenonT(60) DEF LogInv, TypeOK, termVars, leaderVars, batchVars, rvNet, aeNet, isNet

\* Delivering a message trims nothing unless it is a snapshot, and then as Snapshot
\* does.
LEMMA deliverLogInv ==
  ASSUME LogInv, NEW i \in Server, deliver(i)
  PROVE  LogInv'
  <1> DEFINE m == Head(applyMsgs[i])
             Msg == SnapshotMsg \cup CommandMsg
  <1>1. /\ applyMsgs \in [Server -> Seq(Msg)] /\ app \in [Server -> Seq(Entry)] /\ applyMsgs[i] # <<>>
    BY Zenon DEF LogInv, TypeOK, deliver
  <1>2. /\ m \in Msg /\ Tail(applyMsgs[i]) \in Seq(Msg) /\ m = applyMsgs[i][1] /\ 1 \in DOMAIN applyMsgs[i]
        /\ \A k \in DOMAIN Tail(applyMsgs[i]) : /\ k + 1 \in DOMAIN applyMsgs[i]
                                                /\ Tail(applyMsgs[i])[k] = applyMsgs[i][k + 1]
    <2> HIDE DEF Msg
    <2> QED BY <1>1
  <1>3. /\ ~m.SnapshotValid => m.Command \in Entry
        /\ m.SnapshotValid => m.Snapshot \in Seq(Entry) /\ m.SnapshotIndex \in Nat
                              /\ Len(m.Snapshot) = m.SnapshotIndex
    <2>1. m.SnapshotValid => Len(m.Snapshot) = m.SnapshotIndex
      BY <1>2 DEF LogInv, MessagesContiguous, BatchContiguous
    <2> HIDE DEF m
    <2> QED BY <1>2, <2>1, Zenon DEF SnapshotMsg, CommandMsg
  <1>4. /\ applyMsgs' = [applyMsgs EXCEPT ![i] = Tail(@)]
        /\ UNCHANGED <<termVars, LastNewEntryIndex, leaderVars, snapshotMsg, applyTo, applying, rvNet,
                       aeNet, isNet, restarts>>
    BY Zenon DEF deliver
  <1>5. /\ applyMsgs' \in [Server -> Seq(Msg)] /\ applyMsgs'[i] = Tail(applyMsgs[i])
        /\ \A j \in Server \ {i} : applyMsgs'[j] = applyMsgs[j]
    <2> HIDE DEF Msg
    <2> QED BY <1>1, <1>2, <1>4, Zenon
  <1>6. MessagesContiguous'
    <2>1. AEContiguous' /\ ISContiguous'
      BY <1>4, Zenon DEF LogInv, MessagesContiguous, AEContiguous, ISContiguous, aeNet, isNet
    <2>2. ASSUME NEW j \in Server
          PROVE  /\ Len(snapshotMsg'[j].Snapshot) = snapshotMsg'[j].SnapshotIndex
                 /\ \A k \in DOMAIN applyMsgs'[j] :
                       applyMsgs'[j][k].SnapshotValid
                       => Len(applyMsgs'[j][k].Snapshot) = applyMsgs'[j][k].SnapshotIndex
      BY <1>2, <1>4, <1>5, SMTT(60) DEF LogInv, MessagesContiguous, BatchContiguous
    <2> QED BY <2>1, <2>2, Zenon DEF MessagesContiguous, BatchContiguous
  <1>7. /\ raftstate' \in [Server -> RaftState] /\ snapshot' \in [Server -> Seq(Entry)]
        /\ Logs' \in [Server -> Seq(Entry)] /\ SnapshotLastIncludedIndex' \in [Server -> Nat]
        /\ SnapshotLastIncludedTerm' \in [Server -> Nat]
        /\ CommitIndex' \in [Server -> Nat] /\ LastApplied' \in [Server -> Nat]
        /\ LogsContiguous' /\ SnapshotInSync' /\ app' \in [Server -> Seq(Entry)]
    <2>1. CASE UNCHANGED <<logVars, CommitIndex, LastApplied, raftstate, snapshot>>
      <3>1. app' \in [Server -> Seq(Entry)]
        <4>1. \/ ~m.SnapshotValid /\ app' = [app EXCEPT ![i] = Append(@, m.Command)]
              \/ m.SnapshotValid /\ app' = [app EXCEPT ![i] = m.Snapshot]
              \/ app' = app
          BY Zenon DEF deliver
        <4> HIDE DEF m
        <4>2. app[i] \in Seq(Entry)
          BY <1>1, Zenon
        <4>3. ~m.SnapshotValid => Append(app[i], m.Command) \in Seq(Entry)
          BY <1>3, <4>2
        <4>4. m.SnapshotValid => m.Snapshot \in Seq(Entry)
          BY <1>3, Zenon
        <4> QED BY <1>1, <4>1, <4>3, <4>4, Zenon
      <3> QED BY <2>1, <3>1, Zenon DEF LogInv, TypeOK, LogsContiguous, SnapshotInSync, logVars
    <2>2. CASE m.SnapshotValid /\ app' = [app EXCEPT ![i] = m.Snapshot] /\ TrimTo(i, Len(m.Snapshot), m.Snapshot)
      <3> HIDE DEF m
      <3>1. app' \in [Server -> Seq(Entry)]
        BY <1>1, <1>3, <2>2, Zenon
      <3>2. m.Snapshot \in Seq(Entry) /\ Len(m.Snapshot) \in Nat /\ UNCHANGED termVars
        BY <1>3, <1>4, <2>2, Zenon
      <3> QED BY <2>2, <3>1, <3>2, TrimToLemma, Zenon
    <2> QED BY <2>1, <2>2, ZenonT(60) DEF deliver
  <1> QED
    BY <1>4, <1>5, <1>6, <1>7, Zenon DEF LogInv, TypeOK, termVars, leaderVars, rvNet, aeNet, isNet

\* applyLog collects the waiting snapshot and the committed entries, as they are.
LEMMA applyLogCollectLogInv ==
  ASSUME LogInv, NEW i \in Server, applyLogCollect(i)
  PROVE  LogInv'
  <1> DEFINE base == SnapshotLastIncludedIndex[i]
             snap == snapshotMsg[i]
             some == CommitIndex[i] > LastApplied[i]
             first == Max(LastApplied[i], snap.SnapshotIndex) - base + 1
             last == CommitIndex[i] - base
             news == IF some THEN SubSeq(Logs[i], first, last) ELSE <<>>
             Head1 == IF snap.SnapshotIndex # 0 THEN <<snap>> ELSE <<>>
             Rest == [k \in 1..Len(news) |-> [SnapshotValid |-> FALSE, Command |-> news[k]]]
             Msg == SnapshotMsg \cup CommandMsg
  <1>1. /\ Logs[i] \in Seq(Entry) /\ base \in Nat /\ snapshotMsg \in [Server -> SnapshotMsg]
        /\ CommitIndex[i] \in Nat /\ LastApplied[i] \in Nat
        /\ applyMsgs \in [Server -> Seq(Msg)]
        /\ applyTo \in [Server -> Nat] /\ applying \in [Server -> BOOLEAN]
    BY ZenonT(60) DEF LogInv, TypeOK
  <1>2. snap \in SnapshotMsg /\ snap.SnapshotIndex \in Nat
    BY <1>1, Zenon DEF SnapshotMsg
  <1>3. /\ some => LastApplied[i] >= base /\ CommitIndex[i] <= base + Len(Logs[i])
        /\ applying' = [applying EXCEPT ![i] = TRUE]
        /\ applyMsgs' = [applyMsgs EXCEPT ![i] = Head1 \o Rest]
        /\ applyTo' = [applyTo EXCEPT ![i] = IF some THEN Logs[i][CommitIndex[i] - base].Index ELSE 0]
        /\ snapshotMsg' = [snapshotMsg EXCEPT ![i] = NoSnapshotMsg]
        /\ UNCHANGED <<termVars, logVars, commitVars, leaderVars, LastApplied, app, raftstate, snapshot,
                       rvNet, aeNet, isNet, restarts>>
    BY ZenonT(60) DEF applyLogCollect
  <1>4. some => last \in DOMAIN Logs[i]
    <2>1. some => LastApplied[i] >= base /\ CommitIndex[i] <= base + Len(Logs[i])
      BY <1>3, Zenon
    <2>2. Logs[i] \in Seq(Entry) /\ base \in Nat /\ CommitIndex[i] \in Nat /\ LastApplied[i] \in Nat
      BY <1>1, Zenon
    <2> QED BY <2>1, <2>2
  <1>5. applyTo' \in [Server -> Nat] /\ applying' \in [Server -> BOOLEAN]
    <2>1. some => Logs[i][CommitIndex[i] - base].Index \in Nat
      BY <1>1, <1>4, EntryLemma, Zenon
    <2> QED BY <1>1, <1>3, <2>1, Zenon
  <1>6. NoSnapshotMsg \in SnapshotMsg /\ Len(NoSnapshotMsg.Snapshot) = NoSnapshotMsg.SnapshotIndex
    BY DEF NoSnapshotMsg, SnapshotMsg
  <1>7. /\ snapshotMsg' \in [Server -> SnapshotMsg]
        /\ snapshotMsg'[i] = NoSnapshotMsg
        /\ \A j \in Server \ {i} : snapshotMsg'[j] = snapshotMsg[j]
    BY <1>1, <1>3, <1>6, Zenon
  <1>8. news \in Seq(Entry) /\ Len(news) \in Nat
    <2>1. CASE some
      <3>1. /\ Max(LastApplied[i], snap.SnapshotIndex) \in Nat
            /\ Max(LastApplied[i], snap.SnapshotIndex) >= LastApplied[i]
        BY <1>1, <1>2, MaxLemma, Zenon
      <3>2. first \in Nat \ {0} /\ last \in Nat
        <4>1. LastApplied[i] >= base /\ CommitIndex[i] > LastApplied[i]
          BY <1>3, <2>1, Zenon
        <4>2. base \in Nat /\ LastApplied[i] \in Nat /\ CommitIndex[i] \in Nat
          BY <1>1, Zenon
        <4>3. last \in Nat
          BY <4>1, <4>2
        <4> QED BY <3>1, <4>1, <4>2, <4>3
      <3>3. \A k \in first..last : Logs[i][k] \in Entry
        <4>1. Logs[i] \in Seq(Entry) /\ last \in DOMAIN Logs[i]
          BY <1>1, <1>4, <2>1, Zenon
        <4> HIDE DEF first, last
        <4>2. \A k \in first..last : k \in DOMAIN Logs[i]
          BY <3>2, <4>1
        <4> QED BY <4>1, <4>2, EntryLemma, Zenon
      <3>4. SubSeq(Logs[i], first, last) \in Seq(Entry)
        <4> HIDE DEF first, last
        <4> QED BY <3>2, <3>3, SubSeqProperties
      <3> QED BY <2>1, <3>4
    <2>2. CASE ~some
      BY <2>2
    <2> QED BY <2>1, <2>2, Zenon
  <1> HIDE DEF news
  <1>9. Rest \in Seq(CommandMsg) /\ \A k \in DOMAIN Rest : Rest[k].SnapshotValid = FALSE
    <2>1. \A k \in 1..Len(news) : [SnapshotValid |-> FALSE, Command |-> news[k]] \in CommandMsg
      BY <1>8 DEF CommandMsg
    <2> QED BY <1>8, <2>1
  <1>10. /\ Head1 \in Seq(SnapshotMsg)
         /\ \A k \in DOMAIN Head1 : Head1[k] = snap
    <2> HIDE DEF snap
    <2> QED BY <1>2
  <1>11. Len(snap.Snapshot) = snap.SnapshotIndex
    BY Zenon DEF LogInv, MessagesContiguous, BatchContiguous
  <1> HIDE DEF Rest, Head1, snap
  <1>12. /\ Head1 \o Rest \in Seq(Msg)
         /\ \A k \in DOMAIN (Head1 \o Rest) :
               (Head1 \o Rest)[k].SnapshotValid
               => Len((Head1 \o Rest)[k].Snapshot) = (Head1 \o Rest)[k].SnapshotIndex
    <2>1. Head1 \in Seq(Msg) /\ Rest \in Seq(Msg)
      BY <1>9, <1>10
    <2>2. /\ Head1 \o Rest \in Seq(Msg) /\ Len(Head1 \o Rest) = Len(Head1) + Len(Rest)
          /\ \A k \in 1..(Len(Head1) + Len(Rest)) :
                (Head1 \o Rest)[k] = IF k <= Len(Head1) THEN Head1[k] ELSE Rest[k - Len(Head1)]
      <3> HIDE DEF Msg
      <3> QED BY <2>1, ConcatProperties, Zenon
    <2>3. ASSUME NEW k \in DOMAIN (Head1 \o Rest)
          PROVE  (Head1 \o Rest)[k] = snap \/ (Head1 \o Rest)[k].SnapshotValid = FALSE
      <3>1. k \in 1..(Len(Head1) + Len(Rest)) /\ Len(Head1) \in Nat /\ Len(Rest) \in Nat
        <4> HIDE DEF Msg
        <4> QED BY <2>1, <2>2
      <3>2. CASE k <= Len(Head1)
        <4>1. k \in DOMAIN Head1
          BY <1>10, <3>1, <3>2
        <4> QED BY <1>10, <2>2, <3>1, <3>2, <4>1, Zenon
      <3>3. CASE ~(k <= Len(Head1))
        <4>1. k - Len(Head1) \in DOMAIN Rest
          BY <1>9, <3>1, <3>3
        <4> QED BY <1>9, <2>2, <3>1, <3>3, <4>1, Zenon
      <3> QED BY <3>2, <3>3, Zenon
    <2> QED BY <1>11, <2>2, <2>3, Zenon
  <1>13. /\ applyMsgs' \in [Server -> Seq(Msg)]
         /\ applyMsgs'[i] = Head1 \o Rest
         /\ \A j \in Server \ {i} : applyMsgs'[j] = applyMsgs[j]
    <2> HIDE DEF Msg
    <2> QED BY <1>1, <1>3, <1>12, Zenon
  <1>14. MessagesContiguous'
    <2>1. AEContiguous' /\ ISContiguous'
      BY <1>3, Zenon DEF LogInv, MessagesContiguous, AEContiguous, ISContiguous, aeNet, isNet
    <2>2. ASSUME NEW j \in Server
          PROVE  /\ Len(snapshotMsg'[j].Snapshot) = snapshotMsg'[j].SnapshotIndex
                 /\ \A k \in DOMAIN applyMsgs'[j] :
                       applyMsgs'[j][k].SnapshotValid
                       => Len(applyMsgs'[j][k].Snapshot) = applyMsgs'[j][k].SnapshotIndex
      <3>1. CASE j = i
        BY <1>6, <1>7, <1>12, <1>13, <3>1, ZenonT(60)
      <3>2. CASE j # i
        BY <1>7, <1>13, <3>2 DEF LogInv, MessagesContiguous, BatchContiguous
      <3> QED BY <3>1, <3>2, Zenon
    <2> QED BY <2>1, <2>2 DEF MessagesContiguous, BatchContiguous
  <1>15. LogsContiguous' /\ SnapshotInSync'
    BY <1>3, Zenon DEF LogInv, LogsContiguous, SnapshotInSync, logVars
  <1> QED
    BY <1>3, <1>5, <1>7, <1>13, <1>14, <1>15, ZenonT(60) DEF LogInv, TypeOK, termVars, logVars,
       commitVars, leaderVars, rvNet, aeNet, isNet

\* What InstallSnapshot answers is a reply.
LEMMA ISReplyLemma ==
  ASSUME NEW from \in Server, NEW by \in Server, NEW t \in Nat, NEW replyTerm \in Nat, NEW n \in Nat
  PROVE  [from |-> from, by |-> by, Term |-> t, ReplyTerm |-> replyTerm, LastIncludedIndex |-> n,
          Success |-> t >= replyTerm] \in ISReturn
  BY SMTT(60) DEF ISReturn

\* InstallSnapshot keeps the part of the log after the snapshot, and hands the
\* snapshot to applyLog.
LEMMA InstallSnapshotLogInv ==
  ASSUME LogInv, NEW m \in isCalls, InstallSnapshot(m)
  PROVE  LogInv'
  <1> DEFINE i == m.to
             upto == m.LastIncludedIndex
             fresh == m.Term # LeaderTerm[i] \/ m.Term > CurrentTerm[i]
             old == \/ SnapshotLastIncludedIndex[i] >= upto
                    \/ snapshotMsg[i].SnapshotIndex > upto
             reply == [from |-> m.from, by |-> i, Term |-> m.Term, ReplyTerm |-> CurrentTerm[i],
                       LastIncludedIndex |-> upto, Success |-> m.Term >= CurrentTerm[i]]
  <1>1. /\ m \in ISCall /\ i \in Server /\ m.from \in Server /\ m.Term \in Nat /\ upto \in Nat
        /\ m.LastIncludedTerm \in Nat /\ m.Data \in Seq(Entry) /\ Len(m.Data) = upto
    BY Zenon DEF LogInv, TypeOK, MessagesContiguous, ISContiguous, ISCall
  <1>2. isReturns' \subseteq ISReturn
    <2>1. reply \in ISReturn
      <3>1. CurrentTerm[i] \in Nat
        BY <1>1, Zenon DEF LogInv, TypeOK
      <3>2. m.from \in Server /\ i \in Server /\ m.Term \in Nat /\ upto \in Nat
        BY <1>1, Zenon
      <3> QED BY <3>1, <3>2, ISReplyLemma, Zenon
    <2>2. isReturns' \subseteq isReturns \cup {reply}
      BY TransitLemma, Zenon DEF InstallSnapshot, SaveStateAndSnapshot, Heeded
    <2> HIDE DEF reply
    <2> QED BY <2>1, <2>2, Zenon DEF LogInv, TypeOK
  <1>3. UNCHANGED <<leaderVars, batchVars, app, rvNet, aeNet, isCalls, restarts>>
    BY ZenonT(60) DEF InstallSnapshot, SaveStateAndSnapshot
  <1>4. AEContiguous' /\ ISContiguous'
    BY <1>3, Zenon DEF LogInv, MessagesContiguous, AEContiguous, ISContiguous, aeNet
  <1>5. CASE UNCHANGED <<termVars, logVars, commitVars, LastApplied, snapshotMsg, raftstate, snapshot>>
    <2>1. LogsContiguous' /\ SnapshotInSync' /\ BatchContiguous'
      BY <1>3, <1>5, ZenonT(60) DEF LogInv, LogsContiguous, SnapshotInSync, MessagesContiguous, BatchContiguous,
         logVars, batchVars
    <2> QED BY <1>2, <1>3, <1>4, <1>5, <2>1, Zenon DEF LogInv, TypeOK, MessagesContiguous, termVars, logVars,
            commitVars, leaderVars, batchVars, rvNet, aeNet
  <1>6. CASE /\ m.Term >= CurrentTerm[i]
             /\ State' = [State EXCEPT ![i] = "Follower"]
             /\ CurrentTerm' = [CurrentTerm EXCEPT ![i] = m.Term]
             /\ LeaderTerm' = [LeaderTerm EXCEPT ![i] = m.Term]
             /\ VotedFor' = [VotedFor EXCEPT ![i] = IF fresh THEN None ELSE @]
             /\ LastNewEntryIndex' = [LastNewEntryIndex EXCEPT ![i] = IF fresh THEN CommitIndex[i] ELSE @]
    <2>1. /\ CurrentTerm' \in [Server -> Nat] /\ VotedFor' \in [Server -> Server \cup {None}]
          /\ LeaderTerm' \in [Server -> Nat \cup {-1}]
          /\ State' \in [Server -> {"Leader", "Follower", "Candidate"}]
          /\ LastNewEntryIndex' \in [Server -> Nat]
      <3> HIDE DEF fresh
      <3> QED BY <1>1, <1>6, Zenon DEF LogInv, TypeOK
    <2>2. CurrentTerm'[i] \in Nat /\ VotedFor'[i] \in Server \cup {None}
      BY <1>1, <2>1, Zenon
    <2>3. CASE old /\ UNCHANGED <<logVars, CommitIndex, LastApplied, snapshotMsg, snapshot>> /\ persist(i)
      <3>1. raftstate' \in [Server -> RaftState] /\ LogsContiguous' /\ SnapshotInSync'
        BY <1>1, <2>2, <2>3, LogFrameLemma, Zenon
      <3>2. BatchContiguous'
        BY <1>3, <2>3, Zenon DEF LogInv, MessagesContiguous, BatchContiguous, batchVars
      <3> QED BY <1>2, <1>3, <1>4, <2>1, <2>3, <3>1, <3>2, ZenonT(60) DEF LogInv, TypeOK, MessagesContiguous, logVars,
              leaderVars, batchVars, rvNet, aeNet
    <2>4. CASE /\ ~old
               /\ snapshotMsg' = [snapshotMsg EXCEPT ![i] =
                     [SnapshotValid |-> TRUE, SnapshotIndex |-> upto, Snapshot |-> m.Data]]
               /\ raftstate' = [raftstate EXCEPT ![i] = makeRaftState(i, upto)]
               /\ snapshot' = [snapshot EXCEPT ![i] = m.Data]
               /\ Logs' = [Logs EXCEPT ![i] = makeRaftState(i, upto).Logs]
               /\ SnapshotLastIncludedIndex' = [SnapshotLastIncludedIndex EXCEPT ![i] = upto]
               /\ SnapshotLastIncludedTerm' = [SnapshotLastIncludedTerm EXCEPT ![i] = m.LastIncludedTerm]
               /\ CommitIndex' = [CommitIndex EXCEPT ![i] = Max(@, upto)]
               /\ LastApplied' = [LastApplied EXCEPT ![i] = Max(@, upto)]
      <3>1. /\ CommitIndex \in [Server -> Nat] /\ LastApplied \in [Server -> Nat]
            /\ SnapshotLastIncludedTerm \in [Server -> Nat] /\ SnapshotLastIncludedIndex[i] \in Nat
            /\ snapshotMsg \in [Server -> SnapshotMsg]
        BY <1>1, ZenonT(60) DEF LogInv, TypeOK
      <3>2. upto >= SnapshotLastIncludedIndex[i]
        <4>1. ~(SnapshotLastIncludedIndex[i] >= upto)
          BY <2>4, Zenon
        <4>2. upto \in Nat /\ SnapshotLastIncludedIndex[i] \in Nat
          BY <1>1, <3>1, Zenon
        <4> QED BY <4>1, <4>2
      <3>3. /\ raftstate' \in [Server -> RaftState] /\ snapshot' \in [Server -> Seq(Entry)]
            /\ Logs' \in [Server -> Seq(Entry)] /\ SnapshotLastIncludedIndex' \in [Server -> Nat]
            /\ LogsContiguous' /\ SnapshotInSync'
        BY <1>1, <2>2, <2>4, <3>2, TrimLemma, ZenonT(60)
      <3> HIDE DEF i, upto
      <3>4. SnapshotLastIncludedTerm' \in [Server -> Nat]
        BY <1>1, <2>4, <3>1, Zenon
      <3>5. CommitIndex' \in [Server -> Nat] /\ LastApplied' \in [Server -> Nat]
        <4>1. Max(CommitIndex[i], upto) \in Nat /\ Max(LastApplied[i], upto) \in Nat
          BY <1>1, <3>1, MaxLemma, ZenonT(60)
        <4> QED BY <1>1, <2>4, <3>1, <4>1, Zenon
      <3> DEFINE msg == [SnapshotValid |-> TRUE, SnapshotIndex |-> upto, Snapshot |-> m.Data]
      <3>6. msg \in SnapshotMsg /\ Len(msg.Snapshot) = msg.SnapshotIndex
        BY <1>1, Zenon DEF SnapshotMsg
      <3>7. snapshotMsg' = [snapshotMsg EXCEPT ![i] = msg]
        BY <2>4, Zenon
      <3> HIDE DEF msg
      <3>8. /\ snapshotMsg' \in [Server -> SnapshotMsg] /\ snapshotMsg'[i] = msg
            /\ \A j \in Server \ {i} : snapshotMsg'[j] = snapshotMsg[j]
        BY <1>1, <3>1, <3>6, <3>7, Zenon
      <3>9. BatchContiguous'
        BY <1>3, <3>6, <3>8, ZenonT(60) DEF LogInv, MessagesContiguous, BatchContiguous, batchVars
      <3> QED BY <1>2, <1>3, <1>4, <2>1, <3>3, <3>4, <3>5, <3>8, <3>9, Zenon DEF LogInv, TypeOK, MessagesContiguous,
              leaderVars, batchVars, rvNet, aeNet
    <2>5. ~(m.Term < CurrentTerm[i])
      <3>1. m.Term \in Nat /\ CurrentTerm[i] \in Nat
        BY <1>1, Zenon DEF LogInv, TypeOK
      <3> QED BY <1>6, <3>1, SMTT(60)
    <2> QED BY <2>3, <2>4, <2>5, ZenonT(60) DEF InstallSnapshot, SaveStateAndSnapshot
  <1> QED BY <1>5, <1>6, Zenon DEF InstallSnapshot, SaveStateAndSnapshot

-----------------------------------------------------------------------------
(***************************************************************************)
(* What applyLog sends is in order: the batch it has copied continues what *)
(* the service has, although InstallSnapshot moves LastApplied meanwhile.  *)
(***************************************************************************)

\* What may be in a batch.
BatchMsg == SnapshotMsg \cup CommandMsg

\* The snapshots at the head of a batch: one or none.
Snaps(msgs) == IF msgs # <<>> /\ msgs[1].SnapshotValid THEN 1 ELSE 0

\* How far a service that has applied n entries is after that snapshot, which it
\* skips when it is not ahead.
From(msgs, n) == IF Snaps(msgs) = 1 THEN Max(n, msgs[1].SnapshotIndex) ELSE n

\* How far it is after the batch.
To(msgs, n) == From(msgs, n) + Len(msgs) - Snaps(msgs)

\* The commands of a batch come one after the other from there on.
InOrder(msgs, n) ==
    \A k \in DOMAIN msgs :
        k > Snaps(msgs) => /\ ~msgs[k].SnapshotValid
                           /\ msgs[k].Command.Index = From(msgs, n) + k - Snaps(msgs)

\* LastApplied and the index it is to rise to are where the service will be after
\* the batch and the snapshot that waits.
Accounted(i) ==
    Max(LastApplied[i], applyTo[i])
      = Max(To(applyMsgs[i], Len(app[i])), snapshotMsg[i].SnapshotIndex)

\* The inductive invariant behind DeliveredInOrder, for peer i and for all.
BatchOrdered(i) ==
    /\ InOrder(applyMsgs[i], Len(app[i]))
    /\ Accounted(i)
    /\ ~applying[i] => applyMsgs[i] = <<>> /\ applyTo[i] = 0
BatchInv == \A i \in Server : BatchOrdered(i)

\* Bounds of these positions.
LEMMA FromLemma ==
  ASSUME NEW msgs \in Seq(BatchMsg), NEW n \in Nat
  PROVE  /\ Snaps(msgs) \in {0, 1} /\ Snaps(msgs) <= Len(msgs)
         /\ From(msgs, n) \in Nat /\ From(msgs, n) >= n
         /\ To(msgs, n) \in Nat /\ To(msgs, n) >= From(msgs, n)
  <1>1. Snaps(msgs) \in {0, 1} /\ Snaps(msgs) <= Len(msgs)
    <2> HIDE DEF BatchMsg
    <2>1. msgs # <<>> => Len(msgs) >= 1
      BY SMTT(30)
    <2> QED BY <2>1, SMTT(30) DEF Snaps
  <1>2. From(msgs, n) \in Nat /\ From(msgs, n) >= n
    <2>1. CASE Snaps(msgs) = 1
      <3>1. msgs # <<>> /\ msgs[1].SnapshotValid
        BY <2>1, SMTT(30) DEF Snaps
      <3>2. msgs[1] \in BatchMsg
        <4> HIDE DEF BatchMsg
        <4> QED BY <3>1, SMTT(30)
      <3>3. msgs[1].SnapshotIndex \in Nat
        BY <3>1, <3>2, Zenon DEF BatchMsg, SnapshotMsg, CommandMsg
      <3> QED BY <2>1, <3>3, MaxLemma DEF From
    <2>2. CASE Snaps(msgs) # 1
      BY <2>2, SMTT(30) DEF From
    <2> QED BY <2>1, <2>2, Zenon
  <1>3. Len(msgs) \in Nat
    <2> HIDE DEF BatchMsg
    <2> QED BY LenProperties, Zenon
  <1> HIDE DEF BatchMsg
  <1> QED BY <1>1, <1>2, <1>3, SMTT(30) DEF To

\* Nothing is in an empty batch.
LEMMA EmptyBatch ==
  ASSUME NEW n \in Nat
  PROVE  InOrder(<<>>, n) /\ To(<<>>, n) = n /\ From(<<>>, n) = n
  BY SMTT(30) DEF InOrder, To, From, Snaps

\* Taking the first message of a batch leaves a batch in order for a service that
\* is one entry or one snapshot further.
LEMMA TailLemma ==
  ASSUME NEW msgs \in Seq(BatchMsg), NEW n \in Nat, msgs # <<>>, InOrder(msgs, n)
  PROVE  /\ ~msgs[1].SnapshotValid => /\ msgs[1].Command.Index = n + 1
                                      /\ InOrder(Tail(msgs), n + 1)
                                      /\ To(Tail(msgs), n + 1) = To(msgs, n)
         /\ msgs[1].SnapshotValid => /\ InOrder(Tail(msgs), Max(n, msgs[1].SnapshotIndex))
                                     /\ To(Tail(msgs), Max(n, msgs[1].SnapshotIndex)) = To(msgs, n)
                                     /\ To(msgs, n) >= msgs[1].SnapshotIndex
  <1> DEFINE rest == Tail(msgs)
             m == Max(n, msgs[1].SnapshotIndex)
  <1>1. /\ rest \in Seq(BatchMsg) /\ Len(msgs) \in Nat /\ Len(msgs) >= 1 /\ Len(rest) = Len(msgs) - 1
        /\ DOMAIN rest = 1..(Len(msgs) - 1) /\ DOMAIN msgs = 1..Len(msgs)
        /\ \A k \in 1..(Len(msgs) - 1) : rest[k] = msgs[k + 1]
    <2> HIDE DEF BatchMsg
    <2> QED BY SMTT(30)
  <1>2. Snaps(msgs) = IF msgs[1].SnapshotValid THEN 1 ELSE 0
    BY Zenon DEF Snaps
  <1>3. Snaps(msgs) \in {0, 1}
    BY FromLemma, Zenon
  <1>4. Snaps(rest) = 0
    <2>1. CASE rest = <<>>
      BY <2>1, Zenon DEF Snaps
    <2>2. CASE rest # <<>>
      <3>1. 1 \in 1..(Len(msgs) - 1) /\ 2 \in DOMAIN msgs /\ 2 > Snaps(msgs) /\ 1 + 1 = 2
        <4>1. Len(rest) # 0
          <5> HIDE DEF rest, BatchMsg
          <5> QED BY <1>1, <2>2, EmptySeq, Zenon
        <4> HIDE DEF rest, BatchMsg
        <4> QED BY <1>1, <1>3, <4>1, SMTT(30)
      <3>2. ~msgs[2].SnapshotValid /\ rest[1] = msgs[2]
        <4> HIDE DEF rest
        <4> QED BY <1>1, <3>1, Zenon DEF InOrder
      <3> HIDE DEF rest
      <3> QED BY <3>2, Zenon DEF Snaps
    <2> QED BY <2>1, <2>2, Zenon
  <1> HIDE DEF rest
  <1>5. ASSUME NEW a \in Nat, a = From(msgs, n) + 1 - Snaps(msgs)
        PROVE  InOrder(rest, a) /\ To(rest, a) = To(msgs, n)
    <2>1. From(rest, a) = a
      BY <1>4, SMTT(30) DEF From
    <2>2. From(msgs, n) \in Nat
      BY FromLemma, Zenon
    <2>3. ASSUME NEW k \in DOMAIN rest
          PROVE  ~rest[k].SnapshotValid /\ rest[k].Command.Index = a + k
      <3>1. k \in 1..(Len(msgs) - 1)
        BY <1>1, <2>3, Zenon
      <3>2. k + 1 \in DOMAIN msgs /\ k + 1 > Snaps(msgs)
        <4> HIDE DEF BatchMsg
        <4> QED BY <1>1, <1>3, <3>1, SMTT(30)
      <3>3. ~msgs[k + 1].SnapshotValid /\ msgs[k + 1].Command.Index = From(msgs, n) + (k + 1) - Snaps(msgs)
        BY <3>2, Zenon DEF InOrder
      <3>4. From(msgs, n) + (k + 1) - Snaps(msgs) = a + k
        <4>1. k \in Int
          BY <3>1, SMTT(30)
        <4> HIDE DEF BatchMsg
        <4> QED BY <1>3, <1>5, <2>2, <4>1, SMTT(30)
      <3> QED BY <1>1, <3>1, <3>3, <3>4, Zenon
    <2>4. InOrder(rest, a)
      <3>1. \A k \in DOMAIN rest : From(rest, a) + k - Snaps(rest) = a + k
        <4> HIDE DEF BatchMsg
        <4> QED BY <1>1, <1>4, <2>1, SMTT(30)
      <3> QED BY <2>3, <3>1, Zenon DEF InOrder
    <2>5. To(rest, a) = To(msgs, n)
      <3> HIDE DEF BatchMsg
      <3> QED BY <1>1, <1>3, <1>4, <1>5, <2>1, <2>2, SMTT(30) DEF To
    <2> QED BY <2>4, <2>5, Zenon
  <1>6. CASE ~msgs[1].SnapshotValid
    <2>1. Snaps(msgs) = 0
      BY <1>2, <1>6, Zenon
    <2>2. From(msgs, n) = n
      BY <2>1, SMTT(30) DEF From
    <2>3. InOrder(rest, n + 1) /\ To(rest, n + 1) = To(msgs, n)
      <3>1. n + 1 \in Nat /\ n + 1 = From(msgs, n) + 1 - Snaps(msgs)
        BY <2>1, <2>2, SMTT(30)
      <3> QED BY <1>5, <3>1, Zenon
    <2>4. msgs[1].Command.Index = n + 1
      <3>1. 1 \in DOMAIN msgs /\ 1 > Snaps(msgs) /\ From(msgs, n) + 1 - Snaps(msgs) = n + 1
        <4> HIDE DEF BatchMsg
        <4> QED BY <1>1, <2>1, <2>2, SMTT(30)
      <3> QED BY <3>1, Zenon DEF InOrder
    <2> QED BY <1>6, <2>3, <2>4, Zenon DEF rest
  <1>7. CASE msgs[1].SnapshotValid
    <2>1. Snaps(msgs) = 1
      BY <1>2, <1>7, Zenon
    <2>2. From(msgs, n) = m
      BY <2>1, Zenon DEF From
    <2>3. m \in Nat /\ To(msgs, n) \in Nat /\ To(msgs, n) >= m
      BY <2>2, FromLemma, Zenon
    <2>4. msgs[1].SnapshotIndex \in Nat /\ m >= msgs[1].SnapshotIndex
      <3>1. msgs[1] \in BatchMsg
        <4> HIDE DEF BatchMsg
        <4> QED BY SMTT(30)
      <3>2. msgs[1].SnapshotIndex \in Nat
        BY <1>7, <3>1, Zenon DEF BatchMsg, SnapshotMsg, CommandMsg
      <3>3. \A q \in Nat : Max(n, q) >= q
        BY SMTT(30) DEF Max
      <3> QED BY <3>2, <3>3, Zenon
    <2>5. InOrder(rest, m) /\ To(rest, m) = To(msgs, n)
      <3>1. m = From(msgs, n) + 1 - Snaps(msgs)
        <4> HIDE DEF m
        <4> QED BY <2>1, <2>2, <2>3, SMTT(30)
      <3> QED BY <1>5, <2>3, <3>1, Zenon
    <2>6. To(msgs, n) >= msgs[1].SnapshotIndex
      <3> HIDE DEF m
      <3> QED BY <2>3, <2>4, SMTT(30)
    <2> QED BY <1>7, <2>5, <2>6, Zenon DEF rest
  <1> QED BY <1>6, <1>7, Zenon

\* The types the order of the batch of peer i rests on.
LEMMA BatchTyped ==
  ASSUME LogInv, NEW i \in Server
  PROVE  /\ applyMsgs[i] \in Seq(BatchMsg) /\ Len(app[i]) \in Nat /\ app[i] \in Seq(Entry)
         /\ LastApplied[i] \in Nat /\ applyTo[i] \in Nat
         /\ snapshotMsg[i] \in SnapshotMsg /\ snapshotMsg[i].SnapshotIndex \in Nat
         /\ To(applyMsgs[i], Len(app[i])) \in Nat /\ Len(app[i]) <= To(applyMsgs[i], Len(app[i]))
  <1>1. /\ applyMsgs[i] \in Seq(BatchMsg) /\ app[i] \in Seq(Entry)
        /\ LastApplied[i] \in Nat /\ applyTo[i] \in Nat /\ snapshotMsg[i] \in SnapshotMsg
    BY Zenon DEF LogInv, TypeOK, BatchMsg
  <1>2. snapshotMsg[i].SnapshotIndex \in Nat
    BY <1>1, Zenon DEF SnapshotMsg
  <1>3. Len(app[i]) \in Nat
    BY <1>1, LenProperties, Zenon
  <1>4. /\ From(applyMsgs[i], Len(app[i])) \in Nat /\ From(applyMsgs[i], Len(app[i])) >= Len(app[i])
        /\ To(applyMsgs[i], Len(app[i])) \in Nat
        /\ To(applyMsgs[i], Len(app[i])) >= From(applyMsgs[i], Len(app[i]))
    BY <1>1, <1>3, FromLemma, Zenon
  <1>5. Len(app[i]) <= To(applyMsgs[i], Len(app[i]))
    BY <1>3, <1>4, SMTT(30)
  <1> QED BY <1>1, <1>2, <1>3, <1>4, <1>5, Zenon

\* Raising LastApplied to a position the service reaches anyway, or to that of a
\* newer snapshot, keeps the account.
LEMMA RaiseLemma ==
  ASSUME LogInv, BatchInv, NEW i \in Server, NEW x \in Nat
  PROVE  LET a == LastApplied[i]
             e == To(applyMsgs[i], Len(app[i]))
             s == snapshotMsg[i].SnapshotIndex
         IN  /\ Max(a, applyTo[i]) = Max(e, s)
             /\ x <= e => Max(Max(a, x), applyTo[i]) = Max(e, s)
             /\ s <= x => Max(Max(a, x), applyTo[i]) = Max(e, x)
             /\ Max(Max(a, applyTo[i]), 0) = Max(e, s)
  <1> DEFINE a == LastApplied[i]
             b == applyTo[i]
             e == To(applyMsgs[i], Len(app[i]))
             s == snapshotMsg[i].SnapshotIndex
  <1>1. a \in Nat /\ b \in Nat /\ e \in Nat /\ s \in Nat
    BY BatchTyped, Zenon
  <1>2. Max(a, b) = Max(e, s)
    BY Zenon DEF BatchInv, BatchOrdered, Accounted
  <1>3. /\ x <= e => Max(Max(a, x), b) = Max(e, s)
        /\ s <= x => Max(Max(a, x), b) = Max(e, x)
        /\ Max(Max(a, b), 0) = Max(e, s)
    <2> HIDE DEF a, b, e, s
    <2> QED BY <1>1, <1>2, SMTT(30) DEF Max
  <1> QED BY <1>2, <1>3, Zenon

\* A step that leaves the apply goroutine and the service alone.
LEMMA BatchFrame ==
  ASSUME BatchInv, UNCHANGED <<LastApplied, snapshotMsg, batchVars, app>>
  PROVE  BatchInv'
  BY Zenon DEF BatchInv, BatchOrdered, Accounted, batchVars

\* A step that concerns those of one peer only.
LEMMA BatchOne ==
  ASSUME BatchInv, NEW i \in Server, BatchOrdered(i)',
         \A j \in Server \ {i} :
            /\ LastApplied'[j] = LastApplied[j] /\ snapshotMsg'[j] = snapshotMsg[j]
            /\ applyMsgs'[j] = applyMsgs[j] /\ applyTo'[j] = applyTo[j]
            /\ applying'[j] = applying[j] /\ app'[j] = app[j]
  PROVE  BatchInv'
  BY Zenon DEF BatchInv, BatchOrdered, Accounted

\* applyLog records the batch it has sent.
LEMMA applyLogDoneBatch ==
  ASSUME LogInv, BatchInv, NEW i \in Server, applyLogDone(i)
  PROVE  BatchInv'
  <1>1. /\ applyMsgs[i] = <<>> /\ UNCHANGED <<snapshotMsg, applyMsgs, app>>
        /\ applyTo' = [applyTo EXCEPT ![i] = 0] /\ applying' = [applying EXCEPT ![i] = FALSE]
        /\ LastApplied' = [LastApplied EXCEPT ![i] = Max(@, applyTo[i])]
    BY Zenon DEF applyLogDone
  <1>2. /\ applyTo'[i] = 0 /\ LastApplied'[i] = Max(LastApplied[i], applyTo[i])
        /\ \A j \in Server \ {i} : /\ applyTo'[j] = applyTo[j] /\ LastApplied'[j] = LastApplied[j]
                                   /\ applying'[j] = applying[j]
    BY <1>1, Zenon DEF LogInv, TypeOK
  <1>3. Max(LastApplied'[i], 0) = Max(To(applyMsgs[i], Len(app[i])), snapshotMsg[i].SnapshotIndex)
    <2>1. 0 \in Nat
      OBVIOUS
    <2> QED BY <1>2, <2>1, RaiseLemma, Zenon
  <1>4. BatchOrdered(i)'
    BY <1>1, <1>2, <1>3, Zenon DEF BatchInv, BatchOrdered, Accounted
  <1> QED BY <1>1, <1>2, <1>4, BatchOne, Zenon

\* What Raft's Snapshot does to LastApplied.
LEMMA TrimToApplied ==
  ASSUME LogInv, NEW i \in Server, NEW index \in Nat, NEW data, TrimTo(i, index, data)
  PROVE  /\ LastApplied'[i] = LastApplied[i] \/ LastApplied'[i] = Max(LastApplied[i], index)
         /\ \A j \in Server \ {i} : LastApplied'[j] = LastApplied[j]
  <1>1. \/ UNCHANGED LastApplied
        \/ LastApplied' = [LastApplied EXCEPT ![i] = Max(@, index)]
    BY Zenon DEF TrimTo
  <1> QED BY <1>1, Zenon DEF LogInv, TypeOK

\* The service snapshots what it has applied.
LEMMA SnapshotBatch ==
  ASSUME LogInv, BatchInv, NEW i \in Server, Snapshot(i)
  PROVE  BatchInv'
  <1>1. UNCHANGED <<snapshotMsg, batchVars, app>> /\ TrimTo(i, Len(app[i]), app[i])
    BY Zenon DEF Snapshot
  <1>2. /\ LastApplied'[i] = LastApplied[i] \/ LastApplied'[i] = Max(LastApplied[i], Len(app[i]))
        /\ \A j \in Server \ {i} : LastApplied'[j] = LastApplied[j]
    BY <1>1, BatchTyped, TrimToApplied, Zenon
  <1>3. Len(app[i]) \in Nat /\ Len(app[i]) <= To(applyMsgs[i], Len(app[i]))
    BY BatchTyped, Zenon
  <1>4. Max(LastApplied'[i], applyTo[i]) = Max(To(applyMsgs[i], Len(app[i])), snapshotMsg[i].SnapshotIndex)
    BY <1>2, <1>3, RaiseLemma, Zenon
  <1>5. BatchOrdered(i)'
    BY <1>1, <1>4, Zenon DEF BatchInv, BatchOrdered, Accounted, batchVars
  <1> QED BY <1>1, <1>2, <1>5, BatchOne, Zenon DEF batchVars

\* InstallSnapshot moves LastApplied to the snapshot it leaves for applyLog.
LEMMA InstallSnapshotBatch ==
  ASSUME LogInv, BatchInv, NEW m \in isCalls, InstallSnapshot(m)
  PROVE  BatchInv'
  <1> DEFINE i == m.to
             upto == m.LastIncludedIndex
             msg == [SnapshotValid |-> TRUE, SnapshotIndex |-> upto, Snapshot |-> m.Data]
  <1>1. i \in Server /\ upto \in Nat /\ UNCHANGED <<batchVars, app>>
    BY ZenonT(60) DEF LogInv, TypeOK, ISCall, InstallSnapshot
  <1>2. \/ UNCHANGED <<LastApplied, snapshotMsg>>
        \/ /\ ~(snapshotMsg[i].SnapshotIndex > upto)
           /\ snapshotMsg' = [snapshotMsg EXCEPT ![i] = msg]
           /\ LastApplied' = [LastApplied EXCEPT ![i] = Max(@, upto)]
    BY ZenonT(60) DEF InstallSnapshot
  <1>3. CASE UNCHANGED <<LastApplied, snapshotMsg>>
    BY <1>1, <1>3, BatchFrame, Zenon
  <1>4. CASE /\ ~(snapshotMsg[i].SnapshotIndex > upto)
             /\ snapshotMsg' = [snapshotMsg EXCEPT ![i] = msg]
             /\ LastApplied' = [LastApplied EXCEPT ![i] = Max(@, upto)]
    <2>1. msg.SnapshotIndex = upto
      BY Zenon
    <2> HIDE DEF i, upto, msg
    <2>2. /\ snapshotMsg'[i] = msg /\ LastApplied'[i] = Max(LastApplied[i], upto)
          /\ \A j \in Server \ {i} : snapshotMsg'[j] = snapshotMsg[j] /\ LastApplied'[j] = LastApplied[j]
      BY <1>1, <1>4, Zenon DEF LogInv, TypeOK
    <2>4. snapshotMsg[i].SnapshotIndex <= upto
      <3>1. snapshotMsg[i].SnapshotIndex \in Nat
        BY <1>1, BatchTyped, Zenon
      <3> QED BY <1>1, <1>4, <3>1, SMTT(30)
    <2>5. Max(LastApplied'[i], applyTo[i]) = Max(To(applyMsgs[i], Len(app[i])), snapshotMsg'[i].SnapshotIndex)
      BY <1>1, <2>1, <2>2, <2>4, RaiseLemma, Zenon
    <2>6. BatchOrdered(i)'
      BY <1>1, <2>5, Zenon DEF BatchInv, BatchOrdered, Accounted, batchVars
    <2> QED BY <1>1, <2>2, <2>6, BatchOne, Zenon DEF batchVars
  <1> QED BY <1>2, <1>3, <1>4, Zenon

\* The service takes the next entry or snapshot.
LEMMA deliverBatch ==
  ASSUME LogInv, BatchInv, NEW i \in Server, deliver(i)
  PROVE  BatchInv'
  <1> DEFINE msgs == applyMsgs[i]
             n == Len(app[i])
             m == msgs[1]
  <1>1. /\ msgs # <<>> /\ applyMsgs' = [applyMsgs EXCEPT ![i] = Tail(@)]
        /\ UNCHANGED <<snapshotMsg, applyTo, applying>>
    BY Zenon DEF deliver
  <1>2. /\ applyMsgs'[i] = Tail(msgs) /\ \A j \in Server \ {i} : applyMsgs'[j] = applyMsgs[j]
    BY <1>1, Zenon DEF LogInv, TypeOK
  <1>3. msgs \in Seq(BatchMsg) /\ n \in Nat /\ app[i] \in Seq(Entry) /\ Head(msgs) = m
    <2>1. msgs \in Seq(BatchMsg) /\ n \in Nat /\ app[i] \in Seq(Entry)
      BY BatchTyped, Zenon
    <2> HIDE DEF BatchMsg
    <2> QED BY <1>1, <2>1, SMTT(30)
  <1>4. InOrder(msgs, n) /\ applying[i]
    BY <1>1, Zenon DEF BatchInv, BatchOrdered
  <1>5. Max(LastApplied[i], applyTo[i]) = Max(To(msgs, n), snapshotMsg[i].SnapshotIndex)
    BY Zenon DEF BatchInv, BatchOrdered, Accounted
  <1>6. m \in BatchMsg
    <2> HIDE DEF BatchMsg
    <2> QED BY <1>1, <1>3, SMTT(30)
  <1>7. ASSUME Len(app'[i]) \in Nat, InOrder(Tail(msgs), Len(app'[i])), To(Tail(msgs), Len(app'[i])) = To(msgs, n),
               \/ LastApplied'[i] = LastApplied[i]
               \/ \E x \in Nat : x <= To(msgs, n) /\ LastApplied'[i] = Max(LastApplied[i], x),
               \A j \in Server \ {i} : app'[j] = app[j] /\ LastApplied'[j] = LastApplied[j]
        PROVE  BatchInv'
    <2>1. Max(LastApplied'[i], applyTo[i]) = Max(To(msgs, n), snapshotMsg[i].SnapshotIndex)
      BY <1>5, <1>7, RaiseLemma, Zenon
    <2>2. BatchOrdered(i)'
      BY <1>1, <1>2, <1>4, <1>7, <2>1, Zenon DEF BatchOrdered, Accounted
    <2> QED BY <1>1, <1>2, <1>7, <2>2, BatchOne, Zenon
  <1>8. CASE /\ ~m.SnapshotValid /\ app' = [app EXCEPT ![i] = Append(@, m.Command)] /\ UNCHANGED LastApplied
    <2>1. /\ app'[i] = Append(app[i], m.Command) /\ \A j \in Server \ {i} : app'[j] = app[j]
      BY <1>8, Zenon DEF LogInv, TypeOK
    <2>2. Len(app'[i]) = n + 1 /\ n + 1 \in Nat
      <3>1. m.Command \in Entry
        BY <1>6, <1>8, Zenon DEF BatchMsg, SnapshotMsg, CommandMsg
      <3> HIDE DEF m
      <3> QED BY <1>3, <2>1, <3>1, SMTT(30)
    <2>3. InOrder(Tail(msgs), n + 1) /\ To(Tail(msgs), n + 1) = To(msgs, n)
      BY <1>1, <1>3, <1>4, <1>8, TailLemma, Zenon
    <2> QED BY <1>7, <1>8, <2>1, <2>2, <2>3, Zenon
  <1>9. ASSUME m.SnapshotValid
        PROVE  /\ m.SnapshotIndex \in Nat /\ Len(m.Snapshot) = m.SnapshotIndex
               /\ InOrder(Tail(msgs), Max(n, m.SnapshotIndex))
               /\ To(Tail(msgs), Max(n, m.SnapshotIndex)) = To(msgs, n)
               /\ m.SnapshotIndex <= To(msgs, n)
    <2>1. m.SnapshotIndex \in Nat
      BY <1>6, <1>9, Zenon DEF BatchMsg, SnapshotMsg, CommandMsg
    <2>2. /\ InOrder(Tail(msgs), Max(n, m.SnapshotIndex))
          /\ To(Tail(msgs), Max(n, m.SnapshotIndex)) = To(msgs, n)
          /\ To(msgs, n) >= m.SnapshotIndex
      BY <1>1, <1>3, <1>4, <1>9, TailLemma, Zenon
    <2>3. 1 \in DOMAIN msgs
      <3> HIDE DEF BatchMsg
      <3> QED BY <1>1, <1>3, SMTT(30)
    <2>4. Len(m.Snapshot) = m.SnapshotIndex
      BY <1>9, <2>3, Zenon DEF LogInv, MessagesContiguous, BatchContiguous
    <2>5. To(msgs, n) \in Nat
      BY BatchTyped, Zenon
    <2>6. m.SnapshotIndex <= To(msgs, n)
      <3> HIDE DEF m
      <3> QED BY <2>1, <2>2, <2>5, SMTT(30)
    <2> QED BY <2>1, <2>2, <2>4, <2>6, Zenon
  <1>10. CASE /\ m.SnapshotValid /\ m.SnapshotIndex > n /\ app' = [app EXCEPT ![i] = m.Snapshot]
              /\ TrimTo(i, Len(m.Snapshot), m.Snapshot)
    <2>1. /\ app'[i] = m.Snapshot /\ \A j \in Server \ {i} : app'[j] = app[j]
      BY <1>10, Zenon DEF LogInv, TypeOK
    <2>2. /\ LastApplied'[i] = LastApplied[i] \/ LastApplied'[i] = Max(LastApplied[i], m.SnapshotIndex)
          /\ \A j \in Server \ {i} : LastApplied'[j] = LastApplied[j]
      BY <1>9, <1>10, TrimToApplied, Zenon
    <2>3. Max(n, m.SnapshotIndex) = m.SnapshotIndex
      <3>1. m.SnapshotIndex \in Nat /\ n \in Nat /\ m.SnapshotIndex > n
        BY <1>3, <1>9, <1>10, Zenon
      <3> HIDE DEF m, n
      <3> QED BY <3>1, SMTT(30) DEF Max
    <2>4. Len(app'[i]) = m.SnapshotIndex
      BY <1>9, <1>10, <2>1, Zenon
    <2> QED BY <1>7, <1>9, <1>10, <2>1, <2>2, <2>3, <2>4, Zenon
  <1>11. CASE m.SnapshotValid /\ ~(m.SnapshotIndex > n) /\ UNCHANGED <<LastApplied, app>>
    <2>1. Max(n, m.SnapshotIndex) = n
      <3>1. m.SnapshotIndex \in Nat /\ n \in Nat /\ ~(m.SnapshotIndex > n)
        BY <1>3, <1>9, <1>11, Zenon
      <3> HIDE DEF m, n
      <3> QED BY <3>1, SMTT(30) DEF Max
    <2> QED BY <1>3, <1>7, <1>9, <1>11, <2>1, Zenon
  <1> QED BY <1>3, <1>8, <1>10, <1>11, Zenon DEF deliver, Ahead

\* The entries applyLog copies are those after LastApplied up to CommitIndex.
LEMMA NewsLemma ==
  ASSUME NEW s \in Seq(Entry), NEW base \in Nat, NEW a \in Nat, NEW c \in Nat,
         \A k \in DOMAIN s : s[k].Index = base + k,
         c > a, a >= base, c <= base + Len(s)
  PROVE  /\ Len(SubSeq(s, a - base + 1, c - base)) = c - a
         /\ \A k \in 1..(c - a) : SubSeq(s, a - base + 1, c - base)[k].Index = a + k
         /\ s[c - base].Index = c
  <1> DEFINE first == a - base + 1
             last == c - base
  <1>1. first \in 1..Len(s) /\ last \in 1..Len(s) /\ last >= first /\ last - first + 1 = c - a /\ Len(s) \in Nat
    BY SMTT(30)
  <1>2. DOMAIN s = 1..Len(s)
    OBVIOUS
  <1>3. /\ Len(SubSeq(s, first, last)) = c - a
        /\ \A k \in 1..(c - a) : SubSeq(s, first, last)[k] = s[first + k - 1]
    <2> HIDE DEF first, last
    <2> QED BY <1>1, SMTT(30)
  <1>4. ASSUME NEW k \in 1..(c - a)
        PROVE  s[first + k - 1].Index = a + k
    <2>1. first + k - 1 \in DOMAIN s /\ base + (first + k - 1) = a + k
      BY <1>1, <1>2, SMTT(30)
    <2> HIDE DEF first
    <2> QED BY <2>1, Zenon
  <1>5. s[last].Index = c
    <2>1. last \in DOMAIN s /\ base + last = c
      BY <1>1, <1>2, SMTT(30)
    <2> HIDE DEF last
    <2> QED BY <2>1, Zenon
  <1> HIDE DEF first, last
  <1> QED BY <1>3, <1>4, <1>5, Zenon DEF first, last

\* A batch made of the snapshot that waits, if any, and of the entries after it.
LEMMA MadeLemma ==
  ASSUME NEW n \in Nat, NEW snap \in SnapshotMsg, NEW a \in Nat, NEW Rest \in Seq(CommandMsg),
         a = Max(n, snap.SnapshotIndex), \A k \in DOMAIN Rest : Rest[k].Command.Index = a + k
  PROVE  LET msgs == (IF snap.SnapshotIndex # 0 THEN <<snap>> ELSE <<>>) \o Rest
         IN  InOrder(msgs, n) /\ To(msgs, n) = a + Len(Rest)
  <1>1. Len(Rest) \in Nat /\ DOMAIN Rest = 1..Len(Rest)
    BY LenProperties, Zenon
  <1>2. \A k \in DOMAIN Rest : ~Rest[k].SnapshotValid
    <2>1. \A k \in DOMAIN Rest : Rest[k] \in CommandMsg
      <3> HIDE DEF CommandMsg
      <3> QED BY SMTT(30)
    <2> QED BY <2>1, Zenon DEF CommandMsg
  <1>3. snap.SnapshotIndex \in Nat /\ snap.SnapshotValid
    BY Zenon DEF SnapshotMsg
  <1>4. CASE snap.SnapshotIndex = 0
    <2>1. <<>> \o Rest = Rest
      <3> HIDE DEF CommandMsg
      <3> QED BY SMTT(30)
    <2>2. Snaps(Rest) = 0
      <3>1. Rest # <<>> => 1 \in DOMAIN Rest
        <4> HIDE DEF CommandMsg
        <4> QED BY <1>1, SMTT(30)
      <3> QED BY <1>2, <3>1, Zenon DEF Snaps
    <2>3. From(Rest, n) = a
      <3>1. a = n
        BY <1>4, SMTT(30) DEF Max
      <3> QED BY <2>2, <3>1, SMTT(30) DEF From
    <2>4. InOrder(Rest, n)
      <3>1. \A k \in DOMAIN Rest : From(Rest, n) + k - Snaps(Rest) = a + k
        BY <1>1, <2>2, <2>3, SMTT(30)
      <3> QED BY <1>2, <3>1, Zenon DEF InOrder
    <2>5. To(Rest, n) = a + Len(Rest)
      BY <1>1, <2>2, <2>3, SMTT(30) DEF To
    <2> QED BY <1>4, <2>1, <2>4, <2>5, Zenon
  <1>5. CASE snap.SnapshotIndex # 0
    <2> DEFINE msgs == <<snap>> \o Rest
    <2>1. /\ msgs # <<>> /\ msgs[1] = snap /\ Len(msgs) = Len(Rest) + 1 /\ DOMAIN msgs = 1..(Len(Rest) + 1)
          /\ \A k \in 2..(Len(Rest) + 1) : msgs[k] = Rest[k - 1]
      <3>1. snap \in BatchMsg /\ Rest \in Seq(BatchMsg)
        <4>1. CommandMsg \subseteq BatchMsg /\ snap \in BatchMsg
          BY Zenon DEF BatchMsg
        <4> HIDE DEF CommandMsg, BatchMsg
        <4> QED BY <4>1, SMTT(30)
      <3> HIDE DEF BatchMsg
      <3> QED BY <1>1, <3>1, SMTT(30)
    <2> HIDE DEF msgs
    <2>2. Snaps(msgs) = 1 /\ From(msgs, n) = a
      BY <1>3, <2>1, Zenon DEF Snaps, From
    <2>3. ASSUME NEW k \in DOMAIN msgs, k > 1
          PROVE  ~msgs[k].SnapshotValid /\ msgs[k].Command.Index = From(msgs, n) + k - Snaps(msgs)
      <3>1. k \in 2..(Len(Rest) + 1) /\ k - 1 \in DOMAIN Rest /\ a + (k - 1) = From(msgs, n) + k - Snaps(msgs)
        BY <1>1, <2>1, <2>2, <2>3, SMTT(30)
      <3> QED BY <1>2, <2>1, <3>1, Zenon
    <2>4. InOrder(msgs, n)
      BY <2>2, <2>3, Zenon DEF InOrder
    <2>5. To(msgs, n) = a + Len(Rest)
      BY <1>1, <2>1, <2>2, SMTT(30) DEF To
    <2> QED BY <1>5, <2>4, <2>5, Zenon DEF msgs
  <1> QED BY <1>4, <1>5, Zenon

\* applyLog copies the snapshot that waits and the entries committed since.
LEMMA applyLogCollectBatch ==
  ASSUME LogInv, BatchInv, NEW i \in Server, applyLogCollect(i)
  PROVE  BatchInv'
  <1> DEFINE base == SnapshotLastIncludedIndex[i]
             snap == snapshotMsg[i]
             n == Len(app[i])
             a == LastApplied[i]
             c == CommitIndex[i]
             some == c > a
             news == IF some THEN SubSeq(Logs[i], Max(a, snap.SnapshotIndex) - base + 1, c - base) ELSE <<>>
             Rest == [k \in 1..Len(news) |-> [SnapshotValid |-> FALSE, Command |-> news[k]]]
             msgs == (IF snap.SnapshotIndex # 0 THEN <<snap>> ELSE <<>>) \o Rest
  <1>1. /\ ~applying[i]
        /\ some => a >= base /\ c <= base + Len(Logs[i])
        /\ applying' = [applying EXCEPT ![i] = TRUE]
        /\ applyMsgs' = [applyMsgs EXCEPT ![i] = msgs]
        /\ applyTo' = [applyTo EXCEPT ![i] = IF some THEN Logs[i][c - base].Index ELSE 0]
        /\ snapshotMsg' = [snapshotMsg EXCEPT ![i] = NoSnapshotMsg]
        /\ UNCHANGED <<LastApplied, app>>
    BY ZenonT(60) DEF applyLogCollect
  <1>2. /\ Logs[i] \in Seq(Entry) /\ base \in Nat /\ c \in Nat /\ a \in Nat /\ n \in Nat
        /\ snap \in SnapshotMsg /\ snap.SnapshotIndex \in Nat
        /\ \A k \in DOMAIN Logs[i] : Logs[i][k].Index = base + k
    BY BatchTyped, ZenonT(60) DEF LogInv, TypeOK, LogsContiguous
  <1>3. a = Max(n, snap.SnapshotIndex) /\ Max(a, snap.SnapshotIndex) = a
    <2>1. applyMsgs[i] = <<>> /\ applyTo[i] = 0
      BY <1>1, Zenon DEF BatchInv, BatchOrdered
    <2>2. To(applyMsgs[i], n) = n
      BY <1>2, <2>1, EmptyBatch, Zenon
    <2>3. Max(a, 0) = Max(n, snap.SnapshotIndex)
      BY <2>1, <2>2, Zenon DEF BatchInv, BatchOrdered, Accounted
    <2> HIDE DEF a, n, snap
    <2> QED BY <1>2, <2>3, SMTT(30) DEF Max
  <1> DEFINE tops == IF some THEN c ELSE a
  <1>4. /\ Len(news) = tops - a /\ tops - a \in Nat
        /\ \A k \in 1..(tops - a) : news[k].Index = a + k
        /\ news \in Seq(Entry)
        /\ some => Logs[i][c - base].Index = c
    <2>1. CASE some
      <3>1. a >= base /\ c <= base + Len(Logs[i]) /\ c > a
        BY <1>1, <2>1, Zenon
      <3>2. news = SubSeq(Logs[i], a - base + 1, c - base)
        BY <1>3, <2>1, Zenon
      <3>3. /\ Len(SubSeq(Logs[i], a - base + 1, c - base)) = c - a
            /\ \A k \in 1..(c - a) : SubSeq(Logs[i], a - base + 1, c - base)[k].Index = a + k
            /\ Logs[i][c - base].Index = c
        <4> DEFINE s == Logs[i]
        <4>1. /\ s \in Seq(Entry) /\ base \in Nat /\ a \in Nat /\ c \in Nat
              /\ \A k \in DOMAIN s : s[k].Index = base + k
              /\ c > a /\ a >= base /\ c <= base + Len(s)
          BY <1>2, <3>1, Zenon
        <4> HIDE DEF base, a, c, s
        <4>2. /\ Len(SubSeq(s, a - base + 1, c - base)) = c - a
              /\ \A k \in 1..(c - a) : SubSeq(s, a - base + 1, c - base)[k].Index = a + k
              /\ s[c - base].Index = c
          BY <4>1, NewsLemma, ZenonT(60)
        <4> QED BY <4>2, Zenon DEF s
      <3>4. SubSeq(Logs[i], a - base + 1, c - base) \in Seq(Entry) /\ c - a \in Nat
        <4> HIDE DEF base, a, c
        <4>1. /\ a - base + 1 \in Nat /\ a - base + 1 >= 1 /\ c - base \in Nat /\ c - base <= Len(Logs[i])
              /\ c - a \in Nat
          BY <1>2, <3>1, SMTT(30)
        <4> QED BY <1>2, <4>1, SMTT(30)
      <3>5. tops = c
        BY <2>1, Zenon
      <3> HIDE DEF news, tops, base, a, c
      <3> QED BY <3>2, <3>3, <3>4, <3>5, Zenon
    <2>2. CASE ~some
      <3>1. news = <<>> /\ tops = a
        BY <2>2, Zenon
      <3> HIDE DEF news, tops, a, some
      <3> QED BY <1>2, <2>2, <3>1, SMTT(30)
    <2> QED BY <2>1, <2>2, Zenon
  <1> HIDE DEF news, tops
  <1>5. /\ Rest \in Seq(CommandMsg) /\ Len(Rest) = tops - a
        /\ \A k \in DOMAIN Rest : Rest[k].Command.Index = a + k
    <2>1. \A k \in 1..Len(news) : news[k] \in Entry
      BY <1>4, SMTT(30)
    <2>2. \A k \in 1..Len(news) : [SnapshotValid |-> FALSE, Command |-> news[k]] \in CommandMsg
      BY <2>1, Zenon DEF CommandMsg
    <2>3. DOMAIN Rest = 1..Len(news) /\ \A k \in 1..Len(news) : Rest[k].Command = news[k]
      BY Zenon
    <2>4. Rest \in Seq(CommandMsg) /\ Len(Rest) = Len(news)
      <3>1. Len(news) \in Nat
        BY <1>4, Zenon
      <3>2. Rest \in [1..Len(news) -> CommandMsg]
        BY <2>2, Zenon
      <3> HIDE DEF Rest
      <3> QED BY <3>1, <3>2, SMTT(30)
    <2> HIDE DEF Rest
    <2> QED BY <1>4, <2>3, <2>4, Zenon
  <1> HIDE DEF Rest
  <1>6. InOrder(msgs, n) /\ To(msgs, n) = a + Len(Rest)
    <2> HIDE DEF a, n, snap
    <2> QED BY <1>2, <1>3, <1>5, MadeLemma, Zenon DEF msgs
  <1>7. To(msgs, n) = tops
    <2>1. tops \in Nat
      BY <1>2, Zenon DEF tops
    <2> HIDE DEF a, n, snap, msgs
    <2> QED BY <1>2, <1>5, <1>6, <2>1, SMTT(30)
  <1> HIDE DEF msgs
  <1>8. /\ applyMsgs'[i] = msgs /\ applying'[i] /\ snapshotMsg'[i].SnapshotIndex = 0
        /\ applyTo'[i] = IF some THEN c ELSE 0
        /\ \A j \in Server \ {i} : /\ applyMsgs'[j] = applyMsgs[j] /\ applying'[j] = applying[j]
                                   /\ snapshotMsg'[j] = snapshotMsg[j] /\ applyTo'[j] = applyTo[j]
    <2>1. /\ applyMsgs'[i] = msgs /\ applying'[i] /\ snapshotMsg'[i] = NoSnapshotMsg
          /\ applyTo'[i] = IF some THEN Logs[i][c - base].Index ELSE 0
          /\ \A j \in Server \ {i} : /\ applyMsgs'[j] = applyMsgs[j] /\ applying'[j] = applying[j]
                                     /\ snapshotMsg'[j] = snapshotMsg[j] /\ applyTo'[j] = applyTo[j]
      BY <1>1, ZenonT(60) DEF LogInv, TypeOK
    <2>2. NoSnapshotMsg.SnapshotIndex = 0
      BY Zenon DEF NoSnapshotMsg
    <2> QED BY <1>4, <2>1, <2>2, Zenon
  <1>9. Max(a, IF some THEN c ELSE 0) = Max(tops, 0)
    <2> HIDE DEF a, c
    <2> QED BY <1>2, SMTT(30) DEF Max, tops
  <1>10. BatchOrdered(i)'
    <2>1. InOrder(applyMsgs'[i], Len(app'[i])) /\ To(applyMsgs'[i], Len(app'[i])) = tops
      BY <1>1, <1>6, <1>7, <1>8, Zenon
    <2>2. LastApplied'[i] = a
      BY <1>1, Zenon
    <2> HIDE DEF a, some
    <2>3. Max(LastApplied'[i], applyTo'[i])
            = Max(To(applyMsgs'[i], Len(app'[i])), snapshotMsg'[i].SnapshotIndex)
      BY <1>8, <1>9, <2>1, <2>2, Zenon
    <2> QED BY <1>8, <2>1, <2>3, Zenon DEF BatchOrdered, Accounted
  <1> QED BY <1>1, <1>8, <1>10, BatchOne, Zenon

\* A peer restarts with its service at its snapshot and LastApplied at its index.
LEMMA RestartBatch ==
  ASSUME LogInv, BatchInv, NEW i \in Server, Restart(i)
  PROVE  BatchInv'
  <1>1. /\ LastApplied' = [LastApplied EXCEPT ![i] = raftstate[i].Index]
        /\ snapshotMsg' = [snapshotMsg EXCEPT ![i] = NoSnapshotMsg]
        /\ applyMsgs' = [applyMsgs EXCEPT ![i] = <<>>] /\ applyTo' = [applyTo EXCEPT ![i] = 0]
        /\ applying' = [applying EXCEPT ![i] = FALSE] /\ app' = [app EXCEPT ![i] = snapshot[i]]
    BY Zenon DEF Restart
  <1>2. /\ LastApplied'[i] = raftstate[i].Index /\ snapshotMsg'[i] = NoSnapshotMsg
        /\ applyMsgs'[i] = <<>> /\ applyTo'[i] = 0 /\ app'[i] = snapshot[i]
        /\ \A j \in Server \ {i} :
              /\ LastApplied'[j] = LastApplied[j] /\ snapshotMsg'[j] = snapshotMsg[j]
              /\ applyMsgs'[j] = applyMsgs[j] /\ applyTo'[j] = applyTo[j]
              /\ applying'[j] = applying[j] /\ app'[j] = app[j]
    BY <1>1, ZenonT(60) DEF LogInv, TypeOK
  <1>3. Len(snapshot[i]) = raftstate[i].Index /\ Len(snapshot[i]) \in Nat
    <2>1. snapshot[i] \in Seq(Entry)
      BY Zenon DEF LogInv, TypeOK
    <2>2. Len(snapshot[i]) \in Nat
      BY <2>1, LenProperties, Zenon
    <2> QED BY <2>2, Zenon DEF LogInv, SnapshotInSync
  <1>4. NoSnapshotMsg.SnapshotIndex = 0
    BY Zenon DEF NoSnapshotMsg
  <1>5. BatchOrdered(i)'
    BY <1>2, <1>3, <1>4, EmptyBatch, Zenon DEF BatchOrdered, Accounted
  <1> QED BY <1>2, <1>5, BatchOne, Zenon

\* Nothing has been applied when the peers are made.
LEMMA InitBatchInv == Init => BatchInv
  <1> SUFFICES ASSUME Init, NEW i \in Server
               PROVE  BatchOrdered(i)
    BY Zenon DEF BatchInv
  <1>1. /\ applyMsgs[i] = <<>> /\ app[i] = <<>> /\ LastApplied[i] = 0 /\ applyTo[i] = 0
        /\ snapshotMsg[i] = NoSnapshotMsg
    BY Zenon DEF Init
  <1>2. Len(<<>>) = 0 /\ 0 \in Nat
    BY SMTT(30)
  <1>3. InOrder(<<>>, 0) /\ To(<<>>, 0) = 0
    BY <1>2, EmptyBatch, Zenon
  <1>4. NoSnapshotMsg.SnapshotIndex = 0
    BY Zenon DEF NoSnapshotMsg
  <1> QED BY <1>1, <1>2, <1>3, <1>4, Zenon DEF BatchOrdered, Accounted

\* The other actions leave the apply goroutine alone.
LEMMA NextBatchInv ==
  ASSUME LogInv, BatchInv, [Next]_vars
  PROVE  BatchInv'
  <1>1. CASE \E i \in Server : prepareElection(i) \/ ticker(i) \/ updateCommitIndex(i)
    <2>1. UNCHANGED <<LastApplied, snapshotMsg, batchVars, app>>
      BY <1>1, ZenonT(60) DEF prepareElection, ticker, updateCommitIndex
    <2> QED BY <2>1, BatchFrame, Zenon
  <1>2. CASE \E i \in Server : \/ applyLogCollect(i) \/ deliver(i) \/ applyLogDone(i)
                               \/ Snapshot(i) \/ Restart(i)
    BY <1>2, applyLogCollectBatch, deliverBatch, applyLogDoneBatch, SnapshotBatch, RestartBatch, Zenon
  <1>3. CASE \/ \E i, j \in Server : replicateLog(i, j)
             \/ \E i \in Server, c \in Command : Start(i, c)
    <2>1. UNCHANGED <<LastApplied, snapshotMsg, batchVars, app>>
      BY <1>3, ZenonT(60) DEF replicateLog, Start
    <2> QED BY <2>1, BatchFrame, Zenon
  <1>4. CASE (\E m \in rvCalls : RequestVote(m)) \/ (\E m \in aeCalls : AppendEntries(m))
    <2>1. UNCHANGED <<LastApplied, snapshotMsg, batchVars, app>>
      BY <1>4, ZenonT(60) DEF RequestVote, AppendEntries
    <2> QED BY <2>1, BatchFrame, Zenon
  <1>5. CASE \E m \in isCalls : InstallSnapshot(m)
    BY <1>5, InstallSnapshotBatch, Zenon
  <1>6. CASE (\E r \in rvReturns : handleVote(r)) \/ (\E r \in aeReturns : handleAppendReply(r))
             \/ (\E r \in isReturns : handleSnapshotReply(r))
    <2>1. UNCHANGED <<LastApplied, snapshotMsg, batchVars, app>>
      BY <1>6, ZenonT(60) DEF handleVote, handleAppendReply, handleSnapshotReply
    <2> QED BY <2>1, BatchFrame, Zenon
  <1>7. CASE UNCHANGED vars
    <2>1. UNCHANGED <<LastApplied, snapshotMsg, batchVars, app>>
      BY <1>7, Zenon DEF vars
    <2> QED BY <2>1, BatchFrame, Zenon
  <1> QED BY <1>1, <1>2, <1>3, <1>4, <1>5, <1>6, <1>7, Zenon DEF Next

\* The first message of a batch in order is the next command.
LEMMA BatchInvOrdered ==
  ASSUME LogInv, BatchInv
  PROVE  DeliveredInOrder
  <1> SUFFICES ASSUME NEW i \in Server, applyMsgs[i] # <<>>, ~Head(applyMsgs[i]).SnapshotValid
               PROVE  Head(applyMsgs[i]).Command.Index = Len(app[i]) + 1
    BY Zenon DEF DeliveredInOrder
  <1>1. applyMsgs[i] \in Seq(BatchMsg) /\ Len(app[i]) \in Nat
    BY BatchTyped, Zenon
  <1>2. Head(applyMsgs[i]) = applyMsgs[i][1]
    <2> HIDE DEF BatchMsg
    <2> QED BY <1>1, SMTT(30)
  <1>3. InOrder(applyMsgs[i], Len(app[i]))
    BY Zenon DEF BatchInv, BatchOrdered
  <1> QED BY <1>1, <1>2, <1>3, TailLemma, Zenon
=============================================================================
