----------------------------- MODULE RaftProof ------------------------------
(***************************************************************************)
(* Theorems about Raft, for any peer group, any commands and any bounds.   *)
(*                                                                         *)
(* At most one peer leads a term, as long as no peer has been restarted.   *)
(* A peer that stood for election itself does vote twice in its term:      *)
(* the first AppendEntries or InstallSnapshot of the term's leader finds   *)
(* LeaderTerm behind and resets VotedFor.  Everybody else has LeaderTerm   *)
(* at the term already when it votes.  So a second vote is given only      *)
(* after somebody has won, and by none of those who elected the winner.    *)
(* A restart resets LeaderTerm of peers that have voted, and with it the   *)
(* argument.                                                               *)
(*                                                                         *)
(* Logs, persisted logs and messages are numbered without gaps from the    *)
(* snapshot they stand on, through crashes and restarts (module            *)
(* RaftLogProof has the lemma of each step but that of Restart).           *)
(***************************************************************************)
EXTENDS RaftLogProof, FiniteSetTheorems

\* v's vote for i in term t has been counted or is on its way.
Granted(i, t, v) ==
    \/ <<i, t, v>> \in votes
    \/ \E r \in rvReturns : r.VoteGranted /\ r.from = i /\ r.Term = t /\ r.by = v

\* i has counted the votes of a majority in term t.
Elected(i, t) == Cardinality(VotesOf(i, t)) > Half /\ \E v \in VotesOf(i, t) : v # i

\* Votes are for terms that voter and candidate have reached.
VotesPast ==
    /\ \A i, v \in Server, t \in Nat : Granted(i, t, v) => 0 < t /\ t <= CurrentTerm[v] /\ t <= CurrentTerm[i]
    /\ \A m \in rvCalls : m.from # m.to /\ 0 < m.Term /\ m.Term <= CurrentTerm[m.from]
    /\ \A r \in rvReturns : r.from # r.by

\* LeaderTerm lags behind only at a peer that has voted for itself.
LagsAsCandidate ==
    \A v \in Server : CurrentTerm[v] > 0 => LeaderTerm[v] = CurrentTerm[v] \/ VotedFor[v] = v

\* While v stays in the term it remembers a vote for another peer, and a vote for
\* itself unless another peer has won.
VoteKept ==
    \A i, v \in Server, t \in Nat :
        Granted(i, t, v) /\ CurrentTerm[v] = t =>
            IF i # v THEN VotedFor[v] = i /\ LeaderTerm[v] = t
            ELSE VotedFor[v] = v \/ \E k \in Server : k # v /\ Elected(k, t)

\* Of two votes in one term one is for the voter itself, and somebody else has won.
VoteTwice ==
    \A i, j, v \in Server, t \in Nat :
        Granted(i, t, v) /\ Granted(j, t, v) /\ i # j =>
            v \in {i, j} /\ \E k \in Server : k # v /\ Elected(k, t)

\* Those who elected the winner have voted for nobody else.
ElectorsLoyal ==
    \A i, k, v \in Server, t \in Nat :
        Elected(k, t) /\ v \in VotesOf(k, t) /\ Granted(i, t, v) => i = k

\* A peer runs the leader's goroutines in a term it has won, from the vote that
\* decided it on, and sends to others.
LeadersElected ==
    /\ \A i \in Server : State[i] = "Leader" => leadTerm[i] = CurrentTerm[i]
    /\ \A i \in Server, t \in Nat :
          /\ leadTerm[i] = t => Elected(i, t)
          /\ Elected(i, t) /\ CurrentTerm[i] = t => leadTerm[i] = t
    /\ \A m \in aeCalls \cup isCalls : m.from # m.to /\ Elected(m.from, m.Term)

\* What the argument needs to know of the types.
VoteType ==
    /\ CurrentTerm \in [Server -> Nat] /\ VotedFor \in [Server -> Server \cup {None}]
    /\ LeaderTerm \in [Server -> Nat \cup {-1}] /\ leadTerm \in [Server -> Nat \cup {-1}]
    /\ State \in [Server -> {"Leader", "Follower", "Candidate"}]
    /\ rvCalls \subseteq RVCall /\ rvReturns \subseteq RVReturn
    /\ aeCalls \subseteq AECall /\ isCalls \subseteq ISCall

\* The inductive invariant, while no peer has been restarted.
VoteOrder == VotesPast /\ LagsAsCandidate /\ VoteKept /\ VoteTwice /\ ElectorsLoyal /\ LeadersElected
VoteInv   == restarts = 0 => VoteOrder

\* Two majorities of the peers have a peer in common.
QuorumsMeet ==
    \A S, T \in SUBSET Server :
        Cardinality(S) > Half /\ Cardinality(T) > Half => \E v \in Server : v \in S /\ v \in T

-----------------------------------------------------------------------------
\* The types are part of Raft's type invariant.
LEMMA VoteTyped == TypeOK => VoteType
  BY Zenon DEF TypeOK, VoteType

\* At most one peer is elected in a term: a common voter would be disloyal.
LEMMA ElectedUnique ==
  ASSUME QuorumsMeet, VoteOrder, NEW i \in Server, NEW k \in Server, NEW t \in Nat, Elected(i, t), Elected(k, t)
  PROVE  i = k
  <1>1. PICK v \in Server : v \in VotesOf(i, t) /\ v \in VotesOf(k, t)
    <2>1. VotesOf(i, t) \in SUBSET Server /\ VotesOf(k, t) \in SUBSET Server
      BY Zenon DEF VotesOf
    <2> QED BY <2>1, Zenon DEF Elected, QuorumsMeet
  <1>2. Granted(i, t, v)
    BY <1>1, Zenon DEF VotesOf, Granted
  <1> QED BY <1>1, <1>2, Zenon DEF VoteOrder, ElectorsLoyal

\* A peer that has been elected has counted votes.
LEMMA ElectedGranted ==
  ASSUME NEW i \in Server, NEW t \in Nat, Elected(i, t)
  PROVE  \E v \in Server : Granted(i, t, v)
  BY Zenon DEF Elected, VotesOf, Granted

\* Nobody is elected in a term it has not reached.
LEMMA ElectedPast ==
  ASSUME VoteOrder, NEW i \in Server, NEW t \in Nat, Elected(i, t)
  PROVE  t <= CurrentTerm[i]
  BY ElectedGranted, Zenon DEF VoteOrder, VotesPast

\* Nothing has been granted before the first election.
LEMMA InitVoteInv == Init => VoteInv
  <1> SUFFICES ASSUME Init PROVE VoteOrder
    BY Zenon DEF VoteInv
  <1>1. votes = {} /\ rvReturns = {} /\ rvCalls = {} /\ aeCalls = {} /\ isCalls = {}
    BY Zenon DEF Init
  <1>2. \A i, v \in Server, t \in Nat : ~Granted(i, t, v)
    BY <1>1, Zenon DEF Granted
  <1>3. \A i \in Server, t \in Nat : ~Elected(i, t)
    BY <1>2, ElectedGranted, Zenon
  <1>4. \A i \in Server : /\ CurrentTerm[i] = 0 /\ leadTerm[i] = -1 /\ State[i] = "Follower"
    BY Zenon DEF Init
  <1>5. VotesPast /\ VoteKept /\ VoteTwice
    BY <1>1, <1>2, Zenon DEF VotesPast, VoteKept, VoteTwice
  <1>6. ElectorsLoyal /\ LeadersElected /\ LagsAsCandidate
    BY <1>1, <1>3, <1>4 DEF ElectorsLoyal, LeadersElected, LagsAsCandidate
  <1> QED BY <1>5, <1>6, Zenon DEF VoteOrder

-----------------------------------------------------------------------------
\* Steps that leave terms and votes alone, refusals included; a request is sent by a peer whose
\* goroutines run.
LEMMA QuietStep ==
  ASSUME VoteType, VoteOrder, UNCHANGED <<termVars, votes, leadTerm>>,
         rvCalls' \subseteq rvCalls,
         \A r \in rvReturns' : r \in rvReturns \/ (~r.VoteGranted /\ r.from # r.by),
         \A m \in aeCalls' \cup isCalls' :
             \/ m \in aeCalls \cup isCalls
             \/ m.from \in Server /\ m.from # m.to /\ leadTerm[m.from] = m.Term /\ m.Term # -1
  PROVE  VoteOrder'
  <1>1. UNCHANGED <<CurrentTerm, VotedFor, LeaderTerm, State, votes, leadTerm>>
    BY Zenon DEF termVars
  <1>2. \A i, v \in Server, t \in Nat : Granted(i, t, v)' => Granted(i, t, v)
    BY <1>1, Zenon DEF Granted
  <1>3. \A i, t : VotesOf(i, t)' = VotesOf(i, t)
    BY <1>1, Zenon DEF VotesOf
  <1>4. \A i, t : Elected(i, t)' <=> Elected(i, t)
    BY <1>3, Zenon DEF Elected
  <1>5. VotesPast' /\ LagsAsCandidate'
    BY <1>1, <1>2, Zenon DEF VoteOrder, VotesPast, LagsAsCandidate
  <1>6. VoteKept' /\ VoteTwice'
    BY <1>1, <1>2, <1>4 DEF VoteOrder, VoteKept, VoteTwice
  <1>7. ElectorsLoyal'
    BY <1>2, <1>3, <1>4, Zenon DEF VoteOrder, ElectorsLoyal
  <1>8. \A m \in aeCalls' \cup isCalls' : m.from # m.to /\ Elected(m.from, m.Term)'
    <2>1. \A i \in Server : leadTerm[i] # -1 => leadTerm[i] \in Nat
      BY Zenon DEF VoteType
    <2>2. \A i \in Server, t \in Nat : leadTerm[i] = t => Elected(i, t)
      BY Zenon DEF VoteOrder, LeadersElected
    <2>3. \A m \in aeCalls \cup isCalls : m.from # m.to /\ Elected(m.from, m.Term)
      BY Zenon DEF VoteOrder, LeadersElected
    <2> QED BY <1>4, <2>1, <2>2, <2>3, Zenon
  <1>9. LeadersElected'
    BY <1>1, <1>4, <1>8 DEF VoteOrder, LeadersElected
  <1> QED BY <1>5, <1>6, <1>7, <1>9 DEF VoteOrder

\* Peer i follows term t, its own or a later one, and grants nothing.  In its own
\* term it forgets its vote only if it lags behind and somebody else has won.
LEMMA FollowStep ==
  ASSUME VoteType, VoteOrder, NEW i \in Server, NEW t \in Nat, t >= CurrentTerm[i],
         CurrentTerm' = [CurrentTerm EXCEPT ![i] = t], LeaderTerm' = [LeaderTerm EXCEPT ![i] = t],
         State' = [State EXCEPT ![i] = "Follower"],
         \A j \in Server \ {i} : VotedFor'[j] = VotedFor[j],
         t = CurrentTerm[i] => \/ VotedFor'[i] = VotedFor[i]
                               \/ LeaderTerm[i] # t /\ \E k \in Server : k # i /\ Elected(k, t),
         UNCHANGED <<votes, leadTerm>>,
         rvCalls' \subseteq rvCalls, aeCalls' \subseteq aeCalls, isCalls' \subseteq isCalls,
         \A r \in rvReturns' : r \in rvReturns \/ (~r.VoteGranted /\ r.from # r.by)
  PROVE  VoteOrder'
  <1>1. \A j, v \in Server, u \in Nat : Granted(j, u, v)' => Granted(j, u, v)
    BY Zenon DEF Granted
  <1>2. \A j, u : VotesOf(j, u)' = VotesOf(j, u)
    BY Zenon DEF VotesOf
  <1>3. \A j, u : Elected(j, u)' <=> Elected(j, u)
    BY <1>2, Zenon DEF Elected
  <1>4. /\ CurrentTerm'[i] = t /\ LeaderTerm'[i] = t /\ State'[i] = "Follower"
        /\ \A j \in Server \ {i} : /\ CurrentTerm'[j] = CurrentTerm[j] /\ LeaderTerm'[j] = LeaderTerm[j]
                                   /\ State'[j] = State[j]
        /\ \A j \in Server : CurrentTerm[j] \in Nat /\ CurrentTerm'[j] \in Nat
                             /\ CurrentTerm[j] <= CurrentTerm'[j]
    BY DEF VoteType
  <1>5. VotesPast'
    <2>1. \A m \in rvCalls : m.from \in Server /\ m.Term \in Nat
      BY Zenon DEF VoteType, RVCall
    <2>2. ASSUME NEW j \in Server, NEW v \in Server, NEW u \in Nat, Granted(j, u, v)'
          PROVE  0 < u /\ u <= CurrentTerm'[v] /\ u <= CurrentTerm'[j]
      BY <1>1, <1>4, <2>2 DEF VoteOrder, VotesPast
    <2>3. ASSUME NEW m \in rvCalls'
          PROVE  m.from # m.to /\ 0 < m.Term /\ m.Term <= CurrentTerm'[m.from]
      BY <1>4, <2>1 DEF VoteOrder, VotesPast
    <2> QED BY <2>2, <2>3, Zenon DEF VoteOrder, VotesPast
  <1>6. LagsAsCandidate'
    BY <1>4, Zenon DEF VoteOrder, LagsAsCandidate
  <1>7. ASSUME NEW j \in Server, NEW v \in Server, NEW u \in Nat, Granted(j, u, v)', CurrentTerm'[v] = u
        PROVE  IF j # v THEN VotedFor'[v] = j /\ LeaderTerm'[v] = u
               ELSE VotedFor'[v] = v \/ \E k \in Server : k # v /\ Elected(k, u)
    <2>1. Granted(j, u, v) /\ CurrentTerm[v] = u
      <3>1. Granted(j, u, v) /\ u <= CurrentTerm[v]
        BY <1>1, <1>7, Zenon DEF VoteOrder, VotesPast
      <3> QED BY <1>4, <1>7, <3>1
    <2>2. IF j # v THEN VotedFor[v] = j /\ LeaderTerm[v] = u
          ELSE VotedFor[v] = v \/ \E k \in Server : k # v /\ Elected(k, u)
      BY <2>1 DEF VoteOrder, VoteKept
    <2>3. CASE v = i
      <3>1. u = t
        BY <1>4, <1>7, <2>3, Zenon
      <3> QED BY <1>4, <2>1, <2>2, <2>3, <3>1, Zenon
    <2>4. CASE v # i
      BY <1>4, <2>2, <2>4, Zenon
    <2> QED BY <2>3, <2>4, Zenon
  <1>8. VoteKept'
    BY <1>3, <1>7 DEF VoteKept
  <1>9. VoteTwice'
    BY <1>1, <1>3 DEF VoteOrder, VoteTwice
  <1>10. ElectorsLoyal'
    BY <1>1, <1>2, <1>3, Zenon DEF VoteOrder, ElectorsLoyal
  <1>11. \A m \in aeCalls' \cup isCalls' : m.from # m.to /\ Elected(m.from, m.Term)'
    BY <1>3, Zenon DEF VoteOrder, LeadersElected
  <1>12. \A j \in Server : State'[j] = "Leader" => leadTerm'[j] = CurrentTerm'[j]
    BY <1>4 DEF VoteOrder, LeadersElected
  <1>13. ASSUME NEW j \in Server, NEW u \in Nat
         PROVE  /\ leadTerm'[j] = u => Elected(j, u)
                /\ Elected(j, u) /\ CurrentTerm'[j] = u => leadTerm'[j] = u
    <2>1. Elected(j, u) /\ CurrentTerm'[j] = u => CurrentTerm[j] = u
      BY <1>4, ElectedPast
    <2> QED BY <2>1, Zenon DEF VoteOrder, LeadersElected
  <1>14. LeadersElected'
    BY <1>3, <1>11, <1>12, <1>13 DEF LeadersElected
  <1> QED BY <1>5, <1>6, <1>8, <1>9, <1>10, <1>14, Zenon DEF VoteOrder

\* Peer i stands in the term after its own, where nobody has voted yet on its
\* behalf or by it.
LEMMA StandStep ==
  ASSUME VoteType, VoteOrder, NEW i \in Server, NEW t \in Nat, t = CurrentTerm[i] + 1,
         CurrentTerm' = [CurrentTerm EXCEPT ![i] = t], VotedFor' = [VotedFor EXCEPT ![i] = i],
         State' = [State EXCEPT ![i] = "Candidate"], votes' = votes \cup {<<i, t, i>>},
         UNCHANGED <<LeaderTerm, leadTerm, rvReturns, aeCalls, isCalls>>,
         \A m \in rvCalls' : m \in rvCalls \/ (m.from = i /\ m.to # i /\ m.Term = t)
  PROVE  VoteOrder'
  <1>1. \A j, v \in Server, u \in Nat :
           Granted(j, u, v)' <=> Granted(j, u, v) \/ (j = i /\ u = t /\ v = i)
    BY Zenon DEF Granted
  <1>2. /\ CurrentTerm'[i] = t /\ VotedFor'[i] = i /\ State'[i] = "Candidate"
        /\ \A j \in Server \ {i} : /\ CurrentTerm'[j] = CurrentTerm[j] /\ VotedFor'[j] = VotedFor[j]
                                   /\ State'[j] = State[j]
        /\ \A j \in Server : CurrentTerm[j] \in Nat /\ CurrentTerm'[j] \in Nat
                             /\ CurrentTerm[j] <= CurrentTerm'[j]
        /\ ~(t <= CurrentTerm[i])
    BY DEF VoteType
  <1>3. \A j, v \in Server : ~Granted(j, t, i) /\ ~Granted(i, t, v)
    BY <1>2, Zenon DEF VoteOrder, VotesPast
  <1>4. \A j \in Server, u \in Nat : j # i \/ u # t => VotesOf(j, u)' = VotesOf(j, u)
    BY Zenon DEF VotesOf
  <1>5. ~Elected(i, t) /\ ~Elected(i, t)'
    <2>1. VotesOf(i, t)' \subseteq {i}
      BY <1>3, Zenon DEF VotesOf, Granted
    <2> QED BY <1>3, <2>1, ElectedGranted, Zenon DEF Elected
  <1>6. \A j \in Server, u \in Nat : Elected(j, u)' <=> Elected(j, u)
    BY <1>4, <1>5 DEF Elected
  <1>7. VotesPast'
    <2>1. \A m \in rvCalls : m.from \in Server /\ m.Term \in Nat
      BY Zenon DEF VoteType, RVCall
    <2>2. ASSUME NEW j \in Server, NEW v \in Server, NEW u \in Nat, Granted(j, u, v)'
          PROVE  0 < u /\ u <= CurrentTerm'[v] /\ u <= CurrentTerm'[j]
      <3>1. CASE Granted(j, u, v)
        BY <1>2, <3>1 DEF VoteOrder, VotesPast
      <3>2. CASE j = i /\ u = t /\ v = i
        BY <1>2, <3>2
      <3> QED BY <1>1, <2>2, <3>1, <3>2, Zenon
    <2>3. ASSUME NEW m \in rvCalls'
          PROVE  m.from # m.to /\ 0 < m.Term /\ m.Term <= CurrentTerm'[m.from]
      <3>1. CASE m \in rvCalls
        BY <1>2, <2>1, <3>1 DEF VoteOrder, VotesPast
      <3>2. CASE m.from = i /\ m.to # i /\ m.Term = t
        BY <1>2, <3>2
      <3> QED BY <3>1, <3>2, Zenon
    <2> QED BY <2>2, <2>3, Zenon DEF VoteOrder, VotesPast
  <1>8. LagsAsCandidate'
    BY <1>2, Zenon DEF VoteOrder, LagsAsCandidate
  <1>9. VoteKept'
    <2>1. ASSUME NEW j \in Server, NEW v \in Server, NEW u \in Nat, Granted(j, u, v)', CurrentTerm'[v] = u
          PROVE  IF j # v THEN VotedFor'[v] = j /\ LeaderTerm'[v] = u
                 ELSE VotedFor'[v] = v \/ \E k \in Server : k # v /\ Elected(k, u)
      <3>1. CASE v = i
        BY <1>1, <1>2, <1>3, <2>1, <3>1
      <3>2. CASE v # i
        <4>1. Granted(j, u, v) /\ CurrentTerm[v] = u
          BY <1>1, <1>2, <2>1, <3>2, Zenon
        <4> QED BY <1>2, <3>2, <4>1 DEF VoteOrder, VoteKept
      <3> QED BY <3>1, <3>2, Zenon
    <2> QED BY <1>6, <2>1 DEF VoteKept
  <1>10. VoteTwice'
    <2>1. ASSUME NEW j \in Server, NEW k \in Server, NEW v \in Server, NEW u \in Nat,
                 Granted(j, u, v)', Granted(k, u, v)', j # k
          PROVE  v \in {j, k} /\ \E l \in Server : l # v /\ Elected(l, u)
      <3>1. Granted(j, u, v) /\ Granted(k, u, v)
        BY <1>1, <1>3, <2>1
      <3> QED BY <2>1, <3>1, Zenon DEF VoteOrder, VoteTwice
    <2> QED BY <1>6, <2>1 DEF VoteTwice
  <1>11. ElectorsLoyal'
    <2>1. ASSUME NEW j \in Server, NEW k \in Server, NEW v \in Server, NEW u \in Nat,
                 Elected(k, u), v \in VotesOf(k, u)', Granted(j, u, v)'
          PROVE  j = k
      <3>1. v \in VotesOf(k, u) /\ Granted(k, u, v)
        BY <1>4, <1>5, <2>1, Zenon DEF VotesOf, Granted
      <3>2. Granted(j, u, v)
        BY <1>1, <1>3, <2>1, <3>1
      <3> QED BY <2>1, <3>1, <3>2, Zenon DEF VoteOrder, ElectorsLoyal
    <2> QED BY <1>6, <2>1, Zenon DEF ElectorsLoyal
  <1>12. \A m \in aeCalls' \cup isCalls' : m.from # m.to /\ Elected(m.from, m.Term)'
    <2>1. \A m \in aeCalls \cup isCalls : m.from \in Server /\ m.Term \in Nat
      BY Zenon DEF VoteType, AECall, ISCall
    <2> QED BY <1>6, <2>1, Zenon DEF VoteOrder, LeadersElected
  <1>13. \A j \in Server, u \in Nat :
            /\ leadTerm'[j] = u => Elected(j, u)
            /\ Elected(j, u) /\ CurrentTerm'[j] = u => leadTerm'[j] = u
    BY <1>2, <1>5 DEF VoteOrder, LeadersElected
  <1>14. LeadersElected'
    <2>1. \A j \in Server : State'[j] = "Leader" => leadTerm'[j] = CurrentTerm'[j]
      BY <1>2 DEF VoteOrder, LeadersElected
    <2> QED BY <1>6, <1>12, <1>13, <2>1, Zenon DEF LeadersElected
  <1> QED BY <1>7, <1>8, <1>9, <1>10, <1>11, <1>14, Zenon DEF VoteOrder

\* What meeting term t in a request for a vote changes: nothing unless t is later.
Adopted(i, t) ==
    IF t > CurrentTerm[i]
    THEN /\ CurrentTerm' = [CurrentTerm EXCEPT ![i] = t]
         /\ LeaderTerm' = [LeaderTerm EXCEPT ![i] = t]
         /\ State' = [State EXCEPT ![i] = "Follower"]
    ELSE UNCHANGED <<CurrentTerm, LeaderTerm, State>>

\* Voter i grants its vote in term t to j.
Grants(i, j, t) ==
    /\ i # j /\ 0 < t /\ t <= CurrentTerm[j]
    /\ t > CurrentTerm[i] \/ (t = CurrentTerm[i] /\ VotedFor[i] \in {None, j})
    /\ VotedFor' = [VotedFor EXCEPT ![i] = j] /\ Adopted(i, t)
    /\ UNCHANGED <<votes, leadTerm, aeCalls, isCalls>> /\ rvCalls' \subseteq rvCalls
    /\ \A r \in rvReturns' : r \in rvReturns \/ (r.from = j /\ r.Term = t /\ r.by = i)

\* Peer i grants its vote in term t to j, in a later term than its own or, having
\* no other vote to remember, in its own.
LEMMA GrantStep ==
  ASSUME QuorumsMeet, VoteType, VoteOrder, NEW i \in Server, NEW j \in Server, NEW t \in Nat, Grants(i, j, t)
  PROVE  VoteOrder'
  <1>step. /\ UNCHANGED <<votes, leadTerm, aeCalls, isCalls>> /\ rvCalls' \subseteq rvCalls
        /\ \A r \in rvReturns' : r \in rvReturns \/ (r.from = j /\ r.Term = t /\ r.by = i)
    BY Zenon DEF Grants
  <1>who. i # j /\ 0 < t /\ t <= CurrentTerm[j]
    BY Zenon DEF Grants
  <1>may. t > CurrentTerm[i] \/ (t = CurrentTerm[i] /\ VotedFor[i] \in {None, j})
    BY Zenon DEF Grants
  <1>1. \A k, v \in Server, u \in Nat :
           Granted(k, u, v)' => Granted(k, u, v) \/ (k = j /\ u = t /\ v = i)
    BY <1>step, Zenon DEF Granted
  <1>2. \A k, u : VotesOf(k, u)' = VotesOf(k, u)
    BY <1>step, Zenon DEF VotesOf
  <1>3. \A k, u : Elected(k, u)' <=> Elected(k, u)
    BY <1>2, Zenon DEF Elected
  <1>4. /\ CurrentTerm'[i] = t /\ LeaderTerm'[i] = t /\ VotedFor'[i] = j
        /\ State'[i] = "Follower" \/ (t = CurrentTerm[i] /\ State'[i] = State[i])
        /\ \A k \in Server \ {i} : /\ CurrentTerm'[k] = CurrentTerm[k] /\ LeaderTerm'[k] = LeaderTerm[k]
                                   /\ State'[k] = State[k] /\ VotedFor'[k] = VotedFor[k]
        /\ \A k \in Server : CurrentTerm[k] \in Nat /\ CurrentTerm'[k] \in Nat
                             /\ CurrentTerm[k] <= CurrentTerm'[k]
    <2>1. CASE t > CurrentTerm[i]
      BY <2>1 DEF VoteType, Grants, Adopted
    <2>2. CASE ~(t > CurrentTerm[i])
      <3>1. t = CurrentTerm[i] /\ VotedFor[i] # i
        BY <1>who, <1>may, <2>2, ServerAssumption, Zenon
      <3>2. LeaderTerm[i] = t
        BY <1>who, <3>1, Zenon DEF VoteOrder, LagsAsCandidate
      <3> QED BY <2>2, <3>1, <3>2 DEF VoteType, Grants, Adopted
    <2> QED BY <2>1, <2>2, Zenon
  <1>5. ASSUME NEW k \in Server, Granted(k, t, i), k # j
        PROVE  k = i /\ t = CurrentTerm[i] /\ \E l \in Server : l # i /\ Elected(l, t)
    <2>1. t = CurrentTerm[i] /\ VotedFor[i] \in {None, j}
      <3>1. t <= CurrentTerm[i] /\ CurrentTerm[i] \in Nat
        BY <1>4, <1>5, Zenon DEF VoteOrder, VotesPast
      <3> QED BY <1>may, <3>1
    <2>2. VotedFor[i] # i /\ VotedFor[i] # k
      BY <1>who, <1>5, <2>1, ServerAssumption, Zenon
    <2> QED BY <1>5, <2>1, <2>2 DEF VoteOrder, VoteKept
  <1>6. VotesPast'
    <2>1. \A m \in rvCalls : m.from \in Server /\ m.Term \in Nat
      BY Zenon DEF VoteType, RVCall
    <2>2. ASSUME NEW k \in Server, NEW v \in Server, NEW u \in Nat, Granted(k, u, v)'
          PROVE  0 < u /\ u <= CurrentTerm'[v] /\ u <= CurrentTerm'[k]
      <3>1. CASE Granted(k, u, v)
        BY <1>4, <3>1, SMTT(60) DEF VoteOrder, VotesPast
      <3>2. CASE k = j /\ u = t /\ v = i
        BY <1>who, <1>4, <3>2
      <3> QED BY <1>1, <2>2, <3>1, <3>2, Zenon
    <2>3. ASSUME NEW m \in rvCalls'
          PROVE  m.from # m.to /\ 0 < m.Term /\ m.Term <= CurrentTerm'[m.from]
      <3>1. m \in rvCalls
        BY <1>step, Zenon
      <3>2. m.from # m.to /\ 0 < m.Term /\ m.Term <= CurrentTerm[m.from]
        BY <3>1, Zenon DEF VoteOrder, VotesPast
      <3>3. /\ CurrentTerm[m.from] \in Nat /\ CurrentTerm'[m.from] \in Nat
            /\ CurrentTerm[m.from] <= CurrentTerm'[m.from]
        BY <1>4, <2>1, <3>1, Zenon
      <3> QED BY <2>1, <3>1, <3>2, <3>3
    <2>4. \A r \in rvReturns' : r.from # r.by
      <3>1. \A r \in rvReturns : r.from # r.by
        BY Zenon DEF VoteOrder, VotesPast
      <3> QED BY <1>step, <1>who, <3>1, Zenon
    <2> QED BY <2>2, <2>3, <2>4, Zenon DEF VotesPast
  <1>7. LagsAsCandidate'
    BY <1>4, Zenon DEF VoteOrder, LagsAsCandidate
  <1>8. VoteKept'
    <2>1. ASSUME NEW k \in Server, NEW v \in Server, NEW u \in Nat, Granted(k, u, v)', CurrentTerm'[v] = u
          PROVE  IF k # v THEN VotedFor'[v] = k /\ LeaderTerm'[v] = u
                 ELSE VotedFor'[v] = v \/ \E l \in Server : l # v /\ Elected(l, u)'
      <3>1. CASE v = i
        <4>1. u = t
          BY <1>4, <2>1, <3>1, Zenon
        <4>2. CASE k = j
          BY <1>4, <3>1, <4>1, <4>2, Zenon
        <4>3. CASE k # j
          BY <1>1, <1>3, <1>5, <2>1, <3>1, <4>1, <4>3
        <4> QED BY <4>2, <4>3, Zenon
      <3>2. CASE v # i
        <4>1. Granted(k, u, v) /\ CurrentTerm[v] = u
          BY <1>1, <1>4, <2>1, <3>2, Zenon
        <4>2. IF k # v THEN VotedFor[v] = k /\ LeaderTerm[v] = u
              ELSE VotedFor[v] = v \/ \E l \in Server : l # v /\ Elected(l, u)
          BY <4>1, Zenon DEF VoteOrder, VoteKept
        <4> QED BY <1>3, <1>4, <3>2, <4>2, Zenon
      <3> QED BY <3>1, <3>2, Zenon
    <2> QED BY <2>1, SMTT(60) DEF VoteKept
  <1>9. VoteTwice'
    <2>1. ASSUME NEW k \in Server, NEW l \in Server, NEW v \in Server, NEW u \in Nat,
                 Granted(k, u, v)', Granted(l, u, v)', k # l
          PROVE  v \in {k, l} /\ \E w \in Server : w # v /\ Elected(w, u)
      <3>1. CASE Granted(k, u, v) /\ Granted(l, u, v)
        BY <2>1, <3>1, Zenon DEF VoteOrder, VoteTwice
      <3>2. CASE k = j /\ u = t /\ v = i /\ Granted(l, t, i)
        BY <1>5, <2>1, <3>2, Zenon
      <3>3. CASE l = j /\ u = t /\ v = i /\ Granted(k, t, i)
        BY <1>5, <2>1, <3>3, Zenon
      <3> QED BY <1>1, <2>1, <3>1, <3>2, <3>3, Zenon
    <2> QED BY <1>3, <2>1, Zenon DEF VoteTwice
  <1>10. ElectorsLoyal'
    <2>1. ASSUME NEW k \in Server, NEW l \in Server, NEW v \in Server, NEW u \in Nat,
                 Elected(l, u), v \in VotesOf(l, u), Granted(k, u, v)'
          PROVE  k = l
      <3>1. CASE Granted(k, u, v)
        BY <2>1, <3>1, Zenon DEF VoteOrder, ElectorsLoyal
      <3>2. CASE k = j /\ u = t /\ v = i /\ l # j
        <4>1. Granted(l, t, i)
          BY <2>1, <3>2, Zenon DEF VotesOf, Granted
        <4>2. l = i /\ \E w \in Server : w # i /\ Elected(w, t)
          BY <1>5, <3>2, <4>1, Zenon
        <4> QED BY <2>1, <3>2, <4>2, ElectedUnique
      <3> QED BY <1>1, <2>1, <3>1, <3>2, Zenon
    <2> QED BY <1>2, <1>3, <2>1, Zenon DEF ElectorsLoyal
  <1>11. \A m \in aeCalls' \cup isCalls' : m.from # m.to /\ Elected(m.from, m.Term)'
    BY <1>step, <1>3, Zenon DEF VoteOrder, LeadersElected
  <1>12. \A k \in Server : State'[k] = "Leader" => leadTerm'[k] = CurrentTerm'[k]
    BY <1>step, <1>4, SMTT(60) DEF VoteOrder, LeadersElected
  <1>13. ASSUME NEW k \in Server, NEW u \in Nat
         PROVE  /\ leadTerm'[k] = u => Elected(k, u)
                /\ Elected(k, u) /\ CurrentTerm'[k] = u => leadTerm'[k] = u
    <2>1. Elected(k, u) /\ CurrentTerm'[k] = u => CurrentTerm[k] = u
      BY <1>4, ElectedPast
    <2> QED BY <1>step, <2>1, Zenon DEF VoteOrder, LeadersElected
  <1>14. LeadersElected'
    BY <1>3, <1>11, <1>12, <1>13, Zenon DEF LeadersElected
  <1> QED BY <1>6, <1>7, <1>8, <1>9, <1>10, <1>14, Zenon DEF VoteOrder

\* What counting j's vote of term t decides.
Decided(i, t, j) ==
    IF Cardinality(VotesOf(i, t) \cup {j}) > Half
    THEN /\ State' = [State EXCEPT ![i] = "Leader"]
         /\ leadTerm' = [leadTerm EXCEPT ![i] = t]
         /\ \A m \in aeCalls' : m \in aeCalls \/ (m.from = i /\ m.to # i /\ m.Term = t)
    ELSE UNCHANGED <<State, leadTerm, aeCalls>>

\* Candidate i counts the vote of j in term t.
Counts(i, j, t) ==
    /\ i # j /\ Granted(i, t, j) /\ t = CurrentTerm[i] /\ leadTerm[i] # t
    /\ votes' = votes \cup {<<i, t, j>>} /\ rvReturns' \subseteq rvReturns
    /\ UNCHANGED <<CurrentTerm, VotedFor, LeaderTerm, rvCalls, isCalls>> /\ Decided(i, t, j)

\* Candidate i, not elected so far, counts a vote of its term; if it is the one
\* that makes a majority, i leads and sends its first heartbeats.
LEMMA CountStep ==
  ASSUME QuorumsMeet, VoteType, VoteOrder, NEW i \in Server, NEW j \in Server, NEW t \in Nat, Counts(i, j, t)
  PROVE  VoteOrder'
  <1> DEFINE wins == Cardinality(VotesOf(i, t) \cup {j}) > Half
  <1>step. /\ i # j /\ Granted(i, t, j) /\ t = CurrentTerm[i] /\ leadTerm[i] # t
        /\ votes' = votes \cup {<<i, t, j>>} /\ rvReturns' \subseteq rvReturns
    BY Zenon DEF Counts
  <1>1. \A k, v \in Server, u \in Nat : Granted(k, u, v)' => Granted(k, u, v)
    BY <1>step, Zenon DEF Granted
  <1>2. /\ \A k \in Server, u \in Nat : k # i \/ u # t => VotesOf(k, u)' = VotesOf(k, u)
        /\ VotesOf(i, t)' = VotesOf(i, t) \cup {j}
    BY <1>step, Zenon DEF VotesOf
  <1>3. ~Elected(i, t)
    BY <1>step, Zenon DEF VoteOrder, LeadersElected
  <1>4. /\ \A k \in Server, u \in Nat : k # i \/ u # t => (Elected(k, u)' <=> Elected(k, u))
        /\ Elected(i, t)' <=> wins
    BY <1>step, <1>2, Zenon DEF Elected
  <1>5. \A k \in Server, u \in Nat : Elected(k, u) => Elected(k, u)'
    BY <1>3, <1>4, Zenon
  <1>same. UNCHANGED <<CurrentTerm, VotedFor, LeaderTerm, rvCalls, isCalls>>
    BY Zenon DEF Counts
  <1> HIDE DEF wins
  <1>6. VotesPast' /\ LagsAsCandidate'
    <2>1. VotesPast'
      BY <1>step, <1>1, <1>same, Zenon DEF VoteOrder, VotesPast
    <2>2. LagsAsCandidate'
      BY <1>same, Zenon DEF VoteOrder, LagsAsCandidate
    <2> QED BY <2>1, <2>2, Zenon
  <1>7. VoteKept'
    <2>1. ASSUME NEW k \in Server, NEW v \in Server, NEW u \in Nat, Granted(k, u, v)', CurrentTerm'[v] = u
          PROVE  IF k # v THEN VotedFor'[v] = k /\ LeaderTerm'[v] = u
                 ELSE VotedFor'[v] = v \/ \E l \in Server : l # v /\ Elected(l, u)
      BY <1>1, <1>same, <2>1 DEF VoteOrder, VoteKept
    <2> QED BY <1>5, <2>1 DEF VoteKept
  <1>8. VoteTwice'
    BY <1>1, <1>5 DEF VoteOrder, VoteTwice
  <1>9. \A v \in VotesOf(i, t)' : v \in Server /\ Granted(i, t, v)
    BY <1>step, <1>2, Zenon DEF VotesOf, Granted
  \* Had another peer been elected, a voter of both would have been disloyal.
  <1>10. wins => \A k \in Server : ~Elected(k, t)
    <2> SUFFICES ASSUME wins, NEW k \in Server, Elected(k, t) PROVE FALSE
      BY Zenon
    <2>1. /\ VotesOf(i, t)' \in SUBSET Server /\ Cardinality(VotesOf(i, t)') > Half
          /\ VotesOf(k, t) \in SUBSET Server /\ Cardinality(VotesOf(k, t)) > Half
      BY <1>2, <1>9, Zenon DEF wins, VotesOf, Elected
    <2>2. PICK v \in Server : v \in VotesOf(i, t)' /\ v \in VotesOf(k, t)
      BY <2>1, Zenon DEF QuorumsMeet
    <2>3. i = k
      BY <1>9, <2>2, Zenon DEF VoteOrder, ElectorsLoyal
    <2> QED BY <1>3, <2>3, Zenon
  <1>11. ElectorsLoyal'
    <2>1. ASSUME NEW k \in Server, NEW l \in Server, NEW v \in Server, NEW u \in Nat,
                 Elected(l, u)', v \in VotesOf(l, u)', Granted(k, u, v)'
          PROVE  k = l
      <3>1. CASE l # i \/ u # t
        BY <1>1, <1>2, <1>4, <2>1, <3>1 DEF VoteOrder, ElectorsLoyal
      <3>2. CASE l = i /\ u = t
        <4>1. wins /\ Granted(i, t, v) /\ Granted(k, t, v)
          BY <1>1, <1>4, <1>9, <2>1, <3>2, Zenon
        <4>2. k # i => \E w \in Server : Elected(w, t)
          BY <4>1, Zenon DEF VoteOrder, VoteTwice
        <4> QED BY <1>10, <3>2, <4>1, <4>2, Zenon
      <3> QED BY <3>1, <3>2, Zenon
    <2> QED BY <2>1, Zenon DEF ElectorsLoyal
  <1>12. \A m \in aeCalls' \cup isCalls' : m.from # m.to /\ Elected(m.from, m.Term)'
    <2>1. \A m \in aeCalls \cup isCalls : m.from \in Server /\ m.Term \in Nat
      BY Zenon DEF VoteType, AECall, ISCall
    <2>2. \A m \in aeCalls \cup isCalls : m.from # m.to /\ Elected(m.from, m.Term)'
      BY <1>5, <2>1, Zenon DEF VoteOrder, LeadersElected
    <2>3. ~wins => aeCalls' = aeCalls
      BY Zenon DEF wins, Counts, Decided
    <2>4. wins => \A m \in aeCalls' : m \in aeCalls \/ (m.from = i /\ m.to # i /\ m.Term = t)
      BY Zenon DEF wins, Counts, Decided
    <2> QED BY <1>4, <1>same, <2>2, <2>3, <2>4
  <1>13. /\ wins => leadTerm'[i] = t
         /\ ~wins => leadTerm'[i] = leadTerm[i] /\ State'[i] = State[i]
         /\ \A k \in Server \ {i} : leadTerm'[k] = leadTerm[k] /\ State'[k] = State[k]
    BY Zenon DEF VoteType, wins, Counts, Decided
  <1>14. \A k \in Server : State'[k] = "Leader" => leadTerm'[k] = CurrentTerm'[k]
    BY <1>step, <1>13, <1>same DEF VoteOrder, LeadersElected
  <1>15. ASSUME NEW k \in Server, NEW u \in Nat
         PROVE  /\ leadTerm'[k] = u => Elected(k, u)'
                /\ Elected(k, u)' /\ CurrentTerm'[k] = u => leadTerm'[k] = u
    <2>1. CASE k # i
      BY <1>4, <1>13, <1>same, <2>1 DEF VoteOrder, LeadersElected
    <2>2. CASE k = i /\ wins
      BY <1>step, <1>4, <1>13, <1>same, <2>2, Zenon
    <2>3. CASE k = i /\ ~wins
      BY <1>step, <1>4, <1>13, <1>same, <2>3 DEF VoteOrder, LeadersElected
    <2> QED BY <2>1, <2>2, <2>3, Zenon
  <1>16. LeadersElected'
    BY <1>12, <1>14, <1>15, Zenon DEF LeadersElected
  <1> QED BY <1>6, <1>7, <1>8, <1>11, <1>16, Zenon DEF VoteOrder

-----------------------------------------------------------------------------
\* An election timeout.
LEMMA prepareElectionVote ==
  ASSUME VoteType, VoteOrder, NEW i \in Server, prepareElection(i)
  PROVE  VoteOrder'
  <1>1. CurrentTerm[i] + 1 \in Nat
    BY DEF VoteType
  <1>2. /\ CurrentTerm' = [CurrentTerm EXCEPT ![i] = CurrentTerm[i] + 1]
        /\ VotedFor' = [VotedFor EXCEPT ![i] = i] /\ State' = [State EXCEPT ![i] = "Candidate"]
        /\ votes' = votes \cup {<<i, CurrentTerm[i] + 1, i>>}
        /\ UNCHANGED <<LeaderTerm, leadTerm, rvReturns, aeCalls, isCalls>>
    BY Zenon DEF prepareElection, aeNet, isNet
  <1>3. \A m \in rvCalls' : m \in rvCalls \/ (m.from = i /\ m.to # i /\ m.Term = CurrentTerm[i] + 1)
    <2> DEFINE asked == {[from |-> i, to |-> j, orphan |-> FALSE, Term |-> CurrentTerm[i] + 1,
                          LastLogIndex |-> LastLogIndex(i), LastLogTerm |-> LastLogTerm(i)] :
                            j \in Server \ {i}}
    <2>1. rvCalls' \subseteq rvCalls \cup asked
      BY Zenon DEF prepareElection, Transit
    <2>2. \A m \in asked : m.from = i /\ m.to # i /\ m.Term = CurrentTerm[i] + 1
      OBVIOUS
    <2> HIDE DEF asked
    <2> QED BY <2>1, <2>2, Zenon
  <1> QED BY <1>1, <1>2, <1>3, StandStep, Zenon

\* Whom heartbeats come from, whom they go to and their term.
LEMMA HeartBeatFrom ==
  ASSUME NEW i \in Server, NEW next, sendHeartBeat(i, next)
  PROVE  \A m \in aeCalls' : m \in aeCalls \/ (m.from = i /\ m.to # i /\ m.Term = CurrentTerm[i])
  <1>1. aeCalls' \subseteq aeCalls \cup {AppendEntriesArgs(i, j, next[j], <<>>) : j \in Server \ {i}}
    BY Zenon DEF sendHeartBeat, Transit
  <1>2. \A j, n, e : /\ AppendEntriesArgs(i, j, n, e).from = i /\ AppendEntriesArgs(i, j, n, e).to = j
                     /\ AppendEntriesArgs(i, j, n, e).Term = CurrentTerm[i]
    BY Zenon DEF AppendEntriesArgs
  <1> QED BY <1>1, <1>2

\* A peer meets a later term in the reply to a request.
LEMMA StepDownVote ==
  ASSUME VoteType, VoteOrder, NEW i \in Server, NEW t \in Nat, t > CurrentTerm[i], StepDown(i, t),
         UNCHANGED <<leaderVars, aeCalls, isCalls, rvCalls>>, rvReturns' \subseteq rvReturns
  PROVE  VoteOrder'
  <1>1. /\ CurrentTerm' = [CurrentTerm EXCEPT ![i] = t] /\ LeaderTerm' = [LeaderTerm EXCEPT ![i] = t]
        /\ State' = [State EXCEPT ![i] = "Follower"] /\ VotedFor' = [VotedFor EXCEPT ![i] = None]
    BY Zenon DEF StepDown
  <1>2. t >= CurrentTerm[i] /\ t # CurrentTerm[i] /\ \A k \in Server \ {i} : VotedFor'[k] = VotedFor[k]
    BY <1>1 DEF VoteType
  <1>3. UNCHANGED <<votes, leadTerm, aeCalls, isCalls, rvCalls>>
    BY Zenon DEF leaderVars
  <1> QED BY <1>1, <1>2, <1>3, FollowStep, Zenon

\* A request for a vote arrives.
LEMMA RequestVoteVote ==
  ASSUME QuorumsMeet, VoteType, VoteOrder, NEW m \in rvCalls, RequestVote(m)
  PROVE  VoteOrder'
  <1> DEFINE i == m.to
             j == m.from
             t == m.Term
             newer == t > CurrentTerm[i]
             grant == MayVote(i, m) /\ UpToDate(i, m)
  <1>1. i \in Server /\ j \in Server /\ t \in Nat /\ i # j /\ 0 < t /\ t <= CurrentTerm[j]
    BY Zenon DEF VoteType, RVCall, VoteOrder, VotesPast
  <1>2. /\ UNCHANGED <<votes, leadTerm, aeCalls, isCalls>> /\ rvCalls' \subseteq rvCalls
        /\ VotedFor' = [VotedFor EXCEPT ![i] = IF grant THEN j ELSE IF newer THEN None ELSE @]
    BY Zenon DEF RequestVote, leaderVars, aeNet, isNet
  <1>3. IF newer THEN /\ CurrentTerm' = [CurrentTerm EXCEPT ![i] = t]
                      /\ LeaderTerm' = [LeaderTerm EXCEPT ![i] = t]
                      /\ State' = [State EXCEPT ![i] = "Follower"]
        ELSE UNCHANGED <<CurrentTerm, LeaderTerm, State>>
    BY Zenon DEF RequestVote
  <1>4. \A r \in rvReturns' : \/ r \in rvReturns
                              \/ r.from = j /\ r.by = i /\ r.Term = t /\ r.VoteGranted = grant
    <2> DEFINE a == [from |-> j, by |-> i, Term |-> t, ReplyTerm |-> CurrentTerm[i], VoteGranted |-> grant]
    <2>1. rvReturns' \subseteq rvReturns \cup {a}
      <3>1. rvReturns' \subseteq rvReturns \cup Heeded(m, grant, a)
        BY Zenon DEF RequestVote, Transit
      <3> QED BY <3>1, Zenon DEF Heeded
    <2>2. a.from = j /\ a.by = i /\ a.Term = t /\ a.VoteGranted = grant
      BY Zenon
    <2> HIDE DEF a
    <2> QED BY <2>1, <2>2, Zenon
  <1>5. grant => newer \/ (t = CurrentTerm[i] /\ VotedFor[i] \in {None, j})
    BY Zenon DEF MayVote
  <1> HIDE DEF i, j, t, grant
  <1>6. CASE grant
    <2>1. VotedFor' = [VotedFor EXCEPT ![i] = j]
      BY <1>2, <1>6, Zenon
    <2>2. t > CurrentTerm[i] \/ (t = CurrentTerm[i] /\ VotedFor[i] \in {None, j})
      BY <1>5, <1>6, Zenon
    <2>3. \A r \in rvReturns' : r \in rvReturns \/ (r.from = j /\ r.Term = t /\ r.by = i)
      BY <1>4, Zenon
    <2>4. Adopted(i, t)
      BY <1>3, Zenon DEF Adopted
    <2> HIDE DEF newer
    <2>5. Grants(i, j, t)
      BY <1>1, <1>2, <2>1, <2>2, <2>3, <2>4 DEF Grants
    <2> QED BY <1>1, <2>5, GrantStep, Zenon
  <1>7. CASE ~grant /\ newer
    <2>1. \A k \in Server \ {i} : VotedFor'[k] = VotedFor[k]
      BY <1>2, Zenon DEF VoteType
    <2>2. \A r \in rvReturns' : r \in rvReturns \/ (~r.VoteGranted /\ r.from # r.by)
      BY <1>1, <1>4, <1>7
    <2>3. t >= CurrentTerm[i] /\ t # CurrentTerm[i]
      BY <1>1, <1>7 DEF VoteType
    <2> QED BY <1>1, <1>2, <1>3, <1>7, <2>1, <2>2, <2>3, FollowStep
  <1>8. CASE ~grant /\ ~newer
    <2>1. VotedFor' = VotedFor
      BY <1>2, <1>8, Zenon DEF VoteType
    <2>2. UNCHANGED <<CurrentTerm, LeaderTerm, State>>
      BY <1>3, <1>8, Zenon
    <2>3. \A r \in rvReturns' : r \in rvReturns \/ (~r.VoteGranted /\ r.from # r.by)
      BY <1>1, <1>4, <1>8
    <2> QED BY <1>2, <2>1, <2>2, <2>3, QuietStep DEF termVars
  <1> QED BY <1>6, <1>7, <1>8, Zenon

\* The answer to a request for a vote arrives.
LEMMA handleVoteVote ==
  ASSUME QuorumsMeet, VoteType, VoteOrder, NEW r \in rvReturns, handleVote(r)
  PROVE  VoteOrder'
  <1> DEFINE i == r.from
             j == r.by
             t == r.Term
             counts == r.VoteGranted /\ t = CurrentTerm[i] /\ leadTerm[i] # t
  <1>1. i \in Server /\ j \in Server /\ t \in Nat /\ i # j /\ r.ReplyTerm \in Nat
    BY Zenon DEF VoteType, RVReturn, VoteOrder, VotesPast
  <1>2. rvReturns' \subseteq rvReturns /\ UNCHANGED <<rvCalls, isCalls>>
    BY Zenon DEF handleVote, isNet
  <1>3. CASE /\ counts /\ votes' = votes \cup {<<i, t, j>>}
             /\ IF Cardinality(VotesOf(i, t) \cup {j}) > Half
                THEN State' = [State EXCEPT ![i] = "Leader"] /\ becomeLeader(i)
                ELSE UNCHANGED <<State, leadTerm, NextIndex, MatchIndex, aeCalls>>
             /\ UNCHANGED <<CurrentTerm, VotedFor, LeaderTerm, LastNewEntryIndex, raftstate>>
    <2>1. becomeLeader(i) =>
             /\ leadTerm' = [leadTerm EXCEPT ![i] = CurrentTerm[i]]
             /\ \A m \in aeCalls' : m \in aeCalls \/ (m.from = i /\ m.to # i /\ m.Term = CurrentTerm[i])
      BY <1>1, HeartBeatFrom, Zenon DEF becomeLeader
    <2>2. Granted(i, t, j)
      BY <1>3, Zenon DEF Granted
    <2>3. Decided(i, t, j)
      BY <1>3, <2>1, Zenon DEF Decided
    <2> HIDE DEF i, j, t
    <2>4. Counts(i, j, t)
      BY <1>1, <1>2, <1>3, <2>2, <2>3 DEF Counts
    <2> QED BY <1>1, <2>4, CountStep, Zenon
  <1>4. CASE /\ r.ReplyTerm > CurrentTerm[i] /\ StepDown(i, r.ReplyTerm)
             /\ UNCHANGED <<leaderVars, aeCalls>>
    <2> HIDE DEF i
    <2> QED BY <1>1, <1>2, <1>4, StepDownVote
  <1>5. CASE UNCHANGED <<termVars, leaderVars, aeCalls>>
    BY <1>2, <1>5, QuietStep, Zenon DEF leaderVars
  <1> QED BY <1>3, <1>4, <1>5, Zenon DEF handleVote

\* m.to follows the sender of m.  It resets its vote only when LeaderTerm shows
\* that it has not heard of the term's leader yet.
Hears(m) ==
    /\ m.Term >= CurrentTerm[m.to]
    /\ State' = [State EXCEPT ![m.to] = "Follower"]
    /\ CurrentTerm' = [CurrentTerm EXCEPT ![m.to] = m.Term]
    /\ LeaderTerm' = [LeaderTerm EXCEPT ![m.to] = m.Term]
    /\ VotedFor' = [VotedFor EXCEPT ![m.to] =
                       IF m.Term # LeaderTerm[m.to] \/ m.Term > CurrentTerm[m.to] THEN None ELSE @]

\* A peer hears from the leader of its term or a later one.
LEMMA HeardStep ==
  ASSUME VoteType, VoteOrder, NEW m \in aeCalls \cup isCalls, Hears(m),
         UNCHANGED <<votes, leadTerm, rvCalls, rvReturns, aeCalls, isCalls>>
  PROVE  VoteOrder'
  <1> DEFINE i == m.to
             t == m.Term
  <1>1. i \in Server /\ m.from \in Server /\ t \in Nat /\ CurrentTerm[i] \in Nat
    BY Zenon DEF VoteType, AECall, ISCall
  <1>2. m.from # i /\ Elected(m.from, t)
    BY Zenon DEF VoteOrder, LeadersElected
  <1>3. /\ \A j \in Server \ {i} : VotedFor'[j] = VotedFor[j]
        /\ VotedFor'[i] = IF t # LeaderTerm[i] \/ t > CurrentTerm[i] THEN None ELSE VotedFor[i]
    BY <1>1, Zenon DEF VoteType, Hears
  <1>4. /\ t >= CurrentTerm[i] /\ CurrentTerm' = [CurrentTerm EXCEPT ![i] = t]
        /\ LeaderTerm' = [LeaderTerm EXCEPT ![i] = t] /\ State' = [State EXCEPT ![i] = "Follower"]
    BY Zenon DEF Hears
  <1> HIDE DEF i, t
  <1>5. t = CurrentTerm[i] => \/ VotedFor'[i] = VotedFor[i]
                              \/ LeaderTerm[i] # t /\ \E k \in Server : k # i /\ Elected(k, t)
    BY <1>1, <1>2, <1>3
  <1> QED BY <1>1, <1>3, <1>4, <1>5, FollowStep

\* Handler AppendEntries.
LEMMA AppendEntriesVote ==
  ASSUME VoteType, VoteOrder, NEW m \in aeCalls, AppendEntries(m)
  PROVE  VoteOrder'
  <1>1. UNCHANGED <<votes, leadTerm, rvCalls, rvReturns, aeCalls, isCalls>>
    BY Zenon DEF AppendEntries, leaderVars, rvNet, isNet
  <1>2. CASE UNCHANGED termVars
    BY <1>1, <1>2, QuietStep, Zenon
  <1>3. CASE Hears(m)
    BY <1>1, <1>3, HeardStep, Zenon
  <1> QED BY <1>2, <1>3, Zenon DEF AppendEntries, Hears

\* Handler InstallSnapshot.
LEMMA InstallSnapshotVote ==
  ASSUME VoteType, VoteOrder, NEW m \in isCalls, InstallSnapshot(m)
  PROVE  VoteOrder'
  <1>1. UNCHANGED <<votes, leadTerm, rvCalls, rvReturns, aeCalls, isCalls>>
    BY Zenon DEF InstallSnapshot, leaderVars, rvNet, aeNet
  <1>2. CASE UNCHANGED termVars
    BY <1>1, <1>2, QuietStep
  <1>3. CASE Hears(m)
    BY <1>1, <1>3, HeardStep
  <1> QED BY <1>2, <1>3, Zenon DEF InstallSnapshot, Hears

\* The answer to AppendEntries.
LEMMA handleAppendReplyVote ==
  ASSUME VoteType, VoteOrder, NEW r \in AEReturn, handleAppendReply(r)
  PROVE  VoteOrder'
  <1>1. UNCHANGED <<votes, leadTerm, rvCalls, rvReturns, aeCalls, isCalls>>
    BY Zenon DEF handleAppendReply, rvNet, aeNet, isNet
  <1>2. r.from \in Server /\ r.ReplyTerm \in Nat
    BY Zenon DEF AEReturn
  <1>3. CASE UNCHANGED termVars
    BY <1>1, <1>3, QuietStep, Zenon
  <1>4. CASE /\ r.ReplyTerm > CurrentTerm[r.from] /\ StepDown(r.from, r.ReplyTerm)
             /\ UNCHANGED <<NextIndex, MatchIndex>>
    BY <1>1, <1>2, <1>4, StepDownVote DEF leaderVars
  <1> QED BY <1>3, <1>4, Zenon DEF handleAppendReply

\* The answer to InstallSnapshot.
LEMMA handleSnapshotReplyVote ==
  ASSUME VoteType, VoteOrder, NEW r \in ISReturn, handleSnapshotReply(r)
  PROVE  VoteOrder'
  <1>1. UNCHANGED <<votes, leadTerm, rvCalls, rvReturns, aeCalls, isCalls>>
    BY Zenon DEF handleSnapshotReply, rvNet, aeNet, isNet
  <1>2. r.from \in Server /\ r.ReplyTerm \in Nat
    BY DEF ISReturn
  <1>3. CASE UNCHANGED termVars
    BY <1>1, <1>3, QuietStep
  <1>4. CASE /\ r.ReplyTerm > CurrentTerm[r.from] /\ StepDown(r.from, r.ReplyTerm)
             /\ UNCHANGED <<NextIndex, MatchIndex>>
    BY <1>1, <1>2, <1>4, StepDownVote DEF leaderVars
  <1> QED BY <1>3, <1>4, Zenon DEF handleSnapshotReply

\* A leader's heartbeats and a round of its replicateLog.
LEMMA SendVote ==
  ASSUME VoteType, VoteOrder, NEW i \in Server,
         ticker(i) \/ \E j \in Server : replicateLog(i, j)
  PROVE  VoteOrder'
  <1>1. UNCHANGED <<termVars, votes, leadTerm, rvCalls, rvReturns>>
    BY Zenon DEF ticker, replicateLog, leaderVars, rvNet
  <1>2. leadTerm[i] = CurrentTerm[i] /\ CurrentTerm[i] # -1
    <2>1. leadTerm[i] = CurrentTerm[i]
      BY Zenon DEF ticker, replicateLog, VoteOrder, LeadersElected
    <2> QED BY <2>1 DEF VoteType
  <1>3. \A m \in aeCalls' : m \in aeCalls \/ (m.from = i /\ m.to # i /\ m.Term = CurrentTerm[i])
    <2>1. CASE ticker(i)
      BY <2>1, HeartBeatFrom, Zenon DEF ticker
    <2>2. ASSUME NEW j \in Server, replicateLog(i, j)
          PROVE  \A m \in aeCalls' : m \in aeCalls \/ (m.from = i /\ m.to # i /\ m.Term = CurrentTerm[i])
      <3>1. PICK n, e : aeCalls' \subseteq aeCalls \cup {AppendEntriesArgs(i, j, n, e)} /\ i # j
        BY <2>2, Zenon DEF replicateLog, Transit
      <3>2. LET a == AppendEntriesArgs(i, j, n, e)
            IN  a.from = i /\ a.to = j /\ a.Term = CurrentTerm[i]
        BY Zenon DEF AppendEntriesArgs
      <3> QED BY <3>1, <3>2, Zenon
    <2> QED BY <2>1, <2>2, Zenon
  <1>4. \A m \in isCalls' : m \in isCalls \/ (m.from = i /\ m.to # i /\ m.Term = CurrentTerm[i])
    <2>1. CASE ticker(i)
      BY <2>1, Zenon DEF ticker, isNet
    <2>2. ASSUME NEW j \in Server, replicateLog(i, j)
          PROVE  \A m \in isCalls' : m \in isCalls \/ (m.from = i /\ m.to # i /\ m.Term = CurrentTerm[i])
      <3> DEFINE a == [from |-> i, to |-> j, orphan |-> FALSE, Term |-> CurrentTerm[i],
                       LastIncludedIndex |-> SnapshotLastIncludedIndex[i],
                       LastIncludedTerm |-> SnapshotLastIncludedTerm[i], Data |-> snapshot[i]]
      <3>1. isCalls' \subseteq isCalls \cup {a} /\ i # j
        BY <2>2, Zenon DEF replicateLog, Transit
      <3>2. a.from = i /\ a.to = j /\ a.Term = CurrentTerm[i]
        BY Zenon
      <3> HIDE DEF a
      <3> QED BY <3>1, <3>2, Zenon
    <2> QED BY <2>1, <2>2
  <1> QED BY <1>1, <1>2, <1>3, <1>4, QuietStep

\* What the service, the apply goroutine and updateCommitIndex do touches neither
\* terms nor votes.
LEMMA LocalVote ==
  ASSUME VoteType, VoteOrder, NEW i \in Server,
         \/ updateCommitIndex(i) \/ applyLogCollect(i) \/ deliver(i) \/ applyLogDone(i)
         \/ Snapshot(i) \/ \E c \in Command : Start(i, c)
  PROVE  VoteOrder'
  <1>1. UNCHANGED <<termVars, votes, leadTerm, rvCalls, rvReturns, aeCalls, isCalls>>
    <2>1. CASE updateCommitIndex(i)
      BY <2>1, Zenon DEF updateCommitIndex, leaderVars, rvNet, aeNet, isNet
    <2>2. CASE applyLogCollect(i)
      BY <2>2, Zenon DEF applyLogCollect, leaderVars, rvNet, aeNet, isNet
    <2>3. CASE deliver(i)
      BY <2>3, Zenon DEF deliver, leaderVars, rvNet, aeNet, isNet
    <2>4. CASE applyLogDone(i)
      BY <2>4, Zenon DEF applyLogDone, leaderVars, rvNet, aeNet, isNet
    <2>5. CASE Snapshot(i)
      BY <2>5, Zenon DEF Snapshot, leaderVars, rvNet, aeNet, isNet
    <2>6. CASE \E c \in Command : Start(i, c)
      BY <2>6, Zenon DEF Start, rvNet, aeNet, isNet
    <2> QED BY <2>1, <2>2, <2>3, <2>4, <2>5, <2>6
  <1> QED BY <1>1, QuietStep, Zenon

\* Every step keeps VoteInv; a restart makes it vacuous from then on.
LEMMA NextVoteInv ==
  ASSUME QuorumsMeet, TypeOK, VoteInv, [Next]_vars
  PROVE  VoteInv'
  <1>1. restarts' = restarts \/ restarts' = restarts + 1
    <2>1. CASE \E i \in Server : Restart(i)
      BY <2>1, Zenon DEF Restart
    <2>2. CASE ~\E i \in Server : Restart(i)
      BY <2>2, Zenon DEF Next, vars, prepareElection, ticker, updateCommitIndex, applyLogCollect, deliver,
         applyLogDone, Snapshot, replicateLog, Start, RequestVote, AppendEntries, InstallSnapshot,
         handleVote, handleAppendReply, handleSnapshotReply
    <2> QED BY <2>1, <2>2, Zenon
  <1> SUFFICES ASSUME restarts = 0, restarts' = 0 PROVE VoteOrder'
    <2>1. restarts \in Nat
      BY Zenon DEF TypeOK
    <2> QED BY <1>1, <2>1 DEF VoteInv
  <1>2. VoteType /\ VoteOrder
    BY VoteTyped, Zenon DEF VoteInv
  <1>3. CASE \E i \in Server : prepareElection(i)
    BY <1>2, <1>3, prepareElectionVote, Zenon
  <1>4. CASE \E i \in Server : ticker(i) \/ \E j \in Server : replicateLog(i, j)
    BY <1>2, <1>4, SendVote
  <1>5. CASE \E i \in Server : \/ updateCommitIndex(i) \/ applyLogCollect(i) \/ deliver(i)
                               \/ applyLogDone(i) \/ Snapshot(i) \/ \E c \in Command : Start(i, c)
    BY <1>2, <1>5, LocalVote
  <1>6. CASE \E i \in Server : Restart(i)
    <2>1. restarts' = restarts + 1
      BY <1>6, Zenon DEF Restart
    <2> QED BY <2>1
  <1>7. CASE (\E m \in rvCalls : RequestVote(m)) \/ (\E r \in rvReturns : handleVote(r))
    BY <1>2, <1>7, RequestVoteVote, handleVoteVote
  <1>8. CASE (\E m \in aeCalls : AppendEntries(m)) \/ (\E m \in isCalls : InstallSnapshot(m))
    BY <1>2, <1>8, AppendEntriesVote, InstallSnapshotVote
  <1>9. CASE (\E r \in aeReturns : handleAppendReply(r)) \/ (\E r \in isReturns : handleSnapshotReply(r))
    <2>1. aeReturns \subseteq AEReturn /\ isReturns \subseteq ISReturn
      BY Zenon DEF TypeOK
    <2> QED BY <1>2, <1>9, <2>1, handleAppendReplyVote, handleSnapshotReplyVote
  <1>10. CASE UNCHANGED vars
    <2>1. UNCHANGED <<termVars, votes, leadTerm, rvCalls, rvReturns, aeCalls, isCalls>>
      BY <1>10, Zenon DEF vars, leaderVars, rvNet, aeNet, isNet
    <2> QED BY <1>2, <2>1, QuietStep, Zenon
  <1> QED BY <1>3, <1>4, <1>5, <1>6, <1>7, <1>8, <1>9, <1>10, Zenon DEF Next

\* While no peer has been restarted, two leaders of one term are the same peer.
LEMMA VoteInvSafe ==
  ASSUME QuorumsMeet, TypeOK, VoteInv, restarts = 0
  PROVE  ElectionSafety
  <1> SUFFICES ASSUME VoteOrder, NEW i \in Server, NEW j \in Server, State[i] = "Leader",
                      State[j] = "Leader", CurrentTerm[i] = CurrentTerm[j]
               PROVE  i = j
    BY Zenon DEF VoteInv, ElectionSafety
  <1>1. CurrentTerm[i] \in Nat
    BY VoteTyped, Zenon DEF VoteType
  <1>2. Elected(i, CurrentTerm[i]) /\ Elected(j, CurrentTerm[i])
    BY <1>1, Zenon DEF VoteOrder, LeadersElected
  <1> QED BY <1>1, <1>2, ElectedUnique

-----------------------------------------------------------------------------
(***************************************************************************)
(* The logs through a restart, and the theorems.                           *)
(***************************************************************************)

\* What is under way when a peer crashes was under way before.
LEMMA SurviveLemma ==
  ASSUME LogInv, NEW i \in Server
  PROVE  /\ Survive(rvCalls, i) \subseteq RVCall
         /\ Survive(aeCalls, i) \subseteq AECall
         /\ Survive(isCalls, i) \subseteq ISCall
         /\ \A m \in Survive(aeCalls, i) : \E c \in aeCalls :
               m.Entries = c.Entries /\ m.PrevLogIndex = c.PrevLogIndex
         /\ \A m \in Survive(isCalls, i) : \E c \in isCalls :
               m.Data = c.Data /\ m.LastIncludedIndex = c.LastIncludedIndex
  <1>1. rvCalls \subseteq RVCall /\ aeCalls \subseteq AECall /\ isCalls \subseteq ISCall
    BY Zenon DEF LogInv, TypeOK
  <1>2. ASSUME NEW m \in Survive(rvCalls, i) PROVE m \in RVCall
    <2>1. PICK c \in rvCalls : m = [c EXCEPT !.orphan = @ \/ c.from = i]
      BY Zenon DEF Survive
    <2> QED BY <1>1, <2>1, Zenon DEF RVCall
  <1>3. ASSUME NEW m \in Survive(aeCalls, i)
        PROVE  /\ m \in AECall
               /\ \E c \in aeCalls : m.Entries = c.Entries /\ m.PrevLogIndex = c.PrevLogIndex
    <2>1. PICK c \in aeCalls : m = [c EXCEPT !.orphan = @ \/ c.from = i]
      BY DEF Survive
    <2> QED BY <1>1, <2>1, Zenon DEF AECall
  <1>4. ASSUME NEW m \in Survive(isCalls, i)
        PROVE  /\ m \in ISCall
               /\ \E c \in isCalls : m.Data = c.Data /\ m.LastIncludedIndex = c.LastIncludedIndex
    <2>1. PICK c \in isCalls : m = [c EXCEPT !.orphan = @ \/ c.from = i]
      BY DEF Survive
    <2> QED BY <1>1, <2>1, Zenon DEF ISCall
  <1> QED BY <1>2, <1>3, <1>4

\* A restarted peer has the log and snapshot of its persister, which are in step.
LEMMA RestartLogInv ==
  ASSUME LogInv, NEW i \in Server, Restart(i)
  PROVE  LogInv'
  <1> DEFINE rs == raftstate[i]
  <1>1. /\ rs.CurrentTerm \in Nat /\ rs.VotedFor \in Server \cup {None}
        /\ rs.Logs \in Seq(Entry) /\ rs.Index \in Nat /\ rs.Term \in Nat
        /\ snapshot[i] \in Seq(Entry)
    <2>1. rs \in RaftState
      BY Zenon DEF LogInv, TypeOK
    <2>2. snapshot[i] \in Seq(Entry)
      BY Zenon DEF LogInv, TypeOK
    <2> QED BY <2>1, <2>2, Zenon DEF RaftState
  <1> HIDE DEF rs
  <1>2. /\ CurrentTerm' = [CurrentTerm EXCEPT ![i] = rs.CurrentTerm]
        /\ VotedFor' = [VotedFor EXCEPT ![i] = rs.VotedFor]
        /\ Logs' = [Logs EXCEPT ![i] = rs.Logs]
        /\ SnapshotLastIncludedIndex' = [SnapshotLastIncludedIndex EXCEPT ![i] = rs.Index]
        /\ SnapshotLastIncludedTerm' = [SnapshotLastIncludedTerm EXCEPT ![i] = rs.Term]
        /\ CommitIndex' = [CommitIndex EXCEPT ![i] = rs.Index]
        /\ LastApplied' = [LastApplied EXCEPT ![i] = rs.Index]
    BY ZenonT(60) DEF Restart, rs
  <1>3. /\ LeaderTerm' = [LeaderTerm EXCEPT ![i] = -1]
        /\ State' = [State EXCEPT ![i] = "Follower"]
        /\ LastNewEntryIndex' = [LastNewEntryIndex EXCEPT ![i] = 0]
        /\ votes' \subseteq votes
        /\ leadTerm' = [leadTerm EXCEPT ![i] = -1]
        /\ NextIndex' = [NextIndex EXCEPT ![i] = [j \in Server |-> 0]]
        /\ MatchIndex' = [MatchIndex EXCEPT ![i] = [j \in Server |-> 0]]
    BY ZenonT(60) DEF Restart
  <1>4. /\ snapshotMsg' = [snapshotMsg EXCEPT ![i] = NoSnapshotMsg]
        /\ applyMsgs' = [applyMsgs EXCEPT ![i] = <<>>]
        /\ applyTo' = [applyTo EXCEPT ![i] = 0]
        /\ applying' = [applying EXCEPT ![i] = FALSE]
        /\ app' = [app EXCEPT ![i] = snapshot[i]]
    BY ZenonT(60) DEF Restart
  <1>5. /\ rvCalls' = Survive(rvCalls, i) /\ aeCalls' = Survive(aeCalls, i)
        /\ isCalls' = Survive(isCalls, i)
        /\ rvReturns' \subseteq rvReturns /\ aeReturns' \subseteq aeReturns
        /\ isReturns' \subseteq isReturns
        /\ UNCHANGED <<raftstate, snapshot>> /\ restarts' = restarts + 1
    BY ZenonT(60) DEF Restart
  <1>6. /\ CurrentTerm' \in [Server -> Nat] /\ VotedFor' \in [Server -> Server \cup {None}]
        /\ Logs' \in [Server -> Seq(Entry)]
        /\ SnapshotLastIncludedIndex' \in [Server -> Nat]
        /\ SnapshotLastIncludedTerm' \in [Server -> Nat]
        /\ CommitIndex' \in [Server -> Nat] /\ LastApplied' \in [Server -> Nat]
    BY <1>1, <1>2, Zenon DEF LogInv, TypeOK
  <1>7. /\ LeaderTerm' \in [Server -> Nat \cup {-1}]
        /\ State' \in [Server -> {"Leader", "Follower", "Candidate"}]
        /\ LastNewEntryIndex' \in [Server -> Nat]
        /\ votes' \subseteq Server \X Nat \X Server
        /\ leadTerm' \in [Server -> Nat \cup {-1}]
        /\ NextIndex' \in [Server -> [Server -> Nat]]
        /\ MatchIndex' \in [Server -> [Server -> Nat]]
    BY <1>3, ZenonT(60) DEF LogInv, TypeOK
  <1>8. /\ snapshotMsg' \in [Server -> SnapshotMsg]
        /\ applyMsgs' \in [Server -> Seq(SnapshotMsg \cup CommandMsg)]
        /\ applyTo' \in [Server -> Nat] /\ applying' \in [Server -> BOOLEAN]
        /\ app' \in [Server -> Seq(Entry)]
    <2>1. NoSnapshotMsg \in SnapshotMsg
      BY DEF NoSnapshotMsg, SnapshotMsg
    <2>2. /\ snapshotMsg' \in [Server -> SnapshotMsg]
          /\ applyMsgs' \in [Server -> Seq(SnapshotMsg \cup CommandMsg)]
      <3>1. /\ snapshotMsg \in [Server -> SnapshotMsg]
            /\ applyMsgs \in [Server -> Seq(SnapshotMsg \cup CommandMsg)]
        BY ZenonT(60) DEF LogInv, TypeOK
      <3>2. <<>> \in Seq(SnapshotMsg \cup CommandMsg)
        OBVIOUS
      <3>3. snapshotMsg' \in [Server -> SnapshotMsg]
        BY <1>4, <2>1, <3>1
      <3>4. applyMsgs' \in [Server -> Seq(SnapshotMsg \cup CommandMsg)]
        BY <1>4, <3>1, <3>2, Zenon
      <3> QED BY <3>3, <3>4
    <2>3. /\ applyTo' \in [Server -> Nat] /\ applying' \in [Server -> BOOLEAN]
          /\ app' \in [Server -> Seq(Entry)]
      BY <1>1, <1>4 DEF LogInv, TypeOK
    <2> QED BY <2>2, <2>3, Zenon
  <1>9. TypeOK'
    <2>1. /\ rvCalls' \subseteq RVCall /\ aeCalls' \subseteq AECall /\ isCalls' \subseteq ISCall
          /\ rvReturns' \subseteq RVReturn /\ aeReturns' \subseteq AEReturn
          /\ isReturns' \subseteq ISReturn
      BY <1>5, SurviveLemma, Zenon DEF LogInv, TypeOK
    <2>2. /\ raftstate' \in [Server -> RaftState] /\ snapshot' \in [Server -> Seq(Entry)]
          /\ restarts' \in Nat
      BY <1>5 DEF LogInv, TypeOK
    <2> QED BY <1>6, <1>7, <1>8, <2>1, <2>2, ZenonT(60) DEF TypeOK
  <1>10. LogsContiguous' /\ SnapshotInSync'
    <2>1. ASSUME NEW j \in Server
          PROVE  /\ \A k \in DOMAIN Logs'[j] : Logs'[j][k].Index = SnapshotLastIncludedIndex'[j] + k
                 /\ \A k \in DOMAIN raftstate'[j].Logs :
                        raftstate'[j].Logs[k].Index = raftstate'[j].Index + k
                 /\ Len(snapshot'[j]) = raftstate'[j].Index
                 /\ SnapshotLastIncludedIndex'[j] = raftstate'[j].Index
      <3>1. raftstate'[j] = raftstate[j] /\ snapshot'[j] = snapshot[j]
        BY <1>5, Zenon
      <3>2. CASE j = i
        <4>1. Logs'[j] = raftstate[j].Logs /\ SnapshotLastIncludedIndex'[j] = raftstate[j].Index
          BY <1>2, <3>2, Zenon DEF LogInv, TypeOK, rs
        <4> QED BY <3>1, <4>1 DEF LogInv, LogsContiguous, SnapshotInSync
      <3>3. CASE j # i
        <4>1. Logs'[j] = Logs[j] /\ SnapshotLastIncludedIndex'[j] = SnapshotLastIncludedIndex[j]
          BY <1>2, <3>3, Zenon DEF LogInv, TypeOK
        <4> QED BY <3>1, <4>1, ZenonT(60) DEF LogInv, LogsContiguous, SnapshotInSync
      <3> QED BY <3>2, <3>3, ZenonT(60)
    <2> QED BY <2>1, Zenon DEF LogsContiguous, SnapshotInSync
  <1>11. AEContiguous' /\ ISContiguous'
    <2>1. ASSUME NEW m \in aeCalls', NEW k \in DOMAIN m.Entries
          PROVE  m.Entries[k].Index = m.PrevLogIndex + k
      <3>1. PICK c \in aeCalls : m.Entries = c.Entries /\ m.PrevLogIndex = c.PrevLogIndex
        BY <1>5, SurviveLemma, Zenon
      <3> QED BY <3>1, Zenon DEF LogInv, MessagesContiguous, AEContiguous
    <2>2. ASSUME NEW m \in isCalls'
          PROVE  Len(m.Data) = m.LastIncludedIndex
      <3>1. PICK c \in isCalls : m.Data = c.Data /\ m.LastIncludedIndex = c.LastIncludedIndex
        BY <1>5, SurviveLemma, Zenon
      <3> QED BY <3>1, Zenon DEF LogInv, MessagesContiguous, ISContiguous
    <2> QED BY <2>1, <2>2, Zenon DEF AEContiguous, ISContiguous
  <1>12. BatchContiguous'
    <2> SUFFICES ASSUME NEW j \in Server
                 PROVE  /\ Len(snapshotMsg'[j].Snapshot) = snapshotMsg'[j].SnapshotIndex
                        /\ \A k \in DOMAIN applyMsgs'[j] :
                              applyMsgs'[j][k].SnapshotValid
                              => Len(applyMsgs'[j][k].Snapshot) = applyMsgs'[j][k].SnapshotIndex
      BY Zenon DEF BatchContiguous
    <2>1. CASE j = i
      <3>1. snapshotMsg'[j] = NoSnapshotMsg /\ applyMsgs'[j] = <<>>
        BY <1>4, <2>1, Zenon DEF LogInv, TypeOK
      <3>2. Len(NoSnapshotMsg.Snapshot) = NoSnapshotMsg.SnapshotIndex
        BY SMTT(60) DEF NoSnapshotMsg
      <3>3. DOMAIN <<>> = {}
        BY SMTT(60)
      <3> QED BY <3>1, <3>2, <3>3, Zenon
    <2>2. CASE j # i
      <3>1. snapshotMsg'[j] = snapshotMsg[j] /\ applyMsgs'[j] = applyMsgs[j]
        BY <1>4, <2>2, Zenon DEF LogInv, TypeOK
      <3> QED BY <3>1, Zenon DEF LogInv, MessagesContiguous, BatchContiguous
    <2> QED BY <2>1, <2>2, Zenon
  <1> QED BY <1>9, <1>10, <1>11, <1>12 DEF LogInv, MessagesContiguous

\* A step that changes nothing keeps LogInv.
LEMMA StutterLogInv ==
  ASSUME LogInv, UNCHANGED vars
  PROVE  LogInv'
  <1>1. /\ UNCHANGED <<CurrentTerm, VotedFor, LeaderTerm, State, Logs, SnapshotLastIncludedIndex,
                       SnapshotLastIncludedTerm, CommitIndex, LastNewEntryIndex, votes, leadTerm,
                       NextIndex, MatchIndex, LastApplied, snapshotMsg, applyMsgs, applyTo, applying>>
        /\ UNCHANGED <<app, raftstate, snapshot, rvCalls, rvReturns, aeCalls, aeReturns, isCalls,
                       isReturns, restarts>>
    BY Zenon DEF vars, termVars, logVars, commitVars, leaderVars, batchVars, rvNet, aeNet, isNet
  <1>2. TypeOK'
    BY <1>1, ZenonT(60) DEF LogInv, TypeOK
  <1>3. LogsContiguous' /\ SnapshotInSync'
    BY <1>1, Zenon DEF LogInv, LogsContiguous, SnapshotInSync
  <1>4. MessagesContiguous'
    BY <1>1, Zenon DEF LogInv, MessagesContiguous, AEContiguous, ISContiguous, BatchContiguous
  <1> QED BY <1>2, <1>3, <1>4 DEF LogInv

\* Every step keeps LogInv.
LEMMA NextLogInv ==
  ASSUME LogInv, [Next]_vars
  PROVE  LogInv'
  <1>1. CASE \E i \in Server : \/ prepareElection(i) \/ ticker(i) \/ updateCommitIndex(i)
                               \/ applyLogCollect(i) \/ deliver(i) \/ applyLogDone(i)
                               \/ Snapshot(i) \/ Restart(i)
    BY <1>1, prepareElectionLogInv, tickerLogInv, updateCommitIndexLogInv, applyLogCollectLogInv,
       deliverLogInv, applyLogDoneLogInv, SnapshotLogInv, RestartLogInv
  <1>2. CASE \E i, j \in Server : replicateLog(i, j)
    BY <1>2, replicateLogLogInv, Zenon
  <1>3. CASE \E i \in Server, c \in Command : Start(i, c)
    BY <1>3, StartLogInv, Zenon
  <1>4. CASE (\E m \in rvCalls : RequestVote(m)) \/ (\E m \in aeCalls : AppendEntries(m))
             \/ (\E m \in isCalls : InstallSnapshot(m))
    BY <1>4, RequestVoteLogInv, AppendEntriesLogInv, InstallSnapshotLogInv
  <1>5. CASE (\E r \in rvReturns : handleVote(r)) \/ (\E r \in aeReturns : handleAppendReply(r))
             \/ (\E r \in isReturns : handleSnapshotReply(r))
    BY <1>5, handleVoteLogInv, handleAppendReplyLogInv, handleSnapshotReplyLogInv
  <1>6. CASE UNCHANGED vars
    BY <1>6, StutterLogInv, Zenon
  <1> QED BY <1>1, <1>2, <1>3, <1>4, <1>5, <1>6 DEF Next

\* For any number of peers, terms, entries, crashes and lost, duplicated or
\* reordered messages, the state stays well formed and every log keeps meeting the
\* snapshot it was trimmed to: in memory, in the persister, in the AppendEntries
\* and InstallSnapshot requests under way and in the batches of applyLog.
THEOREM LogInvariant == Spec => []LogInv
  <1>1. Init => LogInv
    BY InitLogInv, Zenon
  <1>2. LogInv /\ [Next]_vars => LogInv'
    BY NextLogInv, Zenon
  <1> QED BY <1>1, <1>2, PTL DEF Spec

\* The state of every peer and of the network is always well formed.
THEOREM TypeCorrect == Spec => []TypeOK
  <1>1. LogInv => TypeOK
    BY DEF LogInv
  <1> QED BY <1>1, LogInvariant, PTL

\* The Index field of a log entry is always its position after the snapshot, in
\* memory and in the persister, whatever AppendEntries merges and whatever
\* makeRaftState trims.
THEOREM LogsAlwaysContiguous == Spec => []LogsContiguous
  <1>1. LogInv => LogsContiguous
    BY DEF LogInv
  <1> QED BY <1>1, LogInvariant, PTL

\* The persisted log always starts where the persisted snapshot ends, whichever
\* of persist, Snapshot and InstallSnapshot wrote last: a crash between any two
\* critical sections leaves no gap.
THEOREM SnapshotAlwaysInSync == Spec => []SnapshotInSync
  <1>1. LogInv => SnapshotInSync
    BY Zenon DEF LogInv
  <1> QED BY <1>1, LogInvariant, PTL

\* Two majorities of the peers have a peer in common.
LEMMA MajoritiesMeet == QuorumsMeet
  <1> SUFFICES ASSUME NEW S \in SUBSET Server, NEW T \in SUBSET Server,
                      Cardinality(S) > Half, Cardinality(T) > Half
               PROVE  \E v \in Server : v \in S /\ v \in T
    BY Zenon DEF QuorumsMeet
  <1>1. IsFiniteSet(S) /\ IsFiniteSet(T) /\ IsFiniteSet(Server)
    BY ServerAssumption, FS_Subset, Zenon
  <1>2. Cardinality(S) \in Nat /\ Cardinality(T) \in Nat /\ Cardinality(Server) \in Nat
    BY <1>1, FS_CardinalityType, Zenon
  <1>3. Cardinality(S) + Cardinality(T) > Cardinality(Server)
    BY <1>2 DEF Half
  <1>4. S \cap T # {}
    BY <1>1, <1>3, FS_MajoritiesIntersect, Zenon
  <1> QED BY <1>4, Zenon

\* In a run without restarts votes are given, remembered and counted in order.
THEOREM VoteInvariant == Spec => []VoteInv
  <1>1. Init => VoteInv
    BY InitVoteInv
  <1>2. TypeOK /\ VoteInv /\ [Next]_vars => VoteInv'
    BY NextVoteInv, MajoritiesMeet, Zenon
  <1> QED BY <1>1, <1>2, TypeCorrect, PTL DEF Spec

\* As long as no peer has been restarted, no two peers lead the same term, although
\* AppendEntries and InstallSnapshot let a losing candidate vote again.
THEOREM OneLeaderPerTerm == Spec => [](restarts = 0 => ElectionSafety)
  <1>1. TypeOK /\ VoteInv => (restarts = 0 => ElectionSafety)
    BY VoteInvSafe, MajoritiesMeet, Zenon
  <1> QED BY <1>1, TypeCorrect, VoteInvariant, PTL

\* Whatever InstallSnapshot, Snapshot and crashes do between two of its steps,
\* applyLog sends a service the entry after what it has: no entry twice and none
\* left out.  LastApplied alone does not say so, since InstallSnapshot moves it
\* while an older batch is still being sent.
THEOREM EntriesDeliveredInOrder == Spec => []DeliveredInOrder
  <1>1. Init => BatchInv
    BY InitBatchInv, Zenon
  <1>2. LogInv /\ BatchInv /\ [Next]_vars => BatchInv'
    BY NextBatchInv, Zenon
  <1>3. LogInv /\ BatchInv => DeliveredInOrder
    BY BatchInvOrdered, Zenon
  <1> QED BY <1>1, <1>2, <1>3, LogInvariant, PTL DEF Spec
=============================================================================
