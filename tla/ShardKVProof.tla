---------------------------- MODULE ShardKVProof ----------------------------
(***************************************************************************)
(* Theorems about ShardKV, for any groups, replicas, keys, Clerks, number  *)
(* of configurations and faults: a shard is held by one group, which has   *)
(* every write to its keys, and no write is executed twice.                *)
(***************************************************************************)
EXTENDS ShardMoveProof

-----------------------------------------------------------------------------
(***************************************************************************)
(* Clerks.                                                                 *)
(***************************************************************************)
IsClerk(r) == "op" \in DOMAIN r /\ "stage" \in DOMAIN r
Clerks(ck) == ck = [c \in Client |-> ck[c]] /\ \A c \in Client : IsClerk(ck[c])

\* Clerks go on with the requests they are at.
ClerkStep(ck, ck1) ==
    /\ Clerks(ck1)
    /\ \A c \in Client : ck1[c].op = ck[c].op /\ (ck[c].stage = "idle" => ck1[c].stage = "idle")

LEMMA ClerkFields ==
    ASSUME NEW r, IsClerk(r), NEW err, NEW value
    PROVE  /\ IsClerk(NextServer(r)) /\ NextServer(r).op = r.op
           /\ IsClerk(Replied(r, err, value)) /\ Replied(r, err, value).op = r.op
<1>1. IsClerk(NextServer(r)) /\ NextServer(r).op = r.op
  BY Zenon DEF IsClerk, NextServer
<1>2. CASE err = "OK"
  <2>1. Replied(r, err, value) = [r EXCEPT !.stage = "idle", !.value = value, !.call = 0]
    BY <1>2, Zenon DEF Replied
  <2> QED BY <1>1, <2>1, Zenon DEF IsClerk
<1>3. CASE err = "ErrWrongGroup"
  <2>1. Replied(r, err, value) = [r EXCEPT !.stage = "asking", !.call = 0]
    BY <1>3, Zenon DEF Replied
  <2> QED BY <1>1, <2>1, Zenon DEF IsClerk
<1>4. CASE err # "OK" /\ err # "ErrWrongGroup"
  <2>1. Replied(r, err, value) = NextServer(r)
    BY <1>4, Zenon DEF Replied
  <2> QED BY <1>1, <2>1, Zenon
<1> QED BY <1>2, <1>3, <1>4, Zenon

LEMMA OneClerk ==
    ASSUME NEW ck, Clerks(ck), NEW c \in Client, ck[c].stage # "idle", NEW r, IsClerk(r), r.op = ck[c].op,
           NEW ck1, ck1 = [ck EXCEPT ![c] = r]
    PROVE  ClerkStep(ck, ck1)
<1>1. ck1 = [b \in Client |-> IF b = c THEN r ELSE ck[b]]
  BY Zenon DEF Clerks
<1>2. ck1 = [b \in Client |-> ck1[b]] /\ ck1[c] = r /\ \A b \in Client : b # c => ck1[b] = ck[b]
  BY <1>1, Zenon
<1> HIDE <1>1
<1>3. Clerks(ck1)
  BY <1>2, Zenon DEF Clerks
<1> QED BY <1>2, <1>3, Zenon DEF ClerkStep

LEMMA ClerksGoOn ==
    ASSUME NEW ck, NEW ck1, ClerkStep(ck, ck1), NEW q, Numbered(ck, q), NEW d, NEW V, ShardInv(d, V, ck)
    PROVE  Numbered(ck1, q) /\ ShardInv(d, V, ck1)
<1>1. \A c \in Client : ck1[c].op = ck[c].op /\ (ck1[c].stage # "idle" => ck[c].stage # "idle")
  BY Zenon DEF ClerkStep
<1>2. Numbered(ck1, q)
  BY <1>1 DEF Numbered
<1>3. \A info, vs : Covered(info, vs, ck) => Covered(info, vs, ck1)
  BY <1>1, Zenon DEF Covered
<1>4. Remembered(d, V, ck1)
  BY <1>3, Zenon DEF ShardInv, Remembered
<1> QED BY <1>2, <1>4, Zenon DEF ShardInv

\* A new request has a number of its own.
Begins(r, c, q) == IsClerk(r) /\ r.op \in RequestOp /\ r.op.ClientId = c /\ r.op.ReqNo = q + 1
Replaces(ck1, ck, c, r) == ck1 = [ck EXCEPT ![c] = r]

LEMMA ClerkBegins ==
    ASSUME NEW ck, Clerks(ck), NEW q \in Nat, Numbered(ck, q), NEW d, NEW V, ShardInv(d, V, ck), Once(V, q),
           NEW c \in Client, NEW r, Begins(r, c, q), NEW ck1, Replaces(ck1, ck, c, r)
    PROVE  Clerks(ck1) /\ Numbered(ck1, q + 1) /\ ShardInv(d, V, ck1) /\ Once(V, q + 1)
<1>0. IsClerk(r) /\ r.op \in RequestOp /\ r.op.ClientId = c /\ r.op.ReqNo = q + 1
  BY Zenon DEF Begins
<1>1. ck1 = [b \in Client |-> IF b = c THEN r ELSE ck[b]]
  BY Zenon DEF Clerks, Replaces
<1>2. ck1 = [b \in Client |-> ck1[b]] /\ ck1[c] = r /\ \A b \in Client : b # c => ck1[b] = ck[b]
  BY <1>1, Zenon
<1> HIDE <1>1
<1>3. Clerks(ck1)
  BY <1>0, <1>2, Zenon DEF Clerks
<1>4. Numbered(ck1, q + 1)
  <2>1. \A b \in Client : /\ ck1[b].op.ReqNo \in 0..(q + 1)
                          /\ ck1[b].stage # "idle" => ck1[b].op \in RequestOp /\ ck1[b].op.ClientId = b /\ ck1[b].op.ReqNo # 0
    <3> TAKE b \in Client
    <3>1. CASE b = c
      BY <1>0, <1>2, <3>1
    <3>2. CASE b # c
      BY <1>2, <3>2 DEF Numbered
    <3> QED BY <3>1, <3>2, Zenon
  <2>2. ASSUME NEW a \in Client, NEW b \in Client, ck1[a].op.ReqNo = ck1[b].op.ReqNo, ck1[a].op.ReqNo # 0
        PROVE  a = b
    <3>1. CASE a # c /\ b # c
      BY <1>2, <2>2, <3>1 DEF Numbered
    <3>2. \A i \in Client : i # c => ck1[i].op.ReqNo \in 0..q
      BY <1>2, Zenon DEF Numbered
    <3>3. ck1[c].op.ReqNo = q + 1
      BY <1>0, <1>2, Zenon
    <3> QED BY <2>2, <3>1, <3>2, <3>3
  <2> QED BY <2>1, <2>2, Zenon DEF Numbered
<1>5. Once(V, q + 1)
  <2>1. \A i : i \in 1..q => i \in 1..(q + 1)
    OBVIOUS
  <2> QED BY <2>1, Zenon DEF Once
<1>6. ASSUME NEW info, NEW k \in Key, Covered(info, V[k], ck)
      PROVE  Covered(info, V[k], ck1)
  <2> SUFFICES ASSUME NEW n \in 2..Len(V[k]), NEW b \in Client, ck1[b].op.ReqNo = Last(V[k][n])
               PROVE  Covers(info, b, Last(V[k][n]))
    BY Zenon DEF Covered
  <2>1. Last(V[k][n]) \in 1..q
    BY Zenon DEF Once
  <2>2. b # c
    BY <1>0, <1>2, <2>1
  <2> QED BY <1>2, <1>6, <2>2, Zenon DEF Covered
<1>7. Remembered(d, V, ck1)
  BY <1>6, Zenon DEF ShardInv, Remembered
<1> QED BY <1>3, <1>4, <1>5, <1>7, Zenon DEF ShardInv

-----------------------------------------------------------------------------
(***************************************************************************)
(* The inductive invariant, and the steps.                                 *)
(***************************************************************************)
Pull(p) ==
    /\ p.server \in Server /\ p.from \in Gid /\ p.ConfigNum \in Num /\ p.ConfigNum - 1 \in Num
    /\ \A x \in p.shards : x \in Shard /\ Owner(p.ConfigNum - 1, x) = p.from
Pulls(ps) == \A p \in ps : Pull(p)

\* The logs, the groups and the versions.
GroupsInv(l, d, V, sk, sv, ck, q) ==
    /\ l \in [Gid -> Seq(Command)] /\ d \in [Gid -> State] /\ V \in [Key -> Seq(Seq(Nat))]
    /\ Histories(l, d, sk, sv) /\ Once(V, q) /\ ShardInv(d, V, ck)

MigrationInv ==
    /\ latest \in 0..Len(Config) /\ seq \in Nat /\ skv \in [Server -> State] /\ saved \in [Server -> State]
    /\ Pulls(pulls) /\ Clerks(clerk) /\ Numbered(clerk, seq)
    /\ GroupsInv(log, decided, versions, skv, saved, clerk, seq)

LEMMA DecideKeeps ==
    ASSUME NeverEmptied, MigrationInv, NEW g \in Gid, NEW op, Sound(op, g, decided, clerk, seq), Decide(g, op)
    PROVE  GroupsInv(log', decided', versions', skv, saved, clerk, seq)
<1>1. /\ log \in [Gid -> Seq(Command)] /\ decided \in [Gid -> State] /\ versions \in [Key -> Seq(Seq(Nat))]
      /\ Histories(log, decided, skv, saved) /\ Once(versions, seq) /\ ShardInv(decided, versions, clerk)
      /\ seq \in Nat
  BY Zenon DEF MigrationInv, GroupsInv
<1>2. op \in Command /\ (op \in ConfigOp => op.ConfigNum <= decided[g].CurConfig + 1)
  BY Zenon DEF Sound
<1>3. /\ log' = [log EXCEPT ![g] = Append(@, op)]
      /\ decided' = [decided EXCEPT ![g] = Applied(g, @, op)]
      /\ Wrote(versions', versions, g, decided[g], op)
  BY Zenon DEF Decide, Wrote
<1>4. log' \in [Gid -> Seq(Command)]
  BY <1>1, <1>2, <1>3
<1>5. Applied(g, decided[g], op) \in State
  BY <1>1, <1>2, AppliedType, Zenon
<1>6. /\ decided' \in [Gid -> State] /\ decided'[g] = Applied(g, decided[g], op)
      /\ StepOf(decided, decided', g)
  BY <1>1, <1>3, <1>5, Zenon DEF StepOf
<1>7. Histories(log', decided', skv, saved)
  BY <1>1, <1>2, <1>3, HistoryDecide, Zenon
<1>8. ShardInv(decided', versions', clerk) /\ Once(versions', seq)
  <2>1. Wrote(versions', versions, g, decided[g], op)
    BY <1>3, Zenon
  <2> QED BY <1>1, <1>6, <2>1, DecideShards, Zenon
<1>9. versions' \in [Key -> Seq(Seq(Nat))]
  <2>1. \A k \in Key : versions'[k] \in Seq(Seq(Nat))
    BY <1>8, Zenon DEF Once
  <2>2. versions' = [k \in Key |-> versions'[k]]
    BY <1>1, <1>3, Zenon DEF Wrote
  <2> QED BY <2>1, <2>2, Zenon
<1> QED BY <1>4, <1>6, <1>7, <1>8, <1>9, Zenon DEF GroupsInv

LEMMA InitMigrationInv ==
    ASSUME Init
    PROVE  MigrationInv
<1>1. StartServer \in State
  BY Starting, Zenon
<1>2. /\ latest \in 0..Len(Config) /\ seq \in Nat /\ skv \in [Server -> State] /\ saved \in [Server -> State]
      /\ Pulls(pulls)
  BY <1>1, ConfigSizes DEF Init, Pulls
<1>3. /\ log \in [Gid -> Seq(Command)] /\ decided \in [Gid -> State] /\ versions \in [Key -> Seq(Seq(Nat))]
  BY <1>1 DEF Init
<1>4. Clerks(clerk) /\ Numbered(clerk, seq)
  <2>1. clerk = [c \in Client |-> MakeClerk(c)] /\ seq = 0
    BY Zenon DEF Init
  <2>2. \A c \in Client : /\ IsClerk(MakeClerk(c)) /\ MakeClerk(c).stage = "idle"
                          /\ MakeClerk(c).op.ReqNo = 0
    BY Zenon DEF MakeClerk, IsClerk
  <2>3. \A c \in Client : clerk[c] = MakeClerk(c)
    BY <2>1, Zenon
  <2>4. Clerks(clerk)
    BY <2>1, <2>2, <2>3, Zenon DEF Clerks
  <2>5. \A c \in Client : clerk[c].stage = "idle" /\ clerk[c].op.ReqNo = 0
    BY <2>2, <2>3, Zenon
  <2>6. Numbered(clerk, seq)
    BY <2>1, <2>5 DEF Numbered
  <2> QED BY <2>4, <2>6, Zenon
<1>5. StartServer.CurConfig = 0 /\ StartServer.LastConfig = 0 /\ StartServer.CommitedId = 0 /\ StartServer.Shards = {}
      /\ StartServer.ShardKVMap = NoData
      /\ \A n \in Num : StartServer.OutShardsDock[n] = NoDock /\ StartServer.Config2ClientInfo[n] = NoInfo
  BY Zenon DEF StartServer
<1>6. Histories(log, decided, skv, saved)
  <2> SUFFICES ASSUME NEW g \in Gid
               PROVE  \E St : Replay(g, St, log[g], decided[g]) /\ Views(g, St, log[g], skv, saved)
    BY Zenon DEF Histories
  <2>1. log[g] = <<>> /\ decided[g] = StartServer
    BY Zenon DEF Init
  <2> DEFINE St == [i \in 0..0 |-> StartServer]
  <2>2. Past(StartServer, StartServer)
    <3>1. \A n \in Num : SameDock(StartServer, StartServer, n) /\ Cleared(StartServer, n)
      BY <1>5, Zenon DEF SameDock, Cleared
    <3> QED BY <1>5, <3>1 DEF Past, InOrder
  <2>3. Follows(StartServer, StartServer)
    BY Zenon DEF Follows, SameData, SameDock
  <2>4. Replay(g, St, <<>>, StartServer)
    <3>1. Len(<<>>) = 0 /\ St \in [0..0 -> State] /\ St[0] = StartServer
      BY <1>1
    <3>2. \A i \in 0..0 : St[i] = StartServer
      BY Zenon
    <3> HIDE DEF St
    <3> QED BY <2>2, <3>1, <3>2 DEF Replay
  <2>5. View(StartServer, St, <<>>)
    <3>1. Len(<<>>) = 0 /\ St[0] = StartServer
      OBVIOUS
    <3> QED BY <1>1, <1>5, <2>3, <3>1 DEF View
  <2>6. \A s \in Server : skv[s] = StartServer /\ saved[s] = StartServer
    BY Zenon DEF Init
  <2> HIDE DEF St
  <2>7. Views(g, St, <<>>, skv, saved)
    BY <2>5, <2>6, Zenon DEF Views
  <2> QED BY <2>1, <2>4, <2>7, Zenon
<1>7. \A k \in Key : versions[k] = << <<>> >>
  BY Zenon DEF Init
<1>8. Once(versions, seq)
  <2> DEFINE vs == << <<>> >>
  <2>1. Len(vs) = 1
    BY Zenon
  <2> HIDE DEF vs
  <2>2. \A k \in Key : versions[k] \in Seq(Seq(Nat)) /\ versions[k] = vs
    BY <1>3, <1>7, Zenon DEF vs
  <2>3. ASSUME NEW k \in Key
        PROVE  /\ versions[k] \in Seq(Seq(Nat)) /\ Len(versions[k]) >= 1
               /\ \A n : n \notin 2..Len(versions[k])
    <3>1. versions[k] \in Seq(Seq(Nat)) /\ versions[k] = vs
      BY <2>2, Zenon
    <3>2. Len(versions[k]) = 1
      BY <2>1, <3>1, Zenon
    <3> QED BY <3>1, <3>2
  <2> QED BY <2>3, Zenon DEF Once
<1>9. \A g \in Gid : /\ decided[g].CurConfig = 0 /\ decided[g].Shards = {} /\ decided[g].ShardKVMap = NoData
                     /\ \A n \in Num : decided[g].OutShardsDock[n] = NoDock
  BY <1>5, Zenon DEF Init
<1>10. \A x \in Shard, m \in Num : Owner(m, x) # 0 => ~Acquired(decided, x, m)
  <2>1. \A m \in Num : m \in Nat /\ m > 0
    BY ConfigSizes DEF Num
  <2> QED BY <1>9, <2>1, Owners DEF Acquired
<1>11. HoldsOwn(decided) /\ HandedOver(decided) /\ DocksOwn(decided)
  BY <1>9, <1>10 DEF HoldsOwn, HandedOver, DocksOwn, NoData, NoDock
<1>12. \A g \in Gid, m \in Num : \A x : ~Moving(decided, g, m, x)
  BY <1>9 DEF Moving, NoDock
<1>13. Current(decided, versions)
  BY <1>7, <1>9, <1>12, Zenon DEF Current
<1>14. Remembered(decided, versions, clerk)
  BY <1>9, <1>12, Zenon DEF Remembered
<1> QED BY <1>2, <1>3, <1>4, <1>6, <1>8, <1>11, <1>13, <1>14
  DEF MigrationInv, GroupsInv, ShardInv

LEMMA GroupsViews ==
    ASSUME NEW l, NEW d, NEW V, NEW sk, NEW sv, NEW ck, NEW q, GroupsInv(l, d, V, sk, sv, ck, q),
           NEW sk1, NEW sv1, Histories(l, d, sk1, sv1)
    PROVE  GroupsInv(l, d, V, sk1, sv1, ck, q)
BY Zenon DEF GroupsInv

LEMMA GroupsClerks ==
    ASSUME NEW l, NEW d, NEW V, NEW sk, NEW sv, NEW ck, NEW q, GroupsInv(l, d, V, sk, sv, ck, q),
           NEW ck1, ClerkStep(ck, ck1), Numbered(ck, q)
    PROVE  GroupsInv(l, d, V, sk, sv, ck1, q) /\ Clerks(ck1) /\ Numbered(ck1, q)
<1>1. ShardInv(d, V, ck)
  BY Zenon DEF GroupsInv
<1>2. Numbered(ck1, q) /\ ShardInv(d, V, ck1)
  BY <1>1, ClerksGoOn, Zenon
<1> QED BY <1>2, Zenon DEF GroupsInv, ClerkStep

\* Steps of clients other than a new request.
LEMMA ClerkKeeps ==
    ASSUME MigrationInv, ClerkStep(clerk, clerk'), UNCHANGED <<latest, log, serviceVars, seq, history>>
    PROVE  MigrationInv'
<1>1. UNCHANGED latest /\ UNCHANGED log /\ UNCHANGED skv /\ UNCHANGED saved /\ UNCHANGED pulls /\ UNCHANGED seq
      /\ UNCHANGED decided /\ UNCHANGED versions
  BY Zenon DEF serviceVars, history
<1>2. GroupsInv(log, decided, versions, skv, saved, clerk, seq) /\ Numbered(clerk, seq)
  BY Zenon DEF MigrationInv
<1>3. GroupsInv(log, decided, versions, skv, saved, clerk', seq) /\ Clerks(clerk') /\ Numbered(clerk', seq)
  BY <1>2, GroupsClerks, Zenon
<1> QED BY <1>1, <1>3, Zenon DEF MigrationInv

LEMMA SameClerks == ASSUME NEW ck, Clerks(ck) PROVE ClerkStep(ck, ck)
BY Zenon DEF ClerkStep

LEMMA QueryKeeps == ASSUME MigrationInv, NEW c \in Client, Query(c) PROVE MigrationInv'
<1> DEFINE r == [clerk[c] EXCEPT !.stage = "trying", !.si = 1, !.config = latest]
<1>1. Clerks(clerk) /\ IsClerk(clerk[c])
  BY Zenon DEF MigrationInv, Clerks
<1>2. IsClerk(r) /\ r.op = clerk[c].op
  BY <1>1, Zenon DEF IsClerk
<1>3. clerk[c].stage # "idle" /\ clerk' = [clerk EXCEPT ![c] = r]
  BY Zenon DEF Query
<1> HIDE DEF r
<1>4. ClerkStep(clerk, clerk')
  BY <1>1, <1>2, <1>3, OneClerk, Zenon
<1>5. UNCHANGED <<latest, log, serviceVars, seq, history>>
  BY Zenon DEF Query
<1> QED BY <1>4, <1>5, ClerkKeeps, Zenon

LEMMA HandleAtOnceKeeps == ASSUME MigrationInv, NEW c \in Client, HandleAtOnce(c) PROVE MigrationInv'
<1>1. Clerks(clerk) /\ IsClerk(clerk[c])
  BY DEF MigrationInv, Clerks
<1>2. PICK r : IsClerk(r) /\ r.op = clerk[c].op /\ clerk' = [clerk EXCEPT ![c] = r]
  BY <1>1, ClerkFields DEF HandleAtOnce
<1>3. clerk[c].stage # "idle" /\ UNCHANGED <<latest, log, serviceVars, seq, history>>
  BY Zenon DEF HandleAtOnce
<1>4. ClerkStep(clerk, clerk')
  BY <1>1, <1>2, <1>3, OneClerk, Zenon
<1> QED BY <1>3, <1>4, ClerkKeeps, Zenon

LEMMA AbandonKeeps == ASSUME MigrationInv, NEW c \in Client, Abandon(c) PROVE MigrationInv'
<1>1. Clerks(clerk) /\ IsClerk(clerk[c])
  BY DEF MigrationInv, Clerks
<1>2. clerk[c].stage # "idle" /\ clerk' = [clerk EXCEPT ![c] = NextServer(clerk[c])]
  BY Zenon DEF Abandon
<1>3. IsClerk(NextServer(clerk[c])) /\ NextServer(clerk[c]).op = clerk[c].op
  BY <1>1, ClerkFields, Zenon
<1>4. ClerkStep(clerk, clerk')
  BY <1>1, <1>2, <1>3, OneClerk, Zenon
<1>5. UNCHANGED <<latest, log, serviceVars, seq, history>>
  BY Zenon DEF Abandon
<1> QED BY <1>4, <1>5, ClerkKeeps

LEMMA ResumeKeeps == ASSUME MigrationInv, NEW h, Resume(h) PROVE MigrationInv'
<1> DEFINE c == h.client
<1>1. Clerks(clerk)
  BY Zenon DEF MigrationInv
<1>2. \/ clerk' = clerk
      \/ /\ clerk[c].stage = "waiting"
         /\ \E err, value : clerk' = [clerk EXCEPT ![c] = Replied(clerk[c], err, value)]
  BY Zenon DEF Resume
<1>3. CASE clerk' = clerk
  <2>1. ClerkStep(clerk, clerk')
    BY <1>1, <1>3, SameClerks, Zenon
  <2>2. UNCHANGED <<latest, log, serviceVars, seq, history>>
    BY Zenon DEF Resume
  <2> QED BY <2>1, <2>2, ClerkKeeps, Zenon
<1>4. ASSUME clerk[c].stage = "waiting", NEW err, NEW value, clerk' = [clerk EXCEPT ![c] = Replied(clerk[c], err, value)]
      PROVE  ClerkStep(clerk, clerk')
  <2>1. CASE c \in Client
    <3>1. IsClerk(clerk[c])
      BY <1>1, <2>1, Zenon DEF Clerks
    <3>2. IsClerk(Replied(clerk[c], err, value)) /\ Replied(clerk[c], err, value).op = clerk[c].op
      BY <3>1, ClerkFields
    <3> QED BY <1>1, <1>4, <2>1, <3>2, OneClerk, Zenon
  <2>2. CASE c \notin Client
    <3>1. clerk' = clerk
      BY <1>1, <1>4, <2>2, Zenon DEF Clerks
    <3> QED BY <1>1, <3>1, SameClerks, Zenon
  <2> QED BY <2>1, <2>2, Zenon
<1>5. UNCHANGED <<latest, log, serviceVars, seq, history>>
  BY DEF Resume
<1> QED BY <1>2, <1>3, <1>4, <1>5, ClerkKeeps, Zenon

LEMMA RequestBegins ==
    ASSUME MigrationInv, NEW c \in Client, NEW kind \in Kinds, NEW k \in Key, Request(c, kind, k)
    PROVE  MigrationInv'
<1> DEFINE op == [OpType |-> kind, Key |-> k, ClientId |-> c, ReqNo |-> seq + 1]
           r == [clerk[c] EXCEPT !.stage = "trying", !.si = 1, !.since = Len(versions[k]), !.op = op]
<1>1. Clerks(clerk) /\ IsClerk(clerk[c]) /\ seq \in Nat /\ Numbered(clerk, seq)
  BY Zenon DEF MigrationInv, Clerks
<1>2. Once(versions, seq) /\ ShardInv(decided, versions, clerk)
  BY Zenon DEF MigrationInv, GroupsInv
<1>3. op \in RequestOp /\ op.ClientId = c /\ op.ReqNo = seq + 1
  BY <1>1, KeyAssumption DEF RequestOp
<1>4. clerk' = [clerk EXCEPT ![c] = r] /\ seq' = seq + 1
  BY Zenon DEF Request
<1> HIDE DEF op
<1>5. IsClerk(r) /\ r.op = op
  BY <1>1, Zenon DEF IsClerk
<1> HIDE DEF r
<1>6. Clerks(clerk') /\ Numbered(clerk', seq + 1) /\ ShardInv(decided, versions, clerk') /\ Once(versions, seq + 1)
  <2>1. Begins(r, c, seq)
    BY <1>3, <1>5, Zenon DEF Begins
  <2>2. Replaces(clerk', clerk, c, r)
    BY <1>4, Zenon DEF Replaces
  <2> QED BY <1>1, <1>2, <2>1, <2>2, ClerkBegins, Zenon
<1>7. UNCHANGED latest /\ UNCHANGED log /\ UNCHANGED skv /\ UNCHANGED saved /\ UNCHANGED pulls
      /\ UNCHANGED decided /\ UNCHANGED versions
  BY Zenon DEF Request, serviceVars, history
<1> QED BY <1>1, <1>4, <1>6, <1>7 DEF MigrationInv, GroupsInv

\* Steps that change what servers hold.
LEMMA ServersKeep ==
    ASSUME MigrationInv, skv' \in [Server -> State], saved' \in [Server -> State],
           Histories(log, decided, skv', saved'), ClerkStep(clerk, clerk'), Pulls(pulls'),
           UNCHANGED <<latest, log, seq, history>>
    PROVE  MigrationInv'
<1>1. UNCHANGED latest /\ UNCHANGED log /\ UNCHANGED seq /\ UNCHANGED decided /\ UNCHANGED versions
  BY Zenon DEF history
<1>2. GroupsInv(log, decided, versions, skv, saved, clerk, seq) /\ Numbered(clerk, seq)
  BY Zenon DEF MigrationInv
<1>3. GroupsInv(log, decided, versions, skv', saved', clerk, seq)
  BY <1>2, GroupsViews, Zenon
<1>4. GroupsInv(log, decided, versions, skv', saved', clerk', seq) /\ Clerks(clerk') /\ Numbered(clerk', seq)
  BY <1>2, <1>3, GroupsClerks, Zenon
<1> QED BY <1>1, <1>4, Zenon DEF MigrationInv

LEMMA ApplyView ==
    ASSUME NEW g, NEW St, NEW l \in Seq(Command), NEW d, Replay(g, St, l, d), NEW v, View(v, St, l),
           v.CommitedId < Len(l)
    PROVE  View(Applied(g, v, l[v.CommitedId + 1]), St, l)
<1> DEFINE i == v.CommitedId
           op == l[i + 1]
<1>1. v \in State /\ i \in 0..Len(l) /\ Follows(v, St[i]) /\ Len(l) \in Nat
  BY DEF View
<1>2. i \in Nat /\ i + 1 \in 1..Len(l) /\ i + 1 \in 0..Len(l) /\ i + 1 - 1 = i
  BY <1>1
<1>3. op \in Command
  BY <1>2
<1>4. St[i] \in State /\ St[i + 1] = Applied(g, St[i], op)
  BY <1>1, <1>2 DEF Replay
<1>5. Applied(g, v, op) \in State /\ Applied(g, v, op).CommitedId = i + 1
  BY <1>1, <1>3, AppliedType, Zenon
<1> HIDE DEF i, op
<1>6. Follows(Applied(g, v, op), Applied(g, St[i], op))
  BY <1>1, <1>3, <1>4, FollowsApplied, Zenon
<1>7. View(Applied(g, v, op), St, l)
  BY <1>2, <1>4, <1>5, <1>6, Zenon DEF View
<1> QED BY <1>7, Zenon DEF i, op

LEMMA ApplyKeeps == ASSUME MigrationInv, NEW s \in Server, Apply(s) PROVE MigrationInv'
<1> DEFINE g == s[1]
           v == skv[s]
           w == Applied(g, v, log[g][v.CommitedId + 1])
<1>1. g \in Gid /\ skv \in [Server -> State] /\ saved \in [Server -> State] /\ Pulls(pulls) /\ Clerks(clerk)
  BY ServerGroup, Zenon DEF MigrationInv
<1>2. log \in [Gid -> Seq(Command)] /\ Histories(log, decided, skv, saved)
  BY Zenon DEF MigrationInv, GroupsInv
<1>3. v.CommitedId < Len(log[g]) /\ skv' = [skv EXCEPT ![s] = w]
  BY Zenon DEF Apply
<1>4. UNCHANGED saved /\ UNCHANGED pulls /\ UNCHANGED clerk /\ UNCHANGED <<latest, log, seq, history>>
  BY Zenon DEF Apply
<1>5. v \in State /\ log[g] \in Seq(Command)
  BY <1>1, <1>2, Zenon
<1>6. w \in State
  <2>1. v.CommitedId + 1 \in 1..Len(log[g])
    BY <1>3, <1>5, StateFields
  <2>2. log[g][v.CommitedId + 1] \in Command
    BY <1>5, <2>1
  <2> QED BY <1>5, <2>2, AppliedType, Zenon
<1>7. ASSUME NEW h \in Gid, NEW St, Replay(h, St, log[h], decided[h]), Views(h, St, log[h], skv, saved)
      PROVE  Views(h, St, log[h], skv', saved')
  <2>1. CASE h = g
    <3>1. View(v, St, log[g])
      BY <1>7, <2>1, Zenon DEF Views
    <3>2. View(w, St, log[g])
      BY <1>3, <1>5, <1>7, <2>1, <3>1, ApplyView, Zenon
    <3> HIDE DEF w
    <3> QED BY <1>1, <1>3, <1>4, <1>7, <2>1, <3>2, Zenon DEF Views
  <2>2. CASE h # g
    <3> HIDE DEF w
    <3> QED BY <1>1, <1>3, <1>4, <1>7, <2>2, Zenon DEF Views
  <2> QED BY <2>1, <2>2, Zenon
<1> HIDE DEF w
<1>8. Histories(log, decided, skv', saved')
  BY <1>2, <1>7, Zenon DEF Histories
<1>9. skv' \in [Server -> State] /\ saved' \in [Server -> State] /\ Pulls(pulls')
  BY <1>1, <1>3, <1>4, <1>6, Zenon
<1>10. ClerkStep(clerk, clerk')
  BY <1>1, <1>4, SameClerks, Zenon
<1> QED BY <1>4, <1>8, <1>9, <1>10, ServersKeep, Zenon

\* A server takes up a snapshot of its group, or saves one.
LEMMA SwapViews ==
    ASSUME NEW l, NEW d, NEW sk, NEW sv, NEW sk1, NEW sv1, Histories(l, d, sk, sv),
           \A s \in Server : /\ sk1[s] = sk[s] \/ \E t \in Server : t[1] = s[1] /\ sk1[s] = sv[t]
                             /\ \/ sv1[s] = sv[s] \/ sv1[s] = sk[s]
                                \/ \E t \in Server : t[1] = s[1] /\ sv1[s] = sv[t]
    PROVE  Histories(l, d, sk1, sv1)
<1>1. ASSUME NEW g \in Gid, NEW St, Views(g, St, l[g], sk, sv)
      PROVE  Views(g, St, l[g], sk1, sv1)
  BY <1>1 DEF Views
<1> QED BY <1>1, Zenon DEF Histories

LEMMA SnapshotKeeps == ASSUME MigrationInv, NEW s \in Server, Snapshot(s) PROVE MigrationInv'
<1>1. skv \in [Server -> State] /\ saved \in [Server -> State] /\ Pulls(pulls) /\ Clerks(clerk)
      /\ Histories(log, decided, skv, saved)
  BY Zenon DEF MigrationInv, GroupsInv
<1>2. saved' = [saved EXCEPT ![s] = skv[s]] /\ UNCHANGED skv /\ UNCHANGED pulls /\ UNCHANGED clerk
      /\ UNCHANGED <<latest, log, seq, history>>
  BY Zenon DEF Snapshot, clientVars
<1>3. skv' \in [Server -> State] /\ saved' \in [Server -> State] /\ Pulls(pulls')
  BY <1>1, <1>2, Zenon
<1>4. Histories(log, decided, skv', saved')
  <2>1. \A r \in Server : skv'[r] = skv[r] /\ (saved'[r] = saved[r] \/ saved'[r] = skv[r])
    BY <1>1, <1>2, Zenon
  <2> QED BY <1>1, <2>1, SwapViews
<1>5. ClerkStep(clerk, clerk')
  BY <1>1, <1>2, SameClerks, Zenon
<1> QED BY <1>2, <1>3, <1>4, <1>5, ServersKeep, Zenon

LEMMA ReadSnapshotKeeps ==
    ASSUME MigrationInv, NEW s \in Server, NEW t \in Server, ReadSnapshot(s, t) PROVE MigrationInv'
<1>1. skv \in [Server -> State] /\ saved \in [Server -> State] /\ Pulls(pulls) /\ Clerks(clerk)
      /\ Histories(log, decided, skv, saved)
  BY Zenon DEF MigrationInv, GroupsInv
<1>2. /\ t[1] = s[1] /\ skv' = [skv EXCEPT ![s] = saved[t]] /\ saved' = [saved EXCEPT ![s] = saved[t]]
      /\ UNCHANGED pulls /\ UNCHANGED clerk /\ UNCHANGED <<latest, log, seq, history>>
  BY Zenon DEF ReadSnapshot, clientVars
<1>3. skv' \in [Server -> State] /\ saved' \in [Server -> State] /\ Pulls(pulls')
  BY <1>1, <1>2, Zenon
<1>4. Histories(log, decided, skv', saved')
  <2>1. \A r \in Server : /\ skv'[r] = skv[r] \/ (r = s /\ skv'[r] = saved[t])
                          /\ saved'[r] = saved[r] \/ (r = s /\ saved'[r] = saved[t])
    BY <1>1, <1>2, Zenon
  <2>2. t[1] = s[1]
    BY <1>2, Zenon
  <2>3. \A r \in Server : skv'[r] = skv[r] \/ \E u \in Server : u[1] = r[1] /\ skv'[r] = saved[u]
    BY <2>1, <2>2, Zenon
  <2>4. \A r \in Server : saved'[r] = saved[r] \/ \E u \in Server : u[1] = r[1] /\ saved'[r] = saved[u]
    BY <2>1, <2>2, Zenon
  <2> QED BY <1>1, <2>3, <2>4, SwapViews
<1>5. ClerkStep(clerk, clerk')
  BY <1>1, <1>2, SameClerks, Zenon
<1> QED BY <1>2, <1>3, <1>4, <1>5, ServersKeep, Zenon

LEMMA RestartKeeps == ASSUME MigrationInv, NEW s \in Server, Restart(s) PROVE MigrationInv'
<1>1. skv \in [Server -> State] /\ saved \in [Server -> State] /\ Pulls(pulls) /\ Clerks(clerk)
      /\ Histories(log, decided, skv, saved)
  BY DEF MigrationInv, GroupsInv
<1>2. /\ skv' = [skv EXCEPT ![s] = saved[s]] /\ UNCHANGED saved /\ pulls' \subseteq pulls
      /\ UNCHANGED <<latest, log, seq, history>>
  BY Zenon DEF Restart
<1>3. skv' \in [Server -> State] /\ saved' \in [Server -> State] /\ Pulls(pulls')
  BY <1>1, <1>2, Zenon DEF Pulls
<1>4. Histories(log, decided, skv', saved')
  <2>1. \A r \in Server : (skv'[r] = skv[r] \/ skv'[r] = saved[r]) /\ saved'[r] = saved[r]
    BY <1>1, <1>2, Zenon
  <2> QED BY <1>1, <2>1, SwapViews
<1>5. ClerkStep(clerk, clerk')
  <2>1. PICK Cut : clerk' = [c \in Client |-> IF clerk[c].stage = "waiting" /\ Cut[c] THEN NextServer(clerk[c]) ELSE clerk[c]]
    <3> DEFINE Cut == [c \in Client |-> \E h \in handlers : h.server = s /\ h.client = c /\ h.id = clerk[c].call]
    <3>1. clerk' = [c \in Client |-> IF clerk[c].stage = "waiting" /\ Cut[c] THEN NextServer(clerk[c]) ELSE clerk[c]]
      BY Zenon DEF Restart
    <3> QED BY <3>1, Zenon
  <2>2. \A c \in Client : clerk'[c] = clerk[c] \/ (clerk[c].stage = "waiting" /\ clerk'[c] = NextServer(clerk[c]))
    BY <2>1, Zenon
  <2>3. \A c \in Client : IsClerk(clerk[c])
    BY <1>1, Zenon DEF Clerks
  <2>4. \A c \in Client : IsClerk(NextServer(clerk[c])) /\ NextServer(clerk[c]).op = clerk[c].op
    BY <2>3, ClerkFields, Zenon
  <2>5. clerk' = [c \in Client |-> clerk'[c]]
    BY <2>1, Zenon
  <2> HIDE <2>1
  <2> QED BY <2>2, <2>3, <2>4, <2>5, Zenon DEF ClerkStep, Clerks
<1> QED BY <1>2, <1>3, <1>4, <1>5, ServersKeep, Zenon

LEMMA FollowsTrans ==
    ASSUME NEW u, NEW v, NEW w, Follows(u, v), Follows(v, w) PROVE Follows(u, w)
<1>1. \A n \in Num : Cleared(u, n) \/ SameDock(u, w, n)
  BY Zenon DEF Follows, Cleared, SameDock
<1> QED BY <1>1, Zenon DEF Follows, SameData

\* What a round of sayHello leaves of a server's state.
LEMMA HelloFollows ==
    ASSUME NEW v \in State, NEW f \in [Gid -> Nat]
    PROVE  LET w == [v EXCEPT !.Gid2UnCompletedConfigNum = f]
           IN  w \in State /\ clean(w) \in State /\ Follows(w, v) /\ Follows(clean(w), v)
<1> DEFINE w == [v EXCEPT !.Gid2UnCompletedConfigNum = f]
           known == {w.Gid2UnCompletedConfigNum[g] : g \in Gid} \ {0}
           expired == {n \in Num : \A m \in known : n < m}
           docks == [n \in Num |-> IF n \in expired THEN NoDock ELSE w.OutShardsDock[n]]
           infos == [n \in Num |-> IF n \in expired THEN NoInfo ELSE w.Config2ClientInfo[n]]
<1>1. w \in State /\ Follows(w, v)
  <2>1. w \in State
    BY Zenon DEF State
  <2>2. /\ w.CommitedId = v.CommitedId /\ w.LastConfig = v.LastConfig /\ w.CurConfig = v.CurConfig
        /\ w.Shards = v.Shards /\ w.ShardKVMap = v.ShardKVMap /\ w.ClientInfo = v.ClientInfo
        /\ w.OutShardsDock = v.OutShardsDock /\ w.Config2ClientInfo = v.Config2ClientInfo
    BY Zenon DEF State
  <2> QED BY <2>1, <2>2, Zenon DEF Follows, SameData, SameDock
<1>2. clean(w) = [w EXCEPT !.OutShardsDock = docks, !.Config2ClientInfo = infos]
  BY Zenon DEF clean
<1> HIDE DEF w, known, expired
<1>3. w.OutShardsDock \in [Num -> Dock] /\ w.Config2ClientInfo \in [Num -> Info]
  BY <1>1, StateFields, Zenon DEF State
<1>4. docks \in [Num -> Dock] /\ infos \in [Num -> Info]
  BY <1>3, Starting, Zenon
<1>5. \A n \in Num : \/ docks[n] = NoDock /\ infos[n] = NoInfo
                     \/ docks[n] = w.OutShardsDock[n] /\ infos[n] = w.Config2ClientInfo[n]
  BY Zenon
<1> HIDE DEF docks, infos
<1>6. /\ clean(w) \in State
      /\ clean(w).OutShardsDock = docks /\ clean(w).Config2ClientInfo = infos
  BY <1>1, <1>2, <1>4, Zenon DEF State
<1>7. /\ clean(w).CommitedId = w.CommitedId /\ clean(w).LastConfig = w.LastConfig
      /\ clean(w).CurConfig = w.CurConfig
      /\ clean(w).Shards = w.Shards /\ clean(w).ShardKVMap = w.ShardKVMap
      /\ clean(w).ClientInfo = w.ClientInfo
  BY <1>1, <1>2, Zenon DEF State
<1>8. Follows(clean(w), w)
  BY <1>5, <1>6, <1>7, Zenon DEF Follows, SameData, SameDock, Cleared
<1> QED BY <1>1, <1>6, <1>8, FollowsTrans, Zenon DEF w

\* A server is left with what follows what it had.
LEMMA OneFollows ==
    ASSUME NEW l, NEW d, NEW sk, NEW sv, NEW sk1, Histories(l, d, sk, sv),
           \A s \in Server : sk1[s] \in State /\ (sk1[s] = sk[s] \/ Follows(sk1[s], sk[s]))
    PROVE  Histories(l, d, sk1, sv)
<1>1. ASSUME NEW St, NEW m, NEW s \in Server, View(sk[s], St, m)
      PROVE  View(sk1[s], St, m)
  <2>1. CASE sk1[s] = sk[s]
    BY <1>1, <2>1, Zenon
  <2>2. CASE Follows(sk1[s], sk[s])
    <3>1. sk1[s].CommitedId = sk[s].CommitedId
      BY <2>2, Zenon DEF Follows
    <3> QED BY <1>1, <2>2, <3>1, FollowsTrans, Zenon DEF View
  <2> QED BY <2>1, <2>2, Zenon
<1>2. ASSUME NEW g \in Gid, NEW St, Views(g, St, l[g], sk, sv)
      PROVE  Views(g, St, l[g], sk1, sv)
  BY <1>1, <1>2, Zenon DEF Views
<1> QED BY <1>2, Zenon DEF Histories

LEMMA sayHelloKeeps == ASSUME MigrationInv, NEW s \in Server, sayHello(s) PROVE MigrationInv'
<1>1. skv \in [Server -> State] /\ saved \in [Server -> State] /\ Pulls(pulls) /\ Clerks(clerk)
      /\ Histories(log, decided, skv, saved)
  BY DEF MigrationInv, GroupsInv
<1>2. PICK who \in SUBSET (Groups(skv[s].CurConfig) \ {s[1]}) :
        \E heard \in [who -> UNION {Answers(h) : h \in who}] :
          (\A h \in who : heard[h] \in Answers(h)) /\ sayHelloRound(s, heard)
  BY Zenon DEF sayHello
<1>3. PICK heard \in [who -> UNION {Answers(h) : h \in who}] :
        (\A h \in who : heard[h] \in Answers(h)) /\ sayHelloRound(s, heard)
  BY <1>2, Zenon
<1> DEFINE v == skv[s]
           f == [g \in Gid |-> IF g \in DOMAIN heard THEN Greater(v.Gid2UnCompletedConfigNum[g], heard[g])
                               ELSE v.Gid2UnCompletedConfigNum[g]]
           w == [v EXCEPT !.Gid2UnCompletedConfigNum = f]
           u == IF Cardinality({g \in Gid : w.Gid2UnCompletedConfigNum[g] # 0}) > 1 THEN clean(w) ELSE w
<1>4. skv' = [skv EXCEPT ![s] = u] /\ UNCHANGED saved /\ UNCHANGED pulls /\ UNCHANGED clerk
      /\ UNCHANGED <<latest, log, seq, history>>
  BY <1>3, Zenon DEF sayHelloRound, clientVars
<1>5. v \in State
  BY <1>1, Zenon
<1>6. f \in [Gid -> Nat]
  <2>1. \A t \in Server : Hello(t) \in Nat
    BY <1>1, StateFields, ConfigSizes DEF Hello
  <2>2. \A h \in who : heard[h] \in Nat
    BY <1>3, <2>1, Zenon DEF Answers
  <2>3. v.Gid2UnCompletedConfigNum \in [Gid -> Nat] /\ DOMAIN heard = who
    BY <1>5, Zenon DEF State
  <2> HIDE DEF v
  <2> QED BY <2>2, <2>3, Zenon DEF Greater
<1> HIDE DEF f
<1>7. u \in State /\ Follows(u, v)
  BY <1>5, <1>6, HelloFollows, Zenon
<1> HIDE DEF u
<1>8. skv' \in [Server -> State] /\ saved' \in [Server -> State] /\ Pulls(pulls')
  BY <1>1, <1>4, <1>7, Zenon
<1>9. \A t \in Server : skv'[t] \in State /\ (skv'[t] = skv[t] \/ Follows(skv'[t], skv[t]))
  BY <1>1, <1>4, <1>7, Zenon
<1>10. Histories(log, decided, skv', saved')
  BY <1>1, <1>4, <1>9, OneFollows, Zenon
<1>11. ClerkStep(clerk, clerk')
  BY <1>1, <1>4, SameClerks, Zenon
<1> QED BY <1>4, <1>8, <1>10, <1>11, ServersKeep, Zenon

\* Steps that decide a command and leave the servers alone.
LEMMA DecideFrame ==
    ASSUME NeverEmptied, MigrationInv, NEW g \in Gid, NEW op, Sound(op, g, decided, clerk, seq), Decide(g, op),
           ClerkStep(clerk, clerk'), Pulls(pulls'), UNCHANGED <<latest, skv, saved, seq>>
    PROVE  MigrationInv'
<1>1. GroupsInv(log', decided', versions', skv, saved, clerk, seq)
  BY DecideKeeps, Zenon
<1>2. Numbered(clerk, seq)
  BY Zenon DEF MigrationInv
<1>3. GroupsInv(log', decided', versions', skv, saved, clerk', seq) /\ Clerks(clerk') /\ Numbered(clerk', seq)
  BY <1>1, <1>2, GroupsClerks, Zenon
<1> QED BY <1>3, Zenon DEF MigrationInv

\* Steps that change neither servers nor logs.
LEMMA QuietFrame ==
    ASSUME MigrationInv, ClerkStep(clerk, clerk'), Pulls(pulls'), latest' \in 0..Len(Config),
           UNCHANGED <<log, skv, saved, seq, history>>
    PROVE  MigrationInv'
<1>1. /\ UNCHANGED log /\ UNCHANGED skv /\ UNCHANGED saved /\ UNCHANGED seq
      /\ UNCHANGED decided /\ UNCHANGED versions
  BY Zenon DEF history
<1>2. GroupsInv(log, decided, versions, skv, saved, clerk, seq) /\ Numbered(clerk, seq)
  BY Zenon DEF MigrationInv
<1>3. GroupsInv(log, decided, versions, skv, saved, clerk', seq) /\ Clerks(clerk') /\ Numbered(clerk', seq)
  BY <1>2, GroupsClerks, Zenon
<1> QED BY <1>1, <1>3, Zenon DEF MigrationInv

LEMMA ReconfigureKeeps == ASSUME MigrationInv, Reconfigure PROVE MigrationInv'
<1>1. /\ latest < Len(Config) /\ latest' = latest + 1 /\ UNCHANGED <<log, skv, saved, seq, history>>
      /\ UNCHANGED pulls /\ UNCHANGED clerk
  BY Zenon DEF Reconfigure, serviceVars, clientVars
<1>2. latest \in 0..Len(Config) /\ Pulls(pulls) /\ Clerks(clerk)
  BY Zenon DEF MigrationInv
<1>3. latest' \in 0..Len(Config)
  BY <1>1, <1>2, ConfigSizes
<1>4. ClerkStep(clerk, clerk') /\ Pulls(pulls')
  BY <1>1, <1>2, SameClerks, Zenon
<1> QED BY <1>1, <1>3, <1>4, QuietFrame, Zenon

LEMMA PullEndsKeeps == ASSUME MigrationInv, NEW p, doPullShardsEnds(p) PROVE MigrationInv'
<1>1. /\ pulls' \subseteq pulls /\ UNCHANGED <<log, skv, saved, seq, history>>
      /\ UNCHANGED latest /\ UNCHANGED clerk
  BY Zenon DEF doPullShardsEnds, clientVars
<1>2. latest \in 0..Len(Config) /\ Pulls(pulls) /\ Clerks(clerk)
  BY Zenon DEF MigrationInv
<1>3. ClerkStep(clerk, clerk') /\ Pulls(pulls')
  BY <1>1, <1>2, SameClerks, Zenon DEF Pulls
<1> QED BY <1>1, <1>2, <1>3, QuietFrame, Zenon

LEMMA ServerBehind ==
    ASSUME MigrationInv, NEW s \in Server
    PROVE  skv[s] \in State /\ s[1] \in Gid /\ decided[s[1]] \in State /\ Behind(skv[s], decided[s[1]])
<1>1. /\ skv \in [Server -> State] /\ decided \in [Gid -> State] /\ Histories(log, decided, skv, saved)
  BY Zenon DEF MigrationInv, GroupsInv
<1> QED BY <1>1, ServerGroup, HistoryBehind, Zenon

LEMMA updateConfigKeeps ==
    ASSUME NeverEmptied, MigrationInv, NEW s \in Server, updateConfig(s) PROVE MigrationInv'
<1> DEFINE n == skv[s].CurConfig + 1
           op == [OpType |-> "CONFIG", ConfigNum |-> n]
<1>1. /\ skv[s].CurConfig < latest /\ Decide(s[1], op) /\ UNCHANGED <<latest, skv, saved, seq>>
      /\ UNCHANGED pulls /\ UNCHANGED clerk
  BY Zenon DEF updateConfig, Start, serviceVars, clientVars
<1>2. latest \in 0..Len(Config) /\ Pulls(pulls) /\ Clerks(clerk)
  BY Zenon DEF MigrationInv
<1>3. /\ skv[s] \in State /\ s[1] \in Gid /\ decided[s[1]] \in State
      /\ skv[s].CurConfig <= decided[s[1]].CurConfig
  BY ServerBehind, Zenon DEF Behind
<1>4. n \in Num /\ n <= decided[s[1]].CurConfig + 1
  BY <1>1, <1>2, <1>3, StateFields, ConfigSizes DEF Num
<1> HIDE DEF n
<1>5. Sound(op, s[1], decided, clerk, seq)
  <2>1. op \in ConfigOp /\ op.ConfigNum = n /\ op.OpType = "CONFIG"
    BY <1>4, Zenon DEF ConfigOp
  <2>2. op \notin ShardsOp /\ op \notin RequestOp
    BY <2>1, Zenon DEF ShardsOp, RequestOp
  <2> QED BY <1>4, <2>1, <2>2, Zenon DEF Sound, Command
<1> HIDE DEF op
<1>6. ClerkStep(clerk, clerk') /\ Pulls(pulls')
  BY <1>1, <1>2, SameClerks, Zenon
<1> QED BY <1>1, <1>3, <1>5, <1>6, DecideFrame, Zenon

\* A server that misses a shard has reached a configuration.
LEMMA MissingNum ==
    ASSUME MigrationInv, NEW s \in Server, UnFinished(s[1], skv[s]) # {}
    PROVE  skv[s].CurConfig \in Num /\ skv[s].LastConfig = skv[s].CurConfig - 1
<1>1. skv[s] \in State /\ s[1] \in Gid /\ InOrder(skv[s])
  BY ServerBehind, Zenon DEF Behind
<1>2. skv[s].CurConfig # 0
  BY <1>1, Owners, Zenon DEF UnFinished
<1>3. skv[s].CurConfig \in 0..Len(Config)
  BY <1>1, StateFields, Zenon DEF State
<1> QED BY <1>1, <1>2, <1>3, ConfigSizes DEF Num, InOrder

\* The first shards come from nowhere.
LEMMA FirstSound ==
    ASSUME NeverEmptied, NEW n \in Num, Owner(n - 1, 0) = 0, NEW g, NEW ck, NEW q, NEW d
    PROVE  Sound([OpType |-> "SHARDS", ConfigNum |-> n, out |-> Shard, data |-> NoData,
                  ClientInfo |-> NoInfo], g, d, ck, q)
<1> DEFINE op == [OpType |-> "SHARDS", ConfigNum |-> n, out |-> Shard, data |-> NoData, ClientInfo |-> NoInfo]
<1>1. op \in ShardsOp /\ op.OpType = "SHARDS" /\ op.data = NoData /\ op.ConfigNum = n
  BY Starting, Zenon DEF ShardsOp
<1> HIDE DEF op
<1>2. op \notin ConfigOp /\ op \notin RequestOp
  BY <1>1, Zenon DEF ConfigOp, RequestOp
<1>3. \A x \in Shard : Owner(n - 1, x) = 0
  <2>1. CASE n - 1 = 0
    BY <2>1, Owners, Zenon
  <2>2. CASE n - 1 # 0
    <3>1. n - 1 \in Num /\ n - 1 \in 1..(n - 1)
      BY <2>2, ConfigSizes DEF Num
    <3>2. 0 \in Shard
      BY ConfigAssumption DEF Shard
    <3> QED BY <3>1, <3>2, Zenon DEF NeverEmptied
  <2> QED BY <2>1, <2>2, Zenon
<1>4. Sound(op, g, d, ck, q)
  BY <1>1, <1>2, <1>3, Zenon DEF Sound, Command, Provided, First
<1> QED BY <1>4, Zenon DEF op

LEMMA checkMissShardsKeeps ==
    ASSUME NeverEmptied, MigrationInv, NEW s \in Server, checkMissShards(s) PROVE MigrationInv'
<1> DEFINE n == skv[s].CurConfig
           missing == UnFinished(s[1], skv[s])
           old == skv[s].LastConfig
           Due(h) == {x \in missing : Owner(old, x) = h}
           op == [OpType |-> "SHARDS", ConfigNum |-> n, out |-> Shard, data |-> NoData, ClientInfo |-> NoInfo]
           new == {[server |-> s, from |-> h, ConfigNum |-> n, shards |-> Due(h)] :
                     h \in {g \in Groups(old) : Due(g) # {}}}
<1>1. missing # {} /\ UNCHANGED <<latest, skv, saved, seq>> /\ UNCHANGED clerk /\ UNCHANGED latest
  BY Zenon DEF checkMissShards, clientVars
<1>2. \/ Owner(old, 0) = 0 /\ Decide(s[1], op) /\ UNCHANGED pulls
      \/ Owner(old, 0) # 0 /\ pulls' = pulls \cup new /\ UNCHANGED <<log, history>>
  BY Zenon DEF checkMissShards, Start
<1>3. latest \in 0..Len(Config) /\ Pulls(pulls) /\ Clerks(clerk)
  BY DEF MigrationInv
<1>4. n \in Num /\ old = n - 1
  BY <1>1, MissingNum, Zenon
<1>5. s[1] \in Gid /\ missing \subseteq Shard
  BY ServerGroup, Zenon DEF UnFinished
<1>6. ClerkStep(clerk, clerk')
  BY <1>1, <1>3, SameClerks, Zenon
<1> HIDE DEF n, missing, old
<1>7. CASE Owner(old, 0) = 0 /\ Decide(s[1], op) /\ UNCHANGED pulls
  <2>1. Sound(op, s[1], decided, clerk, seq)
    BY <1>4, <1>7, FirstSound, Zenon
  <2> HIDE DEF op
  <2>2. Pulls(pulls')
    BY <1>3, <1>7, Zenon
  <2> QED BY <1>1, <1>5, <1>6, <1>7, <2>1, <2>2, DecideFrame
<1>8. CASE Owner(old, 0) # 0 /\ pulls' = pulls \cup new /\ UNCHANGED <<log, history>>
  <2>1. old \in Num
    BY <1>4, <1>8, Owners, ConfigSizes DEF Num
  <2>2. Groups(old) \subseteq Gid
    BY <2>1, ConfigSizes, Zenon DEF Groups, Num
  <2>3. ASSUME NEW p \in new PROVE Pull(p)
    <3>1. PICK h \in Groups(old) : p = [server |-> s, from |-> h, ConfigNum |-> n, shards |-> Due(h)]
      BY <2>3, Zenon
    <3>2. \A x \in Due(h) : x \in Shard /\ Owner(n - 1, x) = h
      BY <1>4, <1>5, Zenon
    <3> HIDE DEF Due, new
    <3> QED BY <1>4, <2>1, <2>2, <3>1, <3>2, Zenon DEF Pull
  <2> HIDE DEF new
  <2>4. Pulls(pulls')
    BY <1>3, <1>8, <2>3, Zenon DEF Pulls
  <2>5. UNCHANGED <<log, skv, saved, seq, history>>
    BY <1>1, <1>8, Zenon
  <2>6. latest' \in 0..Len(Config)
    BY <1>1, <1>3, Zenon
  <2> QED BY <1>6, <2>4, <2>5, <2>6, QuietFrame, Zenon
<1> HIDE DEF op, new
<1> QED BY <1>2, <1>7, <1>8, Zenon

\* The SHARDS command that doPullShards makes of what server t has docked for n.
Pulled(v, n, got) ==
    [OpType |-> "SHARDS", ConfigNum |-> n, out |-> got,
     data |-> [k \in Key |-> IF ShardOf[k] \in got THEN v.OutShardsDock[n].data[k] ELSE <<>>],
     ClientInfo |-> v.Config2ClientInfo[n]]

LEMMA PulledType ==
    ASSUME NEW v \in State, NEW n \in Num, NEW got \in SUBSET Shard
    PROVE  /\ Pulled(v, n, got) \in ShardsOp /\ Pulled(v, n, got).ConfigNum = n /\ Pulled(v, n, got).out = got
           /\ Pulled(v, n, got).ClientInfo = v.Config2ClientInfo[n]
           /\ \A k \in Key : ShardOf[k] \in got => Pulled(v, n, got).data[k] = v.OutShardsDock[n].data[k]
<1> DEFINE data == [k \in Key |-> IF ShardOf[k] \in got THEN v.OutShardsDock[n].data[k] ELSE <<>>]
<1>1. v.OutShardsDock[n] \in Dock /\ v.Config2ClientInfo[n] \in Info
  BY Zenon DEF State
<1>2. v.OutShardsDock[n].data \in Data
  BY <1>1, Zenon DEF Dock
<1>3. data \in Data
  BY <1>2 DEF Data
<1>4. \A k \in Key : ShardOf[k] \in got => data[k] = v.OutShardsDock[n].data[k]
  BY Zenon
<1>5. Pulled(v, n, got) = [OpType |-> "SHARDS", ConfigNum |-> n, out |-> got, data |-> data,
                           ClientInfo |-> v.Config2ClientInfo[n]]
  BY Zenon DEF Pulled
<1> HIDE DEF data
<1> QED BY <1>1, <1>3, <1>4, <1>5 DEF ShardsOp

LEMMA PulledSound ==
    ASSUME MigrationInv, NEW p, Pull(p), NEW t \in Server, t[1] = p.from, NEW got,
           got = Docked(t, p.ConfigNum, p.shards), got # {}, NEW g
    PROVE  Sound(Pulled(skv[t], p.ConfigNum, got), g, decided, clerk, seq)
<1> DEFINE n == p.ConfigNum
           h == p.from
           v == skv[t]
           op == Pulled(v, n, got)
<1>1. v \in State /\ h \in Gid /\ Behind(v, decided[h]) /\ n \in Num /\ n - 1 \in Num
  BY ServerBehind, Zenon DEF Pull
<1>2. /\ \A x \in got : x \in v.OutShardsDock[n].out /\ x \in Shard /\ Owner(n - 1, x) = h
  BY Zenon DEF Docked, Pull
<1>3. /\ op \in ShardsOp /\ op.ConfigNum = n /\ op.out = got /\ op.ClientInfo = v.Config2ClientInfo[n]
      /\ \A k \in Key : ShardOf[k] \in got => op.data[k] = v.OutShardsDock[n].data[k]
  <2>1. got \in SUBSET Shard
    BY <1>2, Zenon
  <2> HIDE DEF v, n
  <2>2. v \in State /\ n \in Num
    BY <1>1, Zenon
  <2> QED BY <2>1, <2>2, PulledType
<1> HIDE DEF v, n, h, op
<1>4. SameDock(v, decided[h], n)
  <2>1. v.OutShardsDock[n] # NoDock
    BY <1>2 DEF NoDock
  <2> QED BY <1>1, <2>1, Zenon DEF Behind, Cleared
<1>5. From(op, decided, h)
  BY <1>1, <1>2, <1>3, <1>4, Zenon DEF From, SameDock
<1>6. op \notin ConfigOp /\ op \notin RequestOp
  BY <1>3, Zenon DEF ShardsOp, ConfigOp, RequestOp
<1>7. Sound(op, g, decided, clerk, seq)
  BY <1>1, <1>3, <1>5, <1>6, Zenon DEF Sound, Command, Provided
<1> QED BY <1>7, Zenon DEF op, v, n

LEMMA doPullShardsKeeps ==
    ASSUME NeverEmptied, MigrationInv, NEW p \in pulls, NEW t \in Server, doPullShards(p, t) PROVE MigrationInv'
<1> DEFINE got == Docked(t, p.ConfigNum, p.shards)
           op == Pulled(skv[t], p.ConfigNum, got)
<1>1. /\ t[1] = p.from /\ got # {} /\ pulls' \subseteq pulls /\ UNCHANGED <<latest, skv, saved, seq>>
      /\ UNCHANGED clerk /\ UNCHANGED latest
  BY Zenon DEF doPullShards, clientVars
<1>2. Decide(p.server[1], op) \/ UNCHANGED <<log, history>>
  BY Zenon DEF doPullShards, Start, Lost, Pulled
<1>3. latest \in 0..Len(Config) /\ Pulls(pulls) /\ Clerks(clerk) /\ Pull(p)
  BY Zenon DEF MigrationInv, Pulls
<1>4. ClerkStep(clerk, clerk') /\ Pulls(pulls')
  BY <1>1, <1>3, SameClerks, Zenon DEF Pulls
<1>5. p.server[1] \in Gid
  BY <1>3, ServerGroup, Zenon DEF Pull
<1>6. Sound(op, p.server[1], decided, clerk, seq)
  BY <1>1, <1>3, PulledSound, Zenon
<1> HIDE DEF op, got
<1>7. CASE Decide(p.server[1], op)
  BY <1>1, <1>4, <1>5, <1>6, <1>7, DecideFrame
<1>8. CASE UNCHANGED <<log, history>>
  <2>1. UNCHANGED <<log, skv, saved, seq, history>> /\ latest' \in 0..Len(Config)
    BY <1>1, <1>3, <1>8, Zenon
  <2> QED BY <1>4, <2>1, QuietFrame, Zenon
<1> QED BY <1>2, <1>7, <1>8, Zenon

LEMMA HandleKeeps ==
    ASSUME NeverEmptied, MigrationInv, NEW c \in Client, Handle(c) PROVE MigrationInv'
<1> DEFINE s == Target(c)
           op == clerk[c].op
<1>1. /\ clerk[c].stage = "trying" /\ s \in Server /\ UNCHANGED <<latest, skv, saved, seq>>
      /\ UNCHANGED pulls /\ UNCHANGED latest
  BY Zenon DEF Handle, serviceVars
<1>2. Decide(s[1], op) \/ UNCHANGED <<log, history>>
  BY Zenon DEF Handle, Lost
<1>3. PICK id : clerk' = [clerk EXCEPT ![c].stage = "waiting", ![c].call = id]
  BY Zenon DEF Handle
<1>4. latest \in 0..Len(Config) /\ Pulls(pulls) /\ Clerks(clerk) /\ Numbered(clerk, seq) /\ seq \in Nat
  BY Zenon DEF MigrationInv
<1>5. Sound(op, s[1], decided, clerk, seq)
  <2>1. op \in RequestOp /\ op.ClientId = c /\ op.ReqNo \in 1..seq
    BY <1>1, <1>4 DEF Numbered, RequestOp
  <2>2. \A b \in Client : clerk[b].op.ReqNo = op.ReqNo => b = c
    BY <1>4, <2>1 DEF Numbered
  <2>3. op \notin ConfigOp /\ op \notin ShardsOp
    BY <2>1, Zenon DEF RequestOp, ConfigOp, ShardsOp
  <2> QED BY <2>1, <2>2, <2>3, Zenon DEF Sound, Command
<1>6. ClerkStep(clerk, clerk')
  <2> DEFINE r == [clerk[c] EXCEPT !.stage = "waiting", !.call = id]
  <2>1. clerk = [b \in Client |-> clerk[b]] /\ \A b \in Client : IsClerk(clerk[b])
    BY <1>4, Zenon DEF Clerks
  <2>2. clerk' = [clerk EXCEPT ![c] = r]
    BY <1>3, <2>1, Zenon
  <2>3. IsClerk(r) /\ r.op = clerk[c].op
    BY <2>1, Zenon DEF IsClerk
  <2> HIDE DEF r
  <2>4. \A b \in Client : clerk'[b] = IF b = c THEN r ELSE clerk[b]
    BY <2>1, <2>2, Zenon
  <2>5. clerk' = [b \in Client |-> clerk'[b]]
    BY <2>1, <2>2, Zenon
  <2> QED BY <1>1, <2>1, <2>3, <2>4, <2>5 DEF ClerkStep, Clerks
<1>7. Pulls(pulls') /\ s[1] \in Gid
  BY <1>1, <1>4, ServerGroup, Zenon
<1> HIDE DEF s, op
<1>8. CASE Decide(s[1], op)
  BY <1>1, <1>5, <1>6, <1>7, <1>8, DecideFrame
<1>9. CASE UNCHANGED <<log, history>>
  <2>1. UNCHANGED <<log, skv, saved, seq, history>> /\ latest' \in 0..Len(Config)
    BY <1>1, <1>4, <1>9, Zenon
  <2> QED BY <1>6, <1>7, <2>1, QuietFrame, Zenon
<1> QED BY <1>2, <1>8, <1>9, Zenon

LEMMA NextMigrationInv ==
    ASSUME NeverEmptied, MigrationInv, [Next]_vars PROVE MigrationInv'
<1>1. CASE Reconfigure
  BY <1>1, ReconfigureKeeps, Zenon
<1>2. ASSUME NEW s \in Server, updateConfig(s) PROVE MigrationInv'
  BY <1>2, updateConfigKeeps, Zenon
<1>3. ASSUME NEW s \in Server, checkMissShards(s) PROVE MigrationInv'
  BY <1>3, checkMissShardsKeeps, Zenon
<1>4. ASSUME NEW s \in Server, sayHello(s) PROVE MigrationInv'
  BY <1>4, sayHelloKeeps, Zenon
<1>5. ASSUME NEW s \in Server, Apply(s) PROVE MigrationInv'
  BY <1>5, ApplyKeeps
<1>6. ASSUME NEW s \in Server, Snapshot(s) PROVE MigrationInv'
  BY <1>6, SnapshotKeeps
<1>7. ASSUME NEW s \in Server, Restart(s) PROVE MigrationInv'
  BY <1>7, RestartKeeps
<1>8. ASSUME NEW s \in Server, NEW t \in Server, ReadSnapshot(s, t) PROVE MigrationInv'
  BY <1>8, ReadSnapshotKeeps, Zenon
<1>9. ASSUME NEW p \in pulls, doPullShardsEnds(p) PROVE MigrationInv'
  BY <1>9, PullEndsKeeps, Zenon
<1>10. ASSUME NEW p \in pulls, NEW t \in Server, doPullShards(p, t) PROVE MigrationInv'
  BY <1>10, doPullShardsKeeps, Zenon
<1>11. ASSUME NEW c \in Client, NEW kind \in Kinds, NEW k \in Key, Request(c, kind, k) PROVE MigrationInv'
  BY <1>11, RequestBegins, Zenon
<1>12. ASSUME NEW c \in Client, Query(c) PROVE MigrationInv'
  BY <1>12, QueryKeeps, Zenon
<1>13. ASSUME NEW c \in Client, HandleAtOnce(c) PROVE MigrationInv'
  BY <1>13, HandleAtOnceKeeps, Zenon
<1>14. ASSUME NEW c \in Client, Handle(c) PROVE MigrationInv'
  BY <1>14, HandleKeeps
<1>15. ASSUME NEW c \in Client, Abandon(c) PROVE MigrationInv'
  BY <1>15, AbandonKeeps
<1>16. ASSUME NEW h \in handlers, Resume(h) PROVE MigrationInv'
  BY <1>16, ResumeKeeps
<1>17. CASE UNCHANGED vars
  <2>1. /\ UNCHANGED latest /\ UNCHANGED <<log, skv, saved, seq, history>> /\ UNCHANGED pulls /\ UNCHANGED clerk
    BY <1>17, Zenon DEF vars, serviceVars, clientVars
  <2>2. latest \in 0..Len(Config) /\ Pulls(pulls) /\ Clerks(clerk)
    BY Zenon DEF MigrationInv
  <2>3. ClerkStep(clerk, clerk') /\ Pulls(pulls')
    BY <2>1, <2>2, SameClerks, Zenon
  <2> QED BY <2>1, <2>2, <2>3, QuietFrame, Zenon
<1> QED
  BY <1>1, <1>2, <1>3, <1>4, <1>5, <1>6, <1>7, <1>8, <1>9, <1>10, <1>11, <1>12, <1>13, <1>14, <1>15, <1>16,
     <1>17 DEF Next

-----------------------------------------------------------------------------
(***************************************************************************)
(* The theorems, of every number of groups, replicas, Clerks and           *)
(* configurations in which the groups never all leave.                     *)
(***************************************************************************)

\* The inductive invariant holds in every reachable state: servers replay their
\* group's log, and docks, tables and data go with the shards (shardkv/server.go).
THEOREM MigrationInvariant == ASSUME NeverEmptied PROVE Spec => []MigrationInv
<1>1. Init => MigrationInv
  BY InitMigrationInv, Zenon
<1>2. MigrationInv /\ [Next]_vars => MigrationInv'
  BY NextMigrationInv, Zenon
<1> QED BY <1>1, <1>2, PTL DEF Spec

\* No two groups ever hold a shard at the same point of their logs: doUpdateConfig
\* gives it up before ShardDock hands it out, and acceptShards takes it once.
THEOREM ShardsHaveOneOwner == ASSUME NeverEmptied PROVE Spec => []OneOwner
<1>1. MigrationInv => OneOwner
  <2> SUFFICES ASSUME MigrationInv, NEW g \in Gid, NEW h \in Gid, g # h,
                      NEW x \in decided[g].Shards, x \in decided[h].Shards
               PROVE  FALSE
    BY Zenon DEF OneOwner
  <2>1. decided \in [Gid -> State] /\ HoldsOwn(decided) /\ HandedOver(decided)
    BY Zenon DEF MigrationInv, GroupsInv, ShardInv
  <2> QED BY <2>1, SoleHolder, Zenon
<1> QED BY <1>1, MigrationInvariant, PTL

\* A group that holds a shard always has every write to its keys: makeOutShards docks
\* the latest data, and no SHARDS command, late or decided again, overwrites any.
THEOREM HoldersAlwaysCurrent == ASSUME NeverEmptied PROVE Spec => []HolderCurrent
<1>1. MigrationInv => HolderCurrent
  BY Zenon DEF MigrationInv, GroupsInv, ShardInv, Current, HolderCurrent
<1> QED BY <1>1, MigrationInvariant, PTL

\* No write is ever executed twice, whichever groups its Clerk repeats it at: merge
\* brings the table of completed requests along with the shard.
THEOREM MovedWritesOnce == ASSUME NeverEmptied PROVE Spec => []ExactlyOnce
<1>1. MigrationInv => ExactlyOnce
  BY Zenon DEF MigrationInv, GroupsInv, Once, ExactlyOnce
<1> QED BY <1>1, MigrationInvariant, PTL
=============================================================================
