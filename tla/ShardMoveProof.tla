--------------------------- MODULE ShardMoveProof ---------------------------
(***************************************************************************)
(* Lemmas about ShardKV: what holds of the shards holds through the SHARDS *)
(* commands and the requests, and servers go on following their logs.      *)
(***************************************************************************)
EXTENDS ShardStateProof

\* A SHARDS command carries what group h has docked, or is the first one.
From(op, d, h) ==
    /\ op.ConfigNum - 1 \in Num
    /\ \A x \in op.out : Owner(op.ConfigNum - 1, x) = h /\ x \in d[h].OutShardsDock[op.ConfigNum].out
    /\ \A k \in Key : ShardOf[k] \in op.out => op.data[k] = d[h].OutShardsDock[op.ConfigNum].data[k]
    /\ op.ClientInfo = d[h].Config2ClientInfo[op.ConfigNum]
First(op) == op.data = NoData /\ \A x \in Shard : Owner(op.ConfigNum - 1, x) = 0
Provided(op, d) == First(op) \/ \E h \in Gid : From(op, d, h)

\* Group g applies such a command.
ShardsStep(d, e, g, op) ==
    /\ StepOf(d, e, g) /\ g \in Gid /\ op \in ShardsOp
    /\ AfterShards(e[g], g, d[g], op) /\ Provided(op, d)

LEMMA ShardsFacts ==
    ASSUME NEW d, NEW e, NEW g, NEW op, ShardsStep(d, e, g, op)
    PROVE  /\ e[g].CurConfig = d[g].CurConfig /\ \A m \in Num : SameDock(e[g], d[g], m)
           /\ e[g].Shards = d[g].Shards \cup Accepted(g, d[g], op)
           /\ \A k \in Key : e[g].ShardKVMap[k] = IF ShardOf[k] \in Accepted(g, d[g], op) /\ op.data[k] # <<>>
                                                  THEN op.data[k] ELSE d[g].ShardKVMap[k]
           /\ e[g].ClientInfo = merge(d[g].ClientInfo, op.ClientInfo)
<1>1. AfterShards(e[g], g, d[g], op)
  BY Zenon DEF ShardsStep
<1>2. SameConfig(e[g], d[g])
  BY <1>1, Zenon DEF AfterShards
<1>3. e[g].CurConfig = d[g].CurConfig /\ \A m \in Num : SameDock(e[g], d[g], m)
  BY <1>2, Zenon DEF SameConfig, SameDock
<1> QED BY <1>1, <1>3, Zenon DEF AfterShards

LEMMA NewShards ==
    ASSUME NEW d, NEW e, NEW g, NEW op, ShardsStep(d, e, g, op), NEW x \in Accepted(g, d[g], op)
    PROVE  LET n == op.ConfigNum IN
           /\ n \in Num /\ n = d[g].CurConfig /\ x \in Shard /\ x \in op.out /\ x \notin d[g].Shards
           /\ Owner(n, x) = g /\ g # 0 /\ ~Acquired(d, x, n)
<1>1. op.ConfigNum \in Num /\ op.out \subseteq Shard /\ g \in Gid /\ op.ConfigNum \in Nat
  BY OpFields, ConfigSizes, Zenon DEF ShardsStep
<1>2. /\ op.ConfigNum = d[g].CurConfig /\ x \in op.out /\ x \notin d[g].Shards
      /\ Owner(op.ConfigNum, x) = g
  BY Zenon DEF Accepted
<1>3. g # 0
  BY <1>1, Owners, Zenon
<1> QED BY <1>1, <1>2, <1>3 DEF Acquired

\* What is acquired by accepting.
LEMMA ShardsAcquires ==
    ASSUME NEW d, NEW e, NEW g, NEW op, ShardsStep(d, e, g, op),
           NEW x \in Shard, NEW m \in Num, Owner(m, x) # 0
    PROVE  Acquired(e, x, m) <=> Acquired(d, x, m) \/ (m = op.ConfigNum /\ x \in Accepted(g, d[g], op))
<1>1. e[g].CurConfig = d[g].CurConfig /\ e[g].Shards = d[g].Shards \cup Accepted(g, d[g], op)
  BY ShardsFacts
<1>2. Owner(m, x) \in Gid
  BY Owners, Zenon
<1>3. x \in Accepted(g, d[g], op) => op.ConfigNum = d[g].CurConfig /\ Owner(op.ConfigNum, x) = g
  BY NewShards
<1>4. CASE Owner(m, x) = g
  BY <1>1, <1>3, <1>4, Zenon DEF Acquired
<1>5. CASE Owner(m, x) # g
  BY <1>2, <1>3, <1>5, Zenon DEF Acquired, ShardsStep, StepOf
<1> QED BY <1>4, <1>5, Zenon

LEMMA ShardsHoldsOwn ==
    ASSUME NEW d, NEW e, NEW g, NEW op, ShardsStep(d, e, g, op), HoldsOwn(d)
    PROVE  HoldsOwn(e)
<1> SUFFICES ASSUME NEW h \in Gid
             PROVE  /\ \A x \in e[h].Shards : Owner(e[h].CurConfig, x) = h
                    /\ \A k \in Key : ShardOf[k] \notin e[h].Shards => e[h].ShardKVMap[k] = <<>>
  BY Zenon DEF HoldsOwn
<1>1. CASE h = g
  <2>1. e[g].CurConfig = d[g].CurConfig /\ e[g].Shards = d[g].Shards \cup Accepted(g, d[g], op)
    BY ShardsFacts
  <2>2. \A x \in Accepted(g, d[g], op) : Owner(d[g].CurConfig, x) = g
    BY Zenon DEF Accepted
  <2>3. \A x \in e[g].Shards : Owner(e[g].CurConfig, x) = g
    BY <1>1, <2>1, <2>2, Zenon DEF HoldsOwn
  <2>4. ASSUME NEW k \in Key, ShardOf[k] \notin e[g].Shards
        PROVE  e[g].ShardKVMap[k] = <<>>
    <3>1. ShardOf[k] \notin d[g].Shards /\ ShardOf[k] \notin Accepted(g, d[g], op)
      BY <2>1, <2>4, Zenon
    <3>2. e[g].ShardKVMap[k] = d[g].ShardKVMap[k]
      BY <3>1, ShardsFacts
    <3> QED BY <1>1, <3>1, <3>2, Zenon DEF HoldsOwn
  <2> QED BY <1>1, <2>3, <2>4, Zenon
<1>2. CASE h # g
  <2>1. e[h] = d[h]
    BY <1>2, Zenon DEF ShardsStep, StepOf
  <2> QED BY <2>1, Zenon DEF HoldsOwn
<1> QED BY <1>1, <1>2, Zenon

LEMMA ShardsHandsOver ==
    ASSUME NeverEmptied, NEW d, NEW e, NEW g, NEW op, ShardsStep(d, e, g, op), HandedOver(d), DocksOwn(d)
    PROVE  HandedOver(e)
<1> SUFFICES ASSUME NEW x \in Shard, NEW m \in Num, NEW j \in Num,
                    j < m, Owner(m, x) # 0, Owner(j, x) # 0, Acquired(e, x, m)
             PROVE  e[Owner(j, x)].CurConfig > j
  BY Zenon DEF HandedOver
<1>1. d \in [Gid -> State] /\ g \in Gid /\ \A h \in Gid : h # g => e[h] = d[h]
  BY Zenon DEF ShardsStep, StepOf
<1>2. Owner(j, x) \in Gid /\ j \in Nat /\ m \in Nat
  BY Owners, ConfigSizes, Zenon
<1>3. e[Owner(j, x)].CurConfig = d[Owner(j, x)].CurConfig
  BY <1>1, <1>2, ShardsFacts
<1>4. CASE Acquired(d, x, m)
  BY <1>3, <1>4, Zenon DEF HandedOver
<1>5. CASE m = op.ConfigNum /\ x \in Accepted(g, d[g], op) /\ First(op)
  <2>1. Owner(m - 1, x) = 0
    BY <1>5, Zenon DEF First
  <2>2. m - 1 \in Num /\ j <= m - 1
    BY <1>2, ConfigSizes DEF Num
  <2> QED BY <2>1, <2>2, StaysAssigned, Zenon
<1>6. CASE m = op.ConfigNum /\ x \in Accepted(g, d[g], op) /\ \E h \in Gid : From(op, d, h)
  <2> PICK h \in Gid : From(op, d, h)
    BY <1>6, Zenon
  <2>1. m - 1 \in Num /\ m - 1 \in Nat /\ Owner(m - 1, x) = h /\ x \in d[h].OutShardsDock[m].out
    BY <1>6, NewShards, ConfigSizes, Zenon DEF From
  <2>2. m <= d[h].CurConfig /\ d[h].CurConfig \in Nat
    BY <1>1, <2>1, StateFields, Zenon DEF DocksOwn
  <2>3. CASE j = m - 1
    BY <1>2, <1>3, <2>1, <2>2, <2>3
  <2>4. CASE j < m - 1
    <3>1. Acquired(d, x, m - 1) /\ Owner(m - 1, x) # 0
      BY <1>2, <2>1, <2>2, Owners DEF Acquired
    <3> QED BY <1>3, <2>1, <2>4, <3>1, Zenon DEF HandedOver
  <2> QED BY <1>2, <2>1, <2>3, <2>4
<1>7. Provided(op, d)
  BY Zenon DEF ShardsStep
<1> QED BY <1>4, <1>5, <1>6, <1>7, ShardsAcquires DEF Provided

LEMMA ShardsDockSame ==
    ASSUME NEW d, NEW e, NEW g, NEW op, ShardsStep(d, e, g, op), NEW h \in Gid, NEW m \in Num
    PROVE  e[h].CurConfig = d[h].CurConfig /\ SameDock(e[h], d[h], m)
<1>1. CASE h = g
  BY <1>1, ShardsFacts
<1>2. CASE h # g
  <2>1. e[h] = d[h]
    BY <1>2, Zenon DEF ShardsStep, StepOf
  <2> QED BY <2>1, Zenon DEF SameDock
<1> QED BY <1>1, <1>2, Zenon

LEMMA ShardsDocksOwn ==
    ASSUME NEW d, NEW e, NEW g, NEW op, ShardsStep(d, e, g, op), DocksOwn(d)
    PROVE  DocksOwn(e)
<1> SUFFICES ASSUME NEW h \in Gid, NEW m \in Num, NEW x \in e[h].OutShardsDock[m].out
             PROVE  m - 1 \in Num /\ m <= e[h].CurConfig /\ Owner(m - 1, x) = h
  BY Zenon DEF DocksOwn
<1>1. e[h].CurConfig = d[h].CurConfig /\ SameDock(e[h], d[h], m)
  BY ShardsDockSame, Zenon
<1> QED BY <1>1, Zenon DEF DocksOwn, SameDock

LEMMA ShardsMoves ==
    ASSUME NeverEmptied, NEW d, NEW e, NEW g, NEW op, ShardsStep(d, e, g, op), DocksOwn(d),
           NEW h \in Gid, NEW m \in Num, NEW x, Moving(e, h, m, x)
    PROVE  Moving(d, h, m, x) /\ SameDock(e[h], d[h], m)
<1>1. SameDock(e[h], d[h], m)
  BY ShardsDockSame, Zenon
<1>2. x \in d[h].OutShardsDock[m].out /\ ~Acquired(e, x, m)
  BY <1>1, Zenon DEF Moving, SameDock
<1>3. x \in Shard /\ Owner(m, x) # 0
  BY <1>2, DockedAssigned, Zenon DEF ShardsStep, StepOf
<1>4. ~Acquired(d, x, m)
  BY <1>2, <1>3, ShardsAcquires, Zenon
<1> QED BY <1>1, <1>2, <1>4, Zenon DEF Moving

\* A shard that is accepted was on its way from the group that provided it, or unused.
LEMMA NewFrom ==
    ASSUME NEW d, NEW e, NEW g, NEW op, ShardsStep(d, e, g, op), NEW x \in Accepted(g, d[g], op)
    PROVE  \/ First(op) /\ Unused(d, op.ConfigNum, x)
           \/ \E h \in Gid : From(op, d, h) /\ Moving(d, h, op.ConfigNum, x)
<1>1. /\ op.ConfigNum \in Num /\ x \in Shard /\ x \in op.out
      /\ Owner(op.ConfigNum, x) # 0 /\ ~Acquired(d, x, op.ConfigNum)
  BY NewShards
<1>2. Provided(op, d)
  BY Zenon DEF ShardsStep
<1>3. CASE First(op)
  BY <1>1, <1>3, Zenon DEF First, Unused
<1>4. ASSUME NEW h \in Gid, From(op, d, h)
      PROVE  Moving(d, h, op.ConfigNum, x)
  BY <1>1, <1>4, Zenon DEF From, Moving
<1> QED BY <1>2, <1>3, <1>4, Zenon DEF Provided

LEMMA ShardsCurrent ==
    ASSUME NeverEmptied, NEW d, NEW e, NEW g, NEW op, ShardsStep(d, e, g, op), HoldsOwn(d), DocksOwn(d),
           NEW V, Current(d, V)
    PROVE  Current(e, V)
<1>1. d \in [Gid -> State] /\ g \in Gid /\ \A i \in Gid : i # g => e[i] = d[i]
  BY Zenon DEF ShardsStep, StepOf
<1>2. ASSUME NEW h \in Gid, NEW k \in Key, ShardOf[k] \in e[h].Shards
      PROVE  e[h].ShardKVMap[k] = Last(V[k])
  <2>1. CASE h # g
    BY <1>1, <1>2, <2>1 DEF Current
  <2>2. CASE h = g /\ ShardOf[k] \notin Accepted(g, d[g], op)
    <3>1. ShardOf[k] \in d[g].Shards
      BY <1>2, <2>2, ShardsFacts
    <3>2. e[g].ShardKVMap[k] = d[g].ShardKVMap[k]
      BY <2>2, ShardsFacts
    <3> QED BY <1>1, <2>2, <3>1, <3>2, Zenon DEF Current
  <2>3. CASE h = g /\ ShardOf[k] \in Accepted(g, d[g], op)
    <3>1. ShardOf[k] \notin d[g].Shards /\ ShardOf[k] \in op.out
      BY <2>3, NewShards, Zenon
    <3>2. d[g].ShardKVMap[k] = <<>>
      BY <1>1, <3>1, Zenon DEF HoldsOwn
    <3>3. e[g].ShardKVMap[k] = op.data[k]
      BY <2>3, <3>2, ShardsFacts
    <3>4. CASE First(op) /\ Unused(d, op.ConfigNum, ShardOf[k])
      <4>1. op.data[k] = <<>>
        BY <3>4, Zenon DEF First, NoData
      <4>2. op.ConfigNum \in Num
        BY <2>3, NewShards, Zenon
      <4>3. V[k] = << <<>> >>
        BY <3>4, <4>2, Zenon DEF Current
      <4> QED BY <2>3, <3>3, <4>1, <4>3 DEF Last
    <3>5. ASSUME NEW i \in Gid, From(op, d, i), Moving(d, i, op.ConfigNum, ShardOf[k])
          PROVE  op.data[k] = Last(V[k])
      <4>1. op.ConfigNum \in Num
        BY <2>3, NewShards, Zenon
      <4>2. op.data[k] = d[i].OutShardsDock[op.ConfigNum].data[k]
        BY <3>1, <3>5, Zenon DEF From
      <4> QED BY <3>5, <4>1, <4>2, Zenon DEF Current
    <3> QED BY <2>3, <3>3, <3>4, <3>5, NewFrom, Zenon
  <2> QED BY <2>1, <2>2, <2>3, Zenon
<1>3. ASSUME NEW h \in Gid, NEW m \in Num, NEW k \in Key, Moving(e, h, m, ShardOf[k])
      PROVE  e[h].OutShardsDock[m].data[k] = Last(V[k])
  <2>1. Moving(d, h, m, ShardOf[k]) /\ SameDock(e[h], d[h], m)
    BY <1>3, ShardsMoves, Zenon
  <2> QED BY <2>1 DEF Current, SameDock
<1>4. ASSUME NEW m \in Num, NEW k \in Key, Unused(e, m, ShardOf[k])
      PROVE  V[k] = << <<>> >>
  <2>1. ShardOf[k] \in Shard
    BY KeyAssumption, Zenon
  <2>2. Unused(d, m, ShardOf[k])
    BY <1>4, <2>1, ShardsAcquires, Zenon DEF Unused
  <2> QED BY <2>2, Zenon DEF Current
<1> QED BY <1>2, <1>3, <1>4, Zenon DEF Current

\* merge forgets nothing of either table.
LEMMA MergeCovers ==
    ASSUME NEW mine \in Info, NEW info \in Info, NEW c \in Client, NEW no \in Nat,
           Covers(mine, c, no) \/ Covers(info, c, no)
    PROVE  Covers(merge(mine, info), c, no)
<1>1. mine[c].req \in Nat /\ info[c].req \in Nat
  BY Zenon DEF Info
<1>2. merge(mine, info)[c] = IF \/ info[c].req > mine[c].req
                                \/ info[c].req = mine[c].req /\ mine[c].err # "OK"
                             THEN info[c] ELSE mine[c]
  BY Zenon DEF merge
<1> QED BY <1>1, <1>2 DEF Covers

LEMMA MergeCovered ==
    ASSUME NEW mine \in Info, NEW info \in Info, NEW vs, NEW ck,
           \A n \in 2..Len(vs) : Last(vs[n]) \in Nat,
           Covered(mine, vs, ck) \/ Covered(info, vs, ck)
    PROVE  Covered(merge(mine, info), vs, ck)
<1> SUFFICES ASSUME NEW n \in 2..Len(vs), NEW c \in Client, ck[c].op.ReqNo = Last(vs[n])
             PROVE  Covers(merge(mine, info), c, Last(vs[n]))
  BY Zenon DEF Covered
<1>1. Last(vs[n]) \in Nat
  BY Zenon
<1>2. Covers(mine, c, Last(vs[n])) \/ Covers(info, c, Last(vs[n]))
  BY Zenon DEF Covered
<1> QED BY <1>1, <1>2, MergeCovers, Zenon

LEMMA ShardsRemembers ==
    ASSUME NeverEmptied, NEW d, NEW e, NEW g, NEW op, ShardsStep(d, e, g, op), DocksOwn(d),
           NEW V, NEW q \in Nat, Once(V, q), Current(d, V), NEW ck, Remembered(d, V, ck)
    PROVE  Remembered(e, V, ck)
<1>1. g \in Gid /\ \A i \in Gid : i # g => e[i] = d[i]
  BY Zenon DEF ShardsStep, StepOf
<1>2. ASSUME NEW h \in Gid, NEW k \in Key, ShardOf[k] \in e[h].Shards
      PROVE  Covered(e[h].ClientInfo, V[k], ck)
  <2>1. CASE h # g
    BY <1>1, <1>2, <2>1, Zenon DEF Remembered
  <2>2. CASE h = g
    <3>1. d[g].ClientInfo \in Info /\ op.ClientInfo \in Info
      BY StateFields, OpFields, Zenon DEF ShardsStep, StepOf
    <3>2. \A n \in 2..Len(V[k]) : Last(V[k][n]) \in Nat
      BY DEF Once
    <3>3. e[g].ClientInfo = merge(d[g].ClientInfo, op.ClientInfo)
      BY ShardsFacts
    <3>4. CASE ShardOf[k] \in d[g].Shards
      <4>1. Covered(d[g].ClientInfo, V[k], ck)
        BY <1>1, <3>4, Zenon DEF Remembered
      <4> QED BY <2>2, <3>1, <3>2, <3>3, <4>1, MergeCovered, Zenon
    <3>5. CASE ShardOf[k] \in Accepted(g, d[g], op)
      <4>1. op.ConfigNum \in Num
        BY <3>5, NewShards, Zenon
      <4>2. CASE Unused(d, op.ConfigNum, ShardOf[k])
        <5>1. V[k] = << <<>> >>
          BY <4>1, <4>2, Zenon DEF Current
        <5> QED BY <5>1 DEF Covered
      <4>3. ASSUME NEW i \in Gid, From(op, d, i), Moving(d, i, op.ConfigNum, ShardOf[k])
            PROVE  Covered(op.ClientInfo, V[k], ck)
        BY <4>1, <4>3, Zenon DEF From, Remembered
      <4>4. Covered(op.ClientInfo, V[k], ck) => Covered(e[h].ClientInfo, V[k], ck)
        BY <2>2, <3>1, <3>2, <3>3, MergeCovered, Zenon
      <4> QED BY <3>5, <4>2, <4>3, <4>4, NewFrom, Zenon
    <3> QED BY <1>2, <2>2, <3>4, <3>5, ShardsFacts
  <2> QED BY <2>1, <2>2, Zenon
<1>3. ASSUME NEW h \in Gid, NEW m \in Num, NEW k \in Key, Moving(e, h, m, ShardOf[k])
      PROVE  Covered(e[h].Config2ClientInfo[m], V[k], ck)
  <2>1. Moving(d, h, m, ShardOf[k]) /\ SameDock(e[h], d[h], m)
    BY <1>3, ShardsMoves, Zenon
  <2> QED BY <2>1, Zenon DEF Remembered, SameDock
<1> QED BY <1>2, <1>3, Zenon DEF Remembered

\* A step of group g that moves no shards, and after which its table tells what it told.
Grows(info, new) == \A c \in Client, no \in Nat : Covers(info, c, no) => Covers(new, c, no)
QuietStep(d, e, g) ==
    /\ StepOf(d, e, g) /\ g \in Gid /\ e[g].CurConfig = d[g].CurConfig /\ e[g].Shards = d[g].Shards
    /\ \A m \in Num : SameDock(e[g], d[g], m)
    /\ Grows(d[g].ClientInfo, e[g].ClientInfo)

LEMMA QuietSame ==
    ASSUME NEW d, NEW e, NEW g, QuietStep(d, e, g), NEW h \in Gid
    PROVE  /\ e[h].CurConfig = d[h].CurConfig /\ e[h].Shards = d[h].Shards
           /\ \A m \in Num : SameDock(e[h], d[h], m)
           /\ Grows(d[h].ClientInfo, e[h].ClientInfo)
<1>1. CASE h = g
  BY <1>1, Zenon DEF QuietStep
<1>2. CASE h # g
  <2>1. e[h] = d[h]
    BY <1>2, Zenon DEF QuietStep, StepOf
  <2> QED BY <2>1, Zenon DEF SameDock, Grows
<1> QED BY <1>1, <1>2, Zenon

LEMMA QuietAcquires ==
    ASSUME NEW d, NEW e, NEW g, QuietStep(d, e, g), NEW x \in Shard, NEW m \in Num, Owner(m, x) # 0
    PROVE  Acquired(e, x, m) <=> Acquired(d, x, m)
<1>1. Owner(m, x) \in Gid
  BY Owners, Zenon
<1> QED BY <1>1, QuietSame DEF Acquired

LEMMA QuietPlaces ==
    ASSUME NEW d, NEW e, NEW g, QuietStep(d, e, g), HandedOver(d), DocksOwn(d)
    PROVE  HandedOver(e) /\ DocksOwn(e)
<1>1. HandedOver(e)
  <2> SUFFICES ASSUME NEW x \in Shard, NEW m \in Num, NEW j \in Num,
                      j < m, Owner(m, x) # 0, Owner(j, x) # 0, Acquired(e, x, m)
               PROVE  e[Owner(j, x)].CurConfig > j
    BY Zenon DEF HandedOver
  <2>1. d[Owner(j, x)].CurConfig > j
    BY QuietAcquires, Zenon DEF HandedOver
  <2>2. Owner(j, x) \in Gid
    BY Owners, Zenon
  <2> QED BY <2>1, <2>2, QuietSame, Zenon
<1>2. DocksOwn(e)
  BY QuietSame DEF DocksOwn, SameDock
<1> QED BY <1>1, <1>2, Zenon

LEMMA QuietMoves ==
    ASSUME NeverEmptied, NEW d, NEW e, NEW g, QuietStep(d, e, g), DocksOwn(d),
           NEW h \in Gid, NEW m \in Num, NEW x, Moving(e, h, m, x)
    PROVE  Moving(d, h, m, x) /\ SameDock(e[h], d[h], m)
<1>1. SameDock(e[h], d[h], m)
  BY QuietSame, Zenon
<1>2. x \in d[h].OutShardsDock[m].out /\ ~Acquired(e, x, m)
  BY <1>1, Zenon DEF Moving, SameDock
<1>3. x \in Shard /\ Owner(m, x) # 0
  BY <1>2, DockedAssigned, Zenon DEF QuietStep, StepOf
<1>4. ~Acquired(d, x, m)
  BY <1>2, <1>3, QuietAcquires, Zenon
<1> QED BY <1>1, <1>2, <1>4, Zenon DEF Moving

LEMMA QuietUnused ==
    ASSUME NEW d, NEW e, NEW g, QuietStep(d, e, g), NEW m \in Num, NEW x \in Shard, Unused(e, m, x)
    PROVE  Unused(d, m, x)
BY QuietAcquires, Zenon DEF Unused

LEMMA GrowsCovered ==
    ASSUME NEW info, NEW new, Grows(info, new), NEW vs, NEW ck, Covered(info, vs, ck),
           \A n \in 2..Len(vs) : Last(vs[n]) \in Nat
    PROVE  Covered(new, vs, ck)
BY Zenon DEF Grows, Covered

\* All of it, as one predicate.
ShardInv(d, V, ck) ==
    /\ HoldsOwn(d) /\ HandedOver(d) /\ DocksOwn(d) /\ Current(d, V) /\ Remembered(d, V, ck)

\* A command that changes no data.
LEMMA IdleKeeps ==
    ASSUME NeverEmptied, NEW d, NEW e, NEW g, QuietStep(d, e, g),
           \A k \in Key : e[g].ShardKVMap[k] = d[g].ShardKVMap[k],
           NEW V, NEW q \in Nat, Once(V, q), NEW ck, ShardInv(d, V, ck)
    PROVE  ShardInv(e, V, ck)
<1>1. HoldsOwn(d) /\ HandedOver(d) /\ DocksOwn(d) /\ Current(d, V) /\ Remembered(d, V, ck)
  BY Zenon DEF ShardInv
<1>2. \A h \in Gid, k \in Key : e[h].ShardKVMap[k] = d[h].ShardKVMap[k]
  BY Zenon DEF QuietStep, StepOf
<1>3. HoldsOwn(e)
  BY <1>1, <1>2, QuietSame DEF HoldsOwn
<1>4. HandedOver(e) /\ DocksOwn(e)
  BY <1>1, QuietPlaces, Zenon
<1>5. Current(e, V)
  <2>1. \A h \in Gid, k \in Key : ShardOf[k] \in e[h].Shards => e[h].ShardKVMap[k] = Last(V[k])
    BY <1>1, <1>2, QuietSame DEF Current
  <2>2. ASSUME NEW h \in Gid, NEW m \in Num, NEW k \in Key, Moving(e, h, m, ShardOf[k])
        PROVE  e[h].OutShardsDock[m].data[k] = Last(V[k])
    <3>1. Moving(d, h, m, ShardOf[k]) /\ SameDock(e[h], d[h], m)
      BY <1>1, <2>2, QuietMoves, Zenon
    <3> QED BY <1>1, <3>1 DEF Current, SameDock
  <2>3. ASSUME NEW m \in Num, NEW k \in Key, Unused(e, m, ShardOf[k])
        PROVE  V[k] = << <<>> >>
    <3>1. Unused(d, m, ShardOf[k])
      BY <2>3, KeyAssumption, QuietUnused, Zenon
    <3> QED BY <1>1, <3>1, Zenon DEF Current
  <2> QED BY <2>1, <2>2, <2>3, Zenon DEF Current
<1>6. Remembered(e, V, ck)
  <2>1. ASSUME NEW h \in Gid, NEW k \in Key, ShardOf[k] \in e[h].Shards
        PROVE  Covered(e[h].ClientInfo, V[k], ck)
    <3>1. Covered(d[h].ClientInfo, V[k], ck)
      BY <1>1, <2>1, QuietSame DEF Remembered
    <3>2. Grows(d[h].ClientInfo, e[h].ClientInfo)
      BY QuietSame, Zenon
    <3>3. \A n \in 2..Len(V[k]) : Last(V[k][n]) \in Nat
      BY DEF Once
    <3> QED BY <3>1, <3>2, <3>3, GrowsCovered, Zenon
  <2>2. ASSUME NEW h \in Gid, NEW m \in Num, NEW k \in Key, Moving(e, h, m, ShardOf[k])
        PROVE  Covered(e[h].Config2ClientInfo[m], V[k], ck)
    <3>1. Moving(d, h, m, ShardOf[k]) /\ SameDock(e[h], d[h], m)
      BY <1>1, <2>2, QuietMoves
    <3> QED BY <1>1, <3>1, Zenon DEF Remembered, SameDock
  <2> QED BY <2>1, <2>2, Zenon DEF Remembered
<1> QED BY <1>3, <1>4, <1>5, <1>6, Zenon DEF ShardInv

\* Group g, which holds the key's shard, executes the Put or Append that a Clerk is at.
WriteStep(d, e, g, op, V, W, ck, q) ==
    /\ QuietStep(d, e, g) /\ op \in RequestOp /\ op.OpType # "GET" /\ ShardOf[op.Key] \in d[g].Shards
    /\ \A k \in Key : e[g].ShardKVMap[k] = IF k = op.Key THEN Written(d[g].ShardKVMap[k], op) ELSE d[g].ShardKVMap[k]
    /\ \A k \in Key : W[k] = IF k = op.Key THEN Append(V[k], Written(Last(V[k]), op)) ELSE V[k]
    /\ ~Covers(d[g].ClientInfo, op.ClientId, op.ReqNo) /\ Covers(e[g].ClientInfo, op.ClientId, op.ReqNo)
    /\ op.ReqNo \in 1..q /\ ck[op.ClientId].op = op
    /\ \A c \in Client : ck[c].op.ReqNo = op.ReqNo => c = op.ClientId

LEMMA NewVersion ==
    ASSUME NEW vs \in Seq(Seq(Nat)), Len(vs) >= 1, NEW op \in RequestOp, op.OpType # "GET",
           NEW ws, ws = Append(vs, Written(Last(vs), op))
    PROVE  /\ ws \in Seq(Seq(Nat)) /\ Len(ws) = Len(vs) + 1 /\ Len(vs) \in Nat
           /\ \A n \in 1..Len(vs) : ws[n] = vs[n]
           /\ Last(ws[Len(vs) + 1]) = op.ReqNo /\ Last(ws) = Written(Last(vs), op)
<1> DEFINE w == Written(Last(vs), op)
<1>1. Last(vs) \in Seq(Nat)
  BY DEF Last
<1>2. w \in Seq(Nat) /\ Last(w) = op.ReqNo
  BY <1>1, WrittenType, Zenon
<1> HIDE DEF w
<1>3. ws = Append(vs, w)
  BY Zenon DEF w
<1>4. /\ ws \in Seq(Seq(Nat)) /\ Len(ws) = Len(vs) + 1 /\ Len(vs) \in Nat
      /\ (\A n \in 1..Len(vs) : ws[n] = vs[n]) /\ ws[Len(vs) + 1] = w
  BY <1>2, <1>3
<1>5. Last(ws) = w
  BY <1>4, Zenon DEF Last
<1> QED BY <1>2, <1>4, <1>5, Zenon DEF w

LEMMA WriteOnce ==
    ASSUME NEW d, NEW e, NEW g, NEW op, NEW V, NEW W, NEW ck, NEW q \in Nat, WriteStep(d, e, g, op, V, W, ck, q),
           Once(V, q), Remembered(d, V, ck)
    PROVE  Once(W, q)
<1> SUFFICES ASSUME NEW k \in Key
             PROVE  /\ W[k] \in Seq(Seq(Nat)) /\ Len(W[k]) >= 1
                    /\ \A n \in 2..Len(W[k]) : Last(W[k][n]) \in 1..q
                    /\ \A m, n \in 2..Len(W[k]) : m # n => Last(W[k][m]) # Last(W[k][n])
  BY Zenon DEF Once
<1>1. /\ V[k] \in Seq(Seq(Nat)) /\ Len(V[k]) >= 1
      /\ \A n \in 2..Len(V[k]) : Last(V[k][n]) \in 1..q
      /\ \A m, n \in 2..Len(V[k]) : m # n => Last(V[k][m]) # Last(V[k][n])
  BY Zenon DEF Once
<1>2. CASE k # op.Key
  <2>1. W[k] = V[k]
    BY <1>2, Zenon DEF WriteStep
  <2> QED BY <1>1, <2>1, Zenon
<1>3. CASE k = op.Key
  <2> DEFINE L == Len(V[k])
  <2>1. op \in RequestOp /\ op.OpType # "GET" /\ W[k] = Append(V[k], Written(Last(V[k]), op)) /\ op.ReqNo \in 1..q
    BY <1>3, Zenon DEF WriteStep
  <2>2. /\ W[k] \in Seq(Seq(Nat)) /\ Len(W[k]) = L + 1 /\ L \in Nat
        /\ \A n \in 1..L : W[k][n] = V[k][n]
        /\ Last(W[k][L + 1]) = op.ReqNo
    <3> DEFINE vs == V[k]
               ws == W[k]
    <3>1. vs \in Seq(Seq(Nat)) /\ Len(vs) >= 1 /\ ws = Append(vs, Written(Last(vs), op))
      BY <1>1, <2>1, Zenon
    <3> HIDE DEF vs, ws
    <3>2. /\ ws \in Seq(Seq(Nat)) /\ Len(ws) = Len(vs) + 1 /\ Len(vs) \in Nat
          /\ \A n \in 1..Len(vs) : ws[n] = vs[n]
          /\ Last(ws[Len(vs) + 1]) = op.ReqNo
      BY <2>1, <3>1, NewVersion
    <3> QED BY <3>2, Zenon DEF vs, ws
  <2>3. \A n \in 2..L : Last(V[k][n]) # op.ReqNo
    <3>1. Covered(d[g].ClientInfo, V[k], ck)
      BY <1>3, Zenon DEF WriteStep, QuietStep, Remembered
    <3>2. op.ClientId \in Client /\ ck[op.ClientId].op = op /\ ~Covers(d[g].ClientInfo, op.ClientId, op.ReqNo)
      BY OpFields, Zenon DEF WriteStep
    <3> QED BY <3>1, <3>2, Zenon DEF Covered
  <2>4. \A n \in 2..Len(W[k]) : (n \in 2..L /\ W[k][n] = V[k][n]) \/ n = L + 1
    <3>1. \A n \in 2..Len(W[k]) : (n \in 2..L /\ n \in 1..L) \/ n = L + 1
      BY <2>2
    <3> QED BY <2>2, <3>1, Zenon
  <2> HIDE DEF L
  <2>5. \A n \in 2..Len(W[k]) : Last(W[k][n]) \in 1..q
    BY <1>1, <2>1, <2>2, <2>4, Zenon DEF L
  <2>6. ASSUME NEW m \in 2..Len(W[k]), NEW n \in 2..Len(W[k]), m # n
        PROVE  Last(W[k][m]) # Last(W[k][n])
    BY <1>1, <2>2, <2>3, <2>4, <2>6, Zenon DEF L
  <2> QED BY <2>2, <2>5, <2>6
<1> QED BY <1>2, <1>3, Zenon

LEMMA WriteKeeps ==
    ASSUME NeverEmptied, NEW d, NEW e, NEW g, NEW op, NEW V, NEW W, NEW ck, NEW q \in Nat,
           WriteStep(d, e, g, op, V, W, ck, q), Once(V, q), ShardInv(d, V, ck)
    PROVE  ShardInv(e, W, ck)
<1>1. HoldsOwn(d) /\ HandedOver(d) /\ DocksOwn(d) /\ Current(d, V) /\ Remembered(d, V, ck)
  BY Zenon DEF ShardInv
<1>2. QuietStep(d, e, g) /\ d \in [Gid -> State] /\ g \in Gid /\ \A h \in Gid : h # g => e[h] = d[h]
  BY Zenon DEF WriteStep, QuietStep, StepOf
<1>3. /\ op \in RequestOp /\ op.Key \in Key /\ op.OpType # "GET" /\ ShardOf[op.Key] \in d[g].Shards
      /\ \A k \in Key : k # op.Key => e[g].ShardKVMap[k] = d[g].ShardKVMap[k] /\ W[k] = V[k]
      /\ e[g].ShardKVMap[op.Key] = Written(d[g].ShardKVMap[op.Key], op)
      /\ W[op.Key] = Append(V[op.Key], Written(Last(V[op.Key]), op))
  BY OpFields, Zenon DEF WriteStep
<1>4. \A k \in Key : V[k] \in Seq(Seq(Nat)) /\ Len(V[k]) >= 1 /\ \A n \in 2..Len(V[k]) : Last(V[k][n]) \in Nat
  BY DEF Once
<1>v. /\ Len(W[op.Key]) = Len(V[op.Key]) + 1 /\ Len(V[op.Key]) \in Nat
      /\ \A n \in 1..Len(V[op.Key]) : W[op.Key][n] = V[op.Key][n]
      /\ Last(W[op.Key][Len(V[op.Key]) + 1]) = op.ReqNo
      /\ Last(W[op.Key]) = Written(Last(V[op.Key]), op)
  <2>1. V[op.Key] \in Seq(Seq(Nat)) /\ Len(V[op.Key]) >= 1
    BY <1>3, <1>4, Zenon
  <2> DEFINE vs == V[op.Key]
             ws == W[op.Key]
  <2>2. vs \in Seq(Seq(Nat)) /\ Len(vs) >= 1 /\ ws = Append(vs, Written(Last(vs), op))
    BY <1>3, <2>1, Zenon
  <2>o. op \in RequestOp /\ op.OpType # "GET"
    BY <1>3, Zenon
  <2> HIDE DEF vs, ws
  <2>3. /\ Len(ws) = Len(vs) + 1 /\ Len(vs) \in Nat /\ \A n \in 1..Len(vs) : ws[n] = vs[n]
        /\ Last(ws[Len(vs) + 1]) = op.ReqNo /\ Last(ws) = Written(Last(vs), op)
    BY <2>2, <2>o, NewVersion, Zenon
  <2> QED BY <2>3, Zenon DEF vs, ws
<1>5. HoldsOwn(e)
  <2> SUFFICES ASSUME NEW h \in Gid
               PROVE  /\ \A x \in e[h].Shards : Owner(e[h].CurConfig, x) = h
                      /\ \A k \in Key : ShardOf[k] \notin e[h].Shards => e[h].ShardKVMap[k] = <<>>
    BY Zenon DEF HoldsOwn
  <2>1. e[h].CurConfig = d[h].CurConfig /\ e[h].Shards = d[h].Shards
    BY <1>2, QuietSame
  <2>2. \A k \in Key : ShardOf[k] \notin d[h].Shards => e[h].ShardKVMap[k] = d[h].ShardKVMap[k]
    BY <1>2, <1>3, Zenon
  <2> QED BY <1>1, <2>1, <2>2, Zenon DEF HoldsOwn
<1>6. HandedOver(e) /\ DocksOwn(e)
  BY <1>1, <1>2, QuietPlaces, Zenon
<1>7. \A h \in Gid, m \in Num, k \in Key : Moving(e, h, m, ShardOf[k])
        => Moving(d, h, m, ShardOf[k]) /\ SameDock(e[h], d[h], m) /\ W[k] = V[k]
  <2> TAKE h \in Gid, m \in Num, k \in Key
  <2> HAVE Moving(e, h, m, ShardOf[k])
  <2>1. Moving(d, h, m, ShardOf[k]) /\ SameDock(e[h], d[h], m)
    BY <1>1, <1>2, QuietMoves, Zenon
  <2>2. ~Moving(d, h, m, ShardOf[op.Key])
    BY <1>1, <1>2, <1>3, HeldNotMoving, Zenon
  <2>3. k # op.Key
    BY <2>1, <2>2, Zenon
  <2> QED BY <1>3, <2>1, <2>3, Zenon
<1>8. \A m \in Num, k \in Key : Unused(e, m, ShardOf[k]) => Unused(d, m, ShardOf[k]) /\ W[k] = V[k]
  <2> TAKE m \in Num, k \in Key
  <2> HAVE Unused(e, m, ShardOf[k])
  <2>1. Unused(d, m, ShardOf[k])
    BY <1>2, KeyAssumption, QuietUnused, Zenon
  <2>2. ~Unused(d, m, ShardOf[op.Key])
    BY <1>1, <1>2, <1>3, HeldNotUnused, Zenon
  <2>3. k # op.Key
    BY <2>1, <2>2, Zenon
  <2> QED BY <1>3, <2>1, <2>3, Zenon
<1>9. Current(e, W)
  <2>1. ASSUME NEW h \in Gid, NEW k \in Key, ShardOf[k] \in e[h].Shards
        PROVE  e[h].ShardKVMap[k] = Last(W[k])
    <3>1. ShardOf[k] \in d[h].Shards
      BY <1>2, <2>1, QuietSame
    <3>2. d[h].ShardKVMap[k] = Last(V[k])
      BY <1>1, <3>1, Zenon DEF Current
    <3>3. CASE k = op.Key
      <4>1. h = g
        BY <1>1, <1>2, <1>3, <3>1, <3>3, SoleHolder, Zenon
      <4>2. Last(W[k]) = Written(Last(V[k]), op)
        BY <1>v, <3>3, Zenon
      <4> QED BY <1>3, <3>2, <3>3, <4>1, <4>2, Zenon
    <3>4. CASE k # op.Key
      BY <1>2, <1>3, <3>2, <3>4, Zenon
    <3> QED BY <3>3, <3>4, Zenon
  <2>2. \A h \in Gid, m \in Num, k \in Key :
            Moving(e, h, m, ShardOf[k]) => e[h].OutShardsDock[m].data[k] = Last(W[k])
    BY <1>1, <1>7 DEF Current, SameDock
  <2>3. \A m \in Num, k \in Key : Unused(e, m, ShardOf[k]) => W[k] = << <<>> >>
    BY <1>1, <1>8, Zenon DEF Current
  <2> QED BY <2>1, <2>2, <2>3, Zenon DEF Current
<1>10. Remembered(e, W, ck)
  <2>1. ASSUME NEW h \in Gid, NEW k \in Key, ShardOf[k] \in e[h].Shards
        PROVE  Covered(e[h].ClientInfo, W[k], ck)
    <3>1. ShardOf[k] \in d[h].Shards /\ Grows(d[h].ClientInfo, e[h].ClientInfo)
      BY <1>2, <2>1, QuietSame
    <3>2. Covered(d[h].ClientInfo, V[k], ck)
      BY <1>1, <3>1, Zenon DEF Remembered
    <3>3. Covered(e[h].ClientInfo, V[k], ck)
      BY <1>4, <3>1, <3>2, GrowsCovered, Zenon
    <3>4. CASE k = op.Key
      <4>1. h = g
        BY <1>1, <1>2, <1>3, <3>1, <3>4, SoleHolder, Zenon
      <4>2. /\ Len(W[k]) = Len(V[k]) + 1 /\ Len(V[k]) \in Nat
            /\ \A n \in 1..Len(V[k]) : W[k][n] = V[k][n]
            /\ Last(W[k][Len(V[k]) + 1]) = op.ReqNo
        BY <1>v, <3>4, Zenon
      <4>3. /\ Covers(e[g].ClientInfo, op.ClientId, op.ReqNo)
            /\ \A c \in Client : ck[c].op.ReqNo = op.ReqNo => c = op.ClientId
        BY Zenon DEF WriteStep
      <4>4. ASSUME NEW n \in 2..Len(W[k]), NEW c \in Client, ck[c].op.ReqNo = Last(W[k][n])
            PROVE  Covers(e[h].ClientInfo, c, Last(W[k][n]))
        <5>1. CASE n \in 2..Len(V[k])
          <6>1. W[k][n] = V[k][n]
            BY <4>2, <5>1
          <6> QED BY <3>3, <4>4, <5>1, <6>1, Zenon DEF Covered
        <5>2. CASE n = Len(V[k]) + 1
          BY <4>1, <4>2, <4>3, <4>4, <5>2, Zenon
        <5> QED BY <4>2, <5>1, <5>2
      <4> QED BY <4>4, Zenon DEF Covered
    <3>5. CASE k # op.Key
      BY <1>3, <3>3, <3>5, Zenon
    <3> QED BY <3>4, <3>5, Zenon
  <2>2. \A h \in Gid, m \in Num, k \in Key :
            Moving(e, h, m, ShardOf[k]) => Covered(e[h].Config2ClientInfo[m], W[k], ck)
    BY <1>1, <1>7, SMTT(60) DEF Remembered, SameDock
  <2> QED BY <2>1, <2>2, Zenon DEF Remembered
<1> QED BY <1>5, <1>6, <1>9, <1>10, Zenon DEF ShardInv

LEMMA ShardsKeeps ==
    ASSUME NeverEmptied, NEW d, NEW e, NEW g, NEW op, ShardsStep(d, e, g, op),
           NEW V, NEW q \in Nat, Once(V, q), NEW ck, ShardInv(d, V, ck)
    PROVE  ShardInv(e, V, ck)
<1>1. HoldsOwn(d) /\ HandedOver(d) /\ DocksOwn(d) /\ Current(d, V) /\ Remembered(d, V, ck)
  BY Zenon DEF ShardInv
<1>2. HoldsOwn(e)
  BY <1>1, ShardsHoldsOwn, Zenon
<1>3. HandedOver(e)
  BY <1>1, ShardsHandsOver, Zenon
<1>4. DocksOwn(e)
  BY <1>1, ShardsDocksOwn, Zenon
<1>5. Current(e, V)
  BY <1>1, ShardsCurrent, Zenon
<1>6. Remembered(e, V, ck)
  BY <1>1, ShardsRemembers, Zenon
<1> QED BY <1>2, <1>3, <1>4, <1>5, <1>6, Zenon DEF ShardInv

LEMMA ConfigKeeps ==
    ASSUME NeverEmptied, NEW d, NEW e, NEW g, NEW n, ConfigStep(d, e, g, n),
           NEW V, NEW ck, ShardInv(d, V, ck)
    PROVE  ShardInv(e, V, ck)
<1>1. HoldsOwn(d) /\ HandedOver(d) /\ DocksOwn(d) /\ Current(d, V) /\ Remembered(d, V, ck)
  BY Zenon DEF ShardInv
<1>2. HoldsOwn(e)
  BY <1>1, ConfigHoldsOwn, Zenon
<1>3. HandedOver(e)
  BY <1>1, ConfigHandsOver, Zenon
<1>4. DocksOwn(e)
  BY <1>1, ConfigDocksOwn, Zenon
<1>5. Current(e, V)
  BY <1>1, ConfigCurrent, Zenon
<1>6. Remembered(e, V, ck)
  BY <1>1, ConfigRemembers, Zenon
<1> QED BY <1>2, <1>3, <1>4, <1>5, <1>6, Zenon DEF ShardInv

\* A request that is entered in the table, whatever its outcome, hides no other.
LEMMA TableGrows ==
    ASSUME NEW v \in State, NEW op \in RequestOp, ~Completed(v, op.ClientId, op.ReqNo), NEW err,
           NEW new, new = [v.ClientInfo EXCEPT ![op.ClientId] = [req |-> op.ReqNo, err |-> err]]
    PROVE  /\ Grows(v.ClientInfo, new)
           /\ ~Covers(v.ClientInfo, op.ClientId, op.ReqNo)
           /\ err = "OK" => Covers(new, op.ClientId, op.ReqNo)
<1> DEFINE info == v.ClientInfo
           b == op.ClientId
<1>1. info \in Info /\ b \in Client /\ op.ReqNo \in Nat
  BY StateFields, OpFields, Zenon
<1>2. ~Covers(info, b, op.ReqNo)
  BY Zenon DEF Completed, Covers
<1> HIDE DEF info, b
<1>3. new = [info EXCEPT ![b] = [req |-> op.ReqNo, err |-> err]]
  BY Zenon DEF info, b
<1>4. new[b].req = op.ReqNo /\ new[b].err = err /\ \A c \in Client : c # b => new[c] = info[c]
  BY <1>1, <1>3 DEF Info
<1>5. \A c \in Client : info[c].req \in Nat
  BY <1>1, Zenon DEF Info
<1>6. Grows(info, new)
  <2> SUFFICES ASSUME NEW c \in Client, NEW no \in Nat, Covers(info, c, no) PROVE Covers(new, c, no)
    BY Zenon DEF Grows
  <2>1. CASE c = b
    BY <1>1, <1>2, <1>4, <1>5, <2>1 DEF Covers
  <2>2. CASE c # b
    BY <1>4, <2>2, Zenon DEF Covers
  <2> QED BY <2>1, <2>2, Zenon
<1>7. err = "OK" => Covers(new, b, op.ReqNo)
  BY <1>4, Zenon DEF Covers
<1> QED BY <1>2, <1>6, <1>7, Zenon DEF info, b

\* A command may be decided: the CONFIG command is of the next configuration at most, a
\* SHARDS command carries what is docked, a request is the one its Clerk is at.
Sound(op, g, d, ck, q) ==
    /\ op \in Command
    /\ op \in ConfigOp => op.ConfigNum <= d[g].CurConfig + 1
    /\ op \in ShardsOp => Provided(op, d)
    /\ op \in RequestOp => /\ ck[op.ClientId].op = op /\ op.ReqNo \in 1..q
                           /\ \A c \in Client : ck[c].op.ReqNo = op.ReqNo => c = op.ClientId

\* What Decide does to the versions.
Wrote(W, V, g, v, op) ==
    W = IF Executes(g, v, op) /\ op.OpType # "GET"
        THEN [V EXCEPT ![op.Key] = Append(@, Written(Last(@), op))] ELSE V

LEMMA RequestKeeps ==
    ASSUME NeverEmptied, NEW d, NEW e, NEW g \in Gid, NEW op \in RequestOp, StepOf(d, e, g),
           NEW ck, NEW q \in Nat, Sound(op, g, d, ck, q),
           ~Completed(d[g], op.ClientId, op.ReqNo), AfterRequest(e[g], g, d[g], op),
           NEW V \in [Key -> Seq(Seq(Nat))], NEW W, Wrote(W, V, g, d[g], op),
           Once(V, q), ShardInv(d, V, ck)
    PROVE  ShardInv(e, W, ck) /\ Once(W, q)
<1> DEFINE err == Err(g, d[g], op)
<1>1. d[g] \in State /\ d[g].ShardKVMap \in Data
  BY StateFields, Zenon DEF StepOf
<1>2. /\ op.OpType \in {"GET", "PUT", "APPEND"} /\ op.Key \in Key /\ op.ReqNo \in Nat
  BY OpFields, Zenon
<1>3. /\ SameConfig(e[g], d[g]) /\ e[g].Shards = d[g].Shards
      /\ e[g].ClientInfo = [d[g].ClientInfo EXCEPT ![op.ClientId] = [req |-> op.ReqNo, err |-> err]]
      /\ e[g].ShardKVMap = [d[g].ShardKVMap EXCEPT ![op.Key] = IF err = "OK" THEN Written(@, op) ELSE @]
  BY Zenon DEF AfterRequest
<1>4. err = "OK" => ShardOf[op.Key] \in d[g].Shards
  BY ErrIs, Zenon
<1>5. Executes(g, d[g], op) <=> err = "OK"
  BY <1>2, Zenon DEF Executes
<1> HIDE DEF err
<1>6. /\ Grows(d[g].ClientInfo, e[g].ClientInfo)
      /\ ~Covers(d[g].ClientInfo, op.ClientId, op.ReqNo)
      /\ err = "OK" => Covers(e[g].ClientInfo, op.ClientId, op.ReqNo)
  BY <1>1, <1>3, TableGrows, Zenon
<1>7. QuietStep(d, e, g)
  <2>1. e[g].CurConfig = d[g].CurConfig /\ \A m \in Num : SameDock(e[g], d[g], m)
    BY <1>3, Zenon DEF SameConfig, SameDock
  <2> QED BY <1>3, <1>6, <2>1, Zenon DEF QuietStep
<1>8. \A k \in Key : e[g].ShardKVMap[k] = IF k = op.Key /\ err = "OK" THEN Written(d[g].ShardKVMap[k], op)
                                          ELSE d[g].ShardKVMap[k]
  BY <1>1, <1>3, Zenon DEF Data
<1>9. CASE err = "OK" /\ op.OpType # "GET"
  <2>1. \A k \in Key : W[k] = IF k = op.Key THEN Append(V[k], Written(Last(V[k]), op)) ELSE V[k]
    BY <1>2, <1>5, <1>9, Zenon DEF Wrote
  <2>2. WriteStep(d, e, g, op, V, W, ck, q)
    BY <1>4, <1>6, <1>7, <1>8, <1>9, <2>1, Zenon DEF WriteStep, Sound
  <2>3. Remembered(d, V, ck)
    BY Zenon DEF ShardInv
  <2>4. Once(W, q)
    BY <2>2, <2>3, WriteOnce, Zenon
  <2>5. ShardInv(e, W, ck)
    BY <2>2, WriteKeeps, Zenon
  <2> QED BY <2>4, <2>5, Zenon
<1>10. CASE err # "OK" \/ op.OpType = "GET"
  <2>1. W = V
    BY <1>5, <1>10, Zenon DEF Wrote
  <2>2. \A k \in Key : e[g].ShardKVMap[k] = d[g].ShardKVMap[k]
    <3>1. \A k \in Key : d[g].ShardKVMap[k] \in Seq(Nat)
      BY <1>1, Zenon DEF Data
    <3>2. op.OpType = "GET" => \A k \in Key : Written(d[g].ShardKVMap[k], op) = d[g].ShardKVMap[k]
      BY <3>1, WrittenType, Zenon
    <3> QED BY <1>8, <1>10, <3>2, Zenon
  <2>3. ShardInv(e, V, ck)
    BY <1>7, <2>2, IdleKeeps, Zenon
  <2> QED BY <2>1, <2>3, Zenon
<1> QED BY <1>9, <1>10, Zenon

LEMMA StandsStill ==
    ASSUME NEW d, NEW e, NEW g \in Gid, StepOf(d, e, g), SameConfig(e[g], d[g]), SameData(e[g], d[g])
    PROVE  QuietStep(d, e, g) /\ \A k \in Key : e[g].ShardKVMap[k] = d[g].ShardKVMap[k]
<1>1. /\ e[g].CurConfig = d[g].CurConfig /\ e[g].Shards = d[g].Shards /\ e[g].ClientInfo = d[g].ClientInfo
      /\ e[g].ShardKVMap = d[g].ShardKVMap
  BY Zenon DEF SameConfig, SameData
<1>2. \A m \in Num : SameDock(e[g], d[g], m)
  BY Zenon DEF SameConfig, SameDock
<1>3. Grows(d[g].ClientInfo, e[g].ClientInfo)
  BY <1>1, Zenon DEF Grows
<1> QED BY <1>1, <1>2, <1>3, Zenon DEF QuietStep

\* A sound command, decided, keeps every shard in one place with its data and its table.
LEMMA DecideShards ==
    ASSUME NeverEmptied, NEW d \in [Gid -> State], NEW e, NEW g \in Gid, NEW op, NEW ck, NEW q \in Nat,
           StepOf(d, e, g), e[g] = Applied(g, d[g], op), Sound(op, g, d, ck, q),
           NEW V \in [Key -> Seq(Seq(Nat))], NEW W, Wrote(W, V, g, d[g], op),
           Once(V, q), ShardInv(d, V, ck)
    PROVE  ShardInv(e, W, ck) /\ Once(W, q)
<1>1. op \in Command
  BY Zenon DEF Sound
<1>2. d[g] \in State /\ Applied(g, d[g], op) \in State
  BY <1>1, AppliedType, Zenon
<1>4. CASE op \in ConfigOp /\ Updates(g, d[g], op.ConfigNum)
  <2>1. AfterConfig(e[g], g, d[g], op.ConfigNum)
    BY <1>2, <1>4, AppliedConfig
  <2>2. op.OpType = "CONFIG" /\ op.ConfigNum \in Num /\ op.ConfigNum \in Nat /\ d[g].CurConfig \in Nat
    BY <1>2, <1>4, OpFields, ConfigSizes, StateFields, Zenon
  <2>3. op.ConfigNum = d[g].CurConfig + 1 /\ isMigrateFinished(g, d[g])
    BY <1>4, <2>2 DEF Sound, Updates
  <2>4. ConfigStep(d, e, g, op.ConfigNum)
    BY <2>1, <2>2, <2>3, Zenon DEF ConfigStep
  <2>5. W = V
    BY <2>2, Zenon DEF Executes, Wrote
  <2> QED BY <2>4, <2>5, ConfigKeeps, Zenon
<1>5. CASE op \in ShardsOp
  <2>1. AfterShards(e[g], g, d[g], op)
    BY <1>2, <1>5, AppliedShards, Zenon
  <2>2. ShardsStep(d, e, g, op)
    BY <1>5, <2>1, Zenon DEF ShardsStep, Sound
  <2>3. W = V
    BY <1>5, OpFields, Zenon DEF Executes, Wrote
  <2> QED BY <2>2, <2>3, ShardsKeeps, Zenon
<1>6. CASE op \in RequestOp /\ ~Completed(d[g], op.ClientId, op.ReqNo)
  <2>1. AfterRequest(e[g], g, d[g], op)
    BY <1>2, <1>6, AppliedRequest, Zenon
  <2> QED BY <1>6, <2>1, RequestKeeps, Zenon
<1>7. CASE \/ op \in ConfigOp /\ ~Updates(g, d[g], op.ConfigNum)
           \/ op \in RequestOp /\ Completed(d[g], op.ClientId, op.ReqNo)
  <2>1. SameConfig(e[g], d[g]) /\ SameData(e[g], d[g])
    BY <1>1, <1>2, <1>7, AppliedNot
  <2>2. QuietStep(d, e, g) /\ \A k \in Key : e[g].ShardKVMap[k] = d[g].ShardKVMap[k]
    BY <2>1, StandsStill
  <2>3. W = V
    BY <1>7, OpFields, Zenon DEF Executes, Wrote
  <2>4. ShardInv(e, V, ck)
    BY <2>2, IdleKeeps, Zenon
  <2> QED BY <2>3, <2>4, Zenon
<1> QED BY <1>1, <1>4, <1>5, <1>6, <1>7, Zenon DEF Command

-----------------------------------------------------------------------------
(***************************************************************************)
(* The states of servers: sk those of the servers, sv those of their       *)
(* snapshots, l the logs.                                                  *)
(***************************************************************************)
Views(g, St, l, sk, sv) == \A s \in Server : s[1] = g => View(sk[s], St, l) /\ View(sv[s], St, l)
Histories(l, d, sk, sv) == \A g \in Gid : \E St : Replay(g, St, l[g], d[g]) /\ Views(g, St, l[g], sk, sv)

LEMMA ServerGroup == \A s \in Server : s[1] \in Gid
BY DEF Server

LEMMA HistoryBehind ==
    ASSUME NEW l, NEW d \in [Gid -> State], NEW sk, NEW sv, Histories(l, d, sk, sv), NEW s \in Server
    PROVE  Behind(sk[s], d[s[1]])
<1>1. s[1] \in Gid /\ d[s[1]] \in State
  BY ServerGroup, Zenon
<1> PICK St : Replay(s[1], St, l[s[1]], d[s[1]]) /\ Views(s[1], St, l[s[1]], sk, sv)
  BY <1>1, Zenon DEF Histories
<1>2. View(sk[s], St, l[s[1]])
  BY Zenon DEF Views
<1> QED BY <1>1, <1>2, ViewBehind, Zenon

LEMMA GroupDecide ==
    ASSUME NEW g, NEW l \in Seq(Command), NEW d \in State, NEW St, NEW sk, NEW sv,
           Replay(g, St, l, d), Views(g, St, l, sk, sv),
           NEW op \in Command, op \in ConfigOp => op.ConfigNum <= d.CurConfig + 1
    PROVE  \E Tt : Replay(g, Tt, Append(l, op), Applied(g, d, op)) /\ Views(g, Tt, Append(l, op), sk, sv)
<1>0. Continues(g, St, l, d, op)
  BY ReplayDecide, Zenon
<1> PICK Tt : Replay(g, Tt, Append(l, op), Applied(g, d, op)) /\ \A i \in 0..Len(l) : Tt[i] = St[i]
  BY <1>0, Zenon DEF Continues
<1>1. Len(l) \in Nat /\ Len(Append(l, op)) = Len(l) + 1
  OBVIOUS
<1>2. ASSUME NEW w, View(w, St, l) PROVE View(w, Tt, Append(l, op))
  <2>1. w \in State /\ w.CommitedId \in 0..Len(l) /\ Follows(w, St[w.CommitedId])
    BY <1>2, Zenon DEF View
  <2>2. Tt[w.CommitedId] = St[w.CommitedId] /\ w.CommitedId \in 0..Len(Append(l, op))
    BY <1>1, <2>1
  <2> QED BY <2>1, <2>2, Zenon DEF View
<1>3. Views(g, Tt, Append(l, op), sk, sv)
  BY <1>2, Zenon DEF Views
<1> QED BY <1>3, Zenon

LEMMA HistoryDecide ==
    ASSUME NEW l \in [Gid -> Seq(Command)], NEW d \in [Gid -> State], NEW sk, NEW sv, Histories(l, d, sk, sv),
           NEW g \in Gid, NEW op \in Command, op \in ConfigOp => op.ConfigNum <= d[g].CurConfig + 1,
           NEW l1, l1 = [l EXCEPT ![g] = Append(@, op)], NEW d1, d1 = [d EXCEPT ![g] = Applied(g, @, op)]
    PROVE  Histories(l1, d1, sk, sv)
<1> DEFINE k == l[g]
           v == d[g]
<1>1. /\ k \in Seq(Command) /\ v \in State /\ l1[g] = Append(k, op) /\ d1[g] = Applied(g, v, op)
      /\ op \in ConfigOp => op.ConfigNum <= v.CurConfig + 1
  BY AppliedType, Zenon
<1> PICK St : Replay(g, St, k, v) /\ Views(g, St, k, sk, sv)
  BY Zenon DEF Histories
<1> HIDE DEF k, v
<1>2. \E Tt : Replay(g, Tt, Append(k, op), Applied(g, v, op)) /\ Views(g, Tt, Append(k, op), sk, sv)
  BY <1>1, GroupDecide, Zenon
<1>3. \A h \in Gid : h # g => l1[h] = l[h] /\ d1[h] = d[h]
  BY Zenon
<1>4. ASSUME NEW h \in Gid
      PROVE  \E Tt : Replay(h, Tt, l1[h], d1[h]) /\ Views(h, Tt, l1[h], sk, sv)
  <2>1. CASE h = g
    BY <1>1, <1>2, <2>1, Zenon
  <2>2. CASE h # g
    BY <1>3, <2>2, Zenon DEF Histories
  <2> QED BY <2>1, <2>2, Zenon
<1> QED BY <1>4, Zenon DEF Histories

\* A server's state is replaced by one that its group's log explains.
LEMMA HistoryKeeps ==
    ASSUME NEW l, NEW d, NEW sk, NEW sv, NEW sk1, NEW sv1, Histories(l, d, sk, sv),
           ASSUME NEW g \in Gid, NEW St, Replay(g, St, l[g], d[g]), Views(g, St, l[g], sk, sv)
           PROVE  Views(g, St, l[g], sk1, sv1)
    PROVE  Histories(l, d, sk1, sv1)
BY Zenon DEF Histories
=============================================================================
