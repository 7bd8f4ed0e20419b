---------------------------- MODULE KVRaftProof ----------------------------
(***************************************************************************)
(* Proofs about KVRaft, for any number of servers, Clerks, keys, requests  *)
(* and faults: the variables keep their types, every server's map holds    *)
(* each decided write exactly once, and completed requests are             *)
(* linearizable.                                                           *)
(*                                                                         *)
(* What depends on the decided log alone is stated for any sequence l of   *)
(* operations, so that what does not touch the log keeps it for nothing.   *)
(***************************************************************************)
EXTENDS KVRaft, TLAPS, FiniteSetTheorems

\* The fields of an operation.
LEMMA OpFields ==
    ASSUME NEW o \in Op
    PROVE  /\ o.client \in Client /\ o.key \in Key /\ o.kind \in {"Get", "Put", "Append"}
           /\ o.no \in Nat /\ o.no >= 1 /\ o.no <= MaxReq /\ o # Idle
<1>1. o.kind \in Kinds /\ o.no \in 1..MaxReq /\ o.client \in Client /\ o.key \in Key
  BY Zenon DEF Op
<1>2. Idle.kind = "none"
  BY Zenon DEF Idle
<1>3. o.kind \in {"Get", "Put", "Append"} /\ MaxReq \in Nat
  BY <1>1, BoundAssumption, Zenon
<1> QED BY <1>1, <1>2, <1>3

-----------------------------------------------------------------------------
(***************************************************************************)
(* Writes and values.                                                      *)
(***************************************************************************)

\* l[m] writes key k and was not decided before.
Writes(l, k, m) == /\ l[m].key = k /\ l[m].kind # "Get"
                   /\ \A i \in 1..(m - 1) : l[i] # l[m]

\* FirstWrites, of the log l.
WritesIn(l, k, n) == {m \in 1..n : /\ Writes(l, k, m)
                                   /\ \A p \in 1..n : Writes(l, k, p) /\ l[p].kind = "Put" => p <= m}

\* Value v is made of the writes in ws, once each and in the order of the log.
MadeOf(l, v, ws) ==
    /\ Len(v) = Cardinality(ws)
    /\ \A m \in ws : v[Cardinality({i \in ws : i <= m})] = <<l[m].client, l[m].no>>

Map == [Key -> Seq(Client \X Nat)]

\* The map holds what the first n entries of l write.
Written(l, map, n) == \A k \in Key : MadeOf(l, map[k], WritesIn(l, k, n))

\* The writes are among the first n entries: finitely many.
LEMMA WritesFinite ==
    ASSUME NEW l, NEW k, NEW n \in Nat
    PROVE  WritesIn(l, k, n) \subseteq 1..n /\ IsFiniteSet(WritesIn(l, k, n))
<1>1. WritesIn(l, k, n) \subseteq 1..n
  BY Zenon DEF WritesIn
<1> QED BY <1>1, FS_Interval, FS_Subset

\* WritesIn says what FirstWrites says.
LEMMA FirstWritesIs ==
    ASSUME NEW k, NEW n \in Nat
    PROVE  FirstWrites(k, n) = WritesIn(log, k, n)
BY Zenon DEF FirstWrites, WritesIn, Writes

\* A longer log has the same writes among its first n entries.
LEMMA WritesStay ==
    ASSUME NEW l \in Seq(Op), NEW o \in Op, NEW k, NEW n \in 0..Len(l)
    PROVE  WritesIn(Append(l, o), k, n) = WritesIn(l, k, n)
<1>1. \A m \in 1..n : Append(l, o)[m] = l[m]
  OBVIOUS
<1>2. \A m \in 1..n : Writes(Append(l, o), k, m) <=> Writes(l, k, m)
  BY <1>1 DEF Writes
<1> QED BY <1>1, <1>2, Zenon DEF WritesIn

\* The entry after the first n: no write.
LEMMA WritesSkip ==
    ASSUME NEW l, NEW k, NEW n \in Nat, ~Writes(l, k, n + 1)
    PROVE  WritesIn(l, k, n + 1) = WritesIn(l, k, n)
<1>1. 1..(n + 1) = (1..n) \cup {n + 1}
  OBVIOUS
<1> QED BY <1>1, Zenon DEF WritesIn

\* The entry after the first n: an append.
LEMMA WritesAppend ==
    ASSUME NEW l, NEW k, NEW n \in Nat, Writes(l, k, n + 1), l[n + 1].kind # "Put"
    PROVE  WritesIn(l, k, n + 1) = WritesIn(l, k, n) \cup {n + 1}
<1>1. 1..(n + 1) = (1..n) \cup {n + 1} /\ \A m \in 1..n : m <= n + 1
  OBVIOUS
<1> QED BY <1>1, Zenon DEF WritesIn

\* The entry after the first n: a put.
LEMMA WritesPut ==
    ASSUME NEW l, NEW k, NEW n \in Nat, Writes(l, k, n + 1), l[n + 1].kind = "Put"
    PROVE  WritesIn(l, k, n + 1) = {n + 1}
<1>1. 1..(n + 1) = (1..n) \cup {n + 1} /\ \A m \in 1..n : m <= n + 1 /\ ~(n + 1 <= m)
  OBVIOUS
<1> QED BY <1>1 DEF WritesIn

\* A longer log changes nothing of what a value is made of.
LEMMA MadeOfStays ==
    ASSUME NEW l \in Seq(Op), NEW o \in Op, NEW ws \in SUBSET (1..Len(l)), NEW v, MadeOf(l, v, ws)
    PROVE  MadeOf(Append(l, o), v, ws)
<1>1. \A m \in ws : Append(l, o)[m] = l[m]
  OBVIOUS
<1> QED BY <1>1, Zenon DEF MadeOf

\* The position after the last one is beyond any chosen before.
LEMMA PastEnd ==
    ASSUME NEW n \in Nat, NEW ws \in SUBSET (1..n)
    PROVE  n + 1 \notin ws /\ \A m \in ws : ~(n + 1 <= m) /\ m <= m /\ m <= n + 1
<1>1. \A m \in 1..n : ~(n + 1 <= m) /\ m <= m /\ m <= n + 1
  BY SMTT(60)
<1>2. n + 1 \notin 1..n
  BY SMTT(60)
<1> QED BY <1>1, <1>2, Zenon

\* An append puts its tag at the end of the value.
LEMMA MadeOfAppend ==
    ASSUME NEW l, NEW n \in Nat, NEW ws \in SUBSET (1..n), NEW v \in Seq(Client \X Nat),
           MadeOf(l, v, ws), <<l[n + 1].client, l[n + 1].no>> \in Client \X Nat
    PROVE  MadeOf(l, Append(v, <<l[n + 1].client, l[n + 1].no>>), ws \cup {n + 1})
<1> DEFINE t == <<l[n + 1].client, l[n + 1].no>>
           xs == ws \cup {n + 1}
<1>i. \A i \in xs : i \in 1..(n + 1)
  OBVIOUS
<1>f. IsFiniteSet(1..n)
  BY FS_Interval
<1>n. n + 1 \notin ws
  BY PastEnd, Zenon
<1>1. IsFiniteSet(ws)
  BY <1>f, FS_Subset, Zenon
<1>2. Cardinality(xs) = Cardinality(ws) + 1 /\ Cardinality(ws) \in Nat
  BY <1>1, <1>n, FS_AddElement, FS_CardinalityType, Zenon
<1>t. t \in Client \X Nat /\ Len(v) = Cardinality(ws)
  BY Zenon DEF MadeOf
<1>a. /\ Len(Append(v, t)) = Len(v) + 1 /\ Append(v, t)[Len(v) + 1] = t
      /\ \A i \in 1..Len(v) : Append(v, t)[i] = v[i]
  <2> HIDE DEF t
  <2> QED BY <1>t
<1>3. Len(Append(v, t)) = Cardinality(xs)
  BY <1>2, <1>a, <1>t, Zenon
<1>4. ASSUME NEW m \in ws
      PROVE  Append(v, t)[Cardinality({i \in xs : i <= m})] = <<l[m].client, l[m].no>>
  <2>0. ~(n + 1 <= m) /\ m <= m
    BY PastEnd, Zenon
  <2>1. {i \in xs : i <= m} = {i \in ws : i <= m}
    BY <2>0, Zenon
  <2> DEFINE upto == {i \in ws : i <= m}
  <2>2. IsFiniteSet(upto) /\ Cardinality(upto) <= Cardinality(ws)
    BY <1>1, FS_Subset, Zenon
  <2>3. m \in upto
    BY <2>0, Zenon
  <2>4. Cardinality(upto) \in 1..Len(v)
    <3>1. Cardinality(upto) \in Nat /\ Cardinality(upto) # 0
      BY <2>2, <2>3, FS_CardinalityType, FS_EmptySet, Zenon
    <3> QED BY <3>1, <2>2, <1>2, <1>t
  <2>5. Append(v, t)[Cardinality(upto)] = v[Cardinality(upto)]
    BY <2>4, <1>a, Zenon
  <2> QED BY <2>1, <2>5, Zenon DEF MadeOf
<1>5. Append(v, t)[Cardinality({i \in xs : i <= n + 1})] = t
  <2>0. \A i \in xs : i <= n + 1
    BY <1>i
  <2>1. {i \in xs : i <= n + 1} = xs
    BY <2>0, Zenon
  <2> QED BY <2>1, <1>2, <1>a, <1>t, Zenon
<1> QED BY <1>3, <1>4, <1>5, Zenon DEF MadeOf

\* A put is all there is to the value.
LEMMA MadeOfPut ==
    ASSUME NEW l, NEW n \in Nat
    PROVE  MadeOf(l, <<<<l[n].client, l[n].no>>>>, {n})
<1>1. {i \in {n} : i <= n} = {n}
  OBVIOUS
<1>2. Cardinality({n}) = 1
  BY FS_Singleton, Zenon
<1> QED BY <1>1, <1>2 DEF MadeOf

-----------------------------------------------------------------------------
(***************************************************************************)
(* What a server has applied, or a snapshot records.                       *)
(***************************************************************************)

\* Client c's request number k is among the first n entries of l.
InLog(l, c, k, n) == \E m \in 1..n : l[m].client = c /\ l[m].no = k

\* `completed` holds, for each client, its last request among the first n entries.
Done(l, completed, n) ==
    /\ n \in 0..Len(l)
    /\ \A c \in Client : completed[c] = 0 \/ InLog(l, c, completed[c], n)
    /\ \A m \in 1..n : l[m].no <= completed[l[m].client]

\* A client's requests were first decided in the order of their numbers, and a
\* number stands for one operation.
Ordered(l) ==
    /\ \A m \in DOMAIN l : \A k \in 1..(l[m].no - 1) : InLog(l, l[m].client, k, m - 1)
    /\ \A m, n \in DOMAIN l : l[m].client = l[n].client /\ l[m].no = l[n].no => l[m] = l[n]

\* What a server holds after entry o when it held these before.
PoolAfter(o, completed) ==
    IF o.no <= completed[o.client] THEN completed ELSE [completed EXCEPT ![o.client] = o.no]
MapAfter(o, completed, map) ==
    IF o.no <= completed[o.client] THEN map ELSE [map EXCEPT ![o.key] = Effect(o, @)]

\* The number a server remembers for each client (CompletedPool) tells a new
\* request from one that the log holds already.
LEMMA NewIsFirst ==
    ASSUME NEW l \in Seq(Op), Ordered(l), NEW completed \in [Client -> Nat],
           NEW n \in Nat, n < Len(l), Done(l, completed, n)
    PROVE  l[n + 1].no <= completed[l[n + 1].client] <=> \E i \in 1..n : l[i] = l[n + 1]
<1> DEFINE o == l[n + 1]
           c == o.client
<1>1. n + 1 \in DOMAIN l /\ \A i \in 1..n : i \in DOMAIN l
  OBVIOUS
<1>2. o \in Op /\ c \in Client /\ o.no \in Nat /\ o.no >= 1 /\ completed[c] \in Nat
  <2>1. o \in Op
    OBVIOUS
  <2> QED BY <2>1, OpFields, Zenon
<1>3. ASSUME NEW i \in 1..n, l[i] = o PROVE o.no <= completed[c]
  BY <1>3, Zenon DEF Done
<1>4. ASSUME o.no <= completed[c] PROVE \E i \in 1..n : l[i] = o
  <2>0. completed[c] # 0
    BY <1>2, <1>4
  <2>1. PICK m \in 1..n : l[m].client = c /\ l[m].no = completed[c]
    BY <1>2, <2>0, Zenon DEF Done, InLog
  <2>2. CASE completed[c] = o.no
    BY <2>1, <2>2, <1>1, Zenon DEF Ordered
  <2>3. CASE o.no < completed[c]
    <3>1. o.no \in 1..(l[m].no - 1)
      BY <2>1, <2>3, <1>2
    <3>a. InLog(l, l[m].client, o.no, m - 1)
      BY <3>1, <1>1, Zenon DEF Ordered
    <3>2. PICK i \in 1..(m - 1) : l[i].client = c /\ l[i].no = o.no
      BY <3>a, <2>1, Zenon DEF InLog
    <3>3. i \in 1..n
      OBVIOUS
    <3> QED BY <3>2, <3>3, <1>1, Zenon DEF Ordered
  <2> QED BY <2>2, <2>3, <1>2, <1>4
<1> QED BY <1>3, <1>4, Zenon

\* Applying the next entry (applyLog) keeps CompletedPool right.
LEMMA DoneNext ==
    ASSUME NEW l \in Seq(Op), NEW completed \in [Client -> Nat],
           NEW n \in Nat, n < Len(l), Done(l, completed, n)
    PROVE  /\ PoolAfter(l[n + 1], completed) \in [Client -> Nat]
           /\ Done(l, PoolAfter(l[n + 1], completed), n + 1)
<1> DEFINE o == l[n + 1]
           c == o.client
           after == PoolAfter(o, completed)
<1>0. o \in Op /\ \A m \in 1..n : l[m] \in Op
  OBVIOUS
<1>1. c \in Client /\ o.no \in Nat
  BY <1>0, OpFields, Zenon
<1>2. \A m \in 1..n : l[m].client \in Client /\ l[m].no \in Nat
  BY <1>0, OpFields, Zenon
<1>3. after \in [Client -> Nat]
  BY <1>1, Zenon DEF PoolAfter
<1>4. \A d \in Client : d # c => after[d] = completed[d]
  BY <1>1, Zenon DEF PoolAfter
<1>5. completed[c] <= after[c] /\ o.no <= after[c] /\ (after[c] = completed[c] \/ after[c] = o.no)
  BY <1>1 DEF PoolAfter
<1> HIDE DEF after
<1>6. ASSUME NEW d \in Client PROVE after[d] = 0 \/ InLog(l, d, after[d], n + 1)
  <2>1. CASE after[d] = completed[d]
    BY <2>1 DEF Done, InLog
  <2>2. CASE d = c /\ after[d] = o.no
    BY <2>2 DEF InLog
  <2> QED BY <2>1, <2>2, <1>4, <1>5, Zenon
<1>7. ASSUME NEW m \in 1..(n + 1) PROVE l[m].no <= after[l[m].client]
  <2>1. CASE m = n + 1
    BY <2>1, <1>5, Zenon
  <2>2. CASE m \in 1..n
    <3>1. l[m].no <= completed[l[m].client] /\ l[m].client \in Client /\ l[m].no \in Nat
      BY <2>2, <1>2, Zenon DEF Done
    <3>2. completed[l[m].client] <= after[l[m].client]
      <4>1. CASE l[m].client = c
        BY <4>1, <1>5, Zenon
      <4>2. CASE l[m].client # c
        BY <4>2, <3>1, <1>4, <1>3
      <4> QED BY <4>1, <4>2, Zenon
    <3> QED BY <3>1, <3>2, <1>3
  <2> QED BY <2>1, <2>2
<1> QED BY <1>3, <1>6, <1>7 DEF Done, after

\* Applying the next entry (applyLog) writes what it is the first to write.
LEMMA WrittenNext ==
    ASSUME NEW l \in Seq(Op), Ordered(l), NEW completed \in [Client -> Nat], NEW map \in Map,
           NEW n \in Nat, n < Len(l), Done(l, completed, n), Written(l, map, n)
    PROVE  /\ MapAfter(l[n + 1], completed, map) \in Map
           /\ Written(l, MapAfter(l[n + 1], completed, map), n + 1)
<1> DEFINE o == l[n + 1]
           t == <<o.client, o.no>>
           new == ~(o.no <= completed[o.client])
           after == MapAfter(o, completed, map)
<1>0. o \in Op
  OBVIOUS
<1>1. o.key \in Key /\ t \in Client \X Nat /\ o.kind \in {"Get", "Put", "Append"}
  BY <1>0, OpFields, Zenon
<1>2. new <=> \A i \in 1..n : l[i] # o
  BY NewIsFirst, Zenon
<1>3. \A k : Writes(l, k, n + 1) <=> o.key = k /\ o.kind # "Get" /\ new
  BY <1>2 DEF Writes
<1>4. \A k \in Key : map[k] \in Seq(Client \X Nat)
  BY Zenon DEF Map
<1>5. \A k \in Key : after[k] = IF new /\ k = o.key THEN Effect(o, map[k]) ELSE map[k]
  BY <1>1, Zenon DEF MapAfter, Map
<1>6. Effect(o, map[o.key]) \in Seq(Client \X Nat)
  <2> HIDE DEF t
  <2>1. <<t>> \in Seq(Client \X Nat) /\ Append(map[o.key], t) \in Seq(Client \X Nat)
    BY <1>1, <1>4
  <2> QED BY <2>1, <1>1, <1>4, Zenon DEF Effect, t
<1>7. after \in Map
  BY <1>1, <1>6, Zenon DEF MapAfter, Map
<1> HIDE DEF after
<1>8. ASSUME NEW k \in Key PROVE MadeOf(l, after[k], WritesIn(l, k, n + 1))
  <2>1. MadeOf(l, map[k], WritesIn(l, k, n)) /\ WritesIn(l, k, n) \in SUBSET (1..n)
    BY WritesFinite, Zenon DEF Written
  <2>2. CASE ~Writes(l, k, n + 1)
    <3>1. after[k] = map[k]
      BY <2>2, <1>3, <1>5, <1>1, Zenon DEF Effect
    <3> QED BY <3>1, <2>1, <2>2, WritesSkip, Zenon
  <2>3. CASE Writes(l, k, n + 1) /\ o.kind = "Put"
    <3>1. after[k] = <<t>>
      BY <2>3, <1>3, <1>5, Zenon DEF Effect
    <3>2. MadeOf(l, <<t>>, {n + 1})
      BY MadeOfPut
    <3>3. WritesIn(l, k, n + 1) = {n + 1}
      BY <2>3, WritesPut, Zenon
    <3> QED BY <3>1, <3>2, <3>3, Zenon
  <2>4. CASE Writes(l, k, n + 1) /\ o.kind # "Put"
    <3>1. after[k] = Append(map[k], t)
      BY <2>4, <1>1, <1>3, <1>5, Zenon DEF Effect
    <3>2. MadeOf(l, Append(map[k], t), WritesIn(l, k, n) \cup {n + 1})
      <4>1. map[k] \in Seq(Client \X Nat) /\ <<l[n + 1].client, l[n + 1].no>> \in Client \X Nat
        BY <1>1, <1>4, Zenon
      <4> QED BY <4>1, <2>1, MadeOfAppend, Zenon
    <3>3. WritesIn(l, k, n + 1) = WritesIn(l, k, n) \cup {n + 1}
      BY <2>4, WritesAppend, Zenon
    <3> QED BY <3>1, <3>2, <3>3, Zenon
  <2> QED BY <2>2, <2>3, <2>4, Zenon
<1> QED BY <1>7, <1>8, Zenon DEF Written, after

\* Deciding one more operation changes nothing of what was applied.
LEMMA AppliedStays ==
    ASSUME NEW l \in Seq(Op), NEW o \in Op, NEW completed, NEW map, NEW n,
           Done(l, completed, n), Written(l, map, n)
    PROVE  Done(Append(l, o), completed, n) /\ Written(Append(l, o), map, n)
<1>1. n \in 0..Len(l) /\ n \in Nat /\ Len(Append(l, o)) = Len(l) + 1
  BY DEF Done
<1>2. \A m \in 1..n : Append(l, o)[m] = l[m]
  BY <1>1
<1>3. Done(Append(l, o), completed, n)
  BY <1>1, <1>2 DEF Done, InLog
<1>4. ASSUME NEW k \in Key PROVE MadeOf(Append(l, o), map[k], WritesIn(Append(l, o), k, n))
  <2>1. MadeOf(l, map[k], WritesIn(l, k, n)) /\ WritesIn(l, k, n) \in SUBSET (1..Len(l))
    BY <1>1, WritesFinite DEF Written
  <2> QED BY <2>1, <1>1, WritesStay, MadeOfStays
<1> QED BY <1>3, <1>4, Zenon DEF Written

-----------------------------------------------------------------------------
(***************************************************************************)
(* The inductive invariant.                                                *)
(***************************************************************************)

\* Types, of the snapshots and history variables too; there are finitely many
\* calls, so that the next one can be told apart, and there is a last term.
KVType ==
    /\ TypeOK
    /\ saved \in [Server -> [map : Map, completed : [Client -> Nat], index : Nat]]
    /\ frontier \in Nat /\ floor \in [Client -> Nat] /\ results \in [Client -> [floor : Nat, at : Nat]]
    /\ IsFiniteSet(calls)
    /\ \E s \in Server : \A u \in Server : term[u] <= term[s]

\* Operation o has been issued and is somewhere in the system.
Known(o) == \/ \E n \in DOMAIN log : log[n] = o
            \/ \E p \in pending : p.op = o
            \/ \E r \in calls : r.op = o

\* A Clerk's requests carry its own id and ascending numbers; the last number
\* stands for its current request, and no number for two operations.
OpsKnown ==
    /\ \A c \in Client : request[c] # Idle => request[c].client = c /\ request[c].no = reqNo[c]
    /\ \A o \in Op : Known(o) => /\ o.no <= reqNo[o.client]
                                 /\ o.no = reqNo[o.client] /\ request[o.client] # Idle
                                       => o = request[o.client]
    /\ \A o, q \in Op : Known(o) /\ Known(q) /\ o.client = q.client /\ o.no = q.no => o = q

\* What is in the log was decided for a first time.
HasFirst(l) == \A m \in DOMAIN l : \E i \in 1..m : l[i] = l[m] /\ \A j \in 1..(i - 1) : l[j] # l[i]

\* A Clerk issues a request only when the one before it is decided.
LogOrder ==
    /\ \A c \in Client : \A k \in 1..reqNo[c] : k < reqNo[c] \/ request[c] = Idle
                                                    => InLog(log, c, k, Len(log))
    /\ Ordered(log) /\ HasFirst(log)

\* A Clerk waits for one call at a time, and that is for its current request.
OneCall ==
    /\ \A r \in calls : r.live => request[r.op.client] = r.op
    /\ \A r, q \in calls : r.live /\ q.live /\ r.op.client = q.op.client => r = q

\* A Clerk's current request is decided after everything completed before it began.
Fresh ==
    /\ frontier <= Len(log)
    /\ \A c \in Client : floor[c] <= frontier
    /\ \A m \in DOMAIN log : log[m].no = reqNo[log[m].client] => floor[log[m].client] < m

\* A server's state, and a snapshot, is that after the first n entries of the log.
Holds(l, map, completed, n) == Done(l, completed, n) /\ Written(l, map, n)

Reflected ==
    \A s \in Server : /\ Holds(log, KVMap[s], CompletedPool[s], CommitedId[s])
                      /\ Holds(log, saved[s].map, saved[s].completed, saved[s].index)

\* The inductive invariant.
KVInv == /\ KVType /\ OpsKnown /\ LogOrder /\ OneCall /\ Fresh /\ Reflected /\ Linearizable

\* A finite set has a finite image, which is no larger.
LEMMA FiniteImage ==
    ASSUME NEW S, IsFiniteSet(S), NEW f, f = [x \in S |-> f[x]]
    PROVE  LET T == {f[x] : x \in S} IN IsFiniteSet(T) /\ Cardinality(T) <= Cardinality(S)
<1> DEFINE T == {f[x] : x \in S}
<1>1. f \in [S -> T]
  <2>1. \A x \in S : f[x] \in T
    BY Zenon
  <2> HIDE DEF T
  <2> QED BY <2>1, Zenon
<1>2. \A y \in T : \E x \in S : f[x] = y
  BY Zenon
<1>3. f \in Surjection(S, T)
  <2> HIDE DEF T
  <2> QED BY <1>1, <1>2, Zenon DEF Surjection
<1> QED BY <1>3, FS_Surjection, Zenon

\* A new call can be told apart from those under way, and has its type.
LEMMA NewCall ==
    ASSUME calls \subseteq CallType, IsFiniteSet(calls), NEW o \in Op, NEW s \in Server
    PROVE  Call(o, s) \in CallType /\ Call(o, s).op = o /\ Call(o, s).live
<1> DEFINE f == [r \in calls |-> r.try]
           T == {f[r] : r \in calls}
           n == Cardinality(calls)
<1>1. IsFiniteSet(T) /\ Cardinality(T) <= n /\ n \in Nat /\ Cardinality(T) \in Nat
  <2>1. f = [r \in calls |-> f[r]]
    BY Zenon
  <2> HIDE DEF f
  <2> QED BY <2>1, FiniteImage, FS_CardinalityType, Zenon
<1>2. Cardinality(1..(n + 1)) = n + 1
  <2> HIDE DEF n
  <2>1. 1 \in Int /\ n + 1 \in Int /\ ~(1 > n + 1)
    BY <1>1
  <2> QED BY <1>1, <2>1, FS_Interval
<1>3. ~(1..(n + 1) \subseteq T)
  <2> SUFFICES ASSUME 1..(n + 1) \subseteq T PROVE FALSE
    BY Zenon
  <2> HIDE DEF n, T
  <2>1. Cardinality(1..(n + 1)) <= Cardinality(T)
    BY <1>1, FS_Subset, Zenon
  <2> QED BY <1>1, <1>2, <2>1
<1>4. \E i \in 1..(n + 1) : \A r \in calls : r.try # i
  BY <1>3, Zenon
<1> DEFINE i == CHOOSE i \in 1..(n + 1) : \A r \in calls : r.try # i
<1>5. i \in Nat
  <2>1. i \in 1..(n + 1)
    BY <1>4, Zenon
  <2> HIDE DEF i, n
  <2> QED BY <2>1, <1>1
<1>6. Call(o, s) = [op |-> o, server |-> s, live |-> TRUE, term |-> 0, stage |-> "sent", try |-> i]
  BY Zenon DEF Call
<1> HIDE DEF i
<1> QED BY <1>5, <1>6 DEF CallType

\* There is a last term, and no server is beyond it.
LEMMA LastTermIs ==
    ASSUME KVType
    PROVE  LastTerm \in Nat /\ \A s \in Server : term[s] <= LastTerm
<1>1. term \in [Server -> Nat]
  BY Zenon DEF KVType, TypeOK
<1>2. \E t \in {term[s] : s \in Server} : \A s \in Server : term[s] <= t
  BY Zenon DEF KVType
<1>3. LastTerm \in {term[s] : s \in Server} /\ \A s \in Server : term[s] <= LastTerm
  BY <1>2, Zenon DEF LastTerm
<1> QED BY <1>1, <1>3, Zenon

\* Position finds an operation that was decided.
LEMMA PositionIs ==
    ASSUME log \in Seq(Op), HasFirst(log), NEW m \in DOMAIN log
    PROVE  Position(log[m]) \in DOMAIN log /\ log[Position(log[m])] = log[m]
<1> DEFINE o == log[m]
<1>1. PICK i \in 1..m : log[i] = o /\ \A j \in 1..(i - 1) : log[j] # o
  BY Zenon DEF HasFirst
<1>2. i \in DOMAIN log
  OBVIOUS
<1>3. \E n \in DOMAIN log : log[n] = o /\ \A j \in 1..(n - 1) : log[j] # o
  BY <1>1, <1>2, Zenon
<1> HIDE DEF o
<1>4. Position(o) = CHOOSE n \in DOMAIN log : log[n] = o /\ \A j \in 1..(n - 1) : log[j] # o
  BY <1>3, Zenon DEF Position
<1> QED BY <1>3, <1>4, Zenon DEF o

-----------------------------------------------------------------------------
(***************************************************************************)
(* Steps that leave the Clerks alone.                                      *)
(***************************************************************************)

\* Initially nothing was issued, decided or applied.
LEMMA InitKVInv == Init => KVInv
<1> SUFFICES ASSUME Init PROVE KVInv
  BY Zenon
<1>0. 0 \in Server
  BY BoundAssumption DEF Server
<1>1. TypeOK
  BY <1>0, BoundAssumption DEF Init, TypeOK, Empty
<1>2. KVType
  BY <1>0, <1>1, FS_EmptySet DEF Init, KVType, Empty, Map
<1>3. OpsKnown /\ OneCall
  BY DEF Init, OpsKnown, Known, OneCall
<1>4. LogOrder
  BY DEF Init, LogOrder, Ordered, HasFirst
<1>5. Fresh /\ Linearizable
  BY DEF Init, Fresh, Linearizable
<1>6. \A k : WritesIn(<<>>, k, 0) = {}
  BY DEF WritesIn
<1>7. MadeOf(<<>>, <<>>, {})
  BY FS_EmptySet, Zenon DEF MadeOf
<1>8. Holds(<<>>, Empty.map, Empty.completed, 0)
  <2>1. Done(<<>>, Empty.completed, 0)
    BY DEF Done, Empty
  <2>2. \A k \in Key : Empty.map[k] = <<>>
    BY Zenon DEF Empty
  <2>3. Written(<<>>, Empty.map, 0)
    BY <1>6, <1>7, <2>2, Zenon DEF Written
  <2> QED BY <2>1, <2>3, Zenon DEF Holds
<1>9. Reflected
  BY <1>8, Zenon DEF Init, Reflected, Empty
<1> QED BY <1>2, <1>3, <1>4, <1>5, <1>9, Zenon DEF KVInv

\* The calls in cs are calls under way, some with another stage.
Relabels(cs) ==
    /\ cs \subseteq CallType /\ IsFiniteSet(cs)
    /\ \A q \in cs : \E r \in calls : q.op = r.op /\ (q.live => r.live)
    /\ \A p, q \in cs : p.live /\ q.live /\ p.op.client = q.op.client => p = q

\* Changing the stages of calls relabels them.
LEMMA RelabelBy ==
    ASSUME KVType, OneCall, NEW S \in SUBSET calls, NEW f \in [S -> CallType],
           \A q \in S : f[q].op = q.op /\ f[q].live = q.live
    PROVE  Relabels({f[q] : q \in S})
<1> DEFINE T == {f[q] : q \in S}
<1>1. IsFiniteSet(S)
  BY FS_Subset, Zenon DEF KVType
<1>2. IsFiniteSet(T)
  BY <1>1, FiniteImage
<1>3. \A p, q \in T : p.live /\ q.live /\ p.op.client = q.op.client => p = q
  BY DEF OneCall
<1>4. \A q \in T : \E r \in calls : q.op = r.op /\ (q.live => r.live)
  OBVIOUS
<1> QED BY <1>2, <1>3, <1>4 DEF Relabels

\* What was not issued before this step is not known after it: the Clerks'
\* requests stay what they were.
LEMMA KnownStays ==
    ASSUME OpsKnown, UNCHANGED <<reqNo, request>>, \A o \in Op : Known(o)' => Known(o)
    PROVE  OpsKnown'
BY Zenon DEF OpsKnown

\* A step in which only stages change, and what is pending was pending or called for.
LEMMA RelabelStep ==
    ASSUME KVInv, Relabels(calls'), UNCHANGED <<clerkVars, log>>,
           \A p \in pending' : p \in pending \/ \E r \in calls : p.op = r.op
    PROVE  OpsKnown' /\ LogOrder' /\ OneCall' /\ Fresh' /\ Linearizable'
<1>1. UNCHANGED <<reqNo, request, floor, frontier, results, log>>
  BY Zenon DEF clerkVars
<1>2. OpsKnown'
  <2>1. \A o \in Op : Known(o)' => Known(o)
    BY <1>1 DEF Known, Relabels
  <2> QED BY <1>1, <2>1, KnownStays, Zenon DEF KVInv
<1>3. OneCall'
  <2>1. ASSUME NEW q \in calls', q.live PROVE request[q.op.client] = q.op
    BY <2>1, Zenon DEF Relabels, KVInv, OneCall
  <2> QED BY <1>1, <2>1, Zenon DEF Relabels, OneCall
<1>4. LogOrder'
  BY <1>1, Zenon DEF KVInv, LogOrder
<1>5. Fresh' /\ Linearizable'
  BY <1>1, Zenon DEF KVInv, Fresh, Linearizable
<1> QED BY <1>2, <1>3, <1>4, <1>5, Zenon

\* All calls stay as they are.
LEMMA SameCalls ==
    ASSUME KVType, OneCall, UNCHANGED calls
    PROVE  Relabels(calls')
BY Zenon DEF Relabels, KVType, TypeOK, OneCall

\* Conds that are broadcast wake calls.
LEMMA WokenRelabels ==
    ASSUME KVType, OneCall, NEW s, NEW cs
    PROVE  Relabels(Woken(s, cs))
<1> DEFINE f == [q \in calls |-> IF q.server = s /\ q.op.client \in cs /\ q.stage = "current"
                                 THEN [q EXCEPT !.stage = "woken"] ELSE q]
<1>1. calls \subseteq CallType
  BY Zenon DEF KVType, TypeOK
<1>2. \A q \in calls : f[q] \in CallType /\ f[q].op = q.op /\ f[q].live = q.live
  BY <1>1 DEF CallType
<1>3. Woken(s, cs) = {f[q] : q \in calls}
  BY Zenon DEF Woken
<1>4. f \in [calls -> CallType]
  BY <1>2, Zenon
<1> HIDE DEF f
<1> QED BY <1>2, <1>3, <1>4, RelabelBy

\* BroadcastAllPeoridly wakes calls.
LEMMA BroadcastKeeps ==
    ASSUME KVInv, NEW s \in Server, BroadcastAllPeoridly(s)
    PROVE  KVInv'
<1>1. calls' = Woken(s, Client) /\ UNCHANGED <<clerkVars, raftVars, kvVars, saved>>
  BY Zenon DEF BroadcastAllPeoridly
<1>2. Relabels(calls')
  BY <1>1, WokenRelabels, Zenon DEF KVInv
<1>3. OpsKnown' /\ LogOrder' /\ OneCall' /\ Fresh' /\ Linearizable'
  BY <1>1, <1>2, RelabelStep, Zenon DEF raftVars
<1>4. KVType'
  BY <1>1, <1>2, Zenon DEF KVInv, KVType, TypeOK, Relabels, clerkVars, raftVars, kvVars
<1>5. Reflected'
  BY <1>1, Zenon DEF KVInv, Reflected, raftVars, kvVars
<1> QED BY <1>3, <1>4, <1>5, Zenon DEF KVInv

\* Applying an entry (applyLog): the server comes to hold one entry more.
LEMMA ApplyKeeps ==
    ASSUME KVInv, NEW s \in Server, Apply(s)
    PROVE  KVInv'
<1> DEFINE n == CommitedId[s]
           o == log[n + 1]
<1>1. /\ n < Len(log) /\ calls' = Woken(s, {o.client})
      /\ UNCHANGED <<clerkVars, raftVars, saved>>
  BY Zenon DEF Apply
<1>2. /\ log \in Seq(Op) /\ n \in Nat /\ CommitedId \in [Server -> Nat]
      /\ CompletedPool \in [Server -> [Client -> Nat]] /\ KVMap \in [Server -> Map]
  BY Zenon DEF KVInv, KVType, TypeOK, Map
<1>3. Done(log, CompletedPool[s], n) /\ Written(log, KVMap[s], n) /\ Ordered(log)
  BY Zenon DEF KVInv, Reflected, Holds, LogOrder
<1> DEFINE pool == PoolAfter(o, CompletedPool[s])
           map == MapAfter(o, CompletedPool[s], KVMap[s])
<1>4. pool \in [Client -> Nat] /\ Done(log, pool, n + 1)
  BY <1>1, <1>2, <1>3, DoneNext, Zenon
<1>5. map \in Map /\ Written(log, map, n + 1)
  BY <1>1, <1>2, <1>3, WrittenNext, Zenon
<1>6. CommitedId' = [CommitedId EXCEPT ![s] = n + 1]
  BY Zenon DEF Apply
<1>7. CompletedPool' = [CompletedPool EXCEPT ![s] = pool]
  BY <1>2, Zenon DEF Apply, Completed, PoolAfter
<1>8. KVMap' = [KVMap EXCEPT ![s] = map]
  BY <1>2, Zenon DEF Apply, Completed, MapAfter
<1> HIDE DEF pool, map, n
<1>9. Relabels(calls')
  BY <1>1, WokenRelabels, Zenon DEF KVInv
<1>10. OpsKnown' /\ LogOrder' /\ OneCall' /\ Fresh' /\ Linearizable'
  BY <1>1, <1>9, RelabelStep, Zenon DEF raftVars
<1>11. KVType'
  <2>1. /\ CommitedId' \in [Server -> Nat] /\ CompletedPool' \in [Server -> [Client -> Nat]]
        /\ KVMap' \in [Server -> Map]
    BY <1>2, <1>4, <1>5, <1>6, <1>7, <1>8
  <2> QED BY <1>1, <1>9, <2>1, Zenon DEF KVInv, KVType, TypeOK, Relabels, Map, clerkVars, raftVars
<1>12. Reflected'
  <2>1. Holds(log, map, pool, n + 1)
    BY <1>4, <1>5, Zenon DEF Holds
  <2>2. UNCHANGED <<log, saved>>
    BY <1>1, Zenon DEF raftVars
  <2> QED BY <1>2, <1>6, <1>7, <1>8, <2>1, <2>2, Zenon DEF KVInv, Reflected
<1> QED BY <1>10, <1>11, <1>12 DEF KVInv

\* Loading a snapshot that some server has saved: what it holds is taken whole.
LEMMA LoadKeeps ==
    ASSUME KVInv, NEW s \in Server, NEW t \in Server, Load(s, saved[t]), UNCHANGED log,
           saved' = saved \/ saved' = [saved EXCEPT ![s] = saved[t]]
    PROVE  /\ Reflected'
           /\ CommitedId' \in [Server -> Nat] /\ CompletedPool' \in [Server -> [Client -> Nat]]
           /\ KVMap' \in [Server -> Map]
           /\ saved' \in [Server -> [map : Map, completed : [Client -> Nat], index : Nat]]
<1>1. /\ CommitedId \in [Server -> Nat] /\ CompletedPool \in [Server -> [Client -> Nat]]
      /\ KVMap \in [Server -> Map]
      /\ saved \in [Server -> [map : Map, completed : [Client -> Nat], index : Nat]]
  BY Zenon DEF KVInv, KVType, TypeOK, Map
<1>2. saved[t].map \in Map /\ saved[t].completed \in [Client -> Nat] /\ saved[t].index \in Nat
  BY <1>1, Zenon
<1>3. Holds(log, saved[t].map, saved[t].completed, saved[t].index)
  BY Zenon DEF KVInv, Reflected
<1>4. Reflected'
  BY <1>1, <1>2, <1>3, Zenon DEF KVInv, Reflected, Load
<1> QED BY <1>1, <1>2, <1>4, Zenon DEF Load

\* ReadSnapshot takes another server's snapshot.
LEMMA ReadSnapshotKeeps ==
    ASSUME KVInv, NEW s \in Server, NEW t \in Server, ReadSnapshot(s, t)
    PROVE  KVInv'
<1>1. Load(s, saved[t]) /\ saved' = [saved EXCEPT ![s] = saved[t]]
  BY Zenon DEF ReadSnapshot
<1>2. UNCHANGED <<clerkVars, calls, raftVars, log, pending>>
  BY Zenon DEF ReadSnapshot, raftVars
<1>3. Relabels(calls')
  BY <1>2, SameCalls, Zenon DEF KVInv
<1>4. OpsKnown' /\ LogOrder' /\ OneCall' /\ Fresh' /\ Linearizable'
  BY <1>2, <1>3, RelabelStep, Zenon
<1>5. /\ Reflected'
      /\ CommitedId' \in [Server -> Nat] /\ CompletedPool' \in [Server -> [Client -> Nat]]
      /\ KVMap' \in [Server -> Map]
      /\ saved' \in [Server -> [map : Map, completed : [Client -> Nat], index : Nat]]
  BY <1>1, <1>2, LoadKeeps, Zenon
<1>6. KVType'
  BY <1>2, <1>5, Zenon DEF KVInv, KVType, TypeOK, Map, clerkVars, raftVars
<1> QED BY <1>4, <1>5, <1>6, Zenon DEF KVInv

\* Snapshot saves what the server holds.
LEMMA SnapshotKeeps ==
    ASSUME KVInv, NEW s \in Server, Snapshot(s)
    PROVE  KVInv'
<1>1. saved' = [saved EXCEPT ![s] = Encoded(s)]
  BY Zenon DEF Snapshot
<1>2. UNCHANGED <<clerkVars, calls, raftVars, kvVars, log, pending, KVMap, CompletedPool, CommitedId>>
  BY Zenon DEF Snapshot, raftVars, kvVars
<1>3. Relabels(calls')
  BY <1>2, SameCalls, Zenon DEF KVInv
<1>4. OpsKnown' /\ LogOrder' /\ OneCall' /\ Fresh' /\ Linearizable'
  BY <1>2, <1>3, RelabelStep, Zenon
<1>5. saved \in [Server -> [map : Map, completed : [Client -> Nat], index : Nat]]
  BY Zenon DEF KVInv, KVType
<1>6. /\ Encoded(s) \in [map : Map, completed : [Client -> Nat], index : Nat]
      /\ Encoded(s).map = KVMap[s] /\ Encoded(s).completed = CompletedPool[s]
      /\ Encoded(s).index = CommitedId[s]
  BY Zenon DEF KVInv, KVType, TypeOK, Map, Encoded
<1> HIDE DEF Encoded
<1>7. saved' \in [Server -> [map : Map, completed : [Client -> Nat], index : Nat]]
  BY <1>1, <1>5, <1>6, Zenon
<1>8. KVType'
  BY <1>2, <1>7, Zenon DEF KVInv, KVType, TypeOK, clerkVars, raftVars
<1>9. Reflected'
  BY <1>1, <1>2, <1>5, <1>6, Zenon DEF KVInv, Reflected
<1> QED BY <1>4, <1>8, <1>9 DEF KVInv

\* A restart loads the server's own snapshot; calls of dead handlers stay for
\* Clerks that wait for them.
LEMMA RestartKeeps ==
    ASSUME KVInv, NEW s \in Server, Restart(s)
    PROVE  KVInv'
<1>1. Load(s, saved[s]) /\ UNCHANGED <<clerkVars, log, pending, term, saved>> /\ leaders' = leaders \ {s}
  BY Zenon DEF Restart
<1> DEFINE S == {q \in calls : q.server # s \/ q.live}
           f == [q \in S |-> IF q.server = s THEN [q EXCEPT !.stage = "dead"] ELSE q]
<1>2. calls \subseteq CallType
  BY Zenon DEF KVInv, KVType, TypeOK
<1>3. \A q \in S : f[q] \in CallType /\ f[q].op = q.op /\ f[q].live = q.live
  BY <1>2 DEF CallType
<1>4. calls' = {f[q] : q \in S}
  BY Zenon DEF Restart
<1>5. f \in [S -> CallType] /\ S \in SUBSET calls
  BY <1>3, Zenon
<1>6. Relabels(calls')
  <2> HIDE DEF f, S
  <2> QED BY <1>3, <1>4, <1>5, RelabelBy, Zenon DEF KVInv
<1> HIDE DEF f, S
<1>7. OpsKnown' /\ LogOrder' /\ OneCall' /\ Fresh' /\ Linearizable'
  BY <1>1, <1>6, RelabelStep, Zenon
<1>8. /\ Reflected'
      /\ CommitedId' \in [Server -> Nat] /\ CompletedPool' \in [Server -> [Client -> Nat]]
      /\ KVMap' \in [Server -> Map]
  BY <1>1, LoadKeeps, Zenon
<1>9. KVType'
  BY <1>1, <1>6, <1>8, Zenon DEF KVInv, KVType, TypeOK, Relabels, Map, clerkVars
<1> QED BY <1>7, <1>8, <1>9, Zenon DEF KVInv

\* Elections change who leads, and in which term.
LEMMA TermKeeps ==
    ASSUME KVInv, NEW s \in Server, Elect(s) \/ Depose(s)
    PROVE  KVInv'
<1>1. LastTerm \in Nat /\ \A u \in Server : term[u] <= LastTerm
  BY LastTermIs, Zenon DEF KVInv
<1>2. PICK t \in {LastTerm, LastTerm + 1} : term' = [term EXCEPT ![s] = t]
  BY Zenon DEF Elect, Depose
<1>3. /\ UNCHANGED <<clerkVars, calls, log, kvVars, saved>> /\ pending' \subseteq pending
      /\ leaders' \subseteq Server
  BY DEF Elect, Depose, KVInv, KVType, TypeOK
<1>4. term \in [Server -> Nat] /\ t \in Nat /\ LastTerm <= t
  BY <1>1 DEF KVInv, KVType, TypeOK
<1>5. term' \in [Server -> Nat] /\ term'[s] = t /\ \A u \in Server : term'[u] <= term'[s]
  BY <1>1, <1>2, <1>4
<1>6. Relabels(calls')
  BY <1>3, SameCalls, Zenon DEF KVInv
<1>7. OpsKnown' /\ LogOrder' /\ OneCall' /\ Fresh' /\ Linearizable'
  BY <1>3, <1>6, RelabelStep, Zenon
<1>8. KVType'
  BY <1>3, <1>5, Zenon DEF KVInv, KVType, TypeOK, clerkVars, kvVars
<1>9. Reflected'
  BY <1>3, Zenon DEF KVInv, Reflected, kvVars
<1> QED BY <1>7, <1>8, <1>9, Zenon DEF KVInv

-----------------------------------------------------------------------------
(***************************************************************************)
(* The log grows.                                                          *)
(***************************************************************************)

\* An operation that is decided may have been before; its Clerk's earlier
\* requests have.
LEMMA DecideKeeps ==
    ASSUME KVInv, NEW p \in pending, Decide(p)
    PROVE  KVInv'
<1> DEFINE o == p.op
           c == o.client
           n == Len(log)
<1>1. /\ log' = Append(log, o) /\ pending' \subseteq pending
      /\ UNCHANGED <<clerkVars, calls, term, leaders, kvVars, saved>>
  BY Zenon DEF Decide
<1>2. /\ log \in Seq(Op) /\ o \in Op /\ n \in Nat
      /\ reqNo \in [Client -> 0..MaxReq] /\ frontier \in Nat /\ floor \in [Client -> Nat]
  BY DEF KVInv, KVType, TypeOK
<1>3. c \in Client /\ o.no \in Nat /\ o.no >= 1
  BY <1>2, OpFields, Zenon
<1>4. Known(o)
  BY Zenon DEF Known
<1> HIDE DEF o
<1>5. /\ Len(log') = n + 1 /\ log'[n + 1] = o /\ (\A m \in 1..n : log'[m] = log[m])
      /\ DOMAIN log' = 1..(n + 1) /\ DOMAIN log = 1..n /\ log' \in Seq(Op)
  BY <1>1, <1>2
<1> HIDE DEF n
<1>6. \A m \in 1..n : Known(log[m]) /\ log[m] \in Op
  BY <1>2, <1>5 DEF Known
<1>7. UNCHANGED <<reqNo, request, floor, frontier, results, calls>>
  BY <1>1, Zenon DEF clerkVars
<1>8. OpsKnown'
  <2>1. \A q \in Op : Known(q)' => Known(q)
    <3> SUFFICES ASSUME NEW q \in Op, Known(q)' PROVE Known(q)
      BY Zenon
    <3>1. CASE \E m \in 1..(n + 1) : log'[m] = q
      BY <3>1, <1>2, <1>4, <1>5, <1>6
    <3>2. CASE (\E r \in pending' : r.op = q) \/ \E r \in calls : r.op = q
      BY <3>2, <1>1, Zenon DEF Known
    <3>3. \/ \E m \in DOMAIN log' : log'[m] = q
          \/ \E r \in pending' : r.op = q
          \/ \E r \in calls' : r.op = q
      BY Zenon DEF Known
    <3> QED BY <3>1, <3>2, <3>3, <1>5, <1>7, Zenon
  <2> QED BY <1>7, <2>1, KnownStays, Zenon DEF KVInv
<1>9. o.no <= reqNo[c]
  BY <1>2, <1>4, Zenon DEF KVInv, OpsKnown
<1>10. \A d, k, m : m \in 0..n /\ InLog(log, d, k, m) => InLog(log', d, k, m) /\ InLog(log', d, k, n + 1)
  BY <1>2, <1>5 DEF InLog
<1>11. LogOrder'
  <2>1. \A d \in Client : \A k \in 1..reqNo[d] : k < reqNo[d] \/ request[d] = Idle
                                                      => InLog(log', d, k, Len(log'))
    BY <1>2, <1>5, <1>10 DEF KVInv, LogOrder, n
  <2>2. ASSUME NEW m \in 1..(n + 1), NEW k \in 1..(log'[m].no - 1)
        PROVE  InLog(log', log'[m].client, k, m - 1)
    <3>1. CASE m \in 1..n
      <4>1. log'[m] = log[m] /\ InLog(log, log[m].client, k, m - 1)
        BY <3>1, <1>5, Zenon DEF KVInv, LogOrder, Ordered
      <4>2. m - 1 \in 0..n
        BY <3>1, <1>2
      <4> QED BY <4>1, <4>2, <1>10, Zenon
    <3>2. CASE m = n + 1
      <4>1. k \in 1..reqNo[c] /\ k < reqNo[c]
        BY <3>2, <1>2, <1>3, <1>5, <1>9
      <4>2. InLog(log, c, k, n)
        BY <4>1, <1>3, Zenon DEF KVInv, LogOrder, n
      <4>3. InLog(log', c, k, n)
        BY <4>2, <1>2, <1>10
      <4> QED BY <4>3, <3>2, <1>2, <1>5
    <3> QED BY <3>1, <3>2, <1>2
  <2>3. ASSUME NEW m \in 1..(n + 1), NEW i \in 1..(n + 1),
               log'[m].client = log'[i].client, log'[m].no = log'[i].no
        PROVE  log'[m] = log'[i]
    <3>1. \A j \in 1..(n + 1) : Known(log'[j]) /\ log'[j] \in Op
      BY <1>2, <1>4, <1>5, <1>6
    <3> QED BY <2>3, <3>1, Zenon DEF KVInv, OpsKnown
  <2>4. Ordered(log')
    BY <1>5, <2>2, <2>3, Zenon DEF Ordered
  <2>5. ASSUME NEW m \in 1..(n + 1)
        PROVE  \E i \in 1..m : log'[i] = log'[m] /\ \A j \in 1..(i - 1) : log'[j] # log'[i]
    <3>1. ASSUME NEW h \in 1..n
          PROVE  \E i \in 1..h : log'[i] = log[h] /\ \A j \in 1..(i - 1) : log'[j] # log'[i]
      <4>1. PICK i \in 1..h : log[i] = log[h] /\ \A j \in 1..(i - 1) : log[j] # log[i]
        BY <1>5, Zenon DEF KVInv, LogOrder, HasFirst
      <4>2. i \in 1..n /\ \A j \in 1..(i - 1) : j \in 1..n
        BY <1>2
      <4> QED BY <4>1, <4>2, <1>5, Zenon
    <3>2. CASE m \in 1..n
      BY <3>1, <3>2, <1>5
    <3>3. CASE m = n + 1 /\ \A h \in 1..n : log[h] # o
      <4>1. \A j \in 1..(m - 1) : log'[j] # log'[m]
        BY <3>3, <1>2, <1>5
      <4> QED BY <4>1
    <3>4. CASE m = n + 1 /\ \E h \in 1..n : log[h] = o
      <4>1. PICK h \in 1..n : log[h] = o
        BY <3>4, Zenon
      <4>2. PICK i \in 1..h : log'[i] = o /\ \A j \in 1..(i - 1) : log'[j] # log'[i]
        BY <3>1, <4>1, Zenon
      <4>3. i \in 1..m
        BY <3>4, <1>2
      <4> QED BY <3>4, <4>2, <4>3, <1>5, Zenon
    <3> QED BY <3>2, <3>3, <3>4, <1>2
  <2>6. HasFirst(log')
    BY <1>5, <2>5, Zenon DEF HasFirst
  <2> QED BY <2>1, <2>4, <2>6, <1>7, Zenon DEF LogOrder
<1>12. OneCall' /\ Linearizable'
  BY <1>7, Zenon DEF KVInv, OneCall, Linearizable
<1>13. Fresh'
  <2>1. frontier <= n + 1 /\ \A d \in Client : floor[d] < n + 1 /\ floor[d] <= frontier
    BY <1>2 DEF KVInv, Fresh, n
  <2>2. ASSUME NEW m \in 1..(n + 1), log'[m].no = reqNo[log'[m].client]
        PROVE  floor[log'[m].client] < m
    <3>1. CASE m \in 1..n
      BY <3>1, <2>2, <1>5, Zenon DEF KVInv, Fresh
    <3>2. CASE m = n + 1
      BY <3>2, <2>1, <1>3, <1>5, Zenon
    <3> QED BY <3>1, <3>2, <1>2
  <2> QED BY <2>1, <2>2, <1>5, <1>7, Zenon DEF Fresh
<1>14. Reflected'
  <2>1. \A map, completed, m : Holds(log, map, completed, m) => Holds(log', map, completed, m)
    BY <1>1, <1>2, AppliedStays, Zenon DEF Holds
  <2> QED BY <2>1, <1>1, Zenon DEF KVInv, Reflected, kvVars
<1>15. KVType'
  BY <1>1, <1>5, Zenon DEF KVInv, KVType, TypeOK, clerkVars, kvVars
<1> QED BY <1>8, <1>11, <1>12, <1>13, <1>14, <1>15, Zenon DEF KVInv

-----------------------------------------------------------------------------
(***************************************************************************)
(* Clerks' steps.                                                          *)
(***************************************************************************)

\* A Clerk begins a request: its number is new, and so everything in the log
\* comes before it.
LEMMA BeginKeeps ==
    ASSUME KVInv, NEW c \in Client, NEW kind \in Kinds, NEW k \in Key, Begin(c, kind, k)
    PROVE  KVInv'
<1> DEFINE o == [kind |-> kind, key |-> k, client |-> c, no |-> reqNo[c] + 1]
           w == Call(o, recentLeader[c])
<1>1. /\ request[c] = Idle /\ reqNo[c] < MaxReq
      /\ reqNo' = [reqNo EXCEPT ![c] = @ + 1] /\ request' = [request EXCEPT ![c] = o]
      /\ floor' = [floor EXCEPT ![c] = frontier] /\ calls' = calls \cup {w}
      /\ UNCHANGED <<recentLeader, probe, frontier, results, raftVars, kvVars, saved>>
  BY Zenon DEF Begin
<1>2. TypeOK /\ frontier \in Nat /\ floor \in [Client -> Nat] /\ IsFiniteSet(calls)
  BY Zenon DEF KVInv, KVType
<1>3. /\ reqNo \in [Client -> 0..MaxReq] /\ request \in [Client -> Op \cup {Idle}] /\ log \in Seq(Op)
      /\ calls \subseteq CallType /\ recentLeader \in [Client -> Server]
      /\ pending \subseteq [op : Op, try : Nat, server : Server, term : Nat]
  BY <1>2, Zenon DEF TypeOK
<1>l. log \in Seq(Op) /\ MaxReq \in Nat
  BY <1>3, BoundAssumption, Zenon
<1>n. reqNo[c] \in 0..MaxReq /\ reqNo[c] < MaxReq
  BY <1>1, <1>3, Zenon
<1>m. reqNo[c] + 1 \in 1..MaxReq /\ reqNo[c] + 1 \in 0..MaxReq
  BY <1>l, <1>n
<1>4. o \in Op /\ o.client = c /\ o.no = reqNo[c] + 1 /\ reqNo[c] + 1 \in 0..MaxReq
  BY <1>m, Zenon DEF Op
<1>5. w \in CallType /\ w.op = o /\ w.live
  BY <1>2, <1>3, <1>4, NewCall, Zenon
<1>6. IsFiniteSet(calls')
  BY <1>1, <1>2, FS_AddElement, Zenon
<1> HIDE DEF o, w
<1>7. UNCHANGED <<log, pending>>
  BY <1>1, Zenon DEF raftVars
<1>8. /\ reqNo'[c] = reqNo[c] + 1 /\ request'[c] = o /\ floor'[c] = frontier
      /\ \A d \in Client : d # c => reqNo'[d] = reqNo[d] /\ request'[d] = request[d] /\ floor'[d] = floor[d]
  BY <1>1, <1>2, <1>3, Zenon
<1>c. o.client = c /\ o.no = reqNo'[c] /\ request'[c] = o /\ o.no <= reqNo'[c]
  <2>1. reqNo'[c] \in Nat
    BY <1>8, <1>n, <1>l
  <2> QED BY <2>1, <1>4, <1>8
<1>9. \A q \in Op : Known(q)' => Known(q) \/ q = o
  BY <1>1, <1>5, <1>7, Zenon DEF Known
<1>10. \A d \in Client : reqNo[d] \in Nat /\ reqNo[d] <= reqNo'[d]
  BY <1>3, <1>8
<1>11. \A q \in Op : Known(q) => q.client \in Client /\ q.no \in Nat /\ q.no <= reqNo[q.client]
  BY OpFields, Zenon DEF KVInv, OpsKnown
<1>12. \A q \in Op : Known(q) /\ q.client = c => q.no # reqNo'[c] /\ q.no # o.no
  BY <1>4, <1>8, <1>10, <1>11
<1>13. OpsKnown'
  <2>1. \A d \in Client : request'[d] # Idle => request'[d].client = d /\ request'[d].no = reqNo'[d]
    BY <1>4, <1>8 DEF KVInv, OpsKnown
  <2>2. ASSUME NEW q \in Op, Known(q) \/ q = o
        PROVE  /\ q.no <= reqNo'[q.client]
               /\ q.no = reqNo'[q.client] /\ request'[q.client] # Idle => q = request'[q.client]
    <3>1. CASE q = o
      BY <3>1, <1>c, Zenon
    <3>2. CASE Known(q) /\ q.client = c
      BY <3>2, <1>8, <1>10, <1>11, <1>12
    <3>3. CASE Known(q) /\ q.client # c
      BY <3>3, <1>8, <1>11, Zenon DEF KVInv, OpsKnown
    <3> QED BY <2>2, <3>1, <3>2, <3>3, Zenon
  <2>3. ASSUME NEW q \in Op, NEW p \in Op, Known(q) \/ q = o, Known(p) \/ p = o,
               q.client = p.client, q.no = p.no
        PROVE  q = p
    BY <2>3, <1>4, <1>12, Zenon DEF KVInv, OpsKnown
  <2> QED BY <2>1, <2>2, <2>3, <1>9, Zenon DEF OpsKnown
<1>14. LogOrder'
  <2>1. ASSUME NEW d \in Client, NEW i \in 1..reqNo'[d], i < reqNo'[d] \/ request'[d] = Idle
        PROVE  InLog(log, d, i, Len(log))
    <3>1. CASE d = c
      <4>1. request'[d] # Idle
        BY <3>1, <1>8, <1>4, OpFields, Zenon
      <4>2. i \in 1..reqNo[c]
        BY <4>1, <3>1, <2>1, <1>8, <1>10
      <4> QED BY <4>2, <3>1, <1>1, Zenon DEF KVInv, LogOrder
    <3>2. CASE d # c
      BY <3>2, <2>1, <1>8, Zenon DEF KVInv, LogOrder
    <3> QED BY <3>1, <3>2, Zenon
  <2> QED BY <2>1, <1>7, Zenon DEF KVInv, LogOrder
<1>15. OneCall'
  <2>1. ASSUME NEW r \in calls, r.live
        PROVE  r.op.client # c /\ request'[r.op.client] = r.op
    <3>1. r.op \in Op /\ request[r.op.client] = r.op
      BY <2>1, <1>3, Zenon DEF CallType, KVInv, OneCall
    <3>2. r.op # Idle /\ r.op.client \in Client
      BY <3>1, OpFields, Zenon
    <3> QED BY <3>1, <3>2, <1>1, <1>8, Zenon
  <2>2. \A r \in calls' : r.live => request'[r.op.client] = r.op
    BY <2>1, <1>1, <1>4, <1>5, <1>8, Zenon
  <2>3. \A r, q \in calls' : r.live /\ q.live /\ r.op.client = q.op.client => r = q
    BY <2>1, <1>1, <1>4, <1>5 DEF KVInv, OneCall
  <2> QED BY <2>2, <2>3, Zenon DEF OneCall
<1>16. Fresh'
  <2>1. ASSUME NEW m \in DOMAIN log, log[m].no = reqNo'[log[m].client]
        PROVE  floor'[log[m].client] < m
    <3>1. log[m] \in Op /\ Known(log[m])
      BY <1>l DEF Known
    <3>2. log[m].client # c /\ log[m].client \in Client
      BY <3>1, <2>1, <1>11, <1>12, Zenon
    <3> QED BY <3>2, <2>1, <1>8, Zenon DEF KVInv, Fresh
  <2>2. ASSUME NEW d \in Client PROVE floor'[d] <= frontier
    <3>1. frontier <= frontier /\ floor[d] <= frontier
      BY <1>2 DEF KVInv, Fresh
    <3>2. floor'[d] = frontier \/ floor'[d] = floor[d]
      BY <1>8, Zenon
    <3> QED BY <3>1, <3>2, Zenon
  <2> QED BY <2>1, <2>2, <1>1, <1>7, Zenon DEF KVInv, Fresh
<1>17. Reflected' /\ Linearizable'
  BY <1>1, <1>7, Zenon DEF KVInv, Reflected, Linearizable, kvVars
<1>18. KVType'
  <2>1. /\ reqNo' \in [Client -> 0..MaxReq] /\ request' \in [Client -> Op \cup {Idle}]
        /\ floor' \in [Client -> Nat] /\ calls' \subseteq CallType
    BY <1>1, <1>2, <1>3, <1>4, <1>5, Zenon
  <2> QED BY <2>1, <1>1, <1>6, Zenon DEF KVInv, KVType, TypeOK, raftVars, kvVars
<1> QED BY <1>13, <1>14, <1>15, <1>16, <1>17, <1>18, Zenon DEF KVInv

\* A live call's request that its server has applied is in the log, at a
\* position that the server has come to.
LEMMA CompletedIsDecided ==
    ASSUME KVInv, NEW r \in calls, r.live, r.op.no <= CompletedPool[r.server][r.op.client]
    PROVE  \E n \in 1..CommitedId[r.server] : log[n] = r.op
<1> DEFINE c == r.op.client
           s == r.server
           k == CompletedPool[s][c]
<1>1. r.op \in Op /\ s \in Server /\ log \in Seq(Op) /\ CommitedId[s] \in Nat /\ k \in Nat /\ c \in Client
  BY OpFields DEF KVInv, KVType, TypeOK, CallType
<1>2. r.op.no \in Nat /\ r.op.no >= 1
  BY <1>1, OpFields, Zenon
<1>3. request[c] = r.op /\ r.op.no = reqNo[c] /\ r.op # Idle
  BY <1>1, OpFields DEF KVInv, OneCall, OpsKnown
<1>4. CommitedId[s] \in 0..Len(log) /\ (k = 0 \/ InLog(log, c, k, CommitedId[s]))
  BY <1>1, Zenon DEF KVInv, Reflected, Holds, Done
<1>k. r.op.no <= k /\ k # 0
  BY <1>1, <1>2
<1>5. PICK n \in 1..CommitedId[s] : log[n].client = c /\ log[n].no = k
  BY <1>4, <1>k, Zenon DEF InLog
<1>6. n \in DOMAIN log /\ log[n] \in Op
  BY <1>1, <1>4
<1>7. log[n].no <= reqNo[c] /\ (log[n].no = reqNo[c] => log[n] = r.op)
  BY <1>3, <1>5, <1>6 DEF KVInv, OpsKnown, Known
<1> HIDE DEF k, c
<1>8. k <= r.op.no
  BY <1>3, <1>5, <1>7, Zenon
<1>9. log[n].no = reqNo[c]
  BY <1>1, <1>2, <1>3, <1>5, <1>8, <1>k
<1> QED BY <1>7, <1>9, Zenon

\* The calls in cs are calls under way; those that a Clerk waits for are others than r.
Others(r, cs) ==
    /\ cs \subseteq CallType /\ IsFiniteSet(cs)
    /\ \A q \in cs : (\E p \in calls : q.op = p.op) /\ (q.live => q \in calls /\ q # r)

\* A call returns false: the Clerk, if it waits, calls again for the same request.
LEMMA ReturnFalseKeeps ==
    ASSUME KVInv, NEW r \in calls, NEW rest, Others(r, rest), Return(r, FALSE, rest),
           UNCHANGED <<log, pending, term, leaders, kvVars, saved>>
    PROVE  KVInv'
<1> DEFINE c == r.op.client
           next == NextProbe(probe[c])
           to == IF next = -1 THEN recentLeader[c] ELSE next
           w == Call(r.op, to)
<1>1. TypeOK /\ IsFiniteSet(calls) /\ calls \subseteq CallType
  BY Zenon DEF KVInv, KVType, TypeOK
<1>2. r.op \in Op /\ c \in Client
  BY <1>1, OpFields, Zenon DEF CallType
<1>3. next \in Server \cup {-1} /\ to \in Server
  <2>1. probe[c] \in Server \cup {-1} /\ recentLeader[c] \in Server
    BY <1>1, <1>2, Zenon DEF TypeOK
  <2>2. next \in Server \cup {-1}
    BY <2>1, BoundAssumption DEF NextProbe, Server
  <2> HIDE DEF next
  <2> QED BY <2>1, <2>2, Zenon
<1>4. w \in CallType /\ w.op = r.op /\ w.live
  BY <1>1, <1>2, <1>3, NewCall, Zenon
<1>5. /\ UNCHANGED <<reqNo, recentLeader, request, frontier, floor, results>>
      /\ \/ ~r.live /\ calls' = rest /\ probe' = probe
         \/ r.live /\ calls' = rest \cup {w} /\ probe' = [probe EXCEPT ![c] = next]
  BY Zenon DEF Return, clerkVars
<1> HIDE DEF w, next
<1>6. calls' \subseteq CallType /\ IsFiniteSet(calls')
  <2>1. rest \subseteq CallType /\ IsFiniteSet(rest)
    BY Zenon DEF Others
  <2>2. IsFiniteSet(rest \cup {w})
    BY <2>1, FS_AddElement, Zenon
  <2> QED BY <2>1, <2>2, <1>4, <1>5, Zenon
<1>7. OpsKnown'
  <2>1. \A o \in Op : Known(o)' => Known(o)
    BY <1>4, <1>5, Zenon DEF Known, Others
  <2> QED BY <1>5, <2>1, KnownStays, Zenon DEF KVInv
<1>8. OneCall'
  <2>1. \A q \in rest : q.live => request[q.op.client] = q.op /\ (r.live => q.op.client # c)
    BY Zenon DEF Others, KVInv, OneCall
  <2>2. \A q, p \in rest : q.live /\ p.live /\ q.op.client = p.op.client => q = p
    BY Zenon DEF Others, KVInv, OneCall
  <2>3. r.live => request[c] = r.op
    BY Zenon DEF KVInv, OneCall
  <2> QED BY <2>1, <2>2, <2>3, <1>4, <1>5, Zenon DEF OneCall
<1>9. LogOrder'
  BY <1>5, Zenon DEF KVInv, LogOrder
<1>10. Fresh' /\ Linearizable'
  BY <1>5, Zenon DEF KVInv, Fresh, Linearizable
<1>11. Reflected'
  BY Zenon DEF KVInv, Reflected, kvVars
<1>12. KVType'
  <2>1. probe' \in [Client -> Server \cup {-1}]
    BY <1>1, <1>3, <1>5, Zenon DEF TypeOK
  <2> QED BY <2>1, <1>5, <1>6, Zenon DEF KVInv, KVType, TypeOK, kvVars
<1> QED BY <1>7, <1>8, <1>9, <1>10, <1>11, <1>12, Zenon DEF KVInv

\* A call returns true: its request is in the log, after everything completed
\* before the request began, and at or before what its server has applied.
LEMMA ReturnTrueKeeps ==
    ASSUME KVInv, NEW r \in calls, NEW rest, Others(r, rest), Return(r, TRUE, rest),
           r.live => \E n \in 1..CommitedId[r.server] : log[n] = r.op,
           UNCHANGED <<log, pending, term, leaders, kvVars, saved>>
    PROVE  KVInv'
<1>1. CASE ~r.live
  <2>1. Return(r, FALSE, rest)
    BY <1>1, Zenon DEF Return
  <2> QED BY <2>1, ReturnFalseKeeps, Zenon
<1>2. CASE r.live
  <2> DEFINE c == r.op.client
             s == r.server
             at == IF r.op.kind = "Get" THEN CommitedId[s] ELSE Position(r.op)
  <2>1. /\ calls' = rest /\ request' = [request EXCEPT ![c] = Idle]
        /\ probe' = [probe EXCEPT ![c] = -1] /\ recentLeader' = [recentLeader EXCEPT ![c] = s]
        /\ results' = [results EXCEPT ![c] = [floor |-> floor[c], at |-> at]]
        /\ frontier' = IF at > frontier THEN at ELSE frontier
        /\ UNCHANGED <<reqNo, floor>>
    BY <1>2, Zenon DEF Return
  <2>2. /\ TypeOK /\ frontier \in Nat /\ floor \in [Client -> Nat]
        /\ results \in [Client -> [floor : Nat, at : Nat]]
    BY Zenon DEF KVInv, KVType
  <2>a. log \in Seq(Op) /\ request \in [Client -> Op \cup {Idle}] /\ reqNo \in [Client -> 0..MaxReq]
    BY <2>2, Zenon DEF TypeOK
  <2>b. r.op \in Op /\ s \in Server
    BY <2>2, Zenon DEF TypeOK, CallType
  <2>l. Len(log) \in Nat /\ DOMAIN log = 1..Len(log)
    BY <2>a
  <2>3. /\ log \in Seq(Op) /\ Len(log) \in Nat /\ request \in [Client -> Op \cup {Idle}]
        /\ r.op \in Op /\ s \in Server /\ reqNo \in [Client -> 0..MaxReq]
    BY <2>a, <2>b, <2>l, Zenon
  <2>4. c \in Client /\ r.op # Idle
    BY <2>3, OpFields, Zenon
  <2>5. request[c] = r.op /\ r.op.no = reqNo[c]
    BY <1>2, <2>4 DEF KVInv, OneCall, OpsKnown
  <2>6. CommitedId[s] \in 0..Len(log)
    BY <2>3, Zenon DEF KVInv, Reflected, Holds, Done
  <2>7. PICK n \in 1..CommitedId[s] : log[n] = r.op
    BY <1>2, Zenon
  <2>8. n \in DOMAIN log
    BY <2>l, <2>6
  <2>9. \A m \in DOMAIN log : log[m] = r.op => floor[c] < m
    BY <2>5, Zenon DEF KVInv, Fresh
  <2>10. at \in Nat /\ floor[c] <= at /\ at <= Len(log)
    <3>0. floor[c] \in Nat
      BY <2>2, <2>4, Zenon
    <3>1. CASE r.op.kind = "Get"
      <4>1. floor[c] < n
        BY <2>7, <2>8, <2>9, Zenon
      <4> QED BY <3>0, <3>1, <4>1, <2>l, <2>6
    <3>2. CASE r.op.kind # "Get"
      <4>1. Position(r.op) \in DOMAIN log /\ log[Position(r.op)] = r.op
        BY <2>a, <2>7, <2>8, PositionIs, Zenon DEF KVInv, LogOrder
      <4>2. Position(r.op) \in 1..Len(log) /\ floor[c] < Position(r.op)
        BY <4>1, <2>l, <2>9, Zenon
      <4> HIDE DEF c
      <4> QED BY <3>0, <3>2, <4>2, <2>l
    <3> QED BY <3>1, <3>2, Zenon
  <2> HIDE DEF at
  <2>11. OpsKnown'
    <3>1. \A o \in Op : Known(o)' => Known(o)
      BY <2>1, Zenon DEF Known, Others
    <3>2. request'[c] = Idle /\ \A d \in Client : d # c => request'[d] = request[d]
      BY <2>1, <2>3, <2>4, Zenon
    <3>3. \A o \in Op : o.client \in Client
      BY OpFields, Zenon
    <3> QED BY <3>1, <3>2, <3>3, <2>1, Zenon DEF KVInv, OpsKnown
  <2>12. LogOrder'
    <3>1. ASSUME NEW d \in Client, NEW k \in 1..reqNo[d], k < reqNo[d] \/ request'[d] = Idle
          PROVE  InLog(log, d, k, Len(log))
      <4>1. CASE k < reqNo[d]
        BY <4>1, <3>1, Zenon DEF KVInv, LogOrder
      <4>2. CASE d # c
        <5>1. request'[d] = request[d]
          BY <4>2, <2>1, <2>a, Zenon
        <5> QED BY <5>1, <3>1, Zenon DEF KVInv, LogOrder
      <4>3. CASE d = c /\ k = reqNo[d]
        <5>1. n \in 1..Len(log) /\ log[n].client = d /\ log[n].no = k
          BY <4>3, <2>l, <2>5, <2>7, <2>8, Zenon
        <5> QED BY <5>1, Zenon DEF InLog
      <4>4. reqNo[d] \in Nat
        BY <2>a
      <4> QED BY <4>1, <4>2, <4>3, <4>4
    <3> QED BY <3>1, <2>1, Zenon DEF KVInv, LogOrder
  <2>13. OneCall'
    <3>1. \A q \in rest : q.live => request[q.op.client] = q.op /\ q.op.client # c
      BY <1>2, Zenon DEF Others, KVInv, OneCall
    <3>2. \A q, p \in rest : q.live /\ p.live /\ q.op.client = p.op.client => q = p
      BY Zenon DEF Others, KVInv, OneCall
    <3>3. \A q \in rest : q.op.client \in Client
      BY OpFields, Zenon DEF Others, CallType
    <3> QED BY <3>1, <3>2, <3>3, <2>1, <2>3, Zenon DEF OneCall
  <2>14. frontier' \in Nat /\ frontier <= frontier' /\ frontier' <= Len(log)
    <3>1. frontier \in Nat /\ frontier <= Len(log)
      BY <2>2, Zenon DEF KVInv, Fresh
    <3>2. frontier' = IF at > frontier THEN at ELSE frontier
      BY <2>1, Zenon
    <3> QED BY <3>1, <3>2, <2>l, <2>10
  <2>15. Fresh'
    <3>1. \A d \in Client : floor[d] <= frontier'
      BY <2>2, <2>14 DEF KVInv, Fresh
    <3> QED BY <3>1, <2>1, <2>14, Zenon DEF KVInv, Fresh
  <2>16. Linearizable' /\ results' \in [Client -> [floor : Nat, at : Nat]]
    BY <2>1, <2>2, <2>4, <2>10, Zenon DEF KVInv, Linearizable
  <2>17. Reflected'
    BY Zenon DEF KVInv, Reflected, kvVars
  <2>18. KVType'
    <3>1. /\ request' \in [Client -> Op \cup {Idle}] /\ probe' \in [Client -> Server \cup {-1}]
          /\ recentLeader' \in [Client -> Server]
      BY <2>1, <2>2, <2>3, Zenon DEF TypeOK
    <3>2. calls' \subseteq CallType /\ IsFiniteSet(calls')
      BY <2>1, Zenon DEF Others
    <3> QED BY <3>1, <3>2, <2>1, <2>14, <2>16, Zenon DEF KVInv, KVType, TypeOK, kvVars
  <2> QED BY <2>11, <2>12, <2>13, <2>15, <2>16, <2>17, <2>18, Zenon DEF KVInv
<1> QED BY <1>1, <1>2, Zenon

\* The calls but r.
LEMMA OthersLeft ==
    ASSUME KVInv, NEW r \in calls
    PROVE  /\ Others(r, calls \ {r})
           /\ Others(r, (calls \ {r}) \cup {[r EXCEPT !.live = FALSE]})
<1> DEFINE q == [r EXCEPT !.live = FALSE]
<1>1. calls \subseteq CallType /\ IsFiniteSet(calls)
  BY Zenon DEF KVInv, KVType, TypeOK
<1>2. q \in CallType /\ q.op = r.op /\ ~q.live
  BY <1>1, Zenon DEF CallType
<1>3. IsFiniteSet(calls \ {r})
  BY <1>1, FS_RemoveElement, Zenon
<1> HIDE DEF q
<1>4. IsFiniteSet((calls \ {r}) \cup {q})
  BY <1>3, FS_AddElement, Zenon
<1>5. Others(r, calls \ {r})
  BY <1>1, <1>3, Zenon DEF Others
<1>6. Others(r, (calls \ {r}) \cup {q})
  BY <1>1, <1>2, <1>4, Zenon DEF Others
<1> QED BY <1>5, <1>6, Zenon DEF q

\* A handler's reply: success is sent for an applied request only.
LEMMA ReplyKeeps ==
    ASSUME KVInv, NEW r \in calls, NEW success \in BOOLEAN, Reply(r, success),
           success => r.op.no <= CompletedPool[r.server][r.op.client],
           UNCHANGED <<log, pending, term, leaders, kvVars, saved>>
    PROVE  KVInv'
<1>1. Others(r, calls \ {r})
  BY OthersLeft, Zenon
<1>2. CASE Return(r, FALSE, calls \ {r})
  BY <1>1, <1>2, ReturnFalseKeeps, Zenon
<1>3. CASE success /\ Return(r, TRUE, calls \ {r})
  <2>1. r.live => \E n \in 1..CommitedId[r.server] : log[n] = r.op
    BY <1>3, CompletedIsDecided, Zenon
  <2> QED BY <1>1, <1>3, <2>1, ReturnTrueKeeps, Zenon
<1>4. Return(r, FALSE, calls \ {r}) \/ (success /\ Return(r, TRUE, calls \ {r}))
  <2>1. CASE success = TRUE
    BY <2>1, Zenon DEF Reply
  <2>2. CASE success = FALSE
    BY <2>2, Zenon DEF Reply
  <2> QED BY <2>1, <2>2, Zenon
<1> QED BY <1>2, <1>3, <1>4, Zenon

\* Get and PutAppend up to the first Wait: refused, answered, or started.
LEMMA HandleKeeps ==
    ASSUME KVInv, NEW r \in calls, Handle(r)
    PROVE  KVInv'
<1> DEFINE s == r.server
<1>0. UNCHANGED <<log, term, leaders, kvVars, saved>>
  BY Zenon DEF Handle
<1>1. CASE Reply(r, FALSE) /\ UNCHANGED pending
  BY <1>0, <1>1, ReplyKeeps, Zenon
<1>2. CASE Completed(s, r.op) /\ Reply(r, TRUE) /\ UNCHANGED pending
  BY <1>0, <1>2, ReplyKeeps, Zenon DEF Completed
<1> DEFINE p == [op |-> r.op, try |-> r.try, server |-> s, term |-> term[s]]
           f == [q \in calls |->
                   IF q = r THEN [r EXCEPT !.stage = "current", !.term = term[s]]
                   ELSE IF q.server = s /\ q.op.client = r.op.client /\ q.stage = "current"
                        THEN [q EXCEPT !.stage = "stale"] ELSE q]
<1>3. CASE /\ pending' = pending \cup {p}
           /\ calls' = {f[q] : q \in calls}
           /\ UNCHANGED clerkVars
  <2>1. calls \subseteq CallType /\ r \in CallType /\ term \in [Server -> Nat]
    BY Zenon DEF KVInv, KVType, TypeOK
  <2>2. term[s] \in Nat
    BY <2>1, Zenon DEF CallType
  <2>3. \A q \in calls : f[q] \in CallType /\ f[q].op = q.op /\ f[q].live = q.live
    BY <2>1, <2>2 DEF CallType
  <2>4. f \in [calls -> CallType]
    BY <2>3, Zenon
  <2>5. p \in [op : Op, try : Nat, server : Server, term : Nat] /\ p.op = r.op
    BY <2>1, <2>2, Zenon DEF CallType
  <2> HIDE DEF f, p
  <2>6. Relabels(calls')
    BY <1>3, <2>3, <2>4, RelabelBy DEF KVInv
  <2>7. OpsKnown' /\ LogOrder' /\ OneCall' /\ Fresh' /\ Linearizable'
    BY <1>0, <1>3, <2>5, <2>6, RelabelStep, Zenon
  <2>8. KVType'
    BY <1>0, <1>3, <2>5, <2>6, Zenon DEF KVInv, KVType, TypeOK, Relabels, clerkVars, kvVars
  <2>9. Reflected'
    BY <1>0, Zenon DEF KVInv, Reflected, kvVars
  <2> QED BY <2>7, <2>8, <2>9, Zenon DEF KVInv
<1>4. \/ Reply(r, FALSE) /\ UNCHANGED pending
      \/ Completed(s, r.op) /\ Reply(r, TRUE) /\ UNCHANGED pending
      \/ pending' = pending \cup {p} /\ calls' = {f[q] : q \in calls} /\ UNCHANGED clerkVars
  BY Zenon DEF Handle
<1> QED BY <1>1, <1>2, <1>3, <1>4, Zenon

\* The handler's loop after Wait: it gives up, answers, or waits again.
LEMMA ResumeKeeps ==
    ASSUME KVInv, NEW r \in calls, Resume(r)
    PROVE  KVInv'
<1> DEFINE s == r.server
           completed == CompletedPool[s][r.op.client] = r.op.no
           f == [q \in calls |-> IF q = r THEN [r EXCEPT !.stage = "current"] ELSE q]
<1>0. UNCHANGED <<raftVars, log, pending, term, leaders, kvVars, saved>>
  BY Zenon DEF Resume, raftVars
<1>1. CASE Reply(r, FALSE)
  BY <1>0, <1>1, ReplyKeeps, Zenon
<1>2. CASE completed /\ Reply(r, TRUE)
  <2>1. r.op.no \in Nat
    <3>1. r.op \in Op
      BY Zenon DEF KVInv, KVType, TypeOK, CallType
    <3> QED BY <3>1, OpFields, Zenon
  <2>2. r.op.no <= CompletedPool[r.server][r.op.client]
    BY <1>2, <2>1
  <2> QED BY <1>0, <1>2, <2>2, ReplyKeeps, Zenon
<1>3. CASE calls' = (calls \ {r}) \cup {[r EXCEPT !.stage = "current"]} /\ UNCHANGED clerkVars
  <2>1. calls \subseteq CallType
    BY Zenon DEF KVInv, KVType, TypeOK
  <2>2. \A q \in calls : f[q] \in CallType /\ f[q].op = q.op /\ f[q].live = q.live
    BY <2>1 DEF CallType
  <2>3. f \in [calls -> CallType]
    BY <2>2, Zenon
  <2>4. calls' = {f[q] : q \in calls}
    BY <1>3, Zenon
  <2> HIDE DEF f
  <2>5. Relabels(calls')
    BY <2>2, <2>3, <2>4, RelabelBy DEF KVInv
  <2>6. OpsKnown' /\ LogOrder' /\ OneCall' /\ Fresh' /\ Linearizable'
    BY <1>0, <1>3, <2>5, RelabelStep, Zenon
  <2>7. KVType'
    BY <1>0, <1>3, <2>5, Zenon DEF KVInv, KVType, TypeOK, Relabels, clerkVars, kvVars
  <2>8. Reflected'
    BY <1>0, Zenon DEF KVInv, Reflected, kvVars
  <2> QED BY <2>6, <2>7, <2>8 DEF KVInv
<1>4. \/ Reply(r, FALSE) \/ (completed /\ Reply(r, TRUE))
      \/ calls' = (calls \ {r}) \cup {[r EXCEPT !.stage = "current"]} /\ UNCHANGED clerkVars
  BY Zenon DEF Resume
<1> QED BY <1>1, <1>2, <1>3, <1>4, Zenon

\* The network fails a call.
LEMMA FailKeeps ==
    ASSUME KVInv, NEW r \in calls, Fail(r)
    PROVE  KVInv'
<1>1. UNCHANGED <<log, pending, term, leaders, kvVars, saved>>
  BY Zenon DEF Fail, raftVars
<1>2. \/ Return(r, FALSE, calls \ {r})
      \/ Return(r, FALSE, (calls \ {r}) \cup {[r EXCEPT !.live = FALSE]})
  BY Zenon DEF Fail
<1>3. CASE Return(r, FALSE, calls \ {r})
  BY <1>1, <1>3, OthersLeft, ReturnFalseKeeps, Zenon
<1>4. CASE Return(r, FALSE, (calls \ {r}) \cup {[r EXCEPT !.live = FALSE]})
  BY <1>1, <1>4, OthersLeft, ReturnFalseKeeps, Zenon
<1> QED BY <1>2, <1>3, <1>4, Zenon

-----------------------------------------------------------------------------
(***************************************************************************)
(* Theorems.                                                               *)
(***************************************************************************)

\* Every step of Clerks, servers, network and Raft keeps KVInv.
LEMMA NextKVInv == KVInv /\ [Next]_vars => KVInv'
<1> SUFFICES ASSUME KVInv, [Next]_vars PROVE KVInv'
  BY Zenon
<1>1. ASSUME NEW c \in Client, NEW kind \in Kinds, NEW k \in Key, Begin(c, kind, k) PROVE KVInv'
  BY <1>1, BeginKeeps, Zenon
<1>2. ASSUME NEW r \in calls, Handle(r) PROVE KVInv'
  BY <1>2, HandleKeeps, Zenon
<1>3. ASSUME NEW r \in calls, Resume(r) PROVE KVInv'
  BY <1>3, ResumeKeeps, Zenon
<1>4. ASSUME NEW r \in calls, Fail(r) PROVE KVInv'
  BY <1>4, FailKeeps
<1>5. ASSUME NEW s \in Server, BroadcastAllPeoridly(s) PROVE KVInv'
  BY <1>5, BroadcastKeeps, Zenon
<1>6. ASSUME NEW s \in Server, Apply(s) PROVE KVInv'
  BY <1>6, ApplyKeeps, Zenon
<1>7. ASSUME NEW s \in Server, Snapshot(s) PROVE KVInv'
  BY <1>7, SnapshotKeeps
<1>8. ASSUME NEW s \in Server, Restart(s) PROVE KVInv'
  BY <1>8, RestartKeeps
<1>9. ASSUME NEW s \in Server, Elect(s) \/ Depose(s) PROVE KVInv'
  BY <1>9, TermKeeps, Zenon
<1>10. ASSUME NEW s \in Server, NEW t \in Server, ReadSnapshot(s, t) PROVE KVInv'
  BY <1>10, ReadSnapshotKeeps, Zenon
<1>11. ASSUME NEW p \in pending, Decide(p) PROVE KVInv'
  BY <1>11, DecideKeeps
<1>12. CASE UNCHANGED vars
  <2>1. UNCHANGED <<clerkVars, calls, raftVars, kvVars, saved, log, pending>>
    BY <1>12, Zenon DEF vars, raftVars
  <2>2. Relabels(calls')
    BY <2>1, SameCalls, Zenon DEF KVInv
  <2>3. OpsKnown' /\ LogOrder' /\ OneCall' /\ Fresh' /\ Linearizable'
    BY <2>1, <2>2, RelabelStep, Zenon
  <2>4. KVType'
    BY <2>1, Zenon DEF KVInv, KVType, TypeOK, clerkVars, raftVars, kvVars
  <2>5. Reflected'
    BY <2>1, Zenon DEF KVInv, Reflected, kvVars
  <2> QED BY <2>3, <2>4, <2>5, Zenon DEF KVInv
<1> QED BY <1>1, <1>2, <1>3, <1>4, <1>5, <1>6, <1>7, <1>8, <1>9, <1>10, <1>11, <1>12 DEF Next

\* KVInv holds in every reachable state.
LEMMA KVInvariant == Spec => []KVInv
<1> QED BY InitKVInv, NextKVInv, PTL DEF Spec

\* Every variable keeps its type; in particular the Clerk's loop never leaves
\* servers[], and a new call can always be told apart from those under way.
THEOREM ServiceTypeCorrect == Spec => []TypeOK
<1>1. KVInv => TypeOK
  BY Zenon DEF KVInv, KVType
<1> QED BY <1>1, KVInvariant, PTL

\* However often Clerks repeat a request and Raft decides it, whatever is lost,
\* snapshotted and restarted, every server's map holds each write that it has
\* applied exactly once and in the order of the log.
THEOREM WritesExactlyOnce == Spec => []ExactlyOnce
<1>1. KVInv => ExactlyOnce
  <2> SUFFICES ASSUME KVInv, NEW s \in Server, NEW k \in Key
               PROVE  LET ws == FirstWrites(k, CommitedId[s]) IN
                      /\ Len(KVMap[s][k]) = Cardinality(ws)
                      /\ \A m \in ws : KVMap[s][k][Cardinality({l \in ws : l <= m})]
                                         = <<log[m].client, log[m].no>>
    BY Zenon DEF ExactlyOnce
  <2>1. CommitedId[s] \in Nat
    BY Zenon DEF KVInv, KVType, TypeOK
  <2>2. MadeOf(log, KVMap[s][k], FirstWrites(k, CommitedId[s]))
    BY <2>1, FirstWritesIs, Zenon DEF KVInv, Reflected, Holds, Written
  <2> QED BY <2>2, Zenon DEF MadeOf
<1> QED BY <1>1, KVInvariant, PTL

\* A request that returns is due to a log position no earlier than that of any
\* request that had returned before it began: no read of the past, no
\* acknowledged write undecided, whichever server answered and however often
\* the Clerk had to ask.
THEOREM AlwaysLinearizable == Spec => []Linearizable
<1>1. KVInv => Linearizable
  BY Zenon DEF KVInv
<1> QED BY <1>1, KVInvariant, PTL
=============================================================================
