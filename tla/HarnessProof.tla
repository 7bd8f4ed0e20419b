---------------------------- MODULE HarnessProof ----------------------------
(***************************************************************************)
(* Proofs about Harness, for any servers, calls and number of restarts:    *)
(* what crash1, start1 and the network keep of a crashed process.          *)
(***************************************************************************)
EXTENDS Harness, TLAPS

PersisterState == [log : SUBSET Calls, base : SUBSET Calls, snapshot : SUBSET Calls]

Proc == [server : ServerName, ends : Nat, persister : Nat, state : PersisterState]

CallType == [stage : {"unused", "calling", "accepted", "bound", "nowhere", "waiting", "ended", "delayed",
                      "returned"},
             end : (ServerName \X ServerName \X Nat) \cup {<<>>}, handler : {"none", "running", "done"},
             name : ServerName \cup {0}, server : Nat,
             unreliable : BOOLEAN, reorder : BOOLEAN, replyOK : BOOLEAN, ok : BOOLEAN]

CrashType == [server : ServerName \cup {0}, step : {"", "delete", "copy", "raftstate", "snapshot"},
              raftlog : PersisterState]

\* Every variable the argument reads has its type.
HarnessType ==
    /\ reliable \in BOOLEAN /\ longReordering \in BOOLEAN
    /\ procs \in Seq(Proc)
    /\ Len(procs) <= MaxStarts
    /\ persisters \in Seq(PersisterState)
    /\ saved \in [ServerName -> Nat] /\ \A i \in ServerName : saved[i] <= Len(persisters)
    /\ endnames \in [ServerName -> Nat]
    /\ servers \in [ServerName -> Nat] /\ \A i \in ServerName : servers[i] <= Len(procs)
    /\ enabled \subseteq ServerName \X ServerName \X Nat
    /\ connections \in [End -> ServerName \cup {0}]
    /\ connected \subseteq ServerName
    /\ call \in [Calls -> CallType]
    /\ crash \in CrashType
    /\ late \subseteq Calls

\* A process writes to a Persister nobody else writes to, which holds its state, and
\* sends on ends nobody else sends on.
ProcsOwn ==
    \A p \in DOMAIN procs :
        /\ procs[p].ends = p
        /\ procs[p].persister \in DOMAIN persisters
        /\ persisters[procs[p].persister] = procs[p].state
        /\ \A q \in DOMAIN procs : procs[q].persister = procs[p].persister => q = p

\* What the tester keeps for a server belongs to the process added under its name.
ServersKnown ==
    \A i \in ServerName : servers[i] # 0 => /\ endnames[i] = servers[i]
                                            /\ saved[i] = procs[servers[i]].persister

\* Every Persister's log starts where its snapshot ends.
PersistersInSync == \A k \in DOMAIN persisters : persisters[k].snapshot = persisters[k].base

\* crash1: the server is deleted before its Persister is copied, and from then on
\* nobody writes to the one that is read.
CrashOrder ==
    /\ crash.step = "" <=> crash.server = 0
    /\ crash.step # "" => saved[crash.server] # 0
    /\ crash.step \in {"copy", "raftstate", "snapshot"} => servers[crash.server] = 0
    /\ crash.step \in {"raftstate", "snapshot"} =>
          \A p \in DOMAIN procs : procs[p].persister # saved[crash.server]
    /\ crash.step = "snapshot" => crash.raftlog = persisters[saved[crash.server]]

\* Only ends of a process that is not being crashed are enabled, to servers that
\* have been started.
EnabledRuns ==
    /\ \A i, j \in ServerName, g \in Nat : <<i, j, g>> \in enabled =>
          g # 0 /\ servers[i] = g /\ crash.server # i /\ endnames[j] # 0
    /\ \A i \in connected : servers[i] # 0 /\ crash.server # i

\* A call r that is bound has a process; if its answer has been received that process
\* has recorded it; if it returns true the server's Persister has it.
Recorded(c, r) ==
    /\ r.stage \in {"bound", "waiting", "ended", "delayed"} \/ r.handler # "none" =>
          r.server \in DOMAIN procs /\ r.name \in ServerName
    /\ r.stage \in {"unused", "calling", "accepted", "bound", "nowhere"} => r.handler = "none"
    /\ r.replyOK => r.handler = "done"
    /\ r.handler = "done" => c \in procs[r.server].state.log \cup procs[r.server].state.base
    /\ r.stage = "delayed" \/ (r.stage = "returned" /\ r.ok) =>
          /\ r.name \in ServerName
          /\ saved[r.name] # 0
          /\ c \in persisters[saved[r.name]].log \cup persisters[saved[r.name]].base
CallsRecorded == \A c \in Calls : Recorded(c, call[c])

\* A call r made after the crash is on an end of a process that will never run again.
Stranded(r) ==
    /\ r.stage \in {"calling", "accepted", "nowhere", "returned"} /\ r.handler = "none"
    /\ \E i, j \in ServerName, g \in DOMAIN procs :
          r.end = <<i, j, g>> /\ ~(servers[i] = g /\ crash.server # i)
LateNowhere == \A c \in late : Stranded(call[c])

\* The inductive invariant.
HarnessInv == /\ HarnessType /\ ProcsOwn /\ ServersKnown /\ PersistersInSync /\ CrashOrder
              /\ EnabledRuns /\ CallsRecorded /\ LateNowhere

-----------------------------------------------------------------------------
\* A network without servers satisfies the invariant.
LEMMA InitHarnessInv == Init => HarnessInv
<1> SUFFICES ASSUME Init PROVE HarnessInv
  OBVIOUS
<1>1. HarnessType
  <2>1. Empty \in PersisterState
    BY DEF Empty, PersisterState
  <2>2. NoCall \in CallType
    BY DEF NoCall, CallType
  <2>3. NoCrash \in CrashType
    BY <2>1 DEF NoCrash, CrashType
  <2>4. /\ procs = <<>> /\ persisters = <<>> /\ connected = {} /\ late = {} /\ crash = NoCrash
        /\ reliable \in BOOLEAN /\ longReordering \in BOOLEAN /\ enabled = {}
        /\ call \in [Calls -> CallType]
    BY <2>2 DEF Init, MakeNetwork
  <2>5. /\ saved \in [ServerName -> Nat] /\ endnames \in [ServerName -> Nat] /\ servers \in [ServerName -> Nat]
        /\ connections \in [End -> ServerName \cup {0}]
        /\ \A i \in ServerName : saved[i] = 0 /\ servers[i] = 0
    BY DEF Init, MakeNetwork
  <2>6. Len(procs) <= MaxStarts
    BY <2>4, HarnessAssumption
  <2> QED BY <2>3, <2>4, <2>5, <2>6 DEF HarnessType
<1>2. ProcsOwn /\ ServersKnown /\ PersistersInSync /\ EnabledRuns /\ LateNowhere
  BY DEF Init, MakeNetwork, ProcsOwn, ServersKnown, PersistersInSync, EnabledRuns, LateNowhere
<1>3. CrashOrder
  BY DEF Init, CrashOrder, NoCrash
<1>4. CallsRecorded
  BY DEF Init, MakeNetwork, CallsRecorded, Recorded, NoCall
<1> QED BY <1>1, <1>2, <1>3, <1>4 DEF HarnessInv

\* Conjuncts that are not about the ends, when only ends are enabled or disabled.
LEMMA EndsFrame ==
    ASSUME HarnessInv, UNCHANGED <<servers, call, procs, persisters, saved, endnames, crash, late>>
    PROVE  ProcsOwn' /\ ServersKnown' /\ PersistersInSync' /\ CrashOrder' /\ CallsRecorded' /\ LateNowhere'
<1>1. ProcsOwn'
  BY DEF HarnessInv, ProcsOwn
<1>2. ServersKnown'
  BY DEF HarnessInv, ServersKnown
<1>3. PersistersInSync'
  BY DEF HarnessInv, PersistersInSync
<1>4. CrashOrder'
  BY DEF HarnessInv, CrashOrder
<1>5. CallsRecorded'
  BY DEF HarnessInv, CallsRecorded, Recorded
<1>6. LateNowhere'
  BY DEF HarnessInv, LateNowhere, Stranded
<1> QED BY <1>1, <1>2, <1>3, <1>4, <1>5, <1>6

\* connect(i) enables ends between servers that run.
LEMMA connectInv ==
    ASSUME HarnessInv, NEW i \in ServerName, connect(i) PROVE HarnessInv'
<1> USE DEF HarnessInv
<1>1. UNCHANGED <<reliable, longReordering, connections, servers, call, procs, persisters, saved,
                  endnames, crash, late>>
  BY DEF connect
<1>2. ProcsOwn' /\ ServersKnown' /\ PersistersInSync' /\ CrashOrder' /\ CallsRecorded' /\ LateNowhere'
  BY <1>1, EndsFrame
<1>3. \A j \in connected' : j \in ServerName /\ servers[j] # 0 /\ crash.server # j
  BY HarnessAssumption DEF connect, Ready, NoCrash, EnabledRuns, HarnessType
<1>4. \A e \in enabled' \ enabled : \E j, k \in connected' : e = <<j, k, endnames[j]>>
  BY DEF connect, Enable, Around, Outgoing
<1>5. HarnessType'
  BY <1>1, <1>3, <1>4 DEF HarnessType
<1>6. \A j \in ServerName : servers[j] # 0 => endnames[j] = servers[j]
  BY DEF ServersKnown
<1>7. ASSUME NEW j \in ServerName, NEW k \in ServerName, NEW g \in Nat, <<j, k, g>> \in enabled'
      PROVE  g # 0 /\ servers[j] = g /\ crash.server # j /\ endnames[k] # 0
  <2>1. CASE <<j, k, g>> \in enabled
    BY <2>1 DEF EnabledRuns
  <2>2. CASE <<j, k, g>> \notin enabled
    <3>1. j \in connected' /\ k \in connected' /\ g = endnames[j]
      BY <1>4, <1>7, <2>2
    <3> QED BY <1>3, <1>6, <3>1
  <2> QED BY <2>1, <2>2
<1>8. EnabledRuns'
  BY <1>1, <1>3, <1>7 DEF EnabledRuns
<1> QED BY <1>2, <1>5, <1>8

\* disconnect(i) leaves no end from or to server i enabled.
LEMMA disconnectEnds ==
    ASSUME HarnessInv, NEW i \in ServerName, servers[i] # 0, disconnect(i)
    PROVE  /\ enabled' \subseteq enabled /\ connected' = connected \ {i}
           /\ \A j \in ServerName, g \in Nat : <<i, j, g>> \notin enabled'
<1> SUFFICES ASSUME NEW j \in ServerName, NEW g \in Nat, <<i, j, g>> \in enabled
             PROVE  <<i, j, g>> \notin enabled'
  BY DEF disconnect, Enable
<1>1. endnames[i] = g /\ endnames[j] # 0
  BY DEF HarnessInv, EnabledRuns, ServersKnown
<1> QED BY <1>1 DEF disconnect, Enable, Around, Outgoing

\* The tester detaches a server that goes on running.
LEMMA DetachInv ==
    ASSUME HarnessInv, NEW i \in ServerName, Detach(i) PROVE HarnessInv'
<1> USE DEF HarnessInv
<1>1. UNCHANGED <<reliable, longReordering, connections, servers, call, procs, persisters, saved,
                  endnames, crash, late>>
  BY DEF Detach, disconnect
<1>2. ProcsOwn' /\ ServersKnown' /\ PersistersInSync' /\ CrashOrder' /\ CallsRecorded' /\ LateNowhere'
  BY <1>1, EndsFrame
<1>3. enabled' \subseteq enabled /\ connected' \subseteq connected
  BY DEF Detach, disconnect, Enable
<1>4. HarnessType'
  BY <1>1, <1>3 DEF HarnessType
<1>5. EnabledRuns'
  BY <1>1, <1>3 DEF EnabledRuns
<1> QED BY <1>2, <1>4, <1>5

\* crash1 begins: the server's ends are disabled before anything else.
LEMMA crashBeginsInv ==
    ASSUME HarnessInv, NEW i \in ServerName, crashBegins(i) PROVE HarnessInv'
<1> USE DEF HarnessInv
<1>1. /\ UNCHANGED <<reliable, longReordering, connections, servers, call, procs, persisters, saved,
                     endnames, late>>
      /\ servers[i] # 0 /\ crash = NoCrash
  BY DEF crashBegins, disconnect, Ready
<1>2. crash' = [server |-> i, step |-> "delete", raftlog |-> Empty]
  BY DEF crashBegins, NoCrash
<1>3. ProcsOwn' /\ ServersKnown' /\ PersistersInSync' /\ CallsRecorded'
  BY <1>1 DEF ProcsOwn, ServersKnown, PersistersInSync, CallsRecorded, Recorded
<1>4. saved[i] # 0 /\ i # 0
  <2>1. servers[i] \in DOMAIN procs
    BY <1>1 DEF HarnessType
  <2>2. procs[servers[i]].persister \in DOMAIN persisters /\ DOMAIN persisters = 1..Len(persisters)
    BY <2>1 DEF ProcsOwn, HarnessType
  <2> QED BY <1>1, <2>2, HarnessAssumption DEF ServersKnown
<1>5. CrashOrder'
  BY <1>1, <1>2, <1>4 DEF CrashOrder
<1>6. LateNowhere'
  <2> SUFFICES ASSUME NEW c \in late
               PROVE  \E k, j \in ServerName, g \in DOMAIN procs :
                         call[c].end = <<k, j, g>> /\ ~(servers[k] = g /\ crash'.server # k)
    BY <1>1 DEF LateNowhere, Stranded
  <2>1. PICK k, j \in ServerName, g \in DOMAIN procs :
           call[c].end = <<k, j, g>> /\ ~(servers[k] = g /\ crash.server # k)
    BY DEF LateNowhere, Stranded
  <2>2. servers[k] # g
    BY <2>1, <1>1, HarnessAssumption DEF NoCrash
  <2> QED BY <2>1, <2>2
<1>7. /\ enabled' \subseteq enabled /\ connected' = connected \ {i}
      /\ \A j \in ServerName, g \in Nat : <<i, j, g>> \notin enabled'
  BY <1>1, disconnectEnds DEF crashBegins
<1>8. EnabledRuns'
  BY <1>1, <1>2, <1>7 DEF EnabledRuns, HarnessType
<1>9. HarnessType'
  BY <1>1, <1>2, <1>7 DEF HarnessType, CrashType, Empty, PersisterState
<1> QED BY <1>3, <1>5, <1>6, <1>8, <1>9

\* crash1 deletes the server: its process is not running any more.
LEMMA crashDeletesInv == ASSUME HarnessInv, crashDeletes PROVE HarnessInv'
<1> USE DEF HarnessInv
<1> DEFINE i == crash.server
<1>1. /\ UNCHANGED <<reliable, longReordering, enabled, connections, call, procs, persisters, saved,
                     endnames, connected, late>>
      /\ i \in ServerName /\ crash.step = "delete" /\ servers' = [servers EXCEPT ![i] = 0]
      /\ crash' = [crash EXCEPT !.step = "copy"]
  BY DEF crashDeletes, DeleteServer, CrashOrder, HarnessType, CrashType
<1>2. /\ crash'.server = i /\ crash'.step = "copy" /\ crash'.raftlog = crash.raftlog
      /\ crash' \in CrashType
  BY <1>1 DEF HarnessType, CrashType
<1>3. ProcsOwn' /\ PersistersInSync' /\ CallsRecorded'
  BY <1>1 DEF ProcsOwn, PersistersInSync, CallsRecorded, Recorded
<1>4. ServersKnown'
  BY <1>1 DEF ServersKnown, HarnessType
<1>8. HarnessType'
  BY <1>1, <1>2 DEF HarnessType
<1>5. CrashOrder'
  BY <1>1, <1>2 DEF CrashOrder, HarnessType
<1>6. EnabledRuns'
  BY <1>1, <1>2 DEF EnabledRuns, HarnessType
<1>7. LateNowhere'
  <2>1. \A k \in ServerName : servers'[k] = IF k = i THEN 0 ELSE servers[k]
    BY <1>1 DEF HarnessType
  <2>2. \A k \in ServerName, g \in DOMAIN procs :
           ~(servers[k] = g /\ crash.server # k) => ~(servers'[k] = g /\ crash'.server # k)
    BY <1>2, <2>1
  <2> QED BY <1>1, <2>2 DEF LateNowhere, Stranded
<1> QED BY <1>3, <1>4, <1>5, <1>6, <1>7, <1>8

-----------------------------------------------------------------------------
\* What Append does to a sequence.
LEMMA AppendLemma ==
    ASSUME NEW S, NEW s \in Seq(S), NEW x \in S
    PROVE  /\ Append(s, x) \in Seq(S)
           /\ Len(s) \in Nat /\ DOMAIN s = 1..Len(s)
           /\ Len(Append(s, x)) = Len(s) + 1
           /\ DOMAIN Append(s, x) = DOMAIN s \cup {Len(s) + 1}
           /\ \A k \in DOMAIN s : Append(s, x)[k] = s[k]
           /\ Append(s, x)[Len(s) + 1] = x
OBVIOUS

\* What replacing one element does to a sequence.
LEMMA ReplaceLemma ==
    ASSUME NEW S, NEW s \in Seq(S), NEW k \in DOMAIN s, NEW x \in S
    PROVE  /\ [s EXCEPT ![k] = x] \in Seq(S)
           /\ Len([s EXCEPT ![k] = x]) = Len(s)
           /\ DOMAIN [s EXCEPT ![k] = x] = DOMAIN s
           /\ \A m \in DOMAIN s : [s EXCEPT ![k] = x][m] = IF m = k THEN x ELSE s[m]
OBVIOUS

\* A call stays stranded while no server is added or deleted.
LEMMA StrandedFrame ==
    ASSUME NEW c \in Calls, Stranded(call[c]), call'[c].end = call[c].end,
           call'[c].stage \in {"calling", "accepted", "nowhere", "returned"}, call'[c].handler = "none",
           DOMAIN procs' = DOMAIN procs, servers' = servers, crash' = crash
    PROVE  Stranded(call[c])'
<1>1. PICK i, j \in ServerName, g \in DOMAIN procs :
         call[c].end = <<i, j, g>> /\ ~(servers[i] = g /\ crash.server # i)
  BY Zenon DEF Stranded
<1>2. g \in DOMAIN procs' /\ call'[c].end = <<i, j, g>> /\ ~(servers'[i] = g /\ crash'.server # i)
  BY <1>1, Zenon
<1>3. \E i1, j1 \in ServerName, g1 \in DOMAIN procs' :
         call'[c].end = <<i1, j1, g1>> /\ ~(servers'[i1] = g1 /\ crash'.server # i1)
  BY <1>2, Zenon
<1> QED BY <1>3, Zenon DEF Stranded

\* A call that does not change stays stranded too.
LEMMA StrandedSame ==
    ASSUME NEW c \in Calls, Stranded(call[c]), call'[c] = call[c],
           DOMAIN procs' = DOMAIN procs, servers' = servers, crash' = crash
    PROVE  Stranded(call[c])'
<1>1. call[c].stage \in {"calling", "accepted", "nowhere", "returned"} /\ call[c].handler = "none"
  BY Zenon DEF Stranded
<1>2. /\ call'[c].stage \in {"calling", "accepted", "nowhere", "returned"} /\ call'[c].handler = "none"
      /\ call'[c].end = call[c].end
  BY <1>1, Zenon
<1> QED BY <1>2, StrandedFrame, Zenon

\* No process and no Persister has number 0.
LEMMA Positions == HarnessInv => 0 \notin DOMAIN procs /\ 0 \notin DOMAIN persisters
<1>1. HarnessInv => DOMAIN procs = 1..Len(procs) /\ DOMAIN persisters = 1..Len(persisters)
  BY DEF HarnessInv, HarnessType
<1> QED BY <1>1

\* What HarnessInv says of one process.
LEMMA ProcLemma ==
    ASSUME HarnessInv, NEW p \in DOMAIN procs
    PROVE  /\ p \in Nat /\ procs[p] \in Proc /\ procs[p].server \in ServerName /\ procs[p].ends = p
           /\ procs[p].persister \in DOMAIN persisters
           /\ procs[p].state \in PersisterState /\ procs[p].state.snapshot = procs[p].state.base
           /\ persisters[procs[p].persister] = procs[p].state
<1>1. procs \in Seq(Proc) /\ persisters \in Seq(PersisterState)
  BY DEF HarnessInv, HarnessType
<1>2. p \in Nat /\ procs[p] \in Proc
  BY <1>1
<1>3. /\ procs[p].ends = p /\ procs[p].persister \in DOMAIN persisters
      /\ persisters[procs[p].persister] = procs[p].state
  BY DEF HarnessInv, ProcsOwn
<1>4. persisters[procs[p].persister].snapshot = persisters[procs[p].persister].base
  BY <1>3 DEF HarnessInv, PersistersInSync
<1> QED BY <1>2, <1>3, <1>4 DEF Proc

\* What a Copy of a Persister is.
LEMMA CopyLemma == \A ps \in PersisterState : Copy(ps) = ps
BY DEF Copy, PersisterState

\* A Persister ps is added for server i, holding what the last one held: what any
\* server would be restarted from stays the same.
LEMMA PersisterAdded ==
    ASSUME HarnessInv, NEW i \in ServerName, NEW ps \in PersisterState, ps.snapshot = ps.base,
           saved[i] # 0 => ps = persisters[saved[i]],
           persisters' = Append(persisters, ps), saved' = [saved EXCEPT ![i] = Len(persisters) + 1]
    PROVE  /\ persisters' \in Seq(PersisterState)
           /\ saved' \in [ServerName -> Nat] /\ \A n \in ServerName : saved'[n] <= Len(persisters')
           /\ PersistersInSync'
           /\ DOMAIN persisters' = DOMAIN persisters \cup {Len(persisters) + 1}
           /\ Len(persisters) + 1 \notin DOMAIN persisters
           /\ \A k \in DOMAIN persisters : persisters'[k] = persisters[k]
           /\ saved'[i] = Len(persisters) + 1 /\ persisters'[Len(persisters) + 1] = ps
           /\ \A n \in ServerName : saved[n] # 0 =>
                 saved'[n] # 0 /\ persisters'[saved'[n]] = persisters[saved[n]]
<1>1. persisters \in Seq(PersisterState) /\ saved \in [ServerName -> Nat]
      /\ \A n \in ServerName : saved[n] <= Len(persisters)
  BY DEF HarnessInv, HarnessType
<1>2. /\ persisters' \in Seq(PersisterState)
      /\ Len(persisters) \in Nat /\ DOMAIN persisters = 1..Len(persisters)
      /\ Len(persisters') = Len(persisters) + 1
      /\ DOMAIN persisters' = DOMAIN persisters \cup {Len(persisters) + 1}
      /\ \A k \in DOMAIN persisters : persisters'[k] = persisters[k]
      /\ persisters'[Len(persisters) + 1] = ps
  BY <1>1, AppendLemma
<1>3. PersistersInSync'
  BY <1>2 DEF HarnessInv, PersistersInSync
<1>4. \A n \in ServerName : saved'[n] = IF n = i THEN Len(persisters) + 1 ELSE saved[n]
  BY <1>1
<1>5. \A n \in ServerName : saved[n] # 0 => saved'[n] # 0 /\ persisters'[saved'[n]] = persisters[saved[n]]
  BY <1>1, <1>2, <1>4
<1>6. saved' \in [ServerName -> Nat] /\ \A n \in ServerName : saved'[n] <= Len(persisters')
  BY <1>1, <1>2, <1>4
<1> QED BY <1>2, <1>3, <1>4, <1>5, <1>6

\* The calls' records stay when processes and what is saved for a server only grow.
LEMMA RecordedFrame ==
    ASSUME HarnessInv,
           \A p \in DOMAIN procs : p \in DOMAIN procs' /\
              procs[p].state.log \cup procs[p].state.base \subseteq procs'[p].state.log \cup procs'[p].state.base,
           \A n \in ServerName : saved[n] # 0 => saved'[n] # 0 /\
              persisters[saved[n]].log \cup persisters[saved[n]].base
                 \subseteq persisters'[saved'[n]].log \cup persisters'[saved'[n]].base,
           NEW c \in Calls, call'[c] = call[c]
    PROVE  Recorded(c, call[c])'
<1> Recorded(c, call[c])
  BY DEF HarnessInv, CallsRecorded
<1> QED BY DEF Recorded

\* crash1 copies the Persister: the crashed process keeps the old one to itself.
LEMMA crashCopiesInv == ASSUME HarnessInv, crashCopies PROVE HarnessInv'
<1> DEFINE i == crash.server
           ps == persisters[saved[i]]
<1>1. /\ UNCHANGED <<reliable, longReordering, enabled, connections, servers, call, procs, endnames,
                     connected, late>>
      /\ i \in ServerName /\ crash.step = "copy" /\ saved[i] # 0 /\ servers[i] = 0
      /\ persisters' = Append(persisters, Copy(ps)) /\ saved' = [saved EXCEPT ![i] = Len(persisters) + 1]
      /\ crash' = [crash EXCEPT !.step = "raftstate"]
  BY DEF HarnessInv, crashCopies, supersede, netVars, CrashOrder, HarnessType, CrashType
<1>2. saved[i] \in DOMAIN persisters
  BY <1>1 DEF HarnessInv, HarnessType
<1>3. ps \in PersisterState /\ ps.snapshot = ps.base /\ Copy(ps) = ps
  BY <1>2, CopyLemma DEF HarnessInv, HarnessType, PersistersInSync
<1>4. crash'.server = i /\ crash'.step = "raftstate" /\ crash' \in CrashType
  BY <1>1 DEF HarnessInv, HarnessType, CrashType
<1> HIDE DEF i, ps
<1>5. /\ persisters' \in Seq(PersisterState)
      /\ saved' \in [ServerName -> Nat] /\ \A n \in ServerName : saved'[n] <= Len(persisters')
      /\ PersistersInSync'
      /\ DOMAIN persisters' = DOMAIN persisters \cup {Len(persisters) + 1}
      /\ Len(persisters) + 1 \notin DOMAIN persisters
      /\ \A k \in DOMAIN persisters : persisters'[k] = persisters[k]
      /\ saved'[i] = Len(persisters) + 1 /\ persisters'[Len(persisters) + 1] = ps
      /\ \A n \in ServerName : saved[n] # 0 =>
            saved'[n] # 0 /\ persisters'[saved'[n]] = persisters[saved[n]]
  BY <1>1, <1>3, PersisterAdded DEF ps
<1>6. HarnessType'
  BY <1>1, <1>4, <1>5 DEF HarnessInv, HarnessType
<1>7. ProcsOwn'
  BY <1>1, <1>5 DEF HarnessInv, ProcsOwn
<1>8. ServersKnown'
  BY <1>1 DEF HarnessInv, ServersKnown, HarnessType
<1>9. CrashOrder'
  BY <1>1, <1>4, <1>5, HarnessAssumption DEF HarnessInv, CrashOrder, ProcsOwn
<1>10. EnabledRuns' /\ LateNowhere'
  BY <1>1, <1>4 DEF HarnessInv, EnabledRuns, LateNowhere, Stranded, i
<1>11. CallsRecorded'
  BY <1>1, <1>5, RecordedFrame DEF CallsRecorded
<1> QED BY <1>5, <1>6, <1>7, <1>8, <1>9, <1>10, <1>11 DEF HarnessInv

\* crash1 reads the log of the copy.
LEMMA crashReadsInv == ASSUME HarnessInv, crashReads PROVE HarnessInv'
<1>1. /\ UNCHANGED <<reliable, longReordering, enabled, connections, servers, call, procs, persisters,
                     saved, endnames, connected, late>>
      /\ crash.server \in ServerName /\ crash.step = "raftstate" /\ saved[crash.server] # 0
      /\ crash' = [crash EXCEPT !.step = "snapshot", !.raftlog = persisters[saved[crash.server]]]
  BY DEF HarnessInv, crashReads, netVars, CrashOrder, HarnessType, CrashType
<1>2. persisters[saved[crash.server]] \in PersisterState
  BY <1>1 DEF HarnessInv, HarnessType
<1>3. /\ crash'.server = crash.server /\ crash'.step = "snapshot" /\ crash' \in CrashType
      /\ crash'.raftlog = persisters[saved[crash.server]]
  BY <1>1, <1>2 DEF HarnessInv, HarnessType, CrashType
<1>4. HarnessType'
  BY <1>1, <1>3 DEF HarnessInv, HarnessType
<1>5. ProcsOwn' /\ ServersKnown' /\ PersistersInSync'
  BY <1>1 DEF HarnessInv, ProcsOwn, ServersKnown, PersistersInSync
<1>6. CrashOrder'
  BY <1>1, <1>3 DEF HarnessInv, CrashOrder
<1>7. EnabledRuns' /\ LateNowhere'
  BY <1>1, <1>3 DEF HarnessInv, EnabledRuns, LateNowhere, Stranded
<1>8. CallsRecorded'
  BY <1>1 DEF HarnessInv, CallsRecorded, Recorded
<1> QED BY <1>4, <1>5, <1>6, <1>7, <1>8 DEF HarnessInv

\* crash1 ends with a Persister that has the log it read and the snapshot it reads
\* now: nobody has written between the two.
LEMMA crashSavesInv == ASSUME HarnessInv, crashSaves PROVE HarnessInv'
<1> DEFINE i == crash.server
           ps == persisters[saved[i]]
<1>1. /\ UNCHANGED <<reliable, longReordering, enabled, connections, servers, call, procs, endnames,
                     connected, late>>
      /\ i \in ServerName /\ saved[i] # 0 /\ servers[i] = 0 /\ crash.raftlog = ps
      /\ persisters' = Append(persisters, SaveStateAndSnapshot(Empty, crash.raftlog, ps.snapshot))
      /\ saved' = [saved EXCEPT ![i] = Len(persisters) + 1]
      /\ crash' = NoCrash
  BY DEF HarnessInv, crashSaves, netVars, CrashOrder, HarnessType, CrashType
<1>2. saved[i] \in DOMAIN persisters
  BY <1>1 DEF HarnessInv, HarnessType
<1>3. ps \in PersisterState /\ ps.snapshot = ps.base
  BY <1>2 DEF HarnessInv, HarnessType, PersistersInSync
<1>4. SaveStateAndSnapshot(Empty, crash.raftlog, ps.snapshot) = ps
  BY <1>1, <1>3 DEF SaveStateAndSnapshot, PersisterState
<1>5. crash'.server = 0 /\ crash'.step = "" /\ crash' \in CrashType
  BY <1>1 DEF NoCrash, CrashType, Empty, PersisterState
<1> HIDE DEF i, ps
<1>6. /\ persisters' \in Seq(PersisterState)
      /\ saved' \in [ServerName -> Nat] /\ \A n \in ServerName : saved'[n] <= Len(persisters')
      /\ PersistersInSync'
      /\ DOMAIN persisters' = DOMAIN persisters \cup {Len(persisters) + 1}
      /\ Len(persisters) + 1 \notin DOMAIN persisters
      /\ \A k \in DOMAIN persisters : persisters'[k] = persisters[k]
      /\ \A n \in ServerName : saved[n] # 0 =>
            saved'[n] # 0 /\ persisters'[saved'[n]] = persisters[saved[n]]
  BY <1>1, <1>3, <1>4, PersisterAdded DEF ps
<1>7. HarnessType'
  BY <1>1, <1>5, <1>6 DEF HarnessInv, HarnessType
<1>8. ProcsOwn'
  BY <1>1, <1>6 DEF HarnessInv, ProcsOwn
<1>9. ServersKnown'
  BY <1>1 DEF HarnessInv, ServersKnown, HarnessType
<1>10. CrashOrder'
  BY <1>5 DEF CrashOrder
<1>11. EnabledRuns'
  BY <1>1, <1>5, HarnessAssumption DEF HarnessInv, EnabledRuns, HarnessType
<1>12. LateNowhere'
  <2>1. \A g \in DOMAIN procs : g # 0
    BY DEF HarnessInv, HarnessType
  <2>2. \A k \in ServerName, g \in DOMAIN procs :
           ~(servers[k] = g /\ crash.server # k) => ~(servers[k] = g /\ crash'.server # k)
    BY <1>1, <2>1 DEF i
  <2> QED BY <1>1, <2>2 DEF HarnessInv, LateNowhere, Stranded
<1>13. CallsRecorded'
  BY <1>1, <1>6, RecordedFrame DEF CallsRecorded
<1> QED BY <1>6, <1>7, <1>8, <1>9, <1>10, <1>11, <1>12, <1>13 DEF HarnessInv

\* start1: the new process has ends and a Persister of its own.
LEMMA start1Inv == ASSUME HarnessInv, NEW i \in ServerName, start1(i) PROVE HarnessInv'
<1> DEFINE p == Len(procs) + 1
           ps == IF saved[i] = 0 THEN Empty ELSE Copy(persisters[saved[i]])
           proc == [server |-> i, ends |-> p, persister |-> Len(persisters) + 1, state |-> ps]
           to == [e \in {<<i, j, p>> : j \in ServerName} |-> e[2]]
<1>1. /\ UNCHANGED <<reliable, longReordering, call, connected, crash, late>>
      /\ crash = NoCrash /\ servers[i] = 0 /\ Len(procs) < MaxStarts
      /\ endnames' = [endnames EXCEPT ![i] = p]
      /\ enabled' \subseteq enabled
      /\ connections' = [e \in End |-> IF e \in DOMAIN to THEN to[e] ELSE connections[e]]
      /\ persisters' = Append(persisters, ps)
      /\ saved' = [saved EXCEPT ![i] = Len(persisters) + 1]
      /\ procs' = Append(procs, proc)
      /\ servers' = [servers EXCEPT ![i] = p]
  BY DEF start1, freshEnds, Ready, Connect, AddServer
<1>2. ps \in PersisterState /\ ps.snapshot = ps.base /\ (saved[i] # 0 => ps = persisters[saved[i]])
  <2>1. CASE saved[i] = 0
    BY <2>1 DEF Empty, PersisterState
  <2>2. CASE saved[i] # 0
    <3>1. saved[i] \in DOMAIN persisters
      BY <2>2 DEF HarnessInv, HarnessType
    <3>2. persisters[saved[i]] \in PersisterState
      BY <3>1 DEF HarnessInv, HarnessType
    <3> QED BY <2>2, <3>1, <3>2, CopyLemma DEF HarnessInv, PersistersInSync
  <2> QED BY <2>1, <2>2
<1>3. connections' \in [End -> ServerName \cup {0}]
  BY <1>1 DEF HarnessInv, HarnessType
<1> HIDE DEF ps, to
<1>4. /\ persisters' \in Seq(PersisterState)
      /\ saved' \in [ServerName -> Nat] /\ \A n \in ServerName : saved'[n] <= Len(persisters')
      /\ PersistersInSync'
      /\ DOMAIN persisters' = DOMAIN persisters \cup {Len(persisters) + 1}
      /\ Len(persisters) + 1 \notin DOMAIN persisters
      /\ \A k \in DOMAIN persisters : persisters'[k] = persisters[k]
      /\ saved'[i] = Len(persisters) + 1 /\ persisters'[Len(persisters) + 1] = ps
      /\ \A n \in ServerName : saved[n] # 0 =>
            saved'[n] # 0 /\ persisters'[saved'[n]] = persisters[saved[n]]
  BY <1>1, <1>2, PersisterAdded
<1>5. Len(persisters) \in Nat /\ Len(procs) \in Nat /\ DOMAIN procs = 1..Len(procs)
  BY DEF HarnessInv, HarnessType
<1>6. proc \in Proc
  BY <1>2, <1>5 DEF Proc
<1>7. /\ procs' \in Seq(Proc)
      /\ Len(procs') = p /\ DOMAIN procs' = DOMAIN procs \cup {p}
      /\ \A q \in DOMAIN procs : procs'[q] = procs[q]
      /\ procs'[p] = proc
  <2>1. procs \in Seq(Proc)
    BY DEF HarnessInv, HarnessType
  <2>2. procs' = Append(procs, proc)
    BY <1>1
  <2> HIDE DEF proc
  <2>3. /\ Append(procs, proc) \in Seq(Proc) /\ Len(Append(procs, proc)) = Len(procs) + 1
        /\ DOMAIN Append(procs, proc) = DOMAIN procs \cup {Len(procs) + 1}
        /\ \A q \in DOMAIN procs : Append(procs, proc)[q] = procs[q]
        /\ Append(procs, proc)[Len(procs) + 1] = proc
    BY <1>6, <2>1, AppendLemma
  <2> QED BY <2>2, <2>3, Zenon
<1>8. \A n \in ServerName : servers'[n] = (IF n = i THEN p ELSE servers[n])
                            /\ endnames'[n] = (IF n = i THEN p ELSE endnames[n])
                            /\ (n # i => saved'[n] = saved[n])
  BY <1>1 DEF HarnessInv, HarnessType
<1>9. proc.ends = p /\ proc.persister = Len(persisters) + 1 /\ proc.state = ps
  OBVIOUS
<1> HIDE DEF proc
<1>10. HarnessType'
  <2>1. Len(procs') <= MaxStarts
    BY <1>1, <1>5, <1>7, HarnessAssumption
  <2>2. servers' \in [ServerName -> Nat] /\ \A n \in ServerName : servers'[n] <= Len(procs')
    BY <1>1, <1>5, <1>7, <1>8 DEF HarnessInv, HarnessType
  <2>3. endnames' \in [ServerName -> Nat]
    BY <1>1, <1>5 DEF HarnessInv, HarnessType
  <2> QED BY <1>1, <1>3, <1>4, <1>7, <2>1, <2>2, <2>3 DEF HarnessInv, HarnessType
<1>11. ProcsOwn'
  <2>1. \A q \in DOMAIN procs : procs[q].persister \in DOMAIN persisters /\ procs[q].persister # Len(persisters) + 1
    BY <1>4 DEF HarnessInv, ProcsOwn
  <2> QED BY <1>4, <1>7, <1>9, <2>1 DEF HarnessInv, ProcsOwn
<1>12. ServersKnown'
  <2>1. \A n \in ServerName : servers[n] # 0 => servers[n] \in DOMAIN procs
    BY <1>5 DEF HarnessInv, HarnessType
  <2> QED BY <1>4, <1>7, <1>8, <1>9, <2>1 DEF HarnessInv, ServersKnown
<1>13. CrashOrder'
  BY <1>1 DEF CrashOrder, NoCrash
<1>14. EnabledRuns'
  <2>1. \A n \in connected : n # i
    BY <1>1 DEF HarnessInv, EnabledRuns
  <2>2. p # 0
    BY <1>5
  <2> QED BY <1>1, <1>8, <2>1, <2>2 DEF HarnessInv, EnabledRuns, HarnessType
<1>15. LateNowhere'
  <2>1. \A k \in ServerName, g \in DOMAIN procs :
           ~(servers[k] = g /\ crash.server # k) => ~(servers'[k] = g /\ crash.server # k)
    BY <1>5, <1>8
  <2> QED BY <1>1, <1>7, <2>1 DEF HarnessInv, LateNowhere, Stranded
<1>16. CallsRecorded'
  BY <1>1, <1>4, <1>7, RecordedFrame, Zenon DEF CallsRecorded
<1> QED BY <1>4, <1>10, <1>11, <1>12, <1>13, <1>14, <1>15, <1>16 DEF HarnessInv

-----------------------------------------------------------------------------
\* A step on behalf of call c alone.
LEMMA CallStep ==
    ASSUME HarnessInv, NEW c \in Calls, NEW r \in CallType, call' = [call EXCEPT ![c] = r],
           Recorded(c, call[c])', c \in late => Stranded(call[c])',
           UNCHANGED <<reliable, longReordering, enabled, connections, servers, procs, persisters, saved,
                       endnames, connected, crash, late>>
    PROVE  HarnessInv'
<1>1. call' \in [Calls -> CallType] /\ \A b \in Calls \ {c} : call'[b] = call[b]
  BY DEF HarnessInv, HarnessType
<1>2. HarnessType'
  BY <1>1 DEF HarnessInv, HarnessType
<1>3. ProcsOwn' /\ ServersKnown' /\ PersistersInSync'
  BY Zenon DEF HarnessInv, ProcsOwn, ServersKnown, PersistersInSync
<1>4. CrashOrder' /\ EnabledRuns'
  <2>1. CrashOrder'
    BY Zenon DEF HarnessInv, CrashOrder
  <2>2. EnabledRuns'
    BY Zenon DEF HarnessInv, EnabledRuns
  <2> QED BY <2>1, <2>2
<1>5. ASSUME NEW b \in Calls PROVE Recorded(b, call[b])'
  <2>1. CASE b = c
    BY <2>1
  <2>2. CASE b # c
    BY <1>1, <2>2, RecordedFrame
  <2> QED BY <2>1, <2>2
<1>6. ASSUME NEW b \in late PROVE Stranded(call[b])'
  <2>1. CASE b = c
    BY <2>1
  <2>2. CASE b # c
    <3>1. b \in Calls /\ Stranded(call[b])
      BY DEF HarnessInv, HarnessType, LateNowhere
    <3>2. call'[b] = call[b]
      BY <1>1, <2>2, <3>1
    <3> QED BY <3>1, <3>2, StrandedSame, Zenon
  <2> QED BY <2>1, <2>2
<1> QED BY <1>2, <1>3, <1>4, <1>5, <1>6 DEF HarnessInv, CallsRecorded, LateNowhere

\* An end is made of the server that sends on it, the one it leads to and a number.
LEMMA EndParts == \A e \in ServerName \X ServerName \X Nat :
                      \E i, j \in ServerName, g \in Nat : e = <<i, j, g>>
OBVIOUS

\* The network's steps of a call: where the end leads is read once, and a server
\* found alive by the second look has the call in the Persister that is saved for it.
LEMMA processReqInv ==
    ASSUME HarnessInv, NEW c \in Calls, processReq(c), UNCHANGED <<configVars, late>>
    PROVE  HarnessInv'
<1> DEFINE r == call[c]
<1>1. UNCHANGED <<reliable, longReordering, enabled, connections, servers, procs, persisters, saved,
                  endnames, connected, crash, late>>
  BY DEF processReq, configVars
<1>2. r \in CallType /\ Recorded(c, r) /\ (c \in late => Stranded(r))
  BY DEF HarnessInv, HarnessType, CallsRecorded, LateNowhere
<1> HIDE DEF r
<1>3. ASSUME NEW q \in CallType, call' = [call EXCEPT ![c] = q],
             q.end = r.end,
             q.stage \in {"bound", "waiting", "ended", "delayed"} \/ q.handler # "none" =>
                q.server \in DOMAIN procs /\ q.name \in ServerName,
             q.stage \in {"unused", "calling", "accepted", "bound", "nowhere"} => q.handler = "none",
             q.replyOK => q.handler = "done",
             q.handler = "done" => r.handler = "done" /\ q.server = r.server,
             q.stage = "delayed" \/ (q.stage = "returned" /\ q.ok) =>
                /\ q.name \in ServerName /\ saved[q.name] # 0
                /\ c \in persisters[saved[q.name]].log \cup persisters[saved[q.name]].base,
             c \in late => q.handler = "none" /\ q.stage \in {"calling", "accepted", "nowhere", "returned"}
      PROVE  HarnessInv'
  <2>1. call'[c] = q
    BY <1>3, Zenon DEF HarnessInv, HarnessType
  <2>2. Recorded(c, call[c])'
    BY <1>1, <1>2, <1>3, <2>1, Zenon DEF Recorded
  <2>3. c \in late => Stranded(call[c])'
    <3> SUFFICES ASSUME c \in late PROVE Stranded(call[c])'
      OBVIOUS
    <3>1. Stranded(call[c])
      BY <1>2, Zenon DEF r
    <3>2. /\ call'[c].stage \in {"calling", "accepted", "nowhere", "returned"} /\ call'[c].handler = "none"
          /\ call'[c].end = call[c].end
      BY <1>3, <2>1, Zenon DEF r
    <3>3. DOMAIN procs' = DOMAIN procs /\ servers' = servers /\ crash' = crash
      BY <1>1, Zenon
    <3> QED BY <3>1, <3>2, <3>3, StrandedFrame, Zenon
  <2> QED BY <1>1, <1>3, <2>2, <2>3, CallStep, Zenon
<1>4. CASE Returns(c, FALSE)
  <2> DEFINE q == [r EXCEPT !.stage = "returned", !.ok = FALSE]
  <2>1. /\ q \in CallType /\ q.stage = "returned" /\ q.ok = FALSE /\ q.handler = r.handler
        /\ q.replyOK = r.replyOK /\ q.server = r.server /\ q.name = r.name /\ q.end = r.end
    BY <1>2 DEF CallType
  <2>2. call' = [call EXCEPT ![c] = q]
    BY <1>4 DEF Returns, Becomes, r
  <2> HIDE DEF q
  <2> QED BY <1>2, <1>3, <2>1, <2>2, Zenon DEF Recorded, Stranded
<1>5. CASE Sent(c)
  <2> DEFINE q == [r EXCEPT !.stage = "accepted"]
  <2>1. /\ q \in CallType /\ q.stage = "accepted" /\ q.handler = r.handler
        /\ q.replyOK = r.replyOK /\ q.server = r.server /\ q.name = r.name /\ q.end = r.end
    BY <1>2 DEF CallType
  <2>2. r.stage = "calling" /\ (call' = [call EXCEPT ![c] = q] \/ Returns(c, FALSE))
    BY <1>5 DEF Sent, Becomes, r
  <2> HIDE DEF q
  <2> QED BY <1>2, <1>3, <1>4, <2>1, <2>2, Zenon DEF Recorded, Stranded
<1>6. CASE readEndnameInfo(c)
  <2> DEFINE n == connections[r.end]
  <2>1. r.stage = "accepted"
    BY <1>6 DEF readEndnameInfo, r
  <2>2. CASE r.end \in enabled /\ n # 0 /\ servers[n] # 0
    <3> DEFINE q == [r EXCEPT !.stage = "bound", !.name = n, !.server = servers[n],
                              !.unreliable = ~reliable, !.reorder = longReordering]
    <3>1. PICK i, j \in ServerName, g \in Nat : r.end = <<i, j, g>>
      <4>1. r.end \in ServerName \X ServerName \X Nat
        BY <2>2, Zenon DEF HarnessInv, HarnessType
      <4> QED BY <4>1, EndParts, Zenon
    <3>2. g # 0 /\ servers[i] = g /\ crash.server # i
      <4>1. <<i, j, g>> \in enabled
        BY <2>2, <3>1
      <4> QED BY <4>1, Zenon DEF HarnessInv, EnabledRuns
    <3>10. /\ \A k \in ServerName : servers[k] \in Nat /\ servers[k] <= Len(procs)
           /\ Len(procs) \in Nat /\ Len(procs) <= MaxStarts /\ DOMAIN procs = 1..Len(procs)
      BY DEF HarnessInv, HarnessType
    <3>11. g \in 1..MaxStarts
      BY <3>2, <3>10, HarnessAssumption
    <3>3. r.end \in End
      BY <3>1, <3>11, HarnessAssumption
    <3>4. n \in ServerName
      BY <2>2, <3>3 DEF HarnessInv, HarnessType
    <3>5. servers[n] \in DOMAIN procs /\ servers[n] \in Nat
      <4> HIDE DEF n
      <4>1. servers[n] \in Nat /\ servers[n] <= Len(procs) /\ servers[n] # 0
        BY <2>2, <3>4, <3>10, Zenon
      <4>2. Len(procs) \in Nat /\ DOMAIN procs = 1..Len(procs)
        BY <3>10, Zenon
      <4> QED BY <4>1, <4>2
    <3>6. reliable \in BOOLEAN /\ longReordering \in BOOLEAN
      BY DEF HarnessInv, HarnessType
    <3>7. c \notin late
      BY <1>2, <3>1, <3>2 DEF Stranded
    <3>8. call' = [call EXCEPT ![c] = q]
      BY <1>6, <2>2 DEF readEndnameInfo, Becomes, r
    <3> HIDE DEF n
    <3>9. /\ q \in CallType /\ q.stage = "bound" /\ q.handler = r.handler /\ q.replyOK = r.replyOK
          /\ q.server = servers[n] /\ q.name = n /\ q.end = r.end
      BY <1>2, <3>4, <3>5, <3>6 DEF CallType
    <3> HIDE DEF q
    <3> QED BY <1>2, <1>3, <2>1, <3>4, <3>5, <3>7, <3>8, <3>9, Zenon DEF Recorded
  <2>3. CASE ~(r.end \in enabled /\ n # 0 /\ servers[n] # 0)
    <3> DEFINE q == [r EXCEPT !.stage = "nowhere"]
    <3>1. /\ q \in CallType /\ q.stage = "nowhere" /\ q.handler = r.handler
          /\ q.replyOK = r.replyOK /\ q.server = r.server /\ q.name = r.name /\ q.end = r.end
      BY <1>2 DEF CallType
    <3>2. call' = [call EXCEPT ![c] = q]
      BY <1>6, <2>3 DEF readEndnameInfo, Becomes, r
    <3> HIDE DEF q
    <3> QED BY <1>2, <1>3, <2>1, <3>1, <3>2, Zenon DEF Recorded, Stranded
  <2> QED BY <2>2, <2>3, Zenon
<1>7. CASE NoReply(c)
  BY <1>4, <1>7, Zenon DEF NoReply
<1>8. CASE Dispatch(c)
  <2> DEFINE q == [r EXCEPT !.stage = "waiting", !.handler = "running"]
  <2>1. /\ q \in CallType /\ q.stage = "waiting" /\ q.handler = "running"
        /\ q.replyOK = r.replyOK /\ q.server = r.server /\ q.name = r.name /\ q.end = r.end
    BY <1>2 DEF CallType
  <2>2. r.stage = "bound" /\ (call' = [call EXCEPT ![c] = q] \/ Returns(c, FALSE))
    BY <1>8 DEF Dispatch, Becomes, r
  <2>3. c \notin late /\ r.handler = "none"
    BY <1>2, <2>2 DEF Stranded, Recorded
  <2> HIDE DEF q
  <2> QED BY <1>2, <1>3, <1>4, <2>1, <2>2, <2>3, Zenon DEF Recorded
<1>9. CASE Await(c)
  <2>1. r.stage = "waiting" /\ c \notin late
    BY <1>2, <1>9 DEF Await, Stranded, r
  <2>2. CASE r.handler = "done" /\ call' = [call EXCEPT ![c] = [r EXCEPT !.stage = "ended", !.replyOK = TRUE]]
    <3> DEFINE q == [r EXCEPT !.stage = "ended", !.replyOK = TRUE]
    <3>1. /\ q \in CallType /\ q.stage = "ended" /\ q.handler = r.handler
          /\ q.server = r.server /\ q.name = r.name /\ q.end = r.end
      BY <1>2 DEF CallType
    <3> HIDE DEF q
    <3> QED BY <1>2, <1>3, <2>1, <2>2, <3>1 DEF Recorded, q
  <2>3. CASE call' = [call EXCEPT ![c] = [r EXCEPT !.stage = "ended"]]
    <3> DEFINE q == [r EXCEPT !.stage = "ended"]
    <3>1. /\ q \in CallType /\ q.stage = "ended" /\ q.handler = r.handler /\ q.replyOK = r.replyOK
          /\ q.server = r.server /\ q.name = r.name /\ q.end = r.end
      BY <1>2 DEF CallType
    <3> HIDE DEF q
    <3> QED BY <1>2, <1>3, <2>1, <2>3, <3>1 DEF Recorded, q
  <2> QED BY <1>9, <2>2, <2>3 DEF Await, Becomes, r
<1>10. CASE Settle(c)
  <2>1. r.stage = "ended" /\ c \notin late
    BY <1>2, <1>10 DEF Settle, Stranded, r
  <2>2. CASE r.replyOK /\ ~isServerDead(c)
    <3>1. r.handler = "done" /\ r.name \in ServerName /\ r.server \in DOMAIN procs
      BY <1>2, <2>1, <2>2 DEF Recorded
    <3>2. servers[r.name] = r.server /\ r.server # 0
      BY <2>2, <3>1, Positions DEF isServerDead, r
    <3>3. saved[r.name] = procs[r.server].persister
      BY <3>1, <3>2 DEF HarnessInv, ServersKnown
    <3>4. persisters[saved[r.name]] = procs[r.server].state /\ saved[r.name] # 0
      BY <3>1, <3>3, Positions DEF HarnessInv, ProcsOwn
    <3>5. c \in persisters[saved[r.name]].log \cup persisters[saved[r.name]].base
      BY <1>2, <3>1, <3>4 DEF Recorded
    <3>6. CASE call' = [call EXCEPT ![c] = [r EXCEPT !.stage = "delayed"]]
      <4> DEFINE q == [r EXCEPT !.stage = "delayed"]
      <4>1. /\ q \in CallType /\ q.stage = "delayed" /\ q.handler = r.handler /\ q.replyOK = r.replyOK
            /\ q.server = r.server /\ q.name = r.name /\ q.end = r.end
        BY <1>2 DEF CallType
      <4> HIDE DEF q
      <4> QED BY <1>2, <1>3, <2>1, <3>1, <3>4, <3>5, <3>6, <4>1 DEF Recorded, q
    <3>7. CASE call' = [call EXCEPT ![c] = [r EXCEPT !.stage = "returned", !.ok = TRUE]]
      <4> DEFINE q == [r EXCEPT !.stage = "returned", !.ok = TRUE]
      <4>1. /\ q \in CallType /\ q.stage = "returned" /\ q.handler = r.handler /\ q.replyOK = r.replyOK
            /\ q.server = r.server /\ q.name = r.name /\ q.end = r.end
        BY <1>2 DEF CallType
      <4> HIDE DEF q
      <4> QED BY <1>2, <1>3, <2>1, <3>1, <3>4, <3>5, <3>7, <4>1 DEF Recorded, q
    <3> QED BY <1>4, <1>10, <2>2, <3>6, <3>7 DEF Settle, Becomes, Returns, r
  <2>3. CASE ~(r.replyOK /\ ~isServerDead(c))
    BY <1>4, <1>10, <2>3 DEF Settle, r
  <2> QED BY <2>2, <2>3
<1>11. CASE Delayed(c)
  <2> DEFINE q == [r EXCEPT !.stage = "returned", !.ok = TRUE]
  <2>1. /\ q \in CallType /\ q.stage = "returned" /\ q.handler = r.handler /\ q.replyOK = r.replyOK
        /\ q.server = r.server /\ q.name = r.name /\ q.end = r.end
    BY <1>2 DEF CallType
  <2>2. r.stage = "delayed" /\ call' = [call EXCEPT ![c] = q]
    BY <1>11 DEF Delayed, Returns, Becomes, r
  <2>3. c \notin late
    BY <1>2, <2>2 DEF Stranded
  <2> HIDE DEF q
  <2> QED BY <1>2, <1>3, <2>1, <2>2, <2>3, Zenon DEF Recorded
<1> QED BY <1>5, <1>6, <1>7, <1>8, <1>9, <1>10, <1>11 DEF processReq

\* A process makes a call: on its own ends, and to nowhere if its server has crashed.
LEMMA RequestInv ==
    ASSUME HarnessInv, NEW c \in Calls, NEW p \in DOMAIN procs, NEW j \in ServerName, Request(c, p, j)
    PROVE  HarnessInv'
<1> DEFINE i == procs[p].server
           q == [NoCall EXCEPT !.stage = "calling", !.end = <<i, j, procs[p].ends>>]
<1>1. /\ UNCHANGED <<reliable, longReordering, enabled, connections, servers, procs, persisters, saved,
                     endnames, connected, crash>>
      /\ call[c].stage = "unused" /\ call' = [call EXCEPT ![c] = q]
      /\ late' = IF Running(p) THEN late ELSE late \cup {c}
  BY DEF Request, Call, Becomes, configVars
<1>2. i \in ServerName /\ procs[p].ends = p /\ p \in Nat
  BY ProcLemma
<1>3. /\ q \in CallType /\ q.stage = "calling" /\ q.handler = "none" /\ q.replyOK = FALSE
      /\ q.ok = FALSE /\ q.end = <<i, j, p>>
  BY <1>2 DEF NoCall, CallType
<1> HIDE DEF q
<1>4. call' \in [Calls -> CallType] /\ call'[c] = q /\ \A b \in Calls \ {c} : call'[b] = call[b]
  BY <1>1, <1>3, Zenon DEF HarnessInv, HarnessType
<1>5. HarnessType'
  BY <1>1, <1>4 DEF HarnessInv, HarnessType
<1>6. ProcsOwn' /\ ServersKnown' /\ PersistersInSync'
  BY <1>1, Zenon DEF HarnessInv, ProcsOwn, ServersKnown, PersistersInSync
<1>7. CrashOrder' /\ EnabledRuns'
  <2>1. CrashOrder'
    BY <1>1 DEF HarnessInv, CrashOrder
  <2>2. EnabledRuns'
    BY <1>1, Zenon DEF HarnessInv, EnabledRuns
  <2> QED BY <2>1, <2>2
<1>8. ASSUME NEW b \in Calls PROVE Recorded(b, call[b])'
  <2>1. CASE b = c
    BY <1>3, <1>4, <2>1, Zenon DEF Recorded
  <2>2. CASE b # c
    BY <1>1, <1>4, <2>2, RecordedFrame, Zenon
  <2> QED BY <2>1, <2>2
<1>9. ASSUME NEW b \in late' PROVE Stranded(call[b])'
  <2>1. CASE b = c
    <3>1. c \notin late
      BY <1>1, Zenon DEF HarnessInv, LateNowhere, Stranded
    <3>2. ~(servers[i] = p /\ crash.server # i)
      BY <1>1, <2>1, <3>1, Zenon DEF Running
    <3>3. /\ call'[c].stage \in {"calling", "accepted", "nowhere", "returned"} /\ call'[c].handler = "none"
          /\ call'[c].end = <<i, j, p>>
      BY <1>3, <1>4, Zenon
    <3>4. p \in DOMAIN procs' /\ ~(servers'[i] = p /\ crash'.server # i)
      BY <1>1, <3>2, Zenon
    <3> HIDE DEF i
    <3> QED BY <1>2, <2>1, <3>3, <3>4, Zenon DEF Stranded
  <2>2. CASE b # c
    <3>1. b \in Calls /\ Stranded(call[b])
      BY <1>1, <2>2 DEF HarnessInv, HarnessType, LateNowhere
    <3>2. call'[b] = call[b]
      BY <1>4, <2>2, <3>1
    <3>3. DOMAIN procs' = DOMAIN procs /\ servers' = servers /\ crash' = crash
      BY <1>1, Zenon
    <3> QED BY <3>1, <3>2, <3>3, StrandedSame, Zenon
  <2> QED BY <2>1, <2>2
<1> QED BY <1>5, <1>6, <1>7, <1>8, <1>9, Zenon DEF HarnessInv, CallsRecorded, LateNowhere

\* A handler, also one of a crashed process, records its call in the state and in the
\* Persister of its process, and in no other.
LEMMA HandleInv == ASSUME HarnessInv, NEW c \in Calls, Handle(c) PROVE HarnessInv'
<1> DEFINE p == call[c].server
           s == procs[p].state
           n == procs[p].persister
           q == [call[c] EXCEPT !.handler = "done"]
<1>1. /\ UNCHANGED <<reliable, longReordering, enabled, connections, servers, saved, endnames, connected,
                     crash, late>>
      /\ call[c].handler = "running" /\ call' = [call EXCEPT ![c] = q]
  BY Zenon DEF Handle, Becomes
<1>2. call[c] \in CallType /\ Recorded(c, call[c])
  BY DEF HarnessInv, HarnessType, CallsRecorded
<1>3. p \in DOMAIN procs /\ call[c].name \in ServerName /\ c \notin late
  BY <1>1, <1>2 DEF Recorded, HarnessInv, LateNowhere, Stranded
<1>4. n \in DOMAIN persisters /\ persisters[n] = s /\ s \in PersisterState /\ s.snapshot = s.base
  BY <1>3, ProcLemma
<1>5. PICK t \in PersisterState :
         /\ t.snapshot = t.base /\ t.log \cup t.base = s.log \cup s.base \cup {c}
         /\ procs' = [procs EXCEPT ![p].state = t] /\ persisters' = [persisters EXCEPT ![n] = t]
  <2> DEFINE longer == [s EXCEPT !.log = @ \cup {c}]
             all == s.base \cup s.log \cup {c}
             trimmed == [log |-> {}, base |-> all, snapshot |-> all]
  <2>1. /\ longer \in PersisterState /\ longer.snapshot = longer.base
        /\ longer.log \cup longer.base = s.log \cup s.base \cup {c}
        /\ SaveRaftState(s, longer) = longer
    BY <1>4, Zenon DEF PersisterState, SaveRaftState
  <2>2. /\ trimmed \in PersisterState /\ trimmed.snapshot = trimmed.base
        /\ trimmed.log \cup trimmed.base = s.log \cup s.base \cup {c}
        /\ SaveStateAndSnapshot(s, trimmed, all) = trimmed
    BY <1>4, Zenon DEF PersisterState, SaveStateAndSnapshot
  <2>3. \/ /\ procs' = [procs EXCEPT ![p].state = longer]
           /\ persisters' = [persisters EXCEPT ![n] = SaveRaftState(s, longer)]
        \/ /\ procs' = [procs EXCEPT ![p].state = trimmed]
           /\ persisters' = [persisters EXCEPT ![n] = SaveStateAndSnapshot(s, trimmed, all)]
    BY <1>4, Zenon DEF Handle
  <2> HIDE DEF longer, trimmed, s, n, p
  <2> QED BY <2>1, <2>2, <2>3
<1>6. /\ q \in CallType /\ q.handler = "done" /\ q.server = p /\ q.stage = call[c].stage
      /\ q.name = call[c].name /\ q.replyOK = call[c].replyOK /\ q.ok = call[c].ok
  BY <1>2 DEF CallType
<1> HIDE DEF q
<1>7. call' \in [Calls -> CallType] /\ call'[c] = q /\ \A b \in Calls \ {c} : call'[b] = call[b]
  BY <1>1, <1>6 DEF HarnessInv, HarnessType
<1>8. procs \in Seq(Proc) /\ persisters \in Seq(PersisterState)
  BY DEF HarnessInv, HarnessType
<1>9. /\ persisters' \in Seq(PersisterState) /\ Len(persisters') = Len(persisters)
      /\ DOMAIN persisters' = DOMAIN persisters
      /\ \A k \in DOMAIN persisters : persisters'[k] = IF k = n THEN t ELSE persisters[k]
  <2> HIDE DEF s, n, p
  <2> QED BY <1>4, <1>5, <1>8, ReplaceLemma, Zenon
<1>10. /\ procs' \in Seq(Proc) /\ Len(procs') = Len(procs) /\ DOMAIN procs' = DOMAIN procs
       /\ \A k \in DOMAIN procs \ {p} : procs'[k] = procs[k]
       /\ procs'[p].ends = procs[p].ends /\ procs'[p].persister = n /\ procs'[p].state = t
  <2> DEFINE u == [procs[p] EXCEPT !.state = t]
  <2>1. procs[p] \in Proc
    BY <1>3, ProcLemma
  <2>2. u \in Proc /\ u.ends = procs[p].ends /\ u.persister = n /\ u.state = t
    BY <2>1 DEF Proc
  <2>3. procs' = [procs EXCEPT ![p] = u]
    BY <1>5
  <2> HIDE DEF u, p, n
  <2>4. /\ procs' \in Seq(Proc) /\ Len(procs') = Len(procs) /\ DOMAIN procs' = DOMAIN procs
        /\ \A k \in DOMAIN procs : procs'[k] = IF k = p THEN u ELSE procs[k]
    BY <1>3, <1>8, <2>2, <2>3, ReplaceLemma, Zenon
  <2>5. procs'[p] = u /\ \A k \in DOMAIN procs \ {p} : procs'[k] = procs[k]
    BY <1>3, <2>4, Zenon
  <2> QED BY <2>2, <2>4, <2>5, Zenon
<1> HIDE DEF s, n, p
<1>11. HarnessType'
  BY <1>1, <1>7, <1>9, <1>10, Zenon DEF HarnessInv, HarnessType
<1>12. ProcsOwn'
  <2>1. /\ \A k \in DOMAIN procs : /\ procs'[k].persister = procs[k].persister
                                   /\ procs'[k].ends = procs[k].ends
        /\ \A k \in DOMAIN procs \ {p} : procs[k].persister # n
    BY <1>3, <1>10, Zenon DEF HarnessInv, ProcsOwn, n
  <2>2. ASSUME NEW k \in DOMAIN procs
        PROVE  procs[k].persister \in DOMAIN persisters /\ persisters'[procs[k].persister] = procs'[k].state
    <3>1. procs[k].persister \in DOMAIN persisters /\ persisters[procs[k].persister] = procs[k].state
      BY Zenon DEF HarnessInv, ProcsOwn
    <3>2. CASE k = p
      <4>1. procs[k].persister = n
        BY <3>2, Zenon DEF n
      <4>2. persisters'[n] = t
        BY <1>4, <1>9, Zenon
      <4> QED BY <1>10, <3>1, <3>2, <4>1, <4>2, Zenon
    <3>3. CASE k # p
      <4>1. procs[k].persister # n /\ procs'[k] = procs[k]
        BY <1>10, <2>1, <3>3, Zenon
      <4> QED BY <1>9, <3>1, <4>1, Zenon
    <3> QED BY <3>2, <3>3, Zenon
  <2>3. \A k, m \in DOMAIN procs : procs[k].persister = procs[m].persister => k = m
    BY Zenon DEF HarnessInv, ProcsOwn
  <2>4. \A k \in DOMAIN procs : procs[k].ends = k
    BY Zenon DEF HarnessInv, ProcsOwn
  <2>5. DOMAIN procs' = DOMAIN procs /\ DOMAIN persisters' = DOMAIN persisters
    BY <1>9, <1>10, Zenon
  <2> QED BY <2>1, <2>2, <2>3, <2>4, <2>5, Zenon DEF ProcsOwn
<1>13. ServersKnown'
  <2>1. \A k \in DOMAIN procs : procs'[k].persister = procs[k].persister
    BY <1>10 DEF n
  <2>2. \A k \in ServerName : servers[k] # 0 => servers[k] \in DOMAIN procs
    BY DEF HarnessInv, HarnessType
  <2> QED BY <1>1, <2>1, <2>2, Zenon DEF HarnessInv, ServersKnown
<1>14. PersistersInSync'
  BY <1>5, <1>9 DEF HarnessInv, PersistersInSync
<1>15. CrashOrder'
  <2>1. \A k \in DOMAIN procs : procs'[k].persister = procs[k].persister
    BY <1>10 DEF n
  <2>2. crash.step = "snapshot" => n # saved[crash.server] /\ saved[crash.server] \in DOMAIN persisters
    <3>1. crash.step = "snapshot" => crash.server \in ServerName /\ saved[crash.server] # 0
      BY HarnessAssumption DEF HarnessInv, CrashOrder, HarnessType, CrashType
    <3>2. \A k \in ServerName : saved[k] # 0 => saved[k] \in DOMAIN persisters
      BY DEF HarnessInv, HarnessType
    <3> QED BY <1>3, <3>1, <3>2, Zenon DEF HarnessInv, CrashOrder, n
  <2>3. UNCHANGED <<crash, saved, servers>> /\ DOMAIN procs' = DOMAIN procs
    BY <1>1, <1>10
  <2>4. crash.step = "snapshot" => persisters'[saved[crash.server]] = persisters[saved[crash.server]]
    BY <1>9, <2>2
  <2> QED BY <2>1, <2>3, <2>4, Zenon DEF HarnessInv, CrashOrder
<1>16. EnabledRuns'
  BY <1>1 DEF HarnessInv, EnabledRuns
<1>17. LateNowhere'
  <2>1. \A b \in late : call'[b] = call[b]
    BY <1>3, <1>7 DEF HarnessInv, HarnessType
  <2>2. \A b \in late : b \in Calls /\ Stranded(call[b])
    BY DEF HarnessInv, HarnessType, LateNowhere
  <2>3. /\ DOMAIN procs' = DOMAIN procs /\ servers' = servers /\ crash' = crash
        /\ late' = late
    BY <1>1, <1>10, Zenon
  <2>4. \A b \in late : Stranded(call[b])'
    BY <2>1, <2>2, <2>3, StrandedSame, Zenon
  <2> QED BY <2>3, <2>4, Zenon DEF LateNowhere
<1>18. ASSUME NEW b \in Calls PROVE Recorded(b, call[b])'
  <2>1. \A k \in DOMAIN procs : procs[k].state.log \cup procs[k].state.base
           \subseteq procs'[k].state.log \cup procs'[k].state.base
    BY <1>5, <1>10 DEF s
  <2>2. \A k \in DOMAIN persisters : persisters[k].log \cup persisters[k].base
           \subseteq persisters'[k].log \cup persisters'[k].base
    BY <1>4, <1>5, <1>9
  <2>3. \A k \in ServerName : saved[k] # 0 => saved[k] \in DOMAIN persisters
    BY DEF HarnessInv, HarnessType
  <2>4. CASE b = c
    <3>1. c \in procs'[p].state.log \cup procs'[p].state.base
      BY <1>5, <1>10
    <3>2. call'[b] = q /\ q.server \in DOMAIN procs' /\ q.name \in ServerName
      BY <1>3, <1>6, <1>7, <1>10, <2>4, Zenon
    <3>3. q.stage \notin {"unused", "calling", "accepted", "bound", "nowhere"}
      BY <1>1, <1>2, <1>6, Zenon DEF Recorded
    <3>4. b \in procs'[q.server].state.log \cup procs'[q.server].state.base
      BY <1>6, <2>4, <3>1, Zenon
    <3>5. ASSUME q.stage = "delayed" \/ (q.stage = "returned" /\ q.ok)
          PROVE  /\ saved'[q.name] # 0
                 /\ b \in persisters'[saved'[q.name]].log \cup persisters'[saved'[q.name]].base
      <4>1. saved[q.name] # 0 /\ c \in persisters[saved[q.name]].log \cup persisters[saved[q.name]].base
        BY <1>2, <1>6, <3>5, Zenon DEF Recorded
      <4>2. saved' = saved /\ saved[q.name] \in DOMAIN persisters
        BY <1>1, <2>3, <3>2, <4>1, Zenon
      <4> QED BY <2>2, <2>4, <4>1, <4>2, Zenon
    <3> QED BY <1>6, <3>2, <3>3, <3>4, <3>5, Zenon DEF Recorded
  <2>5. CASE b # c
    BY <1>1, <1>7, <1>10, <2>1, <2>2, <2>3, <2>5, RecordedFrame, Zenon
  <2> QED BY <2>4, <2>5
<1> QED BY <1>11, <1>12, <1>13, <1>14, <1>15, <1>16, <1>17, <1>18, Zenon DEF HarnessInv, CallsRecorded

\* Steps that change only the settings of the network or nothing keep HarnessInv.
LEMMA SettingsInv ==
    ASSUME HarnessInv, reliable' \in BOOLEAN, longReordering' \in BOOLEAN,
           UNCHANGED <<enabled, connections, servers, call, configVars, late>>
    PROVE  HarnessInv'
<1>1. UNCHANGED <<servers, call, procs, persisters, saved, endnames, crash, late, enabled, connections, connected>>
  BY DEF configVars
<1>2. ProcsOwn' /\ ServersKnown' /\ PersistersInSync' /\ CrashOrder' /\ CallsRecorded' /\ LateNowhere'
  BY <1>1, EndsFrame
<1>3. HarnessType'
  BY <1>1 DEF HarnessInv, HarnessType
<1>4. EnabledRuns'
  BY <1>1 DEF HarnessInv, EnabledRuns
<1> QED BY <1>2, <1>3, <1>4 DEF HarnessInv

\* Every step keeps HarnessInv.
LEMMA NextHarnessInv == HarnessInv /\ [Next]_vars => HarnessInv'
<1> SUFFICES ASSUME HarnessInv, [Next]_vars PROVE HarnessInv'
  OBVIOUS
<1>1. ASSUME NEW i \in ServerName, connect(i) \/ Detach(i) \/ crashBegins(i) \/ start1(i) PROVE HarnessInv'
  BY <1>1, connectInv, DetachInv, crashBeginsInv, start1Inv
<1>2. CASE crashDeletes \/ crashCopies \/ crashReads \/ crashSaves
  BY <1>2, crashDeletesInv, crashCopiesInv, crashReadsInv, crashSavesInv
<1>3. reliable \in BOOLEAN /\ longReordering \in BOOLEAN
  BY Zenon DEF HarnessInv, HarnessType
<1>4. ASSUME NEW yes \in BOOLEAN, Reliable(yes) \/ LongReordering(yes), UNCHANGED <<configVars, late>>
      PROVE  HarnessInv'
  BY <1>3, <1>4, SettingsInv DEF Reliable, LongReordering
<1>5. ASSUME Cleanup \/ StopServing, UNCHANGED <<configVars, late>> PROVE HarnessInv'
  BY <1>3, <1>5, SettingsInv DEF Cleanup, StopServing
<1>6. ASSUME NEW c \in Calls, processReq(c), UNCHANGED <<configVars, late>> PROVE HarnessInv'
  BY <1>6, processReqInv
<1>7. ASSUME NEW c \in Calls, Handle(c) PROVE HarnessInv'
  BY <1>7, HandleInv
<1>8. ASSUME NEW c \in Calls, NEW p \in DOMAIN procs, NEW j \in ServerName, Request(c, p, j) PROVE HarnessInv'
  BY <1>8, RequestInv
<1>9. CASE UNCHANGED vars
  BY <1>3, <1>9, SettingsInv DEF vars, netVars
<1> QED BY <1>1, <1>2, <1>4, <1>5, <1>6, <1>7, <1>8, <1>9 DEF Next

\* HarnessInv is an invariant.
LEMMA HarnessInvariant == Spec => []HarnessInv
BY InitHarnessInv, NextHarnessInv, PTL DEF Spec

\* A call that returned true has its effect in the Persister its server runs on or
\* will be restarted from: the reply sent after the second isServerDead of processReq
\* is never one whose write went to a Persister that crash1 has superseded.
THEOREM PositiveAlwaysDurable == Spec => []PositiveIsDurable
<1>1. HarnessInv => PositiveIsDurable
  BY Zenon DEF HarnessInv, CallsRecorded, Recorded, PositiveIsDurable
<1> QED BY <1>1, HarnessInvariant, PTL

\* crash1 reads the log and the snapshot in two steps, and the crashed process may
\* write all the while; what a server is restarted from still goes together.
THEOREM SavedAlwaysInSync == Spec => []SavedInSync
<1>1. HarnessInv => SavedInSync
  <2>1. HarnessInv => \A i \in ServerName : saved[i] # 0 => saved[i] \in DOMAIN persisters
    BY DEF HarnessInv, HarnessType
  <2> QED BY <2>1, Zenon DEF HarnessInv, PersistersInSync, SavedInSync
<1> QED BY <1>1, HarnessInvariant, PTL

\* A process whose server has crashed reaches no handler with the calls it makes from
\* then on, however often the server is restarted and connected again: start1 makes
\* fresh end names, and the old ones stay disabled.
THEOREM CrashedNeverSends == Spec => []CrashedCannotSend
<1>1. HarnessInv => CrashedCannotSend
  BY DEF HarnessInv, LateNowhere, Stranded, CrashedCannotSend
<1> QED BY <1>1, HarnessInvariant, PTL

=============================================================================
