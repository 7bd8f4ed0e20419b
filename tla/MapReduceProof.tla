--------------------------- MODULE MapReduceProof ---------------------------
(***************************************************************************)
(* Proofs about MapReduce, for any number of files, reduce tasks, workers  *)
(* and crashes.                                                            *)
(***************************************************************************)
EXTENDS MapReduce, TLAPS

\* The partitions a map goroutine has renamed are there; all of them when it is
\* about to report.
MapWritten ==
    \A w \in Workers :
        /\ mpc[w] = "write" => mnext[w] < nReduce /\ \A k \in 0..(mnext[w] - 1) : <<mtask[w], k>> \in files
        /\ mpc[w] = "finish" => \A k \in Reduce : <<mtask[w], k>> \in files

\* A map task the Coordinator has struck off has left all its partitions.
MapsComplete == \A f \in Map \ mTasks, k \in Reduce : <<f, k>> \in files

\* Reduce tasks exist, and reduce goroutines work, only after the last map task;
\* they return only when no task is left.
Phases ==
    /\ mTasks # {} => rTasks = {}
    /\ \A w \in Workers :
        /\ rpc[w] \in {"read", "write", "finish"} => mTasks = {}
        /\ rpc[w] = "returned" => mTasks = {} /\ rTasks = {}
        /\ proc[w] = "returned" => rpc[w] = "returned"
    /\ coordinator = "down" => mTasks = {} /\ rTasks = {}

\* A reduce goroutine's cursor is in range; its output is there when it reports.
ReduceWritten ==
    \A w \in Workers : /\ rpc[w] = "read" => rnext[w] < nfile
                       /\ rpc[w] = "finish" => rtask[w] \in out

\* A reduce task the Coordinator has struck off has left its output.
ReducesComplete == mTasks = {} => Reduce \ rTasks \subseteq out

\* The inductive invariant.
JobInv == /\ TypeOK /\ MapWritten /\ MapsComplete /\ Phases /\ ReduceWritten
          /\ ReducesComplete /\ InputsFound

\* Initially nothing is written and nobody has a task.
LEMMA JobInvInit == Init => JobInv
BY SizeAssumption DEF Init, JobInv, TypeOK, MapWritten, MapsComplete, Phases, ReduceWritten,
    ReducesComplete, InputsFound, ProcType, Map, Reduce

\* Every step of a goroutine, of time and of the Coordinator's main keeps JobInv.
LEMMA JobInvNext == JobInv /\ [Next]_vars => JobInv'
<1> SUFFICES ASSUME TypeOK, MapWritten, MapsComplete, Phases, ReduceWritten, ReducesComplete,
                    InputsFound, [Next]_vars
             PROVE  JobInv'
  BY DEF JobInv
<1> USE SizeAssumption DEF Map, Reduce, coordVars, mapVars, redVars
<1>1. ASSUME NEW w \in Workers, AskMap(w) PROVE JobInv'
  <2> USE <1>1 DEF AskMap, DispatchMap, Returned, GetCoordinatorStatus
  <2>1. TypeOK'
    <3>1. CASE UNCHANGED coordVars
      BY <3>1 DEF TypeOK, ProcType
    <3>2. ASSUME NEW t \in Map, DispatchMap(t), mpc' = [mpc EXCEPT ![w] = "write"],
                 mtask' = [mtask EXCEPT ![w] = t], mnext' = [mnext EXCEPT ![w] = 0],
                 UNCHANGED <<proc, redVars, files, out>>
          PROVE  TypeOK'
      <4>1. mpc' \in [Workers -> {"ask", "write", "finish", "returned"}]
        BY <3>2 DEF TypeOK
      <4>2. mtask' \in [Workers -> Map] /\ mnext' \in [Workers -> 0..nReduce]
        BY <3>2 DEF TypeOK
      <4>3. mFresh' \subseteq mTasks
        BY <3>2 DEF TypeOK
      <4> HIDE DEF Map, Reduce, AskMap, AskReduce
      <4> QED BY <3>2, <4>1, <4>2, <4>3 DEF TypeOK
    <3> QED BY <3>1, <3>2
  <2>2. MapWritten'
    BY DEF TypeOK, MapWritten
  <2>3. MapsComplete'
    BY DEF TypeOK, MapsComplete, MapWritten
  <2>4. Phases'
    BY DEF TypeOK, Phases
  <2>5. ReduceWritten'
    BY DEF TypeOK, ReduceWritten
  <2>6. ReducesComplete'
    BY DEF TypeOK, Phases, ReducesComplete, ReduceWritten
  <2>7. InputsFound'
    BY DEF TypeOK, InputsFound, Phases, MapsComplete, ReduceWritten
  <2> QED BY <2>1, <2>2, <2>3, <2>4, <2>5, <2>6, <2>7 DEF JobInv
<1>2. ASSUME NEW w \in Workers, WriteMap(w) PROVE JobInv'
  <2> USE <1>2 DEF WriteMap, LastPartition
  <2>1. TypeOK'
    <3>1. mtask[w] \in Map /\ mnext[w] \in Reduce
      BY DEF TypeOK, MapWritten
    <3>2. files' \subseteq Map \X Reduce
      BY <3>1 DEF TypeOK
    <3>3. mnext' \in [Workers -> 0..nReduce] /\ mpc' \in [Workers -> {"ask", "write", "finish", "returned"}]
      BY <3>1 DEF TypeOK
    <3> QED BY <3>2, <3>3 DEF TypeOK
  <2>2. MapWritten'
    <3>1. mnext[w] \in 0..(nReduce - 1) /\ \A k \in 0..(mnext[w] - 1) : <<mtask[w], k>> \in files
      BY DEF TypeOK, MapWritten
    <3>2. \A k \in 0..mnext[w] : <<mtask[w], k>> \in files'
      BY <3>1
    <3>3. files \subseteq files' /\ mtask' = mtask /\ nReduce \in Nat
      OBVIOUS
    <3>4. mnext'[w] = mnext[w] + 1 /\ mpc'[w] = IF mnext[w] + 1 = nReduce THEN "finish" ELSE "write"
      BY DEF TypeOK
    <3>5. \A v \in Workers \ {w} : mnext'[v] = mnext[v] /\ mpc'[v] = mpc[v]
      BY DEF TypeOK
    <3> SUFFICES ASSUME NEW v \in Workers
                 PROVE  /\ mpc'[v] = "write" => /\ mnext'[v] < nReduce
                                               /\ \A k \in 0..(mnext'[v] - 1) : <<mtask'[v], k>> \in files'
                        /\ mpc'[v] = "finish" => \A k \in Reduce : <<mtask'[v], k>> \in files'
      BY DEF MapWritten
    <3> HIDE <1>2 DEF WriteMap, LastPartition
    <3>6. CASE v = w
      BY <3>1, <3>2, <3>3, <3>4, <3>6
    <3>7. CASE v # w
      BY <3>3, <3>5, <3>7 DEF MapWritten
    <3> QED BY <3>6, <3>7
  <2>3. MapsComplete'
    BY DEF TypeOK, MapsComplete, MapWritten
  <2>4. Phases'
    BY DEF TypeOK, Phases
  <2>5. ReduceWritten'
    BY DEF TypeOK, ReduceWritten
  <2>6. ReducesComplete'
    BY DEF TypeOK, Phases, ReducesComplete, ReduceWritten
  <2>7. InputsFound'
    BY DEF TypeOK, InputsFound, Phases, MapsComplete, ReduceWritten
  <2> QED BY <2>1, <2>2, <2>3, <2>4, <2>5, <2>6, <2>7 DEF JobInv
<1>3. ASSUME NEW w \in Workers, FinishMap(w) PROVE JobInv'
  <2> USE <1>3 DEF FinishMap, MapFinished, GetCoordinatorStatus
  <2>1. TypeOK'
    BY DEF TypeOK, MapWritten, ReduceWritten, ProcType
  <2>2. MapWritten'
    BY DEF TypeOK, MapWritten
  <2>3. MapsComplete'
    BY DEF TypeOK, MapsComplete, MapWritten
  <2>4. Phases'
    BY DEF TypeOK, Phases
  <2>5. ReduceWritten'
    BY DEF TypeOK, ReduceWritten
  <2>6. ReducesComplete'
    BY DEF TypeOK, Phases, ReducesComplete, ReduceWritten
  <2>7. InputsFound'
    BY DEF TypeOK, InputsFound, Phases, MapsComplete, ReduceWritten
  <2> QED BY <2>1, <2>2, <2>3, <2>4, <2>5, <2>6, <2>7 DEF JobInv
<1>4. ASSUME NEW w \in Workers, AskReduce(w) PROVE JobInv'
  <2> USE <1>4 DEF AskReduce, DispatchReduce, Returned, GetCoordinatorStatus
  <2>1. TypeOK'
    <3>1. CASE UNCHANGED coordVars
      BY <3>1 DEF TypeOK, ProcType
    <3>2. ASSUME NEW t \in Reduce, DispatchReduce(t), rpc' = [rpc EXCEPT ![w] = "read"],
                 rtask' = [rtask EXCEPT ![w] = t], rnext' = [rnext EXCEPT ![w] = 0],
                 UNCHANGED <<proc, mapVars, files, out>>
          PROVE  TypeOK'
      <4>1. rpc' \in [Workers -> {"ask", "read", "write", "finish", "returned"}]
        BY <3>2 DEF TypeOK
      <4>2. rtask' \in [Workers -> Reduce] /\ rnext' \in [Workers -> 0..nfile]
        BY <3>2 DEF TypeOK
      <4>3. rFresh' \subseteq rTasks
        BY <3>2 DEF TypeOK
      <4> HIDE DEF Map, Reduce, AskMap, AskReduce
      <4> QED BY <3>2, <4>1, <4>2, <4>3 DEF TypeOK
    <3> QED BY <3>1, <3>2
  <2>2. MapWritten'
    BY DEF TypeOK, MapWritten
  <2>3. MapsComplete'
    BY DEF TypeOK, MapsComplete, MapWritten
  <2>4. Phases'
    BY DEF TypeOK, Phases
  <2>5. ReduceWritten'
    BY DEF TypeOK, ReduceWritten
  <2>6. ReducesComplete'
    BY DEF TypeOK, Phases, ReducesComplete, ReduceWritten
  <2>7. InputsFound'
    BY DEF TypeOK, InputsFound, Phases, MapsComplete, ReduceWritten
  <2> QED BY <2>1, <2>2, <2>3, <2>4, <2>5, <2>6, <2>7 DEF JobInv
<1>5. ASSUME NEW w \in Workers, ReadFile(w) PROVE JobInv'
  <2> USE <1>5 DEF ReadFile
  <2>1. TypeOK'
    BY DEF TypeOK, MapWritten, ReduceWritten, ProcType
  <2>2. MapWritten'
    BY DEF TypeOK, MapWritten
  <2>3. MapsComplete'
    BY DEF TypeOK, MapsComplete, MapWritten
  <2>4. Phases'
    BY DEF TypeOK, Phases
  <2>5. ReduceWritten'
    BY DEF TypeOK, ReduceWritten
  <2>6. ReducesComplete'
    BY DEF TypeOK, Phases, ReducesComplete, ReduceWritten
  <2>7. InputsFound'
    BY DEF TypeOK, InputsFound, Phases, MapsComplete, ReduceWritten
  <2> QED BY <2>1, <2>2, <2>3, <2>4, <2>5, <2>6, <2>7 DEF JobInv
<1>6. ASSUME NEW w \in Workers, WriteOut(w) PROVE JobInv'
  <2> USE <1>6 DEF WriteOut
  <2>1. TypeOK'
    BY DEF TypeOK, MapWritten, ReduceWritten, ProcType
  <2>2. MapWritten'
    BY DEF TypeOK, MapWritten
  <2>3. MapsComplete'
    BY DEF TypeOK, MapsComplete, MapWritten
  <2>4. Phases'
    BY DEF TypeOK, Phases
  <2>5. ReduceWritten'
    BY DEF TypeOK, ReduceWritten
  <2>6. ReducesComplete'
    BY DEF TypeOK, Phases, ReducesComplete, ReduceWritten
  <2>7. InputsFound'
    BY DEF TypeOK, InputsFound, Phases, MapsComplete, ReduceWritten
  <2> QED BY <2>1, <2>2, <2>3, <2>4, <2>5, <2>6, <2>7 DEF JobInv
<1>7. ASSUME NEW w \in Workers, FinishReduce(w) PROVE JobInv'
  <2> USE <1>7 DEF FinishReduce, ReduceFinished, GetCoordinatorStatus
  <2>1. TypeOK'
    BY DEF TypeOK, MapWritten, ReduceWritten, ProcType
  <2>2. MapWritten'
    BY DEF TypeOK, MapWritten
  <2>3. MapsComplete'
    BY DEF TypeOK, MapsComplete, MapWritten
  <2>4. Phases'
    BY DEF TypeOK, Phases
  <2>5. ReduceWritten'
    BY DEF TypeOK, ReduceWritten
  <2>6. ReducesComplete'
    BY DEF TypeOK, Phases, ReducesComplete, ReduceWritten
  <2>7. InputsFound'
    BY DEF TypeOK, InputsFound, Phases, MapsComplete, ReduceWritten
  <2> QED BY <2>1, <2>2, <2>3, <2>4, <2>5, <2>6, <2>7 DEF JobInv
<1>8. ASSUME NEW w \in Workers, CallFails(w) PROVE JobInv'
  <2> USE <1>8 DEF CallFails
  <2>1. TypeOK'
    BY DEF TypeOK, MapWritten, ReduceWritten, ProcType
  <2>2. MapWritten'
    BY DEF TypeOK, MapWritten
  <2>3. MapsComplete'
    BY DEF TypeOK, MapsComplete, MapWritten
  <2>4. Phases'
    BY DEF TypeOK, Phases
  <2>5. ReduceWritten'
    BY DEF TypeOK, ReduceWritten
  <2>6. ReducesComplete'
    BY DEF TypeOK, Phases, ReducesComplete, ReduceWritten
  <2>7. InputsFound'
    BY DEF TypeOK, InputsFound, Phases, MapsComplete, ReduceWritten
  <2> QED BY <2>1, <2>2, <2>3, <2>4, <2>5, <2>6, <2>7 DEF JobInv
<1>9. ASSUME NEW w \in Workers, Crash(w) PROVE JobInv'
  <2> USE <1>9 DEF Crash
  <2>1. TypeOK'
    BY DEF TypeOK, MapWritten, ReduceWritten, ProcType
  <2>2. MapWritten'
    BY DEF TypeOK, MapWritten
  <2>3. MapsComplete'
    BY DEF TypeOK, MapsComplete, MapWritten
  <2>4. Phases'
    BY DEF TypeOK, Phases
  <2>5. ReduceWritten'
    BY DEF TypeOK, ReduceWritten
  <2>6. ReducesComplete'
    BY DEF TypeOK, Phases, ReducesComplete, ReduceWritten
  <2>7. InputsFound'
    BY DEF TypeOK, InputsFound, Phases, MapsComplete, ReduceWritten
  <2> QED BY <2>1, <2>2, <2>3, <2>4, <2>5, <2>6, <2>7 DEF JobInv
<1>10. CASE Expire
  <2> USE <1>10 DEF Expire
  <2>1. TypeOK'
    BY DEF TypeOK, MapWritten, ReduceWritten, ProcType
  <2>2. MapWritten'
    BY DEF TypeOK, MapWritten
  <2>3. MapsComplete'
    BY DEF TypeOK, MapsComplete, MapWritten
  <2>4. Phases'
    BY DEF TypeOK, Phases
  <2>5. ReduceWritten'
    BY DEF TypeOK, ReduceWritten
  <2>6. ReducesComplete'
    BY DEF TypeOK, Phases, ReducesComplete, ReduceWritten
  <2>7. InputsFound'
    BY DEF TypeOK, InputsFound, Phases, MapsComplete, ReduceWritten
  <2> QED BY <2>1, <2>2, <2>3, <2>4, <2>5, <2>6, <2>7 DEF JobInv
<1>11. CASE Exit
  <2> USE <1>11 DEF Exit
  <2>1. TypeOK'
    BY DEF TypeOK, MapWritten, ReduceWritten, ProcType
  <2>2. MapWritten'
    BY DEF TypeOK, MapWritten
  <2>3. MapsComplete'
    BY DEF TypeOK, MapsComplete, MapWritten
  <2>4. Phases'
    BY DEF TypeOK, Phases
  <2>5. ReduceWritten'
    BY DEF TypeOK, ReduceWritten
  <2>6. ReducesComplete'
    BY DEF TypeOK, Phases, ReducesComplete, ReduceWritten
  <2>7. InputsFound'
    BY DEF TypeOK, InputsFound, Phases, MapsComplete, ReduceWritten
  <2> QED BY <2>1, <2>2, <2>3, <2>4, <2>5, <2>6, <2>7 DEF JobInv
<1>12. CASE UNCHANGED vars
  BY <1>12 DEF JobInv, TypeOK, MapWritten, MapsComplete, Phases, ReduceWritten, ReducesComplete,
      InputsFound, vars, coordVars, mapVars, redVars
<1> QED
  BY <1>1, <1>2, <1>3, <1>4, <1>5, <1>6, <1>7, <1>8, <1>9, <1>10, <1>11, <1>12 DEF Next, MapStep, ReduceStep

\* JobInv holds throughout.
LEMMA JobInvariant == Spec => []JobInv
BY JobInvInit, JobInvNext, PTL DEF Spec

\* For any job and any crashes, the coordinator's lists hold only tasks there are, and
\* a worker's goroutines only tasks they were given and files they are at.
THEOREM JobTypeCorrect == Spec => []TypeOK
<1>1. JobInv => TypeOK
  BY DEF JobInv
<1> QED BY <1>1, JobInvariant, PTL

\* For any job and any crashes, no reduce goroutine ever opens a partition that is
\* not there (worker.go's Fatalf "connot open").
THEOREM InputsAlwaysFound == Spec => []InputsFound
<1>1. JobInv => InputsFound
  BY DEF JobInv
<1> QED BY <1>1, JobInvariant, PTL

\* For any job and any crashes, no process leaves before all the output is final.
THEOREM OutputAlwaysFinal == Spec => []OutputFinal
<1>1. JobInv => OutputFinal
  BY DEF JobInv, TypeOK, Phases, ReducesComplete, OutputFinal
<1> QED BY <1>1, JobInvariant, PTL
=============================================================================
