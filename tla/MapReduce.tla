------------------------------ MODULE MapReduce ------------------------------
(***************************************************************************)
(* The MapReduce job of mr: the Coordinator (coordinator.go) that hands    *)
(* out tasks and hands them out again after ten seconds, and Worker        *)
(* processes (worker.go), each with a map and a reduce goroutine, that may *)
(* crash at any step.  Tasks are named by their index: input files have    *)
(* distinct names.  A call is one step: the socket is local, and a worker  *)
(* that cannot reach the Coordinator exits (log.Fatal).                    *)
(***************************************************************************)
EXTENDS Integers, FiniteSets

CONSTANTS
    nfile, nReduce,
    Workers,
    MaxCrashes      \* bound: workers that crash

ASSUME SizeAssumption == /\ nfile \in Nat \ {0}
                         /\ nReduce \in Nat \ {0}
                         /\ MaxCrashes \in Nat

Map == 0..(nfile - 1)
Reduce == 0..(nReduce - 1)

VARIABLES
    mTasks, rTasks,  \* Coordinator: the tasks that are not finished
    mFresh, rFresh,  \* those of them dispatched within the last ten seconds
    coordinator,     \* its process: "up" or "down"
    proc,            \* each worker's process; see ProcType
    mpc, mtask,      \* map goroutine: where it is, its task
    mnext,           \* and the partition it writes next
    rpc, rtask,      \* reduce goroutine: where it is, its task
    rnext,           \* and the input it reads next
    files,           \* intermediate files mr-X-Y that exist, as <<X, Y>>
    out              \* output files mr-out-Y that exist

coordVars == <<mTasks, rTasks, mFresh, rFresh, coordinator>>
mapVars   == <<mpc, mtask, mnext>>
redVars   == <<rpc, rtask, rnext>>
vars == <<coordVars, proc, mapVars, redVars, files, out>>

\* A process is up, has returned from Worker, has crashed, or has exited because an
\* input was missing or the Coordinator did not answer.
ProcType == {"up", "returned", "crashed", "noinput", "nodial"}

GetCoordinatorStatusEager ==
    IF mTasks \subseteq mFresh /\ rTasks = {} THEN "ShutDowned"
    ELSE IF mTasks # {} THEN "MapStatus" ELSE "ReduceStatus"
GetCoordinatorStatus ==
    IF mTasks = {} /\ rTasks = {} THEN "ShutDowned"
    ELSE IF mTasks # {} THEN "MapStatus" ELSE "ReduceStatus"

\* MakeCoordinator, and Workers that start.
Init ==
    /\ mTasks = Map /\ rTasks = {}
    /\ mFresh = {} /\ rFresh = {}
    /\ coordinator = "up"
    /\ proc = [w \in Workers |-> "up"]
    /\ mpc = [w \in Workers |-> "ask"] /\ mtask = [w \in Workers |-> 0] /\ mnext = [w \in Workers |-> 0]
    /\ rpc = [w \in Workers |-> "ask"] /\ rtask = [w \in Workers |-> 0] /\ rnext = [w \in Workers |-> 0]
    /\ files = {} /\ out = {}

-----------------------------------------------------------------------------
(***************************************************************************)
(* DispatchTask, by type of request.                                       *)
(***************************************************************************)

DispatchMap(t) ==
    /\ GetCoordinatorStatus = "MapStatus"
    /\ t \in mTasks \ mFresh
    /\ mFresh' = mFresh \cup {t}
    /\ UNCHANGED <<mTasks, rTasks, rFresh, coordinator>>

DispatchReduce(t) ==
    /\ GetCoordinatorStatus = "ReduceStatus"
    /\ t \in rTasks \ rFresh
    /\ rFresh' = rFresh \cup {t}
    /\ UNCHANGED <<mTasks, rTasks, mFresh, coordinator>>

\* The last map task to finish adds the reduce tasks.
MapFinished(t) ==
    LET rest == mTasks \ {t} IN
    IF GetCoordinatorStatus = "MapStatus" /\ t \in mTasks
    THEN /\ mTasks' = rest
         /\ mFresh' = mFresh \ {t}
         /\ rTasks' = IF rest = {} THEN Reduce ELSE rTasks
         /\ UNCHANGED <<rFresh, coordinator>>
    ELSE UNCHANGED coordVars

ReduceFinished(t) ==
    IF GetCoordinatorStatus = "ReduceStatus" /\ t \in rTasks
    THEN /\ rTasks' = rTasks \ {t}
         /\ rFresh' = rFresh \ {t}
         /\ UNCHANGED <<mTasks, mFresh, coordinator>>
    ELSE UNCHANGED coordVars

\* Ten seconds pass since a task was dispatched.
ExpireNever == FALSE /\ UNCHANGED vars
Expire ==
    /\ \/ /\ \E t \in mFresh : mFresh' = mFresh \ {t}
          /\ UNCHANGED rFresh
       \/ /\ \E t \in rFresh : rFresh' = rFresh \ {t}
          /\ UNCHANGED mFresh
    /\ UNCHANGED <<mTasks, rTasks, coordinator, proc, mapVars, redVars, files, out>>

\* mrcoordinator's main finds Done and exits.
Exit ==
    /\ coordinator = "up"
    /\ mTasks = {} /\ rTasks = {}
    /\ coordinator' = "down"
    /\ UNCHANGED <<mTasks, rTasks, mFresh, rFresh, proc, mapVars, redVars, files, out>>

-----------------------------------------------------------------------------
(***************************************************************************)
(* MapTaskWoker.                                                           *)
(***************************************************************************)

\* A call while the Coordinator is gone: the process exits.
CallFails(w) ==
    /\ coordinator = "down"
    /\ proc[w] = "up"
    /\ mpc[w] \in {"ask", "finish"} \/ rpc[w] \in {"ask", "finish"}
    /\ proc' = [proc EXCEPT ![w] = "nodial"]
    /\ UNCHANGED <<coordVars, mapVars, redVars, files, out>>

\* A goroutine of w returns; Worker returns when both have.
Returned(w, otherpc) == proc' = [proc EXCEPT ![w] = IF otherpc = "returned" THEN "returned" ELSE @]

AskMap(w) ==
    /\ coordinator = "up" /\ proc[w] = "up" /\ mpc[w] = "ask"
    /\ \/ /\ GetCoordinatorStatus # "MapStatus"
          /\ mpc' = [mpc EXCEPT ![w] = "returned"]
          /\ Returned(w, rpc[w])
          /\ UNCHANGED <<coordVars, mtask, mnext>>
       \/ \E t \in Map :
          /\ DispatchMap(t)
          /\ mpc' = [mpc EXCEPT ![w] = "write"]
          /\ mtask' = [mtask EXCEPT ![w] = t]
          /\ mnext' = [mnext EXCEPT ![w] = 0]
          /\ UNCHANGED proc
    /\ UNCHANGED <<redVars, files, out>>

\* The partition at mnext is the task's last one.
LastPartitionEarly(w) == mnext[w] + 2 >= nReduce
LastPartitionLate(w) == mnext[w] = nReduce
LastPartition(w) == mnext[w] + 1 = nReduce

\* Renames the next partition of the task into place.
WriteMap(w) ==
    /\ proc[w] = "up" /\ mpc[w] = "write"
    /\ files' = files \cup {<<mtask[w], mnext[w]>>}
    /\ mnext' = [mnext EXCEPT ![w] = @ + 1]
    /\ mpc' = [mpc EXCEPT ![w] = IF LastPartition(w) THEN "finish" ELSE "write"]
    /\ UNCHANGED <<coordVars, proc, mtask, redVars, out>>

FinishMap(w) ==
    /\ coordinator = "up" /\ proc[w] = "up" /\ mpc[w] = "finish"
    /\ MapFinished(mtask[w])
    /\ mpc' = [mpc EXCEPT ![w] = "ask"]
    /\ UNCHANGED <<proc, mtask, mnext, redVars, files, out>>

-----------------------------------------------------------------------------
(***************************************************************************)
(* ReduceTaskWorker.                                                       *)
(***************************************************************************)

AskReduce(w) ==
    /\ coordinator = "up" /\ proc[w] = "up" /\ rpc[w] = "ask"
    /\ \/ /\ GetCoordinatorStatus = "ShutDowned"
          /\ rpc' = [rpc EXCEPT ![w] = "returned"]
          /\ Returned(w, mpc[w])
          /\ UNCHANGED <<coordVars, rtask, rnext>>
       \/ \E t \in Reduce :
          /\ DispatchReduce(t)
          /\ rpc' = [rpc EXCEPT ![w] = "read"]
          /\ rtask' = [rtask EXCEPT ![w] = t]
          /\ rnext' = [rnext EXCEPT ![w] = 0]
          /\ UNCHANGED proc
    /\ UNCHANGED <<mapVars, files, out>>

\* Opens and reads the next input of the task; exits if it is not there.
ReadFile(w) ==
    /\ proc[w] = "up" /\ rpc[w] = "read"
    /\ IF <<rnext[w], rtask[w]>> \in files
       THEN /\ rnext' = [rnext EXCEPT ![w] = @ + 1]
            /\ rpc' = [rpc EXCEPT ![w] = IF rnext[w] + 1 = nfile THEN "write" ELSE "read"]
            /\ UNCHANGED proc
       ELSE /\ proc' = [proc EXCEPT ![w] = "noinput"]
            /\ UNCHANGED <<rpc, rnext>>
    /\ UNCHANGED <<coordVars, mapVars, rtask, files, out>>

\* Renames the output into place.
WriteOut(w) ==
    /\ proc[w] = "up" /\ rpc[w] = "write"
    /\ out' = out \cup {rtask[w]}
    /\ rpc' = [rpc EXCEPT ![w] = "finish"]
    /\ UNCHANGED <<coordVars, proc, mapVars, rtask, rnext, files>>

FinishReduce(w) ==
    /\ coordinator = "up" /\ proc[w] = "up" /\ rpc[w] = "finish"
    /\ ReduceFinished(rtask[w])
    /\ rpc' = [rpc EXCEPT ![w] = "ask"]
    /\ UNCHANGED <<proc, mapVars, rtask, rnext, files, out>>

\* A worker's process dies, both goroutines with it.
Crash(w) ==
    /\ proc[w] = "up"
    /\ Cardinality({v \in Workers : proc[v] = "crashed"}) < MaxCrashes
    /\ proc' = [proc EXCEPT ![w] = "crashed"]
    /\ UNCHANGED <<coordVars, mapVars, redVars, files, out>>

-----------------------------------------------------------------------------
MapStep(w) == AskMap(w) \/ WriteMap(w) \/ FinishMap(w)
ReduceStep(w) == AskReduce(w) \/ ReadFile(w) \/ WriteOut(w) \/ FinishReduce(w)

Next ==
    \/ \E w \in Workers : MapStep(w) \/ ReduceStep(w) \/ CallFails(w) \/ Crash(w)
    \/ Expire
    \/ Exit

Spec == Init /\ [][Next]_vars

(***************************************************************************)
(* Fairness: goroutines are scheduled, time passes and main polls Done.    *)
(***************************************************************************)
FairSpec == /\ Spec
            /\ \A w \in Workers : WF_vars(MapStep(w)) /\ WF_vars(ReduceStep(w))
            /\ WF_vars(Expire)
            /\ WF_vars(Exit)

-----------------------------------------------------------------------------
(***************************************************************************)
(* Properties.                                                             *)
(***************************************************************************)

\* Every variable has its type, and the goroutines' cursors stay in range.
TypeOK ==
    /\ mTasks \subseteq Map /\ mFresh \subseteq mTasks
    /\ rTasks \subseteq Reduce /\ rFresh \subseteq rTasks
    /\ coordinator \in {"up", "down"}
    /\ proc \in [Workers -> ProcType]
    /\ mpc \in [Workers -> {"ask", "write", "finish", "returned"}]
    /\ mtask \in [Workers -> Map] /\ mnext \in [Workers -> 0..nReduce]
    /\ rpc \in [Workers -> {"ask", "read", "write", "finish", "returned"}]
    /\ rtask \in [Workers -> Reduce] /\ rnext \in [Workers -> 0..nfile]
    /\ files \subseteq Map \X Reduce
    /\ out \subseteq Reduce

\* ReduceTaskWorker finds every input it opens: no reduce task is out before all
\* map tasks have left all their partitions, whatever crashes, expires or is late.
InputsFound == \A w \in Workers : proc[w] # "noinput"

\* When the Coordinator exits or a Worker returns, all output is in place: what the
\* early-exit test demands.
OutputFinal ==
    coordinator = "down" \/ (\E w \in Workers : proc[w] = "returned") => out = Reduce

\* The job gets done, as long as one worker survives.
JobCompletes == <>(coordinator = "down")
=============================================================================
