------------------------- MODULE FollowerScheduler -------------------------
(***************************************************************************)
(* A follower of the distributed node executing its share of one block:    *)
(* startBlock of BlockRAFT-distributed_node/follower/follower.h, class     *)
(* scheduler of scheduler/scheduler.h and selectTxn/complete of            *)
(* dagModule/DAGmodule.h.                                                  *)
(*                                                                         *)
(* Actors: the main thread (startBlock), the workers (executeTxns), the    *)
(* thread that polls the run key (monitorFunc), the callbacks of the       *)
(* CurrentLeader watch, and, as the environment, the leader, which answers *)
(* the follower's status key with run = finish (leader.h, checkComponents) *)
(* or dies.  Each atomic operation and each etcd request is a step.        *)
(*                                                                         *)
(* The callback of watchComponentChanges is not modelled: its watcher is a *)
(* local that is destroyed when the function returns.                      *)
(***************************************************************************)
EXTENDS Integers, FiniteSets

CONSTANTS NTxns,          \* totalTxns: transactions of the block
          Workers,        \* threads scheduleTxns starts
          ThreadCounts,   \* values scheduler::threadCount may hold, unset, when
                          \* extractBlock passes it to createfollower
          MaxPutFailures  \* bound on failed status writes

ASSUME NTxnsAssumption == NTxns \in Nat
ASSUME WorkersAssumption == IsFiniteSet(Workers) /\ Workers # {}
ASSUME ThreadCountsAssumption == ThreadCounts \subseteq Nat
ASSUME MaxPutFailuresAssumption == MaxPutFailures \in Nat

Txns == 0 .. NTxns - 1
Edges == {e \in Txns \X Txns : e[1] < e[2]}

\* No value stored under an etcd key.
Absent == -1

VARIABLES
  conflicts,        \* the edges the block really has
  malformed,        \* transactions whose header does not parse
  assigned,         \* transactions of the components given to this follower
  threadCount,      \* scheduler::threadCount as extractBlock finds it
  adjacencyMatrix, inDegree, completedTxns, lastTxn,           \* dag
  flag, completeFlag, updateFlag, compCount,                   \* scheduler
  main,             \* where startBlock is
  monitor,          \* where monitorFunc is
  pc, scan, txn, var_zero, copy,                               \* per worker
  run, status, data,          \* etcd: run key, this follower's status and data
  leaderAlive, watchers, leaderCrashed, putFailures,
  starts, processed, applied, staleWin                         \* history

blockVars == <<conflicts, malformed, assigned, threadCount>>
dagVars == <<adjacencyMatrix, inDegree, completedTxns, lastTxn>>
flagVars == <<flag, completeFlag, updateFlag, compCount>>
workerVars == <<pc, scan, txn, var_zero, copy>>
etcdVars == <<run, status, data>>
envVars == <<leaderAlive, watchers, leaderCrashed, putFailures>>
historyVars == <<starts, processed, applied, staleWin>>

vars == <<blockVars, dagVars, flagVars, main, monitor, workerVars, etcdVars,
          envVars, historyVars>>

Locations ==
  {"idle", "loop", "flag", "ready", "update", "snapshot", "putData",
   "readCount", "putStatus", "clear", "pos", "load1", "cas1", "load2", "cas2",
   "mark", "process", "finish", "count", "release", "compCount", "done"}

columnSum(j) == Cardinality({i \in Txns : <<i, j>> \in adjacencyMatrix})

\* A set of components: no conflict leaves it.
Closed(S, E) == \A e \in E : e[1] \in S <=> e[2] \in S

TypeOK ==
  /\ conflicts \in SUBSET Edges
  /\ malformed \in SUBSET Txns
  /\ assigned \in SUBSET Txns
  /\ threadCount \in ThreadCounts
  /\ adjacencyMatrix \in SUBSET conflicts
  /\ inDegree \in [Txns -> Int]
  /\ completedTxns \in Nat
  /\ lastTxn \in Nat
  /\ flag \in BOOLEAN /\ completeFlag \in BOOLEAN /\ updateFlag \in BOOLEAN
  /\ compCount \in Nat
  /\ main \in {"read", "components", "schedule", "joinMonitor", "joinWorkers",
               "returned"}
  /\ monitor \in {"idle", "check", "get", "done"}
  /\ pc \in [Workers -> Locations]
  /\ scan \in [Workers -> Nat]
  /\ txn \in [Workers -> Nat]
  /\ var_zero \in [Workers -> Int]
  /\ copy \in [Workers -> [data : SUBSET Txns, count : Nat]]
  /\ run \in {"start", "finish"}
  /\ status \in Nat \cup {Absent}
  /\ data \in SUBSET Txns
  /\ leaderAlive \in BOOLEAN /\ leaderCrashed \in BOOLEAN
  /\ watchers \in 0 .. 2
  /\ putFailures \in 0 .. MaxPutFailures
  /\ starts \in [Txns -> Nat]
  /\ applied \in SUBSET processed
  /\ processed \in SUBSET Txns
  /\ staleWin \in BOOLEAN

-----------------------------------------------------------------------------
\* A follower object constructed by node.cpp's main loop, the run key "start"
\* read.  main has already called watchLeaderCrash once; that watcher polls a
\* stopWatcher nobody has written and may have gone before startBlock starts
\* its own, so one or two watchers live.
Init ==
  /\ malformed \in SUBSET Txns
  /\ conflicts \in
       SUBSET {e \in Edges : e[1] \notin malformed /\ e[2] \notin malformed}
  /\ assigned \in {S \in SUBSET Txns : Closed(S, conflicts)}
  /\ threadCount \in ThreadCounts
  /\ adjacencyMatrix = {}
  /\ inDegree = [i \in Txns |-> -1]
  /\ completedTxns = 0
  /\ lastTxn = 0
  /\ flag = TRUE /\ completeFlag = FALSE /\ updateFlag = FALSE
  /\ compCount = 0
  /\ main = "read"
  /\ monitor = "idle"
  /\ pc = [w \in Workers |-> "idle"]
  /\ scan = [w \in Workers |-> 0]
  /\ txn = [w \in Workers |-> 0]
  /\ var_zero = [w \in Workers |-> 0]
  /\ copy = [w \in Workers |-> [data |-> {}, count |-> 0]]
  /\ run = "start" /\ status = Absent /\ data = {}
  /\ leaderAlive = TRUE
  /\ watchers \in 1 .. 2
  /\ leaderCrashed = FALSE
  /\ putFailures = 0
  /\ starts = [i \in Txns |-> 0]
  /\ processed = {} /\ applied = {}
  /\ staleWin = FALSE

-----------------------------------------------------------------------------
\* Main thread: startBlock

\* Mutant: in-degrees of all transactions start at 0.
ReadBlockZero ==
  /\ main = "read"
  /\ adjacencyMatrix' = IF threadCount = 0 THEN {} ELSE conflicts
  /\ inDegree' = [i \in Txns |-> 0]
  /\ completedTxns' = NTxns
  /\ main' = "components"
  /\ UNCHANGED <<blockVars, lastTxn, flagVars, monitor, workerVars, etcdVars,
                 envVars, historyVars>>

\* readBlock, extractBlock, createfollower.  threadCount threads fill the
\* matrix; scheduleTxns has not stored the real number yet, and with 0 threads
\* no row is filled.  -1 marks "not mine" until a component claims the entry.
ReadBlock ==
  /\ main = "read"
  /\ adjacencyMatrix' = IF threadCount = 0 THEN {} ELSE conflicts
  /\ inDegree' = [i \in Txns |-> -1]
  /\ completedTxns' = NTxns
  /\ main' = "components"
  /\ UNCHANGED <<blockVars, lastTxn, flagVars, monitor, workerVars, etcdVars,
                 envVars, historyVars>>

\* getComponents, ExtractComponents, ProcessIndegree.
ExtractComponents ==
  /\ main = "components"
  /\ inDegree' = [j \in Txns |-> IF j \in assigned THEN columnSum(j) ELSE inDegree[j]]
  /\ completedTxns' = completedTxns - Cardinality(assigned)
  /\ updateFlag' = TRUE
  /\ main' = "schedule"
  /\ UNCHANGED <<blockVars, adjacencyMatrix, lastTxn, flag, completeFlag, compCount,
                 monitor, workerVars, etcdVars, envVars, historyVars>>

\* scheduleTxns: both flags are stored, the workers and the monitor start.
ScheduleTxns ==
  /\ main = "schedule"
  /\ flag' = TRUE
  /\ completeFlag' = FALSE
  /\ pc' = [w \in Workers |-> "loop"]
  /\ monitor' = "check"
  /\ main' = "joinMonitor"
  /\ UNCHANGED <<blockVars, dagVars, updateFlag, compCount, scan, txn, var_zero,
                 copy, etcdVars, envVars, historyVars>>

\* runMonitor.join()
JoinMonitor ==
  /\ main = "joinMonitor"
  /\ monitor = "done"
  /\ main' = "joinWorkers"
  /\ UNCHANGED <<blockVars, dagVars, flagVars, monitor, workerVars, etcdVars,
                 envVars, historyVars>>

\* threads[i].join(); scheduleTxns returns flag.
JoinWorkers ==
  /\ main = "joinWorkers"
  /\ \A w \in Workers : pc[w] = "done"
  /\ main' = "returned"
  /\ UNCHANGED <<blockVars, dagVars, flagVars, monitor, workerVars, etcdVars,
                 envVars, historyVars>>

-----------------------------------------------------------------------------
\* Workers: executeTxns

Goto(w, l) == pc' = [pc EXCEPT ![w] = l]

\* A step of a worker that only moves its program counter.
Move(w, from, to) ==
  /\ pc[w] = from
  /\ Goto(w, to)
  /\ UNCHANGED <<blockVars, dagVars, flagVars, main, monitor, scan, txn, var_zero,
                 copy, etcdVars, envVars, historyVars>>

\* while ((!completeFlag.load()) && flag.load())
CheckLoop(w) ==
  \/ Move(w, "loop", IF completeFlag THEN "done" ELSE "flag")
  \/ Move(w, "flag", IF flag THEN "ready" ELSE "done")

\* if (dag.completedTxns == dag.totalTxns && updateFlag)
CheckReady(w) ==
  \/ Move(w, "ready", IF completedTxns = NTxns THEN "update" ELSE "pos")
  \/ Move(w, "update", IF updateFlag THEN "snapshot" ELSE "pos")

\* dataStore: copy the map into a message ...
SnapshotMap(w) ==
  /\ pc[w] = "snapshot"
  /\ copy' = [copy EXCEPT ![w].data = applied]
  /\ Goto(w, "putData")
  /\ UNCHANGED <<blockVars, dagVars, flagVars, main, monitor, scan, txn, var_zero,
                 etcdVars, envVars, historyVars>>

\* Mutant: the data of this follower is never written.
PutDataForgotten(w) == Move(w, "putData", "readCount")

\* ... and put it under data/<node>.
PutData(w) ==
  /\ pc[w] = "putData"
  /\ data' = copy[w].data
  /\ Goto(w, "readCount")
  /\ UNCHANGED <<blockVars, dagVars, flagVars, main, monitor, scan, txn, var_zero,
                 copy, run, status, envVars, historyVars>>

\* std::to_string(compCount), the argument of the status write.
ReadCount(w) ==
  /\ pc[w] = "readCount"
  /\ copy' = [copy EXCEPT ![w].count = compCount]
  /\ Goto(w, "putStatus")
  /\ UNCHANGED <<blockVars, dagVars, flagVars, main, monitor, scan, txn, var_zero,
                 etcdVars, envVars, historyVars>>

\* Mutant: a failed write clears updateFlag like a successful one.
PutStatusForgiving(w) ==
  /\ pc[w] = "putStatus"
  /\ \/ /\ status' = copy[w].count
        /\ UNCHANGED putFailures
     \/ /\ putFailures < MaxPutFailures
        /\ putFailures' = putFailures + 1
        /\ UNCHANGED status
  /\ Goto(w, "clear")
  /\ UNCHANGED <<blockVars, dagVars, flagVars, main, monitor, scan, txn, var_zero,
                 copy, run, data, leaderAlive, watchers, leaderCrashed, historyVars>>

\* The status write succeeds, or fails and is tried again in a later iteration.
PutStatus(w) ==
  /\ pc[w] = "putStatus"
  /\ \/ /\ status' = copy[w].count
        /\ Goto(w, "clear")
        /\ UNCHANGED putFailures
     \/ /\ putFailures < MaxPutFailures
        /\ putFailures' = putFailures + 1
        /\ Goto(w, "pos")
        /\ UNCHANGED status
  /\ UNCHANGED <<blockVars, dagVars, flagVars, main, monitor, scan, txn, var_zero,
                 copy, run, data, leaderAlive, watchers, leaderCrashed, historyVars>>

\* updateFlag.store(false)
ClearUpdate(w) ==
  /\ pc[w] = "clear"
  /\ updateFlag' = FALSE
  /\ Goto(w, "pos")
  /\ UNCHANGED <<blockVars, dagVars, flag, completeFlag, compCount, main, monitor,
                 scan, txn, var_zero, copy, etcdVars, envVars, historyVars>>

-----------------------------------------------------------------------------
\* selectTxn

\* pos = lastTxn.load() + 1, var_zero = 0
SelectPos(w) ==
  /\ pc[w] = "pos"
  /\ scan' = [scan EXCEPT ![w] = lastTxn + 1]
  /\ var_zero' = [var_zero EXCEPT ![w] = 0]
  /\ Goto(w, "load1")
  /\ UNCHANGED <<blockVars, dagVars, flagVars, main, monitor, txn, copy, etcdVars,
                 envVars, historyVars>>

\* inDegree[i].load() == 0 in loop k (1 from lastTxn + 1, 2 from the beginning);
\* the first loop falls through to the second, the second returns -1.
SelectLoad(w) ==
  \E k \in {1, 2} :
    LET load == IF k = 1 THEN "load1" ELSE "load2"
        cas  == IF k = 1 THEN "cas1" ELSE "cas2"
        end  == IF k = 1 THEN "load2" ELSE "loop"
    IN
    /\ pc[w] = load
    /\ \/ /\ scan[w] < NTxns
          /\ inDegree[scan[w]] = 0
          /\ Goto(w, cas)
          /\ UNCHANGED scan
       \/ /\ scan[w] < NTxns
          /\ inDegree[scan[w]] # 0
          /\ scan' = [scan EXCEPT ![w] = @ + 1]
          /\ UNCHANGED pc
       \/ /\ scan[w] >= NTxns
          /\ scan' = [scan EXCEPT ![w] = 0]
          /\ Goto(w, end)
    /\ UNCHANGED <<blockVars, dagVars, flagVars, main, monitor, txn, var_zero, copy,
                   etcdVars, envVars, historyVars>>

\* inDegree[i].compare_exchange_strong(expected, -1): on success the worker owns
\* i, on failure var_zero holds what was found and the scan goes on.
CompareExchange(w, expected, back) ==
  LET i == scan[w] IN
  /\ \/ /\ inDegree[i] = expected
        /\ inDegree' = [inDegree EXCEPT ![i] = -1]
        /\ txn' = [txn EXCEPT ![w] = i]
        /\ starts' = [starts EXCEPT ![i] = @ + 1]
        /\ staleWin' = (staleWin \/ expected # 0)
        /\ Goto(w, "mark")
        /\ UNCHANGED <<scan, var_zero>>
     \/ /\ inDegree[i] # expected
        /\ var_zero' = [var_zero EXCEPT ![w] = inDegree[i]]
        /\ scan' = [scan EXCEPT ![w] = @ + 1]
        /\ Goto(w, back)
        /\ UNCHANGED <<inDegree, txn, starts, staleWin>>
  /\ UNCHANGED <<blockVars, adjacencyMatrix, completedTxns, lastTxn, flagVars, main,
                 monitor, copy, etcdVars, envVars, processed, applied>>

\* Mutant: the winner stores nothing, so the entry still reads 0.
SelectCas1Unmarked(w) ==
  /\ pc[w] = "cas1"
  /\ inDegree[scan[w]] = 0
  /\ txn' = [txn EXCEPT ![w] = scan[w]]
  /\ starts' = [starts EXCEPT ![scan[w]] = @ + 1]
  /\ Goto(w, "mark")
  /\ UNCHANGED <<blockVars, dagVars, flagVars, main, monitor, scan, var_zero, copy,
                 etcdVars, envVars, processed, applied, staleWin>>

\* First loop: var_zero is set to 0 before every exchange.
SelectCas1(w) == pc[w] = "cas1" /\ CompareExchange(w, 0, "load1")

\* Second loop: var_zero is whatever the last failed exchange left in it.
SelectCas2(w) == pc[w] = "cas2" /\ CompareExchange(w, var_zero[w], "load2")

\* lastTxn.store(i)
SelectMark(w) ==
  /\ pc[w] = "mark"
  /\ lastTxn' = txn[w]
  /\ Goto(w, "process")
  /\ UNCHANGED <<blockVars, adjacencyMatrix, inDegree, completedTxns, flagVars, main,
                 monitor, scan, txn, var_zero, copy, etcdVars, envVars, historyVars>>

-----------------------------------------------------------------------------
\* The header does not parse: "continue", without complete().
ParseFailure(w) == txn[w] \in malformed /\ Move(w, "process", "loop")

\* The contract runs and flag takes its result, whatever flag was before.
ProcessTxn(w) ==
  /\ pc[w] = "process"
  /\ txn[w] \notin malformed
  /\ \E ok \in BOOLEAN :
       /\ flag' = ok
       /\ applied' = IF ok THEN applied \cup {txn[w]} ELSE applied
  /\ processed' = processed \cup {txn[w]}
  /\ Goto(w, "finish")
  /\ UNCHANGED <<blockVars, dagVars, completeFlag, updateFlag, compCount, main,
                 monitor, scan, txn, var_zero, copy, etcdVars, envVars, starts,
                 staleWin>>

\* complete: inDegree[txnID].fetch_sub(1)
CompleteSelf(w) ==
  /\ pc[w] = "finish"
  /\ inDegree' = [inDegree EXCEPT ![txn[w]] = @ - 1]
  /\ Goto(w, "count")
  /\ UNCHANGED <<blockVars, adjacencyMatrix, completedTxns, lastTxn, flagVars, main,
                 monitor, scan, txn, var_zero, copy, etcdVars, envVars, historyVars>>

\* complete: completedTxns++
CompleteCount(w) ==
  /\ pc[w] = "count"
  /\ completedTxns' = completedTxns + 1
  /\ scan' = [scan EXCEPT ![w] = txn[w] + 1]
  /\ Goto(w, "release")
  /\ UNCHANGED <<blockVars, adjacencyMatrix, inDegree, lastTxn, flagVars, main,
                 monitor, txn, var_zero, copy, etcdVars, envVars, historyVars>>

\* complete: one iteration of the loop over the successors.
CompleteRelease(w) ==
  /\ pc[w] = "release"
  /\ scan[w] < NTxns
  /\ inDegree' = IF <<txn[w], scan[w]>> \in adjacencyMatrix
                   THEN [inDegree EXCEPT ![scan[w]] = @ - 1] ELSE inDegree
  /\ scan' = [scan EXCEPT ![w] = @ + 1]
  /\ UNCHANGED <<blockVars, adjacencyMatrix, completedTxns, lastTxn, flagVars, main,
                 monitor, pc, txn, var_zero, copy, etcdVars, envVars, historyVars>>

\* complete returns.
CompleteReturn(w) == scan[w] >= NTxns /\ Move(w, "release", "compCount")

\* compCount.fetch_add(1)
AddCompCount(w) ==
  /\ pc[w] = "compCount"
  /\ compCount' = compCount + 1
  /\ Goto(w, "loop")
  /\ UNCHANGED <<blockVars, dagVars, flag, completeFlag, updateFlag, main, monitor,
                 scan, txn, var_zero, copy, etcdVars, envVars, historyVars>>

-----------------------------------------------------------------------------
\* monitorFunc: while (flag.load()) read the run key.
MonitorCheck ==
  /\ monitor = "check"
  /\ monitor' = IF flag THEN "get" ELSE "done"
  /\ UNCHANGED <<blockVars, dagVars, flagVars, main, workerVars, etcdVars, envVars,
                 historyVars>>

\* "finish" sets completeFlag and ends the thread.
MonitorGet ==
  /\ monitor = "get"
  /\ IF run = "finish"
       THEN completeFlag' = TRUE /\ monitor' = "done"
       ELSE monitor' = "check" /\ UNCHANGED completeFlag
  /\ UNCHANGED <<blockVars, dagVars, flag, updateFlag, compCount, main, workerVars,
                 etcdVars, envVars, historyVars>>

\* Callback of a CurrentLeader watch: clears the scheduler's flag, then sets
\* leaderCrashed, which is read only after the join.
StopExecution ==
  /\ flag' = FALSE
  /\ leaderCrashed' = TRUE
  /\ UNCHANGED <<blockVars, dagVars, completeFlag, updateFlag, compCount, main,
                 monitor, workerVars, etcdVars, leaderAlive, putFailures, historyVars>>

\* The key is deleted with the lease: one event for every live watcher.
WatchLeaderGone ==
  /\ ~leaderAlive
  /\ watchers > 0
  /\ watchers' = watchers - 1
  /\ StopExecution

\* Another node has been elected and puts its name; leaderTTL repeats the put.
\* It need not come: the new raft leader may be the node that is executing here,
\* whose main loop cannot reach leaderTTL before startBlock returns.
WatchNewLeader ==
  /\ ~leaderAlive
  /\ UNCHANGED watchers
  /\ StopExecution

-----------------------------------------------------------------------------
\* The leader as this follower sees it.

\* checkComponents has found this follower's count complete; run = finish.
LeaderFinish ==
  /\ leaderAlive
  /\ run = "start"
  /\ status = Cardinality(assigned)
  /\ run' = "finish"
  /\ UNCHANGED <<blockVars, dagVars, flagVars, main, monitor, workerVars, status,
                 data, envVars, historyVars>>

\* The leader dies and its lease on CurrentLeader runs out.
LeaderCrash ==
  /\ leaderAlive
  /\ leaderAlive' = FALSE
  /\ UNCHANGED <<blockVars, dagVars, flagVars, main, monitor, workerVars, etcdVars,
                 watchers, leaderCrashed, putFailures, historyVars>>

-----------------------------------------------------------------------------
Main == \/ ReadBlock \/ ExtractComponents \/ ScheduleTxns
        \/ JoinMonitor \/ JoinWorkers

Monitor == MonitorCheck \/ MonitorGet

Worker(w) ==
  \/ CheckLoop(w) \/ CheckReady(w)
  \/ SnapshotMap(w) \/ PutData(w) \/ ReadCount(w) \/ PutStatus(w) \/ ClearUpdate(w)
  \/ SelectPos(w) \/ SelectLoad(w) \/ SelectCas1(w) \/ SelectCas2(w) \/ SelectMark(w)
  \/ ParseFailure(w) \/ ProcessTxn(w)
  \/ CompleteSelf(w) \/ CompleteCount(w) \/ CompleteRelease(w) \/ CompleteReturn(w)
  \/ AddCompCount(w)

Next ==
  \/ Main \/ Monitor \/ WatchLeaderGone \/ WatchNewLeader \/ LeaderFinish \/ LeaderCrash
  \/ \E w \in Workers : Worker(w)

Spec == Init /\ [][Next]_vars

\* Threads are scheduled, the deletion of a watched key is delivered and a living
\* leader keeps polling; nothing obliges the leader to die or to be replaced.
FairSpec ==
  /\ Spec
  /\ WF_vars(Main) /\ WF_vars(Monitor)
  /\ WF_vars(WatchLeaderGone) /\ WF_vars(LeaderFinish)
  /\ \A w \in Workers : WF_vars(Worker(w))

-----------------------------------------------------------------------------
\* The entry -1 means "not mine" as well as "taken": whatever the workers do to
\* the shared array, no transaction of another follower is ever executed here.
OnlyAssigned == \A i \in Txns : starts[i] > 0 => i \in assigned

\* A transaction is handed to one worker, once (testDAGModule.cc, SelectTxn: a
\* second call does not return the entry the first one took).
AtMostOnce == \A i \in Txns : starts[i] <= 1

\* Conflicting transactions run in block order: "DAG-based execution".
ConflictOrder ==
  \A i, j \in Txns : <<i, j>> \in conflicts /\ starts[j] > 0 => i \in processed

\* Unless an exchange in selectTxn's second loop was won with a stale expected
\* value, every transaction is handed out at most once.
OnceUnlessStale == ~staleWin => AtMostOnce

\* Unless that happened, or the matrix was built with no thread, conflicting
\* transactions run in block order.
OrderedUnlessStale == ~staleWin /\ threadCount # 0 => ConflictOrder

\* When the leader has taken the block for finished, this follower has executed
\* all it was assigned and the data key holds all of its writes.
FinishedDataComplete ==
  run = "finish" /\ ~staleWin => processed = assigned /\ data = applied

\* "Wait for all threads to finish" (scheduler.h, scheduleTxns): with a leader
\* that lives and contracts that succeed, the follower gets through the block.
AllThreadsFinish ==
  malformed = {} /\ [](leaderAlive /\ applied = processed) => <>(main = "returned")

-----------------------------------------------------------------------------
(***************************************************************************)
(* The inductive invariant of FollowerSchedulerProofs, in parts.           *)
(***************************************************************************)
\* A worker that holds a transaction.
Holding(w) == pc[w] \in {"mark", "process", "finish", "count", "release"}

\* complete() has subtracted the edge from i to j; it has counted i.
Released(i, j) ==
  /\ i \in processed
  /\ \A w \in Workers : txn[w] = i =>
       /\ pc[w] \notin {"finish", "count"}
       /\ pc[w] = "release" => scan[w] > j
Counted ==
  {i \in processed : \A w \in Workers : txn[w] = i => pc[w] \notin {"finish", "count"}}

\* Predecessors of j whose decrement has not reached inDegree[j].
Pending(j) == {i \in Txns : <<i, j>> \in adjacencyMatrix /\ ~Released(i, j)}

\* Before the workers start nothing has happened; the follower is given whole
\* components of the graph.
Prepared ==
  /\ Closed(assigned, conflicts)
  /\ main \in {"read", "components"} => inDegree = [i \in Txns |-> -1]
  /\ main = "components" => completedTxns = NTxns
  /\ main # "read" /\ threadCount # 0 => adjacencyMatrix = conflicts
  /\ main \in {"read", "components", "schedule"} =>
       /\ \A w \in Workers : pc[w] = "idle"
       /\ \A i \in Txns : starts[i] = 0
       /\ processed = {} /\ status = Absent

\* Whatever the workers do, stale exchanges included, they do it to their own part.
Mine ==
  /\ \A i \in Txns \ assigned : inDegree[i] = -1 /\ starts[i] = 0
  /\ \A w \in Workers : pc[w] \in {"cas1", "cas2"} => scan[w] \in assigned
  /\ \A w \in Workers : Holding(w) => txn[w] \in assigned /\ starts[txn[w]] > 0
  /\ processed \subseteq assigned

\* A transaction in hand is in one worker's hands, and executed once there.
Handed ==
  /\ AtMostOnce
  /\ \A w, v \in Workers : Holding(w) /\ Holding(v) /\ txn[w] = txn[v] => w = v
  /\ \A i \in Txns : starts[i] = 0 => i \notin processed
  /\ \A w \in Workers : /\ pc[w] \in {"mark", "process"} => txn[w] \notin processed
                        /\ pc[w] \in {"finish", "count", "release"} => txn[w] \in processed

\* The in-degree of an assigned transaction nobody has taken is the number of its
\* predecessors still to come, and is negative once it was taken.
Accounting ==
  \A j \in assigned :
    IF starts[j] = 0 THEN inDegree[j] = Cardinality(Pending(j))
                     ELSE inDegree[j] < 0 /\ Pending(j) = {}

\* completedTxns starts at the number of transactions of the others.
Counting == completedTxns = NTxns - Cardinality(assigned) + Cardinality(Counted)

\* The data key is written before the status key, and both after the last contract.
Published ==
  /\ \A w \in Workers :
       /\ pc[w] \in {"update", "snapshot", "putData", "readCount", "putStatus", "clear"}
            => completedTxns = NTxns
       /\ pc[w] = "putData" => copy[w].data = applied
       /\ pc[w] \in {"readCount", "putStatus", "clear"} => data = applied
  /\ status # Absent => completedTxns = NTxns /\ data = applied
  /\ run = "finish" => status # Absent

IInv ==
  /\ TypeOK /\ Prepared /\ Mine
  /\ ~staleWin =>
       /\ Handed
       /\ main \notin {"read", "components"} => Accounting /\ Counting
       /\ Published

-----------------------------------------------------------------------------
\* Types, and what selectTxn and complete promise: every transaction once, and
\* conflicting ones in block order, as long as no exchange is won with a stale value.
SchedulerInv == TypeOK /\ OnceUnlessStale /\ OrderedUnlessStale

=============================================================================
