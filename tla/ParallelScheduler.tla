------------------------- MODULE ParallelScheduler -------------------------
(***************************************************************************)
(* The multi-core baseline: class scheduler of                             *)
(* singleNode-parallel/scheduler/scheduler.h together with the run-time    *)
(* half of class DAGmodule (selectTxn, complete).  One block is executed   *)
(* by Threads workers that share the atomic in-degree array.               *)
(*                                                                         *)
(* Every atomic operation of the code is a step of its own: the two loads  *)
(* of the loop condition, each compare_exchange_strong of selectTxn's      *)
(* scan, the contract call, and each fetch_sub of complete.  What a        *)
(* contract computes is left out; it succeeds or fails.                    *)
(***************************************************************************)
EXTENDS Integers, FiniteSets

CONSTANTS NTxns,     \* totalTxns: how many transactions the block holds
          Threads    \* the workers schedulTxns starts

ASSUME NTxnsAssumption == NTxns \in Nat
ASSUME ThreadsAssumption == Threads # {}

Txns == 0 .. NTxns - 1

\* An edge <<i, j>> stands for adjacencyMatrix[i][j] == 1; dependencyMatrix
\* only ever writes above the diagonal.
Edges == {e \in Txns \X Txns : e[1] < e[2]}

VARIABLES
  adjacencyMatrix,  \* the edges dag.create found in this block
  malformed,        \* transactions whose header does not parse
  inDegree,         \* dag.inDegree
  completedTxns,    \* dag.completedTxns
  flag,             \* scheduler.flag
  pc,               \* where each worker is
  scan,             \* loop variable of selectTxn and of complete
  txn,              \* the transaction a worker holds
  result,           \* what schedulTxns came to
  starts,           \* history: how often each transaction was handed out
  processed,        \* history: transactions whose contract call returned
  applied,          \* history: those for which it returned true
  counted,          \* history: those complete() added to completedTxns
  released,         \* history: edges complete() has subtracted
  late              \* history: transactions each worker got after a failure

vars == <<adjacencyMatrix, malformed, inDegree, completedTxns, flag, pc, scan,
          txn, result, starts, processed, applied, counted, released, late>>

block == <<adjacencyMatrix, malformed>>
history == <<starts, processed, applied, counted, released, late>>

Preds(E, j) == {i \in Txns : <<i, j>> \in E}

Locations == {"loop", "flag", "select", "process", "finish", "count",
              "release", "done"}

\* A worker that holds a transaction: from the successful compare-exchange to
\* the end of complete().
Holding(t) == pc[t] \in {"process", "finish", "count", "release"}

TypeOK ==
  /\ adjacencyMatrix \in SUBSET Edges
  /\ malformed \in SUBSET Txns
  /\ inDegree \in [Txns -> Int]
  /\ completedTxns \in Nat
  /\ flag \in BOOLEAN
  /\ pc \in [Threads -> Locations]
  /\ scan \in [Threads -> Nat]
  /\ txn \in [Threads -> Nat]
  /\ \A t \in Threads : Holding(t) => txn[t] \in Txns
  /\ result \in {"running", "flushed", "failed"}
  /\ starts \in [Txns -> Nat]
  /\ processed \in SUBSET Txns
  /\ applied \in SUBSET processed
  /\ counted \in SUBSET processed
  /\ released \in SUBSET adjacencyMatrix
  /\ late \in [Threads -> Nat]

-----------------------------------------------------------------------------
\* State after dag.create has joined its threads and schedulTxns has stored
\* flag = true.  A header extractTransaction could not parse leaves the
\* transaction without addresses, hence without edges.
Init ==
  /\ malformed \in SUBSET Txns
  /\ adjacencyMatrix \in
       SUBSET {e \in Edges : e[1] \notin malformed /\ e[2] \notin malformed}
  /\ inDegree = [j \in Txns |-> Cardinality(Preds(adjacencyMatrix, j))]
  /\ completedTxns = 0
  /\ flag = TRUE
  /\ pc = [t \in Threads |-> "loop"]
  /\ scan = [t \in Threads |-> 0]
  /\ txn = [t \in Threads |-> 0]
  /\ result = "running"
  /\ starts = [i \in Txns |-> 0]
  /\ processed = {}
  /\ applied = {}
  /\ counted = {}
  /\ released = {}
  /\ late = [t \in Threads |-> 0]

Goto(t, l) == pc' = [pc EXCEPT ![t] = l]

-----------------------------------------------------------------------------
\* executeTxns: while (dag.completedTxns < dag.totalTxns && flag.load())

\* Mutant: the loop stops one completion early.
CheckCompletedEarly(t) ==
  /\ pc[t] = "loop"
  /\ Goto(t, IF completedTxns < NTxns - 1 THEN "flag" ELSE "done")
  /\ UNCHANGED <<block, inDegree, completedTxns, flag, scan, txn, result, history>>

\* First operand of the loop condition.
CheckCompleted(t) ==
  /\ pc[t] = "loop"
  /\ Goto(t, IF completedTxns < NTxns THEN "flag" ELSE "done")
  /\ UNCHANGED <<block, inDegree, completedTxns, flag, scan, txn, result, history>>

\* Mutant: the loop forgets its second operand.
CheckFlagIgnored(t) ==
  /\ pc[t] = "flag"
  /\ Goto(t, "select")
  /\ scan' = [scan EXCEPT ![t] = 0]
  /\ UNCHANGED <<block, inDegree, completedTxns, flag, txn, result, history>>

\* Second operand; selectTxn starts its scan at 0.
CheckFlag(t) ==
  /\ pc[t] = "flag"
  /\ Goto(t, IF flag THEN "select" ELSE "done")
  /\ scan' = [scan EXCEPT ![t] = 0]
  /\ UNCHANGED <<block, inDegree, completedTxns, flag, txn, result, history>>

-----------------------------------------------------------------------------
\* selectTxn: for each i, compare_exchange_strong(expected = 0, -1)

\* Mutant: a load and a test instead of a compare-exchange, nothing stored.
SelectTakeUnmarked(t) ==
  LET i == scan[t] IN
  /\ pc[t] = "select"
  /\ i < NTxns
  /\ inDegree[i] = 0
  /\ txn' = [txn EXCEPT ![t] = i]
  /\ starts' = [starts EXCEPT ![i] = @ + 1]
  /\ late' = IF flag THEN late ELSE [late EXCEPT ![t] = @ + 1]
  /\ Goto(t, "process")
  /\ UNCHANGED <<block, inDegree, completedTxns, flag, scan, result, processed,
                 applied, counted, released>>

\* Mutant: a transaction with one predecessor left counts as ready.
SelectTakeEager(t) ==
  LET i == scan[t] IN
  /\ pc[t] = "select"
  /\ i < NTxns
  /\ inDegree[i] \in {0, 1}
  /\ inDegree' = [inDegree EXCEPT ![i] = -1]
  /\ txn' = [txn EXCEPT ![t] = i]
  /\ starts' = [starts EXCEPT ![i] = @ + 1]
  /\ late' = IF flag THEN late ELSE [late EXCEPT ![t] = @ + 1]
  /\ Goto(t, "process")
  /\ UNCHANGED <<block, completedTxns, flag, scan, result, processed, applied,
                 counted, released>>

\* The exchange succeeds: the worker owns transaction i.
SelectTake(t) ==
  LET i == scan[t] IN
  /\ pc[t] = "select"
  /\ i < NTxns
  /\ inDegree[i] = 0
  /\ inDegree' = [inDegree EXCEPT ![i] = -1]
  /\ txn' = [txn EXCEPT ![t] = i]
  /\ starts' = [starts EXCEPT ![i] = @ + 1]
  /\ late' = IF flag THEN late ELSE [late EXCEPT ![t] = @ + 1]
  /\ Goto(t, "process")
  /\ UNCHANGED <<block, completedTxns, flag, scan, result, processed, applied,
                 counted, released>>

\* The exchange fails: go on with the next transaction.
SelectSkip(t) ==
  /\ pc[t] = "select"
  /\ scan[t] < NTxns
  /\ inDegree[scan[t]] # 0
  /\ scan' = [scan EXCEPT ![t] = @ + 1]
  /\ UNCHANGED <<block, inDegree, completedTxns, flag, pc, txn, result, history>>

\* The scan is over: selectTxn returns -1 and the worker spins.
SelectNone(t) ==
  /\ pc[t] = "select"
  /\ scan[t] >= NTxns
  /\ Goto(t, "loop")
  /\ UNCHANGED <<block, inDegree, completedTxns, flag, scan, txn, result, history>>

-----------------------------------------------------------------------------
\* The header does not parse: "continue", without complete().
ParseFailure(t) ==
  /\ pc[t] = "process"
  /\ txn[t] \in malformed
  /\ Goto(t, "loop")
  /\ UNCHANGED <<block, inDegree, completedTxns, flag, scan, txn, result, history>>

\* The contract runs and returns; a failure clears the shared flag.
ProcessTxn(t) ==
  /\ pc[t] = "process"
  /\ txn[t] \notin malformed
  /\ \E localSuccess \in BOOLEAN :
       /\ flag' = (flag /\ localSuccess)
       /\ applied' = IF localSuccess THEN applied \cup {txn[t]} ELSE applied
  /\ processed' = processed \cup {txn[t]}
  /\ Goto(t, "finish")
  /\ UNCHANGED <<block, inDegree, completedTxns, scan, txn, result, starts,
                 counted, released, late>>

-----------------------------------------------------------------------------
\* complete(txnID)

\* inDegree[txnID].fetch_sub(1)
CompleteSelf(t) ==
  /\ pc[t] = "finish"
  /\ inDegree' = [inDegree EXCEPT ![txn[t]] = @ - 1]
  /\ Goto(t, "count")
  /\ UNCHANGED <<block, completedTxns, flag, scan, txn, result, history>>

\* Mutant: the loop over the successors starts one too far.
CompleteCountSkips(t) ==
  /\ pc[t] = "count"
  /\ completedTxns' = completedTxns + 1
  /\ counted' = counted \cup {txn[t]}
  /\ scan' = [scan EXCEPT ![t] = txn[t] + 2]
  /\ Goto(t, "release")
  /\ UNCHANGED <<block, inDegree, flag, txn, result, starts, processed, applied,
                 released, late>>

\* completedTxns++
CompleteCount(t) ==
  /\ pc[t] = "count"
  /\ completedTxns' = completedTxns + 1
  /\ counted' = counted \cup {txn[t]}
  /\ scan' = [scan EXCEPT ![t] = txn[t] + 1]
  /\ Goto(t, "release")
  /\ UNCHANGED <<block, inDegree, flag, txn, result, starts, processed, applied,
                 released, late>>

\* Mutant: every later transaction is decremented, dependent or not.
CompleteReleaseAll(t) ==
  LET j == scan[t] IN
  /\ pc[t] = "release"
  /\ j < NTxns
  /\ inDegree' = [inDegree EXCEPT ![j] = @ - 1]
  /\ released' = released \cup {<<txn[t], j>>}
  /\ scan' = [scan EXCEPT ![t] = @ + 1]
  /\ UNCHANGED <<block, completedTxns, flag, pc, txn, result, starts, processed,
                 applied, counted, late>>

\* One iteration of the loop over the successors.
CompleteRelease(t) ==
  LET j == scan[t] IN
  /\ pc[t] = "release"
  /\ j < NTxns
  /\ IF <<txn[t], j>> \in adjacencyMatrix
       THEN /\ inDegree' = [inDegree EXCEPT ![j] = @ - 1]
            /\ released' = released \cup {<<txn[t], j>>}
       ELSE UNCHANGED <<inDegree, released>>
  /\ scan' = [scan EXCEPT ![t] = @ + 1]
  /\ UNCHANGED <<block, completedTxns, flag, pc, txn, result, starts, processed,
                 applied, counted, late>>

\* complete() returns.
CompleteReturn(t) ==
  /\ pc[t] = "release"
  /\ scan[t] >= NTxns
  /\ Goto(t, "loop")
  /\ UNCHANGED <<block, inDegree, completedTxns, flag, scan, txn, result, history>>

-----------------------------------------------------------------------------
\* Mutant: one worker is joined, the others may still run.
JoinFirst ==
  /\ result = "running"
  /\ \E t \in Threads : pc[t] = "done"
  /\ result' = IF flag THEN "flushed" ELSE "failed"
  /\ UNCHANGED <<block, inDegree, completedTxns, flag, pc, scan, txn, history>>

\* schedulTxns: every worker joined; the write set is flushed to the global
\* state only if no transaction failed.
Join ==
  /\ result = "running"
  /\ \A t \in Threads : pc[t] = "done"
  /\ result' = IF flag THEN "flushed" ELSE "failed"
  /\ UNCHANGED <<block, inDegree, completedTxns, flag, pc, scan, txn, history>>

Worker(t) ==
  \/ CheckCompleted(t)
  \/ CheckFlag(t)
  \/ SelectTake(t)
  \/ SelectSkip(t)
  \/ SelectNone(t)
  \/ ParseFailure(t)
  \/ ProcessTxn(t)
  \/ CompleteSelf(t)
  \/ CompleteCount(t)
  \/ CompleteRelease(t)
  \/ CompleteReturn(t)

Next == Join \/ \E t \in Threads : Worker(t)

Spec == Init /\ [][Next]_vars

\* The operating system eventually schedules every runnable thread.
FairSpec == Spec /\ WF_vars(Join) /\ \A t \in Threads : WF_vars(Worker(t))

-----------------------------------------------------------------------------
\* A transaction is handed to one worker, once: the compare-exchange in
\* selectTxn is the only arbiter between the workers.
AtMostOnce == \A i \in Txns : starts[i] <= 1

\* No transaction starts before the contract call of every earlier transaction
\* it conflicts with has returned: the order complete() enforces by counting
\* the in-degrees down is the block order of conflicting transactions.
ConflictOrder ==
  \A i, j \in Txns :
    <<i, j>> \in adjacencyMatrix /\ starts[j] > 0 => i \in processed

\* Predecessors of j whose decrement has not reached inDegree[j].
Pending(j) == {i \in Txns : <<i, j>> \in adjacencyMatrix \ released}

\* What the lock-free array means at every moment: until a transaction is
\* taken its in-degree is the number of predecessors not yet subtracted, and
\* once taken no predecessor is left and no worker can see 0 there again.
InDegreeAccounting ==
  \A j \in Txns :
    IF starts[j] = 0 THEN inDegree[j] = Cardinality(Pending(j))
                     ELSE inDegree[j] < 0 /\ Pending(j) = {}

\* schedulTxns flushes the write set only when every transaction of the block
\* ran and succeeded: no partial block reaches the global state.
FlushComplete == result = "flushed" => applied = Txns

\* A held transaction is held by one worker and was handed out once.
Ownership ==
  /\ \A t \in Threads : Holding(t) => starts[txn[t]] > 0
  /\ \A t, u \in Threads :
       Holding(t) /\ Holding(u) /\ txn[t] = txn[u] => t = u

\* How far complete() has got with each transaction.
Phases ==
  /\ \A i \in Txns : starts[i] = 0 => i \notin processed
  /\ \A t \in Threads :
       /\ pc[t] \in {"finish", "count", "release"} => txn[t] \in processed
       /\ pc[t] \in {"process", "finish", "count"} => txn[t] \notin counted
       /\ pc[t] = "release" =>
            /\ txn[t] \in counted
            /\ \A j \in Txns : j >= scan[t] => <<txn[t], j>> \notin released
  /\ \A i, j \in Txns : <<i, j>> \in released => i \in counted

\* Why a flush is complete: the counter counts distinct transactions, a worker
\* leaves only when all are counted or the flag is down, and the flag is up
\* only while every contract call has succeeded.
Counting ==
  /\ completedTxns = Cardinality(counted)
  /\ \A t \in Threads : pc[t] = "done" => completedTxns >= NTxns \/ ~flag
  /\ flag => applied = processed

\* The inductive invariant of ParallelSchedulerProofs.
IInv ==
  /\ TypeOK
  /\ AtMostOnce
  /\ InDegreeAccounting
  /\ Ownership
  /\ Phases
  /\ Counting
  /\ FlushComplete

\* What the outcome rests on besides: after the join nobody moves, a contract is
\* entered once, and a cleared flag means that one of them failed.
Outcome ==
  /\ result # "running" => \A t \in Threads : pc[t] = "done"
  /\ \A t \in Threads : pc[t] = "process" => txn[t] \notin processed
  /\ ~flag => applied # processed

\* Why stopping is prompt: a worker that got a transaction after a failure is not
\* selecting any more, and the one whose contract failed first got none.
Stopping ==
  /\ \A t \in Threads : late[t] <= 1 /\ (late[t] > 0 => ~flag /\ pc[t] # "select")
  /\ ~flag => \E t \in Threads : late[t] = 0 /\ pc[t] # "select"

\* "One thread can stop all on failure": once a contract has failed, each of
\* the other workers begins at most the one transaction it was selecting, and
\* the one whose contract failed begins none.
StopBound == (\A t \in Threads : late[t] <= 1) /\ (\E t \in Threads : late[t] = 0)

\* Workers spin, so a lost decrement would hang the node: a block of well
\* formed transactions is always finished or given up.
Termination == (malformed = {}) => <>(result # "running")

\* The transactions handed out so far, and those whose contract is running.
BegunTxns == {i \in Txns : starts[i] > 0}
RunningTxns == {i \in Txns : \E t \in Threads : pc[t] = "process" /\ txn[t] = i}

Execution == INSTANCE BlockExecution WITH
  conflicts <- adjacencyMatrix,
  begun     <- BegunTxns,
  running   <- RunningTxns,
  ended     <- processed,
  succeeded <- applied,
  outcome   <- result

\* The atomic steps of executeTxns, selectTxn, complete and schedulTxns add up to
\* an execution of the block as BlockExecution describes it.
ImplementsExecution == Execution!Spec

=============================================================================
