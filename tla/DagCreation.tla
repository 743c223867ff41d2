---------------------------- MODULE DagCreation ----------------------------
(***************************************************************************)
(* How DAGmodule::create turns a block into a dependency matrix.           *)
(*   threads  threads numbered by PID each fill a chunk of rows            *)
(*            (dependencyMatrix).  The multi-core baseline also counts     *)
(*            in-degrees with fetch_add while it fills the rows; the       *)
(*            distributed node takes the column sums afterwards            *)
(*            (FollowerScheduler).                                         *)
(*   serial   one loop, run twice for every block: by main and again by    *)
(*            extractBlock, over the matrix of the first run.              *)
(*   pool     DAGmodulePool.h: the PIDs are tasks of a ThreadPool; the     *)
(*            matrix is complete when the pool's destructor returns.       *)
(* Addresses are opaque; a transaction is its input and output lists, of   *)
(* which only membership is ever looked at.                                *)
(***************************************************************************)
EXTENDS Integers, Sequences, FiniteSets, FiniteSetsExt

CONSTANTS NTxns,        \* transactions in the block
          Addresses,    \* state addresses transactions may name
          ThreadCounts, \* values of config.json's threadCount
          Variants,     \* of "threads", "serial", "pool"
          Workers       \* threads of the pool

ASSUME NTxnsAssumption == NTxns \in Nat
ASSUME ThreadCountsAssumption == ThreadCounts \subseteq Nat \ {0}
ASSUME VariantsAssumption == Variants \subseteq {"threads", "serial", "pool"}
ASSUME WorkersAssumption == Workers # {}

Txns == 0 .. NTxns - 1

\* TransactionStruct
Transaction == [inputs : SUBSET Addresses, outputs : SUBSET Addresses]

VARIABLES
  CurrentTransactions,  \* the block, in order
  threadCount,
  adjacencyMatrix,      \* pairs <<i, j>> whose entry is 1
  inDegree,
  row, col,             \* per PID: loop variables of dependencyMatrix
  joined,               \* create has joined its threads
  variant, pass,        \* pass: how often create was called
  tasks, worker,        \* pool: tasks_, what each worker does
  enqueued, owed, stop  \* pool: next task, a notify to do, stop_ (set, then told)

block == <<CurrentTransactions, threadCount, variant>>
pool  == <<tasks, worker, enqueued, owed, stop>>
vars  == <<block, adjacencyMatrix, inDegree, row, col, joined, pass, pool>>

PIDs == 0 .. threadCount - 1

\* A worker of the pool that runs no PID: at the loop's head, in cv_.wait, gone.
Ready == -1
Asleep == -2
Ended == -3

TypeOK ==
  /\ CurrentTransactions \in [Txns -> Transaction]
  /\ threadCount \in ThreadCounts /\ variant \in Variants
  /\ adjacencyMatrix \in SUBSET {e \in Txns \X Txns : e[1] < e[2]}
  /\ inDegree \in [Txns -> 0 .. NTxns]
  /\ row \in [PIDs -> Nat]
  /\ col \in [PIDs -> Nat]
  /\ joined \in BOOLEAN /\ pass \in 1 .. 2
  /\ tasks \in Seq(PIDs) /\ Len(tasks) <= threadCount /\ owed \in BOOLEAN
  /\ worker \in [Workers -> PIDs \cup {Ready, Asleep, Ended}]
  /\ stop \in {"no", "set", "told"} /\ enqueued \in 0 .. threadCount

-----------------------------------------------------------------------------
\* Input-Output, Output-Input, Output-Output; two readers do not conflict.
Conflict(a, b) ==
  \/ a.inputs \cap b.outputs # {}
  \/ a.outputs \cap b.inputs # {}
  \/ a.outputs \cap b.outputs # {}

\* int start = PID * baseChunk + min(PID, extra)
Start(PID) ==
  PID * (NTxns \div threadCount) + Min({PID, NTxns % threadCount})

\* Mutant: the inclusive bound lacks its - 1.
EndOverlap(PID) ==
  Start(PID) + NTxns \div threadCount + (IF PID < NTxns % threadCount THEN 1 ELSE 0)

\* int end = start + baseChunk - 1 + (PID < extra ? 1 : 0), inclusive; the
\* baseline writes the same bound exclusively
End(PID) ==
  Start(PID) + NTxns \div threadCount - 1
             + (IF PID < NTxns % threadCount THEN 1 ELSE 0)

-----------------------------------------------------------------------------
\* The pool's chunks: every PID gets one row more than the quotient.
StartPool(PID) == PID * (NTxns \div threadCount + 1)
EndPool(PID)   == StartPool(PID) + NTxns \div threadCount

\* The rows a PID does; the serial loop does them all.
First(p) == CASE variant = "threads" -> Start(p) [] variant = "pool" -> StartPool(p) [] OTHER -> 0
Last(p)  == CASE variant = "threads" -> End(p) [] variant = "pool" -> EndPool(p)
              [] OTHER -> NTxns - 1

\* create: transactions extracted, matrix and in-degrees cleared, one thread
\* started for every PID.
Init ==
  /\ CurrentTransactions \in [Txns -> Transaction]
  /\ threadCount \in ThreadCounts
  /\ adjacencyMatrix = {}
  /\ inDegree = [i \in Txns |-> 0]
  /\ variant \in Variants
  /\ variant = "serial" => threadCount = 1
  /\ row = [p \in PIDs |-> First(p)]
  /\ col = [p \in PIDs |-> First(p) + 1]
  /\ joined = FALSE /\ pass = 1
  /\ tasks = <<>> /\ worker = [w \in Workers |-> Ready]
  /\ enqueued = 0 /\ owed = FALSE /\ stop = "no"

\* A row the thread still has to do.
Working(p) == row[p] <= Last(p) /\ row[p] < NTxns
Running(p) == variant = "pool" => \E w \in Workers : worker[w] = p

\* One iteration of the inner loop.
ComparePair(p) ==
  /\ Working(p) /\ Running(p)
  /\ col[p] < NTxns
  /\ IF Conflict(CurrentTransactions[row[p]], CurrentTransactions[col[p]])
       THEN /\ adjacencyMatrix' = adjacencyMatrix \cup {<<row[p], col[p]>>}
            /\ inDegree' = [inDegree EXCEPT ![col[p]] = @ + 1]
       ELSE UNCHANGED <<adjacencyMatrix, inDegree>>
  /\ col' = [col EXCEPT ![p] = @ + 1]
  /\ UNCHANGED <<block, row, joined, pass, pool>>

\* The outer loop goes on to the next row.
NextRow(p) ==
  /\ Working(p) /\ Running(p)
  /\ col[p] >= NTxns
  /\ row' = [row EXCEPT ![p] = @ + 1]
  /\ col' = [col EXCEPT ![p] = row[p] + 2]
  /\ UNCHANGED <<block, adjacencyMatrix, inDegree, joined, pass, pool>>

\* threads[i].join() for every i, or the pool's destructor joins its workers.
Join ==
  /\ ~joined
  /\ IF variant = "pool" THEN \A w \in Workers : worker[w] = Ended
                         ELSE \A p \in PIDs : ~Working(p)
  /\ joined' = TRUE
  /\ UNCHANGED <<block, adjacencyMatrix, inDegree, row, col, pass, pool>>

\* extractBlock calls create again: new in-degrees, but resize leaves the rows it
\* finds, and CurrentTransactions holds the block twice.
CreateAgain ==
  /\ variant = "serial" /\ joined /\ pass = 1
  /\ pass' = 2 /\ joined' = FALSE
  /\ inDegree' = [i \in Txns |-> 0]
  /\ row' = [p \in PIDs |-> First(p)]
  /\ col' = [p \in PIDs |-> First(p) + 1]
  /\ UNCHANGED <<block, adjacencyMatrix, pool>>

-----------------------------------------------------------------------------
(***************************************************************************)
(* The thread pool.                                                        *)
(***************************************************************************)
poolOnly == <<block, adjacencyMatrix, inDegree, row, col, joined, pass>>

\* create's loop over the PIDs.
enqueue ==
  /\ variant = "pool" /\ enqueued < threadCount /\ ~owed
  /\ tasks' = Append(tasks, enqueued) /\ enqueued' = enqueued + 1 /\ owed' = TRUE
  /\ UNCHANGED <<poolOnly, worker, stop>>

\* cv_.notify_one, after the lock is released.
NotifyOne ==
  /\ owed /\ owed' = FALSE
  /\ \/ \E w \in Workers : worker[w] = Asleep /\ worker' = [worker EXCEPT ![w] = Ready]
     \/ (\A w \in Workers : worker[w] # Asleep) /\ UNCHANGED worker
  /\ UNCHANGED <<poolOnly, tasks, enqueued, stop>>

\* Under the lock: take a task, end, or wait on cv_.
WorkerTakes(w) ==
  /\ variant = "pool" /\ worker[w] = Ready
  /\ \/ /\ tasks # <<>>
        /\ worker' = [worker EXCEPT ![w] = Head(tasks)] /\ tasks' = Tail(tasks)
     \/ /\ tasks = <<>> /\ UNCHANGED tasks
        /\ worker' = [worker EXCEPT ![w] = IF stop = "no" THEN Asleep ELSE Ended]
  /\ UNCHANGED <<poolOnly, enqueued, owed, stop>>

TaskDone(w) ==
  /\ worker[w] \in PIDs /\ ~Working(worker[w])
  /\ worker' = [worker EXCEPT ![w] = Ready]
  /\ UNCHANGED <<poolOnly, tasks, enqueued, owed, stop>>

\* ~ThreadPool: stop_ under the lock, notify_all after it.
DestructorStops ==
  /\ variant = "pool" /\ enqueued = threadCount /\ ~owed /\ stop = "no"
  /\ stop' = "set"
  /\ UNCHANGED <<poolOnly, tasks, worker, enqueued, owed>>

\* Mutant: notify_one.
NotifyAllOne ==
  /\ stop = "set" /\ stop' = "told"
  /\ \/ \E w \in Workers : worker[w] = Asleep /\ worker' = [worker EXCEPT ![w] = Ready]
     \/ (\A w \in Workers : worker[w] # Asleep) /\ UNCHANGED worker
  /\ UNCHANGED <<poolOnly, tasks, enqueued, owed>>

NotifyAll ==
  /\ stop = "set" /\ stop' = "told"
  /\ worker' = [w \in Workers |-> IF worker[w] = Asleep THEN Ready ELSE worker[w]]
  /\ UNCHANGED <<poolOnly, tasks, enqueued, owed>>

Done == joined /\ (variant = "serial" => pass = 2) /\ UNCHANGED vars

Next ==
  \/ Join \/ CreateAgain \/ Done
  \/ \E p \in PIDs : ComparePair(p) \/ NextRow(p)
  \/ enqueue \/ NotifyOne \/ DestructorStops \/ NotifyAll
  \/ \E w \in Workers : WorkerTakes(w) \/ TaskDone(w)

Spec == Init /\ [][Next]_vars

-----------------------------------------------------------------------------
\* Two transactions that may not be swapped: one writes what the other touches.
MayNotSwap(a, b) ==
  \E x \in Addresses : \/ x \in a.outputs /\ x \in b.inputs \cup b.outputs
                       \/ x \in b.outputs /\ x \in a.inputs \cup a.outputs

\* Whatever the number of threads, more threads than rows included, whoever runs
\* the tasks and however often create is called, no pair is missed and no pair is
\* invented: the matrix is the conflict relation.
MatrixExact ==
  joined => adjacencyMatrix =
              {e \in Txns \X Txns : /\ e[1] < e[2]
                                    /\ MayNotSwap(CurrentTransactions[e[1]],
                                                  CurrentTransactions[e[2]])}

\* No row is filled by two threads: a row done twice would be counted twice by
\* fetch_add and its successors would never become ready.  A second create counts
\* from zero again.
InDegreeExact ==
  (pass = 1 \/ joined) => \A j \in Txns :
    inDegree[j] = Cardinality({i \in Txns : <<i, j>> \in adjacencyMatrix})

\* No wake-up of the pool is lost: tasks wait with every worker asleep only until
\* the notify that is still to come, and nobody sleeps once the destructor has
\* notified all.
NoLostWakeup ==
  /\ tasks # <<>> /\ (\A w \in Workers : worker[w] = Asleep) => owed
  /\ stop = "told" => \A w \in Workers : worker[w] # Asleep

-----------------------------------------------------------------------------
(***************************************************************************)
(* The inductive invariant of DagCreationProofs, in parts.                 *)
(***************************************************************************)
\* This call of create has compared i with j; so it knows these predecessors of j.
Compared(i, j) ==
  \E p \in PIDs : /\ First(p) <= i /\ i <= Last(p)
                  /\ i < row[p] \/ (i = row[p] /\ j < col[p])
Found(j) ==
  {i \in Txns : /\ i < j /\ Compared(i, j)
                /\ Conflict(CurrentTransactions[i], CurrentTransactions[j])}

\* The matrix and the in-degrees are those of the pairs compared so far; a second
\* call finds the matrix complete.
Filled ==
  /\ \A p \in PIDs : First(p) <= row[p] /\ row[p] < col[p]
  /\ adjacencyMatrix =
       {e \in Txns \X Txns : /\ e[1] < e[2]
                             /\ pass = 2 \/ Compared(e[1], e[2])
                             /\ Conflict(CurrentTransactions[e[1]], CurrentTransactions[e[2]])}
  /\ \A j \in Txns : inDegree[j] = Cardinality(Found(j))
  /\ joined => \A p \in PIDs : ~Working(p)
  /\ pass = 2 => variant = "serial"
  /\ variant = "serial" => threadCount = 1

\* A task is queued, run or done; a worker ends when all are at least run.
Tasks ==
  /\ Len(tasks) <= enqueued
  /\ variant = "pool" => \A p \in PIDs : p < enqueued =>
       \/ \E k \in DOMAIN tasks : tasks[k] = p
       \/ \E w \in Workers : worker[w] = p
       \/ ~Working(p)
  /\ stop # "no" => enqueued = threadCount
  /\ \A w \in Workers : worker[w] = Ended => stop # "no" /\ tasks = <<>>

IInv == TypeOK /\ Filled /\ Tasks /\ NoLostWakeup

-----------------------------------------------------------------------------
\* Types, and the graph create leaves: the conflict relation and its in-degrees.
GraphInv == TypeOK /\ MatrixExact /\ InDegreeExact

=============================================================================
