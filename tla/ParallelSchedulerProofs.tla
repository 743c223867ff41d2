---------------------- MODULE ParallelSchedulerProofs ----------------------
(***************************************************************************)
(* Proofs about ParallelScheduler, for every block and every non-empty set *)
(* of workers.  IInv is inductive; the safety properties follow from it.   *)
(***************************************************************************)
EXTENDS ParallelScheduler, FiniteSetTheorems, TLAPS

\* The transactions of a block form a finite set of NTxns elements.
LEMMA TxnsFinite == IsFiniteSet(Txns) /\ Cardinality(Txns) = NTxns
  <1>1. 0 \in Int /\ NTxns - 1 \in Int /\ NTxns \in Nat
    BY NTxnsAssumption
  <1>2. IsFiniteSet(0 .. NTxns - 1)
        /\ Cardinality(0 .. NTxns - 1) =
             IF 0 > NTxns - 1 THEN 0 ELSE NTxns - 1 - 0 + 1
    BY <1>1, FS_Interval
  <1>3. QED
    BY <1>1, <1>2 DEF Txns

\* Any set of transactions is finite, and is the whole block once it has
\* NTxns members.
LEMMA TxnSubset ==
  ASSUME NEW S \in SUBSET Txns
  PROVE  /\ IsFiniteSet(S)
         /\ Cardinality(S) \in Nat
         /\ Cardinality(S) >= NTxns => S = Txns
  <1>1. /\ IsFiniteSet(S)
        /\ Cardinality(S) <= Cardinality(Txns)
        /\ Cardinality(Txns) = Cardinality(S) => Txns = S
    BY TxnsFinite, FS_Subset
  <1>2. Cardinality(S) \in Nat
    BY <1>1, FS_CardinalityType
  <1>3. QED
    BY <1>1, <1>2, TxnsFinite, NTxnsAssumption

\* Initially nothing has been handed out, released or counted.
LEMMA InitIInv == Init => IInv
  <1> SUFFICES ASSUME Init PROVE IInv
    OBVIOUS
  <1>1. \A j \in Txns : Preds(adjacencyMatrix, j) = Pending(j)
    BY DEF Init, Preds, Pending
  <1>2. \A j \in Txns : Cardinality(Preds(adjacencyMatrix, j)) \in Nat
    BY TxnSubset DEF Preds
  <1>3. TypeOK
    <2>1. inDegree \in [Txns -> Int]
      BY <1>2 DEF Init
    <2>2. QED
      BY <2>1 DEF Init, TypeOK, Locations, Holding
  <1>4. InDegreeAccounting
    BY <1>1 DEF Init, InDegreeAccounting
  <1>5. AtMostOnce /\ Ownership /\ Phases /\ FlushComplete
    BY DEF Init, AtMostOnce, Ownership, Phases, FlushComplete, Holding
  <1>6. Counting
    BY FS_EmptySet DEF Init, Counting
  <1>7. QED
    BY <1>3, <1>4, <1>5, <1>6 DEF IInv

\* Removing one predecessor from Pending(j) takes one from its cardinality.
LEMMA PendingShrinks ==
  ASSUME NEW j \in Txns, NEW i \in Txns, i \in Pending(j),
         Pending(j)' = Pending(j) \ {i}
  PROVE  Cardinality(Pending(j)') = Cardinality(Pending(j)) - 1
  <1>1. Pending(j) \in SUBSET Txns
    BY DEF Pending
  <1>2. IsFiniteSet(Pending(j))
    BY <1>1, TxnSubset
  <1>3. QED
    BY <1>2, FS_RemoveElement

\* Steps that leave the shared counters and the history alone.
LEMMA LocalSteps ==
  ASSUME IInv, NEW t \in Threads,
         \/ CheckCompleted(t) \/ CheckFlag(t) \/ SelectSkip(t) \/ SelectNone(t)
         \/ ParseFailure(t) \/ CompleteReturn(t)
  PROVE  IInv'
  <1> USE NTxnsAssumption
  <1>0. /\ UNCHANGED <<adjacencyMatrix, malformed, inDegree, completedTxns, flag,
                       txn, result, starts, processed, applied, counted, released,
                       late>>
        /\ \A u \in Threads \ {t} : pc'[u] = pc[u] /\ scan'[u] = scan[u]
        /\ pc'[t] \in {"loop", "flag", "select", "done"}
        /\ pc' \in [Threads -> Locations]
        /\ scan' \in [Threads -> Nat]
        /\ pc'[t] = "done" => completedTxns >= NTxns \/ ~flag
    BY DEF CheckCompleted, CheckFlag, SelectSkip, SelectNone, ParseFailure,
           CompleteReturn, Goto, block, history, IInv, TypeOK, Locations
  <1>1. TypeOK'
    BY <1>0 DEF IInv, TypeOK, Holding
  <1>2. \A j \in Txns : Pending(j)' = Pending(j)
    BY <1>0 DEF Pending
  <1>3. InDegreeAccounting'
    BY <1>0, <1>2 DEF IInv, InDegreeAccounting
  <1>4. Ownership' /\ Phases' /\ AtMostOnce' /\ FlushComplete'
    BY <1>0 DEF IInv, TypeOK, Ownership, Phases, AtMostOnce, FlushComplete, Holding
  <1>5. Counting'
    BY <1>0 DEF IInv, Counting
  <1>6. QED
    BY <1>1, <1>3, <1>4, <1>5 DEF IInv

\* A successful compare-exchange: only a transaction never handed out and with
\* no predecessor pending shows 0.
LEMMA SelectTakeStep ==
  ASSUME IInv, NEW t \in Threads, SelectTake(t)
  PROVE  IInv'
  <1> DEFINE i == scan[t]
  <1>1. /\ i \in Txns
        /\ pc[t] = "select"
        /\ inDegree[i] = 0
        /\ inDegree' = [inDegree EXCEPT ![i] = -1]
        /\ txn' = [txn EXCEPT ![t] = i]
        /\ starts' = [starts EXCEPT ![i] = @ + 1]
        /\ pc' = [pc EXCEPT ![t] = "process"]
        /\ late' \in [Threads -> Nat]
        /\ UNCHANGED <<adjacencyMatrix, malformed, completedTxns, flag, scan,
                       result, processed, applied, counted, released>>
    BY NTxnsAssumption DEF SelectTake, Goto, block, IInv, TypeOK, Txns
  <1>2. starts[i] = 0 /\ Cardinality(Pending(i)) = 0
    BY <1>1 DEF IInv, InDegreeAccounting, TypeOK
  <1>3. Pending(i) = {}
    <2>1. Pending(i) \in SUBSET Txns
      BY DEF Pending
    <2>2. QED
      BY <1>2, <2>1, TxnSubset, FS_EmptySet
  <1>4. TypeOK'
    BY <1>1 DEF IInv, TypeOK, Locations, Holding, Txns
  <1>5. \A j \in Txns : Pending(j)' = Pending(j)
    BY <1>1 DEF Pending
  <1>6. InDegreeAccounting'
    BY <1>1, <1>2, <1>3, <1>5 DEF IInv, InDegreeAccounting, TypeOK
  <1>7. AtMostOnce'
    BY <1>1, <1>2 DEF IInv, AtMostOnce, TypeOK
  <1>8. Ownership'
    BY <1>1, <1>2 DEF IInv, Ownership, TypeOK, Holding
  <1>9. i \notin counted
    BY <1>1, <1>2 DEF IInv, Phases, TypeOK
  <1>10. Phases'
    <2>1. \A k \in Txns : starts'[k] = 0 => k \notin processed'
      BY <1>1 DEF IInv, Phases, TypeOK
    <2>2. \A u \in Threads : u # t => pc'[u] = pc[u] /\ txn'[u] = txn[u]
      BY <1>1 DEF IInv, TypeOK
    <2>3. pc'[t] = "process" /\ txn'[t] = i
      BY <1>1 DEF IInv, TypeOK
    <2>4. QED
      BY <1>1, <1>9, <2>1, <2>2, <2>3 DEF IInv, Phases
  <1>11. Counting' /\ FlushComplete'
    BY <1>1 DEF IInv, Counting, FlushComplete, TypeOK
  <1>12. QED
    BY <1>4, <1>6, <1>7, <1>8, <1>10, <1>11 DEF IInv

\* The contract call returns.
LEMMA ProcessTxnStep ==
  ASSUME IInv, NEW t \in Threads, ProcessTxn(t)
  PROVE  IInv'
  <1>1. /\ pc[t] = "process"
        /\ txn[t] \in Txns
        /\ starts[txn[t]] > 0
        /\ processed' = processed \cup {txn[t]}
        /\ pc' = [pc EXCEPT ![t] = "finish"]
        /\ UNCHANGED <<adjacencyMatrix, malformed, inDegree, completedTxns, scan,
                       txn, result, starts, counted, released, late>>
    BY DEF ProcessTxn, Goto, block, IInv, TypeOK, Ownership, Holding
  <1>2. PICK localSuccess \in BOOLEAN :
          /\ flag' = (flag /\ localSuccess)
          /\ applied' = IF localSuccess THEN applied \cup {txn[t]} ELSE applied
    BY DEF ProcessTxn
  <1>3. TypeOK'
    <2>1. flag' \in BOOLEAN
      BY <1>2
    <2>2. applied' \in SUBSET processed' /\ counted' \in SUBSET processed'
          /\ processed' \in SUBSET Txns
      BY <1>1, <1>2 DEF IInv, TypeOK
    <2>3. QED
      BY <1>1, <2>1, <2>2 DEF IInv, TypeOK, Locations, Holding
  <1>4. \A j \in Txns : Pending(j)' = Pending(j)
    BY <1>1 DEF Pending
  <1>5. InDegreeAccounting' /\ AtMostOnce'
    BY <1>1, <1>4 DEF IInv, InDegreeAccounting, AtMostOnce
  <1>6. Ownership'
    BY <1>1 DEF IInv, Ownership, TypeOK, Holding
  <1>7. Phases'
    BY <1>1 DEF IInv, Phases, TypeOK
  <1>8. Counting'
    <2>1. flag' => applied' = processed'
      BY <1>1, <1>2 DEF IInv, Counting
    <2>2. \A u \in Threads : pc'[u] = "done" => pc[u] = "done"
      BY <1>1 DEF IInv, TypeOK
    <2>3. \A u \in Threads : pc'[u] = "done" => completedTxns' >= NTxns \/ ~flag'
      BY <1>1, <1>2, <2>2 DEF IInv, Counting
    <2>4. QED
      BY <1>1, <2>1, <2>3 DEF IInv, Counting
  <1>9. FlushComplete'
    BY <1>1, <1>2 DEF IInv, FlushComplete, TypeOK
  <1>10. QED
    BY <1>3, <1>5, <1>6, <1>7, <1>8, <1>9 DEF IInv

\* complete() decrements its own, already negative, entry.
LEMMA CompleteSelfStep ==
  ASSUME IInv, NEW t \in Threads, CompleteSelf(t)
  PROVE  IInv'
  <1>1. /\ pc[t] = "finish"
        /\ txn[t] \in Txns
        /\ starts[txn[t]] > 0
        /\ inDegree' = [inDegree EXCEPT ![txn[t]] = @ - 1]
        /\ pc' = [pc EXCEPT ![t] = "count"]
        /\ UNCHANGED <<adjacencyMatrix, malformed, completedTxns, flag, scan, txn,
                       result, starts, processed, applied, counted, released, late>>
    BY DEF CompleteSelf, Goto, block, history, IInv, TypeOK, Ownership, Holding
  <1>2. TypeOK'
    BY <1>1 DEF IInv, TypeOK, Locations, Holding
  <1>3. \A j \in Txns : Pending(j)' = Pending(j)
    BY <1>1 DEF Pending
  <1>4. InDegreeAccounting'
    BY <1>1, <1>3 DEF IInv, InDegreeAccounting, TypeOK
  <1>5. AtMostOnce' /\ Ownership' /\ Phases' /\ FlushComplete'
    BY <1>1 DEF IInv, AtMostOnce, Ownership, Phases, FlushComplete, TypeOK, Holding
  <1>6. Counting'
    BY <1>1 DEF IInv, Counting, TypeOK
  <1>7. QED
    BY <1>2, <1>4, <1>5, <1>6 DEF IInv

\* complete() counts a transaction nobody has counted before.
LEMMA CompleteCountStep ==
  ASSUME IInv, NEW t \in Threads, CompleteCount(t)
  PROVE  IInv'
  <1>1. /\ pc[t] = "count"
        /\ txn[t] \in Txns /\ txn[t] \in processed /\ txn[t] \notin counted
        /\ completedTxns' = completedTxns + 1
        /\ counted' = counted \cup {txn[t]}
        /\ scan' = [scan EXCEPT ![t] = txn[t] + 1]
        /\ pc' = [pc EXCEPT ![t] = "release"]
        /\ UNCHANGED <<adjacencyMatrix, malformed, inDegree, flag, txn, result,
                       starts, processed, applied, released, late>>
    BY DEF CompleteCount, Goto, block, IInv, TypeOK, Phases, Holding
  <1>2. TypeOK'
    <2>1. counted' \in SUBSET processed' /\ completedTxns' \in Nat
      BY <1>1 DEF IInv, TypeOK
    <2>2. scan' \in [Threads -> Nat]
      BY <1>1 DEF IInv, TypeOK
    <2>3. pc' \in [Threads -> Locations]
      BY <1>1 DEF IInv, TypeOK, Locations
    <2>4. \A u \in Threads : Holding(u)' => txn'[u] \in Txns
      BY <1>1 DEF IInv, TypeOK, Holding
    <2>5. QED
      BY <1>1, <2>1, <2>2, <2>3, <2>4 DEF IInv, TypeOK
  <1>3. \A j \in Txns : Pending(j)' = Pending(j)
    BY <1>1 DEF Pending
  <1>4. InDegreeAccounting' /\ AtMostOnce' /\ FlushComplete'
    BY <1>1, <1>3 DEF IInv, InDegreeAccounting, AtMostOnce, FlushComplete
  <1>5. Ownership'
    BY <1>1 DEF IInv, Ownership, TypeOK, Holding
  <1>6. Phases'
    <2>1. \A u \in Threads :
            pc'[u] \in {"process", "finish", "count"} => txn'[u] \notin counted'
      BY <1>1 DEF IInv, Phases, Ownership, TypeOK, Holding
    <2>2. \A j \in Txns : <<txn[t], j>> \notin released
      BY <1>1 DEF IInv, Phases
    <2>3. \A u \in Threads : pc'[u] = "release" =>
            /\ txn'[u] \in counted'
            /\ \A j \in Txns : j >= scan'[u] => <<txn'[u], j>> \notin released'
      BY <1>1, <2>2 DEF IInv, Phases, TypeOK
    <2>4. \A u \in Threads :
            pc'[u] \in {"finish", "count", "release"} => txn'[u] \in processed'
      BY <1>1 DEF IInv, Phases, TypeOK
    <2>5. QED
      BY <1>1, <2>1, <2>3, <2>4 DEF IInv, Phases
  <1>7. Counting'
    <2>1. counted \in SUBSET Txns
      BY DEF IInv, TypeOK
    <2>2. IsFiniteSet(counted)
      BY <2>1, TxnSubset
    <2>3. Cardinality(counted') = Cardinality(counted) + 1
      BY <1>1, <2>2, FS_AddElement
    <2>4. \A u \in Threads : pc'[u] = "done" => pc[u] = "done"
      BY <1>1 DEF IInv, TypeOK
    <2>5. QED
      BY <1>1, <2>3, <2>4, NTxnsAssumption DEF IInv, Counting, TypeOK
  <1>8. QED
    BY <1>2, <1>4, <1>5, <1>6, <1>7 DEF IInv

\* complete() subtracts one edge.  The edge is still pending, so its target has
\* not been handed out and its in-degree is what is left of it.
LEMMA CompleteReleaseStep ==
  ASSUME IInv, NEW t \in Threads, CompleteRelease(t)
  PROVE  IInv'
  <1>j. PICK j \in Nat : j = scan[t]
    BY DEF IInv, TypeOK
  <1>i. PICK i \in Nat : i = txn[t]
    BY DEF IInv, TypeOK
  <1>1. /\ pc[t] = "release"
        /\ i \in Txns /\ j \in Txns
        /\ txn[t] = i /\ scan[t] = j
        /\ i \in counted /\ i \in processed
        /\ <<i, j>> \notin released
        /\ scan' = [scan EXCEPT ![t] = j + 1]
        /\ UNCHANGED <<adjacencyMatrix, malformed, completedTxns, flag, pc, txn,
                       result, starts, processed, applied, counted, late>>
    BY <1>i, <1>j, NTxnsAssumption
       DEF CompleteRelease, block, IInv, TypeOK, Phases, Holding, Txns
  <1>2. CASE <<i, j>> \in adjacencyMatrix
    <2>1. /\ inDegree' = [inDegree EXCEPT ![j] = @ - 1]
          /\ released' = released \cup {<<i, j>>}
      BY <1>i, <1>j, <1>2 DEF CompleteRelease
    <2>2. /\ Pending(j)' = Pending(j) \ {i} /\ i \in Pending(j)
          /\ \A k \in Txns : k # j => Pending(k)' = Pending(k)
      BY <1>1, <1>2, <2>1 DEF Pending
    <2>3. Cardinality(Pending(j)') = Cardinality(Pending(j)) - 1
      BY <1>1, <2>2, PendingShrinks
    <2>4. starts[j] = 0
      BY <1>1, <2>2 DEF IInv, InDegreeAccounting
    <2>5. TypeOK'
      <3>1. inDegree' \in [Txns -> Int]
        BY <1>1, <2>1 DEF IInv, TypeOK
      <3>2. released' \in SUBSET adjacencyMatrix'
        BY <1>1, <1>2, <2>1 DEF IInv, TypeOK
      <3>3. scan' \in [Threads -> Nat]
        BY <1>1 DEF IInv, TypeOK
      <3>4. QED
        BY <1>1, <3>1, <3>2, <3>3 DEF IInv, TypeOK, Holding
    <2>6. InDegreeAccounting'
      <3> SUFFICES ASSUME NEW k \in Txns
                   PROVE  IF starts'[k] = 0
                            THEN inDegree'[k] = Cardinality(Pending(k)')
                            ELSE inDegree'[k] < 0 /\ Pending(k)' = {}
        BY DEF InDegreeAccounting
      <3>1. CASE k = j
        BY <1>1, <2>1, <2>3, <2>4, <3>1 DEF IInv, InDegreeAccounting, TypeOK
      <3>2. CASE k # j
        BY <1>1, <2>1, <2>2, <3>2 DEF IInv, InDegreeAccounting, TypeOK
      <3>3. QED
        BY <3>1, <3>2
    <2>7. Phases'
      <3>1. \A a, b \in Txns : <<a, b>> \in released' => a \in counted'
        BY <1>1, <2>1 DEF IInv, Phases
      <3>2. ASSUME NEW u \in Threads, pc[u] = "release"
            PROVE  \A k \in Txns : k >= scan'[u] => <<txn[u], k>> \notin released'
        <4>1. CASE u = t
          BY <1>1, <2>1, <4>1, NTxnsAssumption DEF IInv, Phases, TypeOK, Txns
        <4>2. CASE u # t
          <5>1. txn[u] # i
            BY <1>1, <3>2, <4>2 DEF IInv, Ownership, Holding
          <5>2. QED
            BY <1>1, <2>1, <3>2, <4>2, <5>1 DEF IInv, Phases, TypeOK
        <4>3. QED
          BY <4>1, <4>2
      <3>3. QED
        BY <1>1, <3>1, <3>2 DEF IInv, Phases
    <2>8. AtMostOnce' /\ Ownership' /\ FlushComplete' /\ Counting'
      BY <1>1 DEF IInv, AtMostOnce, Ownership, FlushComplete, Counting, Holding
    <2>9. QED
      BY <2>5, <2>6, <2>7, <2>8 DEF IInv
  <1>3. CASE <<i, j>> \notin adjacencyMatrix
    <2>1. UNCHANGED <<inDegree, released>>
      BY <1>i, <1>j, <1>3 DEF CompleteRelease
    <2>2. TypeOK'
      <3>1. scan' \in [Threads -> Nat]
        BY <1>1 DEF IInv, TypeOK
      <3>2. QED
        BY <1>1, <2>1, <3>1 DEF IInv, TypeOK, Holding
    <2>3. \A k \in Txns : Pending(k)' = Pending(k)
      BY <1>1, <2>1 DEF Pending
    <2>4. InDegreeAccounting'
      BY <1>1, <2>1, <2>3 DEF IInv, InDegreeAccounting
    <2>5. Phases'
      BY <1>1, <2>1, NTxnsAssumption DEF IInv, Phases, TypeOK, Txns
    <2>6. AtMostOnce' /\ Ownership' /\ FlushComplete' /\ Counting'
      BY <1>1 DEF IInv, AtMostOnce, Ownership, FlushComplete, Counting, Holding
    <2>7. QED
      BY <2>2, <2>4, <2>5, <2>6 DEF IInv
  <1>4. QED
    BY <1>2, <1>3

\* All workers have left: with the flag up, the counter has reached NTxns and
\* so every transaction was applied.
LEMMA JoinStep ==
  ASSUME IInv, Join
  PROVE  IInv'
  <1>1. /\ \A t \in Threads : pc[t] = "done"
        /\ result' = IF flag THEN "flushed" ELSE "failed"
        /\ UNCHANGED <<adjacencyMatrix, malformed, inDegree, completedTxns, flag, pc,
                       scan, txn, starts, processed, applied, counted, released, late>>
    BY DEF Join, block, history
  <1>2. TypeOK'
    BY <1>1 DEF IInv, TypeOK, Holding
  <1>3. \A j \in Txns : Pending(j)' = Pending(j)
    BY <1>1 DEF Pending
  <1>4. InDegreeAccounting'
    BY <1>1, <1>3 DEF IInv, InDegreeAccounting
  <1>5. AtMostOnce' /\ Ownership' /\ Phases' /\ Counting'
    BY <1>1 DEF IInv, AtMostOnce, Ownership, Phases, Counting, Holding
  <1>6. ASSUME flag PROVE applied = Txns
    <2>1. completedTxns >= NTxns
      BY <1>1, <1>6, ThreadsAssumption DEF IInv, Counting
    <2>2. counted \in SUBSET Txns
      BY DEF IInv, TypeOK
    <2>3. counted = Txns
      BY <2>1, <2>2, TxnSubset DEF IInv, Counting
    <2>4. QED
      BY <1>6, <2>3 DEF IInv, TypeOK, Counting
  <1>7. FlushComplete'
    BY <1>1, <1>6 DEF FlushComplete
  <1>8. QED
    BY <1>2, <1>4, <1>5, <1>7 DEF IInv

\* A stuttering step.
LEMMA StutterStep ==
  ASSUME IInv, UNCHANGED vars
  PROVE  IInv'
  <1>1. \A j \in Txns : Pending(j)' = Pending(j)
    BY DEF Pending, vars
  <1>2. InDegreeAccounting'
    BY <1>1 DEF IInv, InDegreeAccounting, vars
  <1>3. TypeOK' /\ AtMostOnce' /\ Ownership' /\ Phases' /\ Counting' /\ FlushComplete'
    BY DEF IInv, TypeOK, AtMostOnce, Ownership, Phases, Counting, FlushComplete,
           Holding, vars
  <1>4. QED
    BY <1>2, <1>3 DEF IInv

\* IInv holds in every reachable state of every block.
THEOREM Invariance == Spec => []IInv
  <1>1. Init => IInv
    BY InitIInv
  <1>2. IInv /\ [Next]_vars => IInv'
    <2> SUFFICES ASSUME IInv, [Next]_vars PROVE IInv'
      OBVIOUS
    <2>1. CASE Join
      BY <2>1, JoinStep
    <2>2. ASSUME NEW t \in Threads, Worker(t) PROVE IInv'
      BY <2>2, LocalSteps, SelectTakeStep, ProcessTxnStep, CompleteSelfStep,
         CompleteCountStep, CompleteReleaseStep DEF Worker
    <2>3. CASE UNCHANGED vars
      BY <2>3, StutterStep
    <2>4. QED
      BY <2>1, <2>2, <2>3 DEF Next
  <1>3. QED
    BY <1>1, <1>2, PTL DEF Spec

\* Type correctness of the scheduler's state.
THEOREM TypeCorrect == Spec => []TypeOK
  <1>1. IInv => TypeOK
    BY DEF IInv
  <1>2. QED
    BY <1>1, Invariance, PTL

\* selectTxn hands a transaction out at most once, however many workers race.
THEOREM SelectedAtMostOnce == Spec => []AtMostOnce
  <1>1. IInv => AtMostOnce
    BY DEF IInv
  <1>2. QED
    BY <1>1, Invariance, PTL

\* The in-degree array is always the number of pending predecessors.
THEOREM InDegreesAccounted == Spec => []InDegreeAccounting
  <1>1. IInv => InDegreeAccounting
    BY DEF IInv
  <1>2. QED
    BY <1>1, Invariance, PTL

\* Conflicting transactions run in block order.
THEOREM ConflictsOrdered == Spec => []ConflictOrder
  <1>1. IInv => ConflictOrder
    <2> SUFFICES ASSUME IInv, NEW i \in Txns, NEW j \in Txns,
                        <<i, j>> \in adjacencyMatrix, starts[j] > 0
                 PROVE  i \in processed
      BY DEF ConflictOrder
    <2>1. Pending(j) = {}
      BY DEF IInv, InDegreeAccounting
    <2>2. <<i, j>> \in released
      BY <2>1 DEF Pending
    <2>3. i \in counted
      BY <2>2 DEF IInv, Phases
    <2>4. QED
      BY <2>3 DEF IInv, TypeOK
  <1>2. QED
    BY <1>1, Invariance, PTL

\* The global state only ever receives a whole block that succeeded.
THEOREM FlushIsComplete == Spec => []FlushComplete
  <1>1. IInv => FlushComplete
    BY DEF IInv
  <1>2. QED
    BY <1>1, Invariance, PTL

-----------------------------------------------------------------------------
(***************************************************************************)
(* How a block ends: Outcome and Stopping, inductive relative to IInv.     *)
(***************************************************************************)

\* Steps after which flag, the history of contract calls and the set of
\* workers inside a contract are as before, or smaller.
LEMMA QuietOutcome ==
  ASSUME IInv, Outcome, Stopping, NEW t \in Threads,
         \/ CheckCompleted(t) \/ CheckFlag(t) \/ SelectSkip(t) \/ SelectNone(t)
         \/ ParseFailure(t) \/ CompleteSelf(t) \/ CompleteCount(t)
         \/ CompleteRelease(t) \/ CompleteReturn(t)
  PROVE  Outcome' /\ Stopping'
  <1>1. /\ UNCHANGED <<flag, txn, result, processed, applied, late>>
        /\ \A u \in Threads \ {t} : pc'[u] = pc[u]
        /\ pc[t] # "done" /\ pc'[t] # "process"
        /\ pc'[t] = "select" => flag \/ pc[t] = "select"
    BY DEF CheckCompleted, CheckFlag, SelectSkip, SelectNone, ParseFailure,
           CompleteSelf, CompleteCount, CompleteRelease, CompleteReturn, Goto,
           block, history, IInv, TypeOK
  <1>2. Outcome'
    BY <1>1 DEF Outcome
  <1>3. Stopping'
    BY <1>1 DEF Stopping
  <1>4. QED
    BY <1>2, <1>3

\* A transaction is taken: late grows only when the flag is down, and then the
\* worker has not been late before, for it was still selecting.
LEMMA SelectTakeOutcome ==
  ASSUME IInv, Outcome, Stopping, NEW t \in Threads, SelectTake(t)
  PROVE  Outcome' /\ Stopping'
  <1>1. /\ scan[t] \in Txns
        /\ pc[t] = "select"
        /\ inDegree[scan[t]] = 0
        /\ txn' = [txn EXCEPT ![t] = scan[t]]
        /\ pc' = [pc EXCEPT ![t] = "process"]
        /\ late' = IF flag THEN late ELSE [late EXCEPT ![t] = @ + 1]
        /\ UNCHANGED <<flag, result, processed, applied>>
    BY NTxnsAssumption DEF SelectTake, Goto, IInv, TypeOK, Txns
  <1>2. scan[t] \notin processed
    BY <1>1 DEF IInv, InDegreeAccounting, Phases, TypeOK
  <1>3. result = "running"
    BY <1>1 DEF Outcome
  <1>4. \A u \in Threads : pc'[u] = "process" => txn'[u] \notin processed
    BY <1>1, <1>2 DEF Outcome, IInv, TypeOK
  <1>5. Outcome'
    BY <1>1, <1>3, <1>4 DEF Outcome
  <1>6. Stopping'
    <2>1. CASE flag
      BY <1>1, <2>1 DEF Stopping, IInv, TypeOK
    <2>2. CASE ~flag
      <3>1. late[t] = 0
        BY <1>1 DEF Stopping, IInv, TypeOK
      <3>2. \A u \in Threads : /\ late'[u] = IF u = t THEN 1 ELSE late[u]
                               /\ pc'[u] = IF u = t THEN "process" ELSE pc[u]
        BY <1>1, <2>2, <3>1 DEF IInv, TypeOK
      <3>3. PICK v \in Threads : late[v] = 0 /\ pc[v] # "select"
        BY <2>2 DEF Stopping
      <3>4. late'[v] = 0 /\ pc'[v] # "select"
        BY <1>1, <3>2, <3>3
      <3>5. QED
        BY <1>1, <2>2, <3>2, <3>4 DEF Stopping
    <2>3. QED
      BY <2>1, <2>2
  <1>7. QED
    BY <1>5, <1>6

\* A contract returns.  If it fails, it is in processed and not in applied; the
\* worker that made the flag fall had not been late.
LEMMA ProcessTxnOutcome ==
  ASSUME IInv, Outcome, Stopping, NEW t \in Threads, ProcessTxn(t)
  PROVE  Outcome' /\ Stopping'
  <1>1. /\ pc[t] = "process" /\ txn[t] \notin processed
        /\ processed' = processed \cup {txn[t]}
        /\ pc' = [pc EXCEPT ![t] = "finish"]
        /\ UNCHANGED <<txn, result, late>>
    BY DEF ProcessTxn, Goto, Outcome
  <1>2. PICK ok \in BOOLEAN :
          /\ flag' = (flag /\ ok)
          /\ applied' = IF ok THEN applied \cup {txn[t]} ELSE applied
    BY DEF ProcessTxn
  <1>3. \A u \in Threads : pc'[u] = IF u = t THEN "finish" ELSE pc[u]
    BY <1>1 DEF IInv, TypeOK
  <1>4. result' # "running" => \A u \in Threads : pc'[u] = "done"
    BY <1>1 DEF Outcome
  <1>5. \A u \in Threads : pc'[u] = "process" => txn'[u] \notin processed'
    BY <1>1, <1>3 DEF Outcome, IInv, Ownership, Holding
  <1>6. ~flag' => applied' # processed'
    <2>1. CASE ok
      <3>1. applied' = applied \cup {txn[t]} /\ (~flag' => ~flag)
        BY <1>2, <2>1
      <3>2. ~flag => applied # processed /\ txn[t] \notin applied
        BY <1>1 DEF Outcome, IInv, TypeOK
      <3>3. QED
        BY <1>1, <3>1, <3>2
    <2>2. CASE ~ok
      BY <1>1, <1>2, <2>2 DEF IInv, TypeOK
    <2>3. QED
      BY <2>1, <2>2
  <1>7. \A u \in Threads : /\ late'[u] <= 1
                           /\ late'[u] > 0 => ~flag' /\ pc'[u] # "select"
    <2>1. ~flag => ~flag'
      BY <1>2
    <2>2. QED
      BY <1>1, <1>3, <2>1 DEF Stopping
  <1>8. ~flag' => \E u \in Threads : late'[u] = 0 /\ pc'[u] # "select"
    <2>1. CASE flag
      <3>1. late[t] = 0
        BY <2>1 DEF Stopping, IInv, TypeOK
      <3>2. QED
        BY <1>1, <1>3, <3>1
    <2>2. CASE ~flag
      BY <1>1, <1>3, <2>2 DEF Stopping
    <2>3. QED
      BY <2>1, <2>2
  <1>9. QED
    BY <1>4, <1>5, <1>6, <1>7, <1>8 DEF Outcome, Stopping

\* Every reachable state of every block satisfies the two.
THEOREM OutcomeInvariance == Spec => [](Outcome /\ Stopping)
  <1>1. Init => Outcome /\ Stopping
    BY ThreadsAssumption DEF Init, Outcome, Stopping
  <1>2. IInv /\ Outcome /\ Stopping /\ [Next]_vars => (Outcome /\ Stopping)'
    <2> SUFFICES ASSUME IInv, Outcome, Stopping, [Next]_vars
                 PROVE  Outcome' /\ Stopping'
      OBVIOUS
    <2>1. CASE Join
      BY <2>1 DEF Join, Outcome, Stopping, history
    <2>2. ASSUME NEW t \in Threads, Worker(t) PROVE Outcome' /\ Stopping'
      BY <2>2, QuietOutcome, SelectTakeOutcome, ProcessTxnOutcome DEF Worker
    <2>3. CASE UNCHANGED vars
      BY <2>3 DEF vars, Outcome, Stopping
    <2>4. QED
      BY <2>1, <2>2, <2>3 DEF Next
  <1>3. QED
    BY <1>1, <1>2, Invariance, PTL DEF Spec

\* After a failure no worker begins more than one transaction, and the worker
\* whose contract failed begins none.
THEOREM StopIsPrompt == Spec => []StopBound
  <1>1. IInv /\ Stopping => StopBound
    <2> SUFFICES ASSUME IInv, Stopping PROVE StopBound
      OBVIOUS
    <2>1. CASE flag
      <3>1. \A t \in Threads : late[t] = 0
        BY <2>1 DEF Stopping, IInv, TypeOK
      <3>2. QED
        BY <3>1, ThreadsAssumption DEF StopBound
    <2>2. CASE ~flag
      BY <2>2 DEF Stopping, StopBound
    <2>3. QED
      BY <2>1, <2>2
  <1>2. QED
    BY <1>1, Invariance, OutcomeInvariance, PTL

-----------------------------------------------------------------------------
(***************************************************************************)
(* The refinement of BlockExecution.                                       *)
(***************************************************************************)

\* Steps that neither enter nor leave a contract are invisible.
LEMMA QuietImplements ==
  ASSUME IInv, NEW t \in Threads,
         \/ CheckCompleted(t) \/ CheckFlag(t) \/ SelectSkip(t) \/ SelectNone(t)
         \/ CompleteSelf(t) \/ CompleteCount(t) \/ CompleteRelease(t)
         \/ CompleteReturn(t)
  PROVE  UNCHANGED Execution!vars
  <1>1. /\ UNCHANGED <<adjacencyMatrix, txn, result, starts, processed, applied>>
        /\ \A u \in Threads \ {t} : pc'[u] = pc[u]
        /\ pc[t] # "process" /\ pc'[t] # "process"
    BY DEF CheckCompleted, CheckFlag, SelectSkip, SelectNone, CompleteSelf,
           CompleteCount, CompleteRelease, CompleteReturn, Goto, block, history,
           IInv, TypeOK
  <1>2. BegunTxns' = BegunTxns
    BY <1>1 DEF BegunTxns
  <1>3. \A u \in Threads : (pc'[u] = "process") <=> (pc[u] = "process")
    BY <1>1
  <1>4. RunningTxns' = RunningTxns
    BY <1>1, <1>3 DEF RunningTxns
  <1>5. QED
    BY <1>1, <1>2, <1>4 DEF Execution!vars

\* A successful compare-exchange begins the transaction.
LEMMA SelectTakeImplements ==
  ASSUME IInv, Outcome, NEW t \in Threads, SelectTake(t)
  PROVE  Execution!Begin(scan[t])
  <1> DEFINE i == scan[t]
  <1>1. /\ i \in Txns
        /\ pc[t] = "select"
        /\ inDegree[i] = 0
        /\ txn' = [txn EXCEPT ![t] = i]
        /\ starts' = [starts EXCEPT ![i] = @ + 1]
        /\ pc' = [pc EXCEPT ![t] = "process"]
        /\ UNCHANGED <<adjacencyMatrix, result, processed, applied>>
    BY NTxnsAssumption DEF SelectTake, Goto, block, IInv, TypeOK, Txns
  <1>2. starts[i] = 0 /\ Cardinality(Pending(i)) = 0
    BY <1>1 DEF IInv, InDegreeAccounting, TypeOK
  <1>3. Pending(i) = {}
    <2>1. Pending(i) \in SUBSET Txns
      BY DEF Pending
    <2>2. QED
      BY <1>2, <2>1, TxnSubset, FS_EmptySet
  <1>4. \A h \in Txns : <<h, i>> \in adjacencyMatrix => h \in processed
    <2> SUFFICES ASSUME NEW h \in Txns, <<h, i>> \in adjacencyMatrix
                 PROVE  h \in processed
      OBVIOUS
    <2>1. <<h, i>> \in released
      BY <1>1, <1>3 DEF Pending
    <2>2. h \in counted
      BY <1>1, <2>1 DEF IInv, Phases
    <2>3. QED
      BY <2>2 DEF IInv, TypeOK
  <1>5. result = "running" /\ i \notin BegunTxns
    BY <1>1, <1>2 DEF Outcome, BegunTxns
  <1>6. BegunTxns' = BegunTxns \cup {i}
    <2>1. \A k \in Txns : starts'[k] > 0 <=> starts[k] > 0 \/ k = i
      BY <1>1, <1>2 DEF IInv, TypeOK
    <2>2. QED
      BY <1>1, <2>1 DEF BegunTxns
  <1>7. RunningTxns' = RunningTxns \cup {i}
    <2>1. \A u \in Threads : /\ pc'[u] = IF u = t THEN "process" ELSE pc[u]
                             /\ txn'[u] = IF u = t THEN i ELSE txn[u]
      BY <1>1 DEF IInv, TypeOK
    <2>2. QED
      BY <1>1, <2>1 DEF RunningTxns
  <1>8. QED
    BY <1>1, <1>4, <1>5, <1>6, <1>7 DEF Execution!Begin, Execution!Txns, Txns

\* A worker that leaves the "process" step alone takes its transaction, and only
\* that one, out of the running ones.
LEMMA RunningShrinks ==
  ASSUME IInv, NEW t \in Threads, pc[t] = "process", txn' = txn,
         NEW l, l # "process", pc' = [pc EXCEPT ![t] = l]
  PROVE  /\ txn[t] \in RunningTxns
         /\ RunningTxns' = RunningTxns \ {txn[t]}
  <1>1. txn[t] \in Txns
    BY DEF IInv, TypeOK, Holding
  <1>2. \A u \in Threads : pc[u] = "process" /\ txn[u] = txn[t] => u = t
    BY DEF IInv, Ownership, Holding
  <1>3. \A u \in Threads : pc'[u] = IF u = t THEN l ELSE pc[u]
    BY DEF IInv, TypeOK
  <1>4. QED
    BY <1>1, <1>2, <1>3 DEF RunningTxns

\* The return of a contract ends the transaction.
LEMMA ProcessTxnImplements ==
  ASSUME IInv, NEW t \in Threads, ProcessTxn(t)
  PROVE  \E i \in Txns, ok \in BOOLEAN : Execution!End(i, ok)
  <1>1. /\ pc[t] = "process" /\ txn' = txn
        /\ pc' = [pc EXCEPT ![t] = "finish"]
        /\ processed' = processed \cup {txn[t]}
        /\ UNCHANGED <<adjacencyMatrix, result, starts>>
    BY DEF ProcessTxn, Goto, block
  <1>2. PICK ok \in BOOLEAN :
          applied' = IF ok THEN applied \cup {txn[t]} ELSE applied
    BY DEF ProcessTxn
  <1>3. txn[t] \in Txns
    BY <1>1 DEF IInv, TypeOK, Holding
  <1>4. txn[t] \in RunningTxns /\ RunningTxns' = RunningTxns \ {txn[t]}
    BY <1>1, RunningShrinks
  <1>5. BegunTxns' = BegunTxns
    BY <1>1 DEF BegunTxns
  <1>6. Execution!End(txn[t], ok)
    BY <1>1, <1>2, <1>4, <1>5 DEF Execution!End
  <1>7. QED
    BY <1>3, <1>6

\* A header that does not parse drops it.
LEMMA ParseFailureImplements ==
  ASSUME IInv, NEW t \in Threads, ParseFailure(t)
  PROVE  \E i \in Txns : Execution!Drop(i)
  <1>1. /\ pc[t] = "process" /\ txn' = txn
        /\ pc' = [pc EXCEPT ![t] = "loop"]
        /\ UNCHANGED <<adjacencyMatrix, result, starts, processed, applied>>
    BY DEF ParseFailure, Goto, block, history
  <1>2. txn[t] \in Txns
    BY <1>1 DEF IInv, TypeOK, Holding
  <1>3. txn[t] \in RunningTxns /\ RunningTxns' = RunningTxns \ {txn[t]}
    BY <1>1, RunningShrinks
  <1>4. BegunTxns' = BegunTxns
    BY <1>1 DEF BegunTxns
  <1>5. Execution!Drop(txn[t])
    BY <1>1, <1>3, <1>4 DEF Execution!Drop
  <1>6. QED
    BY <1>2, <1>5

\* The join keeps the block or gives it up.
LEMMA JoinImplements ==
  ASSUME IInv, Outcome, Join
  PROVE  Execution!Keep \/ Execution!GiveUp
  <1>1. /\ result = "running"
        /\ \A t \in Threads : pc[t] = "done"
        /\ result' = IF flag THEN "flushed" ELSE "failed"
        /\ UNCHANGED <<adjacencyMatrix, pc, txn, starts, processed, applied>>
    BY DEF Join, block, history
  <1>2. RunningTxns = {} /\ RunningTxns' = RunningTxns /\ BegunTxns' = BegunTxns
    BY <1>1 DEF RunningTxns, BegunTxns
  <1>3. CASE flag
    <2>1. FlushComplete'
      BY JoinStep DEF IInv
    <2>2. result' = "flushed" /\ applied = Txns
      BY <1>1, <1>3, <2>1 DEF FlushComplete
    <2>3. QED
      BY <1>1, <1>2, <2>2 DEF Execution!Keep, Execution!Txns, Txns
  <1>4. CASE ~flag
    <2>1. result' = "failed" /\ applied # processed
      BY <1>1, <1>4 DEF Outcome
    <2>2. QED
      BY <1>1, <1>2, <2>1 DEF Execution!GiveUp
  <1>5. QED
    BY <1>3, <1>4

\* The lock-free scheduler implements the abstract execution of a block: for
\* every block and every number of workers, each step of executeTxns, selectTxn,
\* complete and schedulTxns is a step of BlockExecution or changes nothing there.
THEOREM Implementation == Spec => ImplementsExecution
  <1>1. Init => Execution!Init
    <2> SUFFICES ASSUME Init PROVE Execution!Init
      OBVIOUS
    <2>1. BegunTxns = {} /\ RunningTxns = {}
      BY DEF Init, BegunTxns, RunningTxns
    <2>2. adjacencyMatrix \in SUBSET {e \in Txns \X Txns : e[1] < e[2]}
      BY DEF Init, Edges
    <2>3. QED
      BY <2>1, <2>2 DEF Init, Execution!Init, Execution!Txns, Txns
  <1>2. IInv /\ Outcome /\ [Next]_vars => [Execution!Next]_(Execution!vars)
    <2> SUFFICES ASSUME IInv, Outcome, [Next]_vars
                 PROVE  Execution!Next \/ UNCHANGED Execution!vars
      OBVIOUS
    <2>0. Execution!Txns = Txns
      BY DEF Execution!Txns, Txns
    <2>1. CASE Join
      BY <2>1, JoinImplements DEF Execution!Next
    <2>2. ASSUME NEW t \in Threads, Worker(t)
          PROVE  Execution!Next \/ UNCHANGED Execution!vars
      <3>1. CASE SelectTake(t)
        <4>1. scan[t] \in Txns
          BY <3>1, NTxnsAssumption DEF SelectTake, IInv, TypeOK, Txns
        <4>2. QED
          BY <2>0, <3>1, <4>1, SelectTakeImplements DEF Execution!Next
      <3>2. CASE ProcessTxn(t)
        BY <2>0, <3>2, ProcessTxnImplements DEF Execution!Next
      <3>3. CASE ParseFailure(t)
        BY <2>0, <3>3, ParseFailureImplements DEF Execution!Next
      <3>4. QED
        BY <2>2, <3>1, <3>2, <3>3, QuietImplements DEF Worker
    <2>3. CASE UNCHANGED vars
      BY <2>3 DEF vars, Execution!vars, BegunTxns, RunningTxns
    <2>4. QED
      BY <2>1, <2>2, <2>3 DEF Next
  <1>3. QED
    BY <1>1, <1>2, Invariance, OutcomeInvariance, PTL
    DEF Spec, ImplementsExecution, Execution!Spec

=============================================================================
