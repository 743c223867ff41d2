---------------------- MODULE FollowerSchedulerProofs ----------------------
(***************************************************************************)
(* Proofs about FollowerScheduler, for every block, every assignment of    *)
(* components and every set of workers.  IInv is inductive: its first part *)
(* holds whatever selectTxn's second loop wins with a stale value, the     *)
(* rest as long as it has won nothing that way.                            *)
(***************************************************************************)
EXTENDS FollowerScheduler, FiniteSetTheorems, TLAPS

Publishing == {"update", "snapshot", "putData", "readCount", "putStatus", "clear"}
Completing == {"finish", "count", "release"}

\* Any set of transactions is finite.
LEMMA TxnSubset ==
  ASSUME NEW S \in SUBSET Txns
  PROVE  IsFiniteSet(S) /\ Cardinality(S) \in Nat /\ Cardinality(S) <= NTxns
  <1>1. 0 \in Int /\ NTxns - 1 \in Int /\ NTxns \in Nat
    BY NTxnsAssumption
  <1>2. IsFiniteSet(0 .. NTxns - 1)
        /\ Cardinality(0 .. NTxns - 1) =
             IF 0 > NTxns - 1 THEN 0 ELSE NTxns - 1 - 0 + 1
    BY <1>1, FS_Interval
  <1>3. IsFiniteSet(Txns) /\ Cardinality(Txns) = NTxns
    BY <1>1, <1>2 DEF Txns
  <1>4. IsFiniteSet(S) /\ Cardinality(S) <= NTxns
    BY <1>3, FS_Subset
  <1>5. QED
    BY <1>4, FS_CardinalityType

\* Once completedTxns has reached NTxns every assigned transaction was executed
\* and counted; before that, one was not.
LEMMA AllCounted ==
  ASSUME TypeOK, Mine, Counting
  PROVE  /\ completedTxns = NTxns => Counted = assigned /\ processed = assigned
         /\ Counted # assigned => completedTxns < NTxns
         /\ completedTxns <= NTxns
  <1>1. Counted \subseteq processed /\ processed \subseteq assigned
        /\ assigned \in SUBSET Txns
    BY DEF Counted, Mine, TypeOK
  <1>2. /\ IsFiniteSet(assigned)
        /\ Cardinality(assigned) \in Nat /\ Cardinality(Counted) \in Nat
    BY <1>1, TxnSubset
  <1>3. /\ Cardinality(Counted) <= Cardinality(assigned)
        /\ Cardinality(assigned) = Cardinality(Counted) => assigned = Counted
    BY <1>1, <1>2, FS_Subset
  <1>4. /\ completedTxns = NTxns - Cardinality(assigned) + Cardinality(Counted)
        /\ NTxns \in Nat
    BY NTxnsAssumption DEF Counting
  <1>5. completedTxns <= NTxns
    BY <1>2, <1>3, <1>4
  <1>6. completedTxns = NTxns => Cardinality(assigned) = Cardinality(Counted)
    BY <1>2, <1>4
  <1>7. completedTxns = NTxns => Counted = assigned /\ processed = assigned
    BY <1>1, <1>3, <1>6
  <1>8. completedTxns \in Nat
    BY DEF TypeOK
  <1>9. Counted # assigned => completedTxns < NTxns
    BY <1>4, <1>5, <1>7, <1>8
  <1>10. QED
    BY <1>5, <1>7, <1>9

\* The initial states.
LEMMA InitIInv == Init => IInv
  <1> SUFFICES ASSUME Init PROVE IInv
    OBVIOUS
  <1>1. TypeOK
    <2>1. /\ conflicts \in SUBSET Edges /\ malformed \in SUBSET Txns
          /\ assigned \in SUBSET Txns /\ adjacencyMatrix \in SUBSET conflicts
          /\ data \in SUBSET Txns
          /\ applied \in SUBSET processed /\ processed \in SUBSET Txns
      BY DEF Init
    <2>2. /\ threadCount \in ThreadCounts /\ completedTxns \in Nat
          /\ lastTxn \in Nat /\ compCount \in Nat
          /\ status \in Nat \cup {Absent} /\ watchers \in 0 .. 2
      BY DEF Init
    <2>3. putFailures \in 0 .. MaxPutFailures
      BY MaxPutFailuresAssumption DEF Init
    <2>4. /\ inDegree \in [Txns -> Int] /\ starts \in [Txns -> Nat]
          /\ pc \in [Workers -> Locations] /\ scan \in [Workers -> Nat]
          /\ txn \in [Workers -> Nat] /\ var_zero \in [Workers -> Int]
      BY DEF Init, Locations
    <2>5. copy \in [Workers -> [data : SUBSET Txns, count : Nat]]
      BY DEF Init
    <2>6. /\ flag \in BOOLEAN /\ completeFlag \in BOOLEAN /\ updateFlag \in BOOLEAN
          /\ leaderAlive \in BOOLEAN /\ leaderCrashed \in BOOLEAN
          /\ staleWin \in BOOLEAN
      BY DEF Init
    <2>7. /\ main = "read" /\ monitor = "idle" /\ run = "start"
      BY DEF Init
    <2>8. QED
      BY <2>1, <2>2, <2>3, <2>4, <2>5, <2>6, <2>7 DEF TypeOK
  <1>2. Prepared
    BY DEF Init, Prepared, Closed, Edges
  <1>3. Mine
    BY DEF Init, Mine, Holding
  <1>4. Handed
    BY DEF Init, Handed, AtMostOnce, Holding
  <1>5. Published
    BY DEF Init, Published
  <1>6. main = "read"
    BY DEF Init
  <1>7. QED
    BY <1>1, <1>2, <1>3, <1>4, <1>5, <1>6 DEF IInv

-----------------------------------------------------------------------------
(***************************************************************************)
(* Types.                                                                  *)
(***************************************************************************)
\* Steps of a worker keep TypeOK.
LEMMA TypeWorker ==
  ASSUME IInv, NEW w \in Workers, Worker(w)
  PROVE  TypeOK'
  <1> USE DEF blockVars, dagVars, flagVars, etcdVars, envVars, historyVars, Goto
  <1>0. TypeOK /\ Mine
    BY DEF IInv
  <1>1. ASSUME NEW from, NEW to \in Locations, Move(w, from, to) PROVE TypeOK'
    BY <1>0, <1>1 DEF TypeOK, Move
  <1>2. CASE CheckLoop(w)
    BY <1>1, <1>2 DEF CheckLoop, Locations
  <1>3. CASE CheckReady(w)
    BY <1>1, <1>3 DEF CheckReady, Locations
  <1>4. CASE SnapshotMap(w)
    <2>1. copy' \in [Workers -> [data : SUBSET Txns, count : Nat]]
      BY <1>0, <1>4 DEF TypeOK, SnapshotMap
    <2>2. pc' \in [Workers -> Locations]
      BY <1>0, <1>4 DEF TypeOK, SnapshotMap, Locations
    <2>3. QED
      BY <1>0, <1>4, <2>1, <2>2 DEF TypeOK, SnapshotMap
  <1>5. CASE PutData(w)
    <2>1. data' \in SUBSET Txns
      BY <1>0, <1>5 DEF TypeOK, PutData
    <2>2. pc' \in [Workers -> Locations]
      BY <1>0, <1>5 DEF TypeOK, PutData, Locations
    <2>3. QED
      BY <1>0, <1>5, <2>1, <2>2 DEF TypeOK, PutData
  <1>6. CASE ReadCount(w)
    <2>1. copy' \in [Workers -> [data : SUBSET Txns, count : Nat]]
      BY <1>0, <1>6 DEF TypeOK, ReadCount
    <2>2. pc' \in [Workers -> Locations]
      BY <1>0, <1>6 DEF TypeOK, ReadCount, Locations
    <2>3. QED
      BY <1>0, <1>6, <2>1, <2>2 DEF TypeOK, ReadCount
  <1>7. CASE PutStatus(w)
    <2>1. status' \in Nat \cup {Absent}
      BY <1>0, <1>7 DEF TypeOK, PutStatus
    <2>2. pc' \in [Workers -> Locations]
      BY <1>0, <1>7 DEF TypeOK, PutStatus, Locations
    <2>3. putFailures' \in 0 .. MaxPutFailures
      BY <1>0, <1>7, MaxPutFailuresAssumption DEF TypeOK, PutStatus
    <2>4. QED
      BY <1>0, <1>7, <2>1, <2>2, <2>3 DEF TypeOK, PutStatus
  <1>8. CASE ClearUpdate(w)
    <2>1. pc' \in [Workers -> Locations]
      BY <1>0, <1>8 DEF TypeOK, ClearUpdate, Locations
    <2>2. updateFlag' \in BOOLEAN
      BY <1>8 DEF ClearUpdate
    <2>3. QED
      BY <1>0, <1>8, <2>1, <2>2 DEF TypeOK, ClearUpdate
  <1>9. CASE SelectPos(w)
    <2>1. pc' \in [Workers -> Locations]
      BY <1>0, <1>9 DEF TypeOK, SelectPos, Locations
    <2>2. scan' \in [Workers -> Nat] /\ var_zero' \in [Workers -> Int]
      BY <1>0, <1>9 DEF TypeOK, SelectPos
    <2>3. QED
      BY <1>0, <1>9, <2>1, <2>2 DEF TypeOK, SelectPos
  <1>10. CASE SelectLoad(w)
    <2>1. pc' \in [Workers -> Locations]
      BY <1>0, <1>10 DEF TypeOK, SelectLoad, Locations
    <2>2. scan' \in [Workers -> Nat]
      BY <1>0, <1>10 DEF TypeOK, SelectLoad
    <2>3. QED
      BY <1>0, <1>10, <2>1, <2>2 DEF TypeOK, SelectLoad
  <1>11. ASSUME NEW expected \in Int, NEW back \in {"load1", "load2"},
                pc[w] \in {"cas1", "cas2"}, CompareExchange(w, expected, back)
         PROVE  TypeOK'
    <2>1. scan[w] \in Txns /\ inDegree[scan[w]] \in Int /\ scan[w] \in Nat
      BY <1>0, <1>11 DEF TypeOK, Mine
    <2>2. pc' \in [Workers -> Locations]
      BY <1>0, <1>11 DEF TypeOK, CompareExchange, Locations
    <2>3. /\ scan' \in [Workers -> Nat] /\ var_zero' \in [Workers -> Int]
          /\ txn' \in [Workers -> Nat]
      <3>1. CASE inDegree[scan[w]] = expected
        BY <1>0, <1>11, <2>1, <3>1 DEF TypeOK, CompareExchange
      <3>2. CASE inDegree[scan[w]] # expected
        <4>1. /\ scan' = [scan EXCEPT ![w] = scan[w] + 1] /\ txn' = txn
              /\ var_zero' = [var_zero EXCEPT ![w] = inDegree[scan[w]]]
          BY <1>11, <3>2 DEF CompareExchange
        <4>2. scan' \in [Workers -> Nat]
          BY <1>0, <2>1, <4>1 DEF TypeOK
        <4>3. var_zero' \in [Workers -> Int]
          BY <1>0, <2>1, <4>1 DEF TypeOK
        <4>4. QED
          BY <1>0, <4>1, <4>2, <4>3 DEF TypeOK
      <3>3. QED
        BY <3>1, <3>2
    <2>4. inDegree' \in [Txns -> Int] /\ starts' \in [Txns -> Nat]
      BY <1>0, <1>11, <2>1 DEF TypeOK, CompareExchange
    <2>5. staleWin' \in BOOLEAN
      BY <1>0, <1>11 DEF TypeOK, CompareExchange
    <2>6. QED
      BY <1>0, <1>11, <2>2, <2>3, <2>4, <2>5 DEF TypeOK, CompareExchange
  <1>12. CASE SelectCas1(w)
    BY <1>11, <1>12 DEF SelectCas1
  <1>13. CASE SelectCas2(w)
    <2>1. var_zero[w] \in Int
      BY <1>0 DEF TypeOK
    <2>2. QED
      BY <1>11, <1>13, <2>1 DEF SelectCas2
  <1>14. CASE SelectMark(w)
    <2>1. pc' \in [Workers -> Locations] /\ lastTxn' \in Nat
      BY <1>0, <1>14 DEF TypeOK, SelectMark, Locations
    <2>2. QED
      BY <1>0, <1>14, <2>1 DEF TypeOK, SelectMark
  <1>15. CASE ParseFailure(w)
    BY <1>1, <1>15 DEF ParseFailure, Locations
  <1>16. CASE ProcessTxn(w)
    <2>1. pc' \in [Workers -> Locations]
      BY <1>0, <1>16 DEF TypeOK, ProcessTxn, Locations
    <2>2. txn[w] \in Txns
      BY <1>0, <1>16 DEF TypeOK, Mine, ProcessTxn, Holding
    <2>3. applied' \in SUBSET processed' /\ processed' \in SUBSET Txns
      BY <1>0, <1>16, <2>2 DEF TypeOK, ProcessTxn
    <2>4. flag' \in BOOLEAN
      BY <1>16 DEF ProcessTxn
    <2>5. QED
      BY <1>0, <1>16, <2>1, <2>3, <2>4 DEF TypeOK, ProcessTxn
  <1>17. CASE CompleteSelf(w)
    <2>1. pc' \in [Workers -> Locations]
      BY <1>0, <1>17 DEF TypeOK, CompleteSelf, Locations
    <2>2. inDegree' \in [Txns -> Int]
      <3>1. txn[w] \in Txns
        BY <1>0, <1>17 DEF TypeOK, Mine, CompleteSelf, Holding
      <3>2. inDegree' = [inDegree EXCEPT ![txn[w]] = inDegree[txn[w]] - 1]
            /\ inDegree[txn[w]] - 1 \in Int
        BY <1>0, <1>17, <3>1 DEF TypeOK, CompleteSelf
      <3>3. QED
        BY <1>0, <3>2 DEF TypeOK
    <2>3. QED
      BY <1>0, <1>17, <2>1, <2>2 DEF TypeOK, CompleteSelf
  <1>18. CASE CompleteCount(w)
    <2>1. pc' \in [Workers -> Locations]
      BY <1>0, <1>18 DEF TypeOK, CompleteCount, Locations
    <2>2. scan' \in [Workers -> Nat] /\ completedTxns' \in Nat
      BY <1>0, <1>18 DEF TypeOK, CompleteCount
    <2>3. QED
      BY <1>0, <1>18, <2>1, <2>2 DEF TypeOK, CompleteCount
  <1>19. CASE CompleteRelease(w)
    <2>1. scan' \in [Workers -> Nat] /\ scan[w] \in Txns
      BY <1>0, <1>19, NTxnsAssumption DEF TypeOK, CompleteRelease, Txns
    <2>2. inDegree[scan[w]] - 1 \in Int
      BY <1>0, <2>1 DEF TypeOK
    <2>3. inDegree' \in [Txns -> Int]
      BY <1>0, <1>19, <2>2 DEF TypeOK, CompleteRelease
    <2>4. QED
      BY <1>0, <1>19, <2>1, <2>3 DEF TypeOK, CompleteRelease
  <1>20. CASE CompleteReturn(w)
    BY <1>1, <1>20 DEF CompleteReturn, Locations
  <1>21. CASE AddCompCount(w)
    <2>1. pc' \in [Workers -> Locations] /\ compCount' \in Nat
      BY <1>0, <1>21 DEF TypeOK, AddCompCount, Locations
    <2>2. QED
      BY <1>0, <1>21, <2>1 DEF TypeOK, AddCompCount
  <1>22. QED
    BY <1>2, <1>3, <1>4, <1>5, <1>6, <1>7, <1>8, <1>9, <1>10, <1>12, <1>13, <1>14,
       <1>15, <1>16, <1>17, <1>18, <1>19, <1>20, <1>21 DEF Worker

-----------------------------------------------------------------------------
(***************************************************************************)
(* Steps of a worker that touch neither the counters nor the contracts.    *)
(***************************************************************************)
Local(w) ==
  /\ UNCHANGED <<conflicts, assigned, threadCount, adjacencyMatrix, inDegree,
                 completedTxns, main, txn, processed, applied, starts, staleWin>>
  /\ \A v \in Workers \ {w} : pc'[v] = pc[v] /\ scan'[v] = scan[v]
  /\ pc[w] # "idle"
  /\ pc[w] \notin Completing /\ pc'[w] \notin Completing \cup {"mark"}
  /\ pc'[w] = "process" => pc[w] = "mark"
  /\ pc'[w] \in {"cas1", "cas2"} => scan'[w] \in assigned

\* They preserve all of IInv but what is said of types and of the etcd keys.
LEMMA LocalStep ==
  ASSUME IInv, NEW w \in Workers, Local(w), TypeOK', ~staleWin => Published'
  PROVE  IInv'
  <1>1. main \notin {"read", "components", "schedule"}
    BY DEF IInv, Prepared, Local
  <1>2. Prepared'
    BY <1>1 DEF IInv, Prepared, Local, Closed
  <1>3. \A v \in Workers : Holding(v)' => Holding(v)
    BY DEF Local, Holding, Completing
  <1>4. Mine'
    BY <1>3 DEF IInv, Mine, Local
  <1>5. ASSUME ~staleWin PROVE Handed' /\ Accounting' /\ Counting'
    <2>1. Handed'
      BY <1>3, <1>5 DEF IInv, Handed, Local, AtMostOnce, Completing
    <2>2. \A v \in Workers : pc'[v] \in Completing =>
                               pc[v] = pc'[v] /\ scan[v] = scan'[v]
      BY DEF Local
    <2>3. \A v \in Workers : pc[v] \in Completing =>
                               pc[v] = pc'[v] /\ scan[v] = scan'[v]
      BY DEF Local
    <2>4. Counted' = Counted
      BY <2>2, <2>3 DEF Counted, Local, Completing
    <2>5. \A i, j \in Txns : Released(i, j)' <=> Released(i, j)
      BY <2>2, <2>3 DEF Released, Local, Completing
    <2>6. \A j \in Txns : Pending(j)' = Pending(j)
      BY <2>5 DEF Pending, Local
    <2>7. Accounting' /\ Counting'
      BY <1>1, <1>5, <2>4, <2>6 DEF IInv, Accounting, Counting, Local, TypeOK
    <2>8. QED
      BY <2>1, <2>7
  <1>6. QED
    BY <1>1, <1>2, <1>4, <1>5 DEF IInv, Local

\* Those that leave the etcd keys and the worker's copies alone.
LEMMA LocalQuiet ==
  ASSUME IInv, NEW w \in Workers, Local(w), TypeOK',
         UNCHANGED <<run, status, data, copy>>,
         pc'[w] \in Publishing => \/ pc[w] = "ready" /\ completedTxns = NTxns
                                  \/ pc[w] \in Publishing,
         pc'[w] # "putData",
         pc'[w] \in {"readCount", "putStatus", "clear"} =>
           pc[w] \in {"readCount", "putStatus", "clear"}
  PROVE  IInv'
  <1>1. ASSUME ~staleWin PROVE Published'
    BY <1>1 DEF IInv, Published, Local, Publishing
  <1>2. QED
    BY <1>1, LocalStep

\* The loop head and the test that the follower's part is complete.
LEMMA LoopStep ==
  ASSUME IInv, NEW w \in Workers, TypeOK',
         CheckLoop(w) \/ CheckReady(w) \/ ParseFailure(w)
  PROVE  IInv'
  <1> USE DEF blockVars, dagVars, flagVars, etcdVars, envVars, historyVars, Goto
  <1>1. UNCHANGED <<blockVars, dagVars, flagVars, main, scan, txn, copy, etcdVars,
                    historyVars>>
    BY DEF CheckLoop, CheckReady, ParseFailure, Move
  <1>2. pc \in [Workers -> Locations]
    BY DEF IInv, TypeOK
  <1>3. \A v \in Workers \ {w} : pc'[v] = pc[v]
    BY <1>2 DEF CheckLoop, CheckReady, ParseFailure, Move
  <1>4. /\ pc[w] \in {"loop", "flag", "ready", "update", "process"}
        /\ \/ pc'[w] \in {"loop", "flag", "done", "ready", "pos"}
           \/ pc'[w] = "update" /\ pc[w] = "ready" /\ completedTxns = NTxns
           \/ pc'[w] = "snapshot" /\ pc[w] = "update"
    <2>1. ASSUME NEW from, NEW to, Move(w, from, to) PROVE pc[w] = from /\ pc'[w] = to
      BY <1>2, <2>1 DEF Move
    <2>2. CASE CheckLoop(w)
      BY <2>1, <2>2 DEF CheckLoop
    <2>3. CASE CheckReady(w)
      BY <2>1, <2>3 DEF CheckReady
    <2>4. CASE ParseFailure(w)
      BY <2>1, <2>4 DEF ParseFailure
    <2>5. QED
      BY <2>2, <2>3, <2>4
  <1>5. Local(w)
    BY <1>1, <1>3, <1>4 DEF Local, Completing
  <1>6. QED
    BY <1>1, <1>4, <1>5, LocalQuiet DEF Publishing

\* dataStore and the status write: the data first, then the count.
LEMMA PublishStep ==
  ASSUME IInv, NEW w \in Workers, TypeOK',
         SnapshotMap(w) \/ PutData(w) \/ ReadCount(w) \/ PutStatus(w)
           \/ ClearUpdate(w) \/ AddCompCount(w)
  PROVE  IInv'
  <1> USE DEF blockVars, dagVars, flagVars, etcdVars, envVars, historyVars, Goto
  <1>1. /\ pc \in [Workers -> Locations] /\ status \in Nat \cup {Absent}
        /\ copy \in [Workers -> [data : SUBSET Txns, count : Nat]]
    BY DEF IInv, TypeOK
  <1>2. Local(w)
    <2>1. UNCHANGED <<blockVars, dagVars, main, scan, txn, historyVars>>
      BY DEF SnapshotMap, PutData, ReadCount, PutStatus, ClearUpdate, AddCompCount
    <2>2. \A v \in Workers \ {w} : pc'[v] = pc[v]
      BY <1>1 DEF SnapshotMap, PutData, ReadCount, PutStatus, ClearUpdate,
                  AddCompCount
    <2>3. /\ pc[w] \in Publishing \cup {"compCount"}
          /\ pc'[w] \in Publishing \cup {"pos", "loop"}
      BY <1>1 DEF SnapshotMap, PutData, ReadCount, PutStatus, ClearUpdate,
                  AddCompCount, Publishing
    <2>4. QED
      BY <2>1, <2>2, <2>3 DEF Local, Completing, Publishing
  <1>3. CASE SnapshotMap(w)
    <2>1. ASSUME ~staleWin PROVE Published'
      BY <1>1, <1>3, <2>1 DEF IInv, Published, SnapshotMap
    <2>2. QED
      BY <1>2, <2>1, LocalStep
  <1>4. CASE PutData(w)
    <2>1. ASSUME ~staleWin PROVE Published'
      BY <1>1, <1>4, <2>1 DEF IInv, Published, PutData
    <2>2. QED
      BY <1>2, <2>1, LocalStep
  <1>5. CASE ReadCount(w)
    <2>1. ASSUME ~staleWin PROVE Published'
      BY <1>1, <1>5, <2>1 DEF IInv, Published, ReadCount
    <2>2. QED
      BY <1>2, <2>1, LocalStep
  <1>6. CASE PutStatus(w)
    <2>1. copy[w].count # Absent
      BY <1>1 DEF Absent
    <2>2. ASSUME ~staleWin PROVE Published'
      BY <1>1, <1>6, <2>1, <2>2 DEF IInv, Published, PutStatus
    <2>3. QED
      BY <1>2, <2>2, LocalStep
  <1>7. CASE ClearUpdate(w) \/ AddCompCount(w)
    BY <1>1, <1>2, <1>7, LocalQuiet DEF ClearUpdate, AddCompCount, Publishing
  <1>8. QED
    BY <1>3, <1>4, <1>5, <1>6, <1>7

\* The scan of selectTxn; an entry that reads 0 is one of this follower's own.
LEMMA ScanStep ==
  ASSUME IInv, NEW w \in Workers, TypeOK',
         SelectPos(w) \/ SelectLoad(w) \/ SelectMark(w)
  PROVE  IInv'
  <1> USE DEF blockVars, dagVars, flagVars, etcdVars, envVars, historyVars, Goto
  <1>1. /\ pc \in [Workers -> Locations] /\ scan \in [Workers -> Nat]
        /\ assigned \in SUBSET Txns
    BY DEF IInv, TypeOK
  <1>2. CASE SelectPos(w)
    BY <1>1, <1>2, LocalQuiet DEF SelectPos, Local, Completing, Publishing
  <1>3. CASE SelectMark(w)
    BY <1>1, <1>3, LocalQuiet DEF SelectMark, Local, Completing, Publishing
  <1>4. CASE SelectLoad(w)
    <2>1. scan[w] < NTxns /\ inDegree[scan[w]] = 0 => scan[w] \in assigned
      <3>1. ASSUME scan[w] < NTxns, inDegree[scan[w]] = 0 PROVE scan[w] \in assigned
        <4>1. scan[w] \in Txns
          BY <1>1, <3>1, NTxnsAssumption DEF Txns
        <4>2. QED
          BY <3>1, <4>1 DEF IInv, Mine
      <3>2. QED
        BY <3>1
    <2>2. UNCHANGED <<blockVars, dagVars, flagVars, main, txn, copy, etcdVars,
                      historyVars>>
      BY <1>4 DEF SelectLoad
    <2>3. \A v \in Workers \ {w} : pc'[v] = pc[v] /\ scan'[v] = scan[v]
      BY <1>1, <1>4 DEF SelectLoad
    <2>4. /\ pc[w] \in {"load1", "load2"}
          /\ pc'[w] \in {"load1", "load2", "loop", "cas1", "cas2"}
          /\ pc'[w] \in {"cas1", "cas2"} => scan'[w] \in assigned
      BY <1>1, <1>4, <2>1 DEF SelectLoad
    <2>5. Local(w)
      BY <2>2, <2>3, <2>4 DEF Local, Completing
    <2>6. QED
      BY <2>2, <2>4, <2>5, LocalQuiet DEF Publishing
  <1>5. QED
    BY <1>2, <1>3, <1>4

-----------------------------------------------------------------------------
(***************************************************************************)
(* Steps of a worker that touch them.                                      *)
(***************************************************************************)
\* A worker that runs runs after scheduleTxns.
LEMMA PreparedStep ==
  ASSUME IInv, NEW w \in Workers, pc[w] # "idle",
         UNCHANGED <<conflicts, assigned, threadCount, adjacencyMatrix, main>>
  PROVE  main \notin {"read", "components", "schedule"} /\ Prepared'
  <1>1. main \notin {"read", "components", "schedule"}
    BY DEF IInv, Prepared
  <1>2. QED
    BY <1>1 DEF IInv, Prepared, Closed

\* An exchange that fails only moves the scan on.
LEMMA LoseStep ==
  ASSUME IInv, NEW w \in Workers, TypeOK', NEW expected, NEW back \in {"load1", "load2"},
         pc[w] \in {"cas1", "cas2"}, CompareExchange(w, expected, back),
         inDegree[scan[w]] # expected
  PROVE  IInv'
  <1> USE DEF blockVars, dagVars, flagVars, etcdVars, envVars, historyVars, Goto
  <1>1. pc \in [Workers -> Locations] /\ scan \in [Workers -> Nat]
    BY DEF IInv, TypeOK
  <1>2. UNCHANGED <<blockVars, dagVars, flagVars, main, txn, copy, etcdVars,
                    historyVars>>
    BY DEF CompareExchange
  <1>3. /\ \A v \in Workers \ {w} : pc'[v] = pc[v] /\ scan'[v] = scan[v]
        /\ pc'[w] = back
    BY <1>1 DEF CompareExchange
  <1>4. Local(w)
    BY <1>2, <1>3 DEF Local, Completing
  <1>5. QED
    BY <1>2, <1>3, <1>4, LocalQuiet DEF Publishing

\* A won exchange hands out an entry of this follower; with an expected value of
\* 0, one that has no predecessor left and was never handed out before.
LEMMA WinStep ==
  ASSUME IInv, NEW w \in Workers, TypeOK', NEW expected, NEW back \in {"load1", "load2"},
         pc[w] \in {"cas1", "cas2"}, CompareExchange(w, expected, back),
         inDegree[scan[w]] = expected
  PROVE  IInv'
  <1> USE DEF blockVars, dagVars, flagVars, etcdVars, envVars, historyVars, Goto
  <1> DEFINE i == scan[w]
  <1>1. /\ pc \in [Workers -> Locations] /\ txn \in [Workers -> Nat]
        /\ inDegree \in [Txns -> Int] /\ starts \in [Txns -> Nat]
        /\ assigned \in SUBSET Txns /\ processed \in SUBSET Txns
    BY DEF IInv, TypeOK
  <1>2. i \in assigned /\ i \in Txns
    BY <1>1 DEF IInv, Mine
  <1>3. /\ inDegree' = [inDegree EXCEPT ![i] = -1]
        /\ txn' = [txn EXCEPT ![w] = i]
        /\ starts' = [starts EXCEPT ![i] = starts[i] + 1]
        /\ pc' = [pc EXCEPT ![w] = "mark"]
        /\ UNCHANGED <<blockVars, adjacencyMatrix, completedTxns, main, scan, copy,
                       etcdVars, processed, applied>>
    BY DEF CompareExchange
  <1>4. main \notin {"read", "components", "schedule"} /\ Prepared'
    BY <1>3, PreparedStep
  <1>5. \A v \in Workers : IF v = w THEN pc'[v] = "mark" /\ txn'[v] = i
                                    ELSE pc'[v] = pc[v] /\ txn'[v] = txn[v]
    BY <1>1, <1>3
  <1>6. \A j \in Txns : IF j = i THEN inDegree'[j] = -1 /\ starts'[j] = starts[j] + 1
                                 ELSE inDegree'[j] = inDegree[j] /\ starts'[j] = starts[j]
    BY <1>1, <1>2, <1>3
  <1>7. \A j \in Txns : starts[j] > 0 => starts'[j] > 0
    BY <1>1, <1>6
  <1>8. starts'[i] > 0
    BY <1>1, <1>2, <1>6
  <1>9. Mine'
    <2>1. \A j \in Txns \ assigned : inDegree'[j] = -1 /\ starts'[j] = 0
      BY <1>2, <1>6 DEF IInv, Mine
    <2>2. \A v \in Workers : pc'[v] \in {"cas1", "cas2"} => scan[v] \in assigned
      BY <1>5 DEF IInv, Mine
    <2>3. \A v \in Workers : Holding(v)' => txn'[v] \in assigned /\ starts'[txn'[v]] > 0
      BY <1>1, <1>2, <1>5, <1>7, <1>8 DEF IInv, Mine, Holding
    <2>4. QED
      BY <1>3, <2>1, <2>2, <2>3 DEF IInv, Mine
  <1>10. ASSUME ~staleWin' PROVE Handed' /\ Accounting' /\ Counting' /\ Published'
    <2>1. ~staleWin /\ expected = 0
      BY <1>10 DEF CompareExchange
    <2>2. Handed /\ Accounting /\ Counting /\ Published /\ Mine
      BY <1>4, <2>1 DEF IInv
    <2>3. inDegree[i] = 0
      BY <2>1
    <2>4. starts[i] = 0 /\ Cardinality(Pending(i)) = 0
      BY <1>2, <2>2, <2>3 DEF Accounting
    <2>5. Pending(i) = {}
      <3>1. IsFiniteSet(Pending(i))
        BY TxnSubset DEF Pending
      <3>2. QED
        BY <2>4, <3>1, FS_EmptySet
    <2>6. \A v \in Workers : Holding(v) => txn[v] # i
      BY <2>2, <2>4 DEF Mine
    <2>7. i \notin processed
      BY <1>2, <2>2, <2>4 DEF Handed
    <2>8. Handed'
      <3>1. AtMostOnce'
        BY <1>1, <1>2, <1>6, <2>2, <2>4 DEF AtMostOnce, Handed
      <3>2. \A u, v \in Workers :
              Holding(u)' /\ Holding(v)' /\ txn'[u] = txn'[v] => u = v
        BY <1>5, <2>2, <2>6 DEF Handed, Holding
      <3>3. \A j \in Txns : starts'[j] = 0 => j \notin processed'
        BY <1>2, <1>3, <1>6, <2>2, <2>7 DEF Handed
      <3>4. \A v \in Workers :
              /\ pc'[v] \in {"mark", "process"} => txn'[v] \notin processed'
              /\ pc'[v] \in {"finish", "count", "release"} => txn'[v] \in processed'
        BY <1>3, <1>5, <2>2, <2>7 DEF Handed
      <3>5. QED
        BY <3>1, <3>2, <3>3, <3>4 DEF Handed
    <2>9. Counted' = Counted
      BY <1>3, <1>5 DEF Counted
    <2>10. \A k, j \in Txns : Released(k, j)' <=> Released(k, j)
      BY <1>3, <1>5 DEF Released
    <2>11. \A j \in Txns : Pending(j)' = Pending(j)
      BY <1>3, <2>10 DEF Pending
    <2>12. Accounting'
      BY <1>1, <1>2, <1>3, <1>6, <2>2, <2>4, <2>5, <2>11 DEF Accounting
    <2>13. Counting' /\ Published'
      BY <1>3, <1>5, <2>2, <2>9 DEF Counting, Published
    <2>14. QED
      BY <2>8, <2>12, <2>13
  <1>11. QED
    BY <1>4, <1>9, <1>10 DEF IInv

\* The contract runs before the follower's count can be complete.
LEMMA ProcessStep ==
  ASSUME IInv, NEW w \in Workers, TypeOK', ProcessTxn(w)
  PROVE  IInv'
  <1> USE DEF blockVars, dagVars, flagVars, etcdVars, envVars, historyVars, Goto
  <1> DEFINE i == txn[w]
  <1>1. /\ pc \in [Workers -> Locations]
        /\ assigned \in SUBSET Txns /\ processed \in SUBSET Txns
    BY DEF IInv, TypeOK
  <1>2. /\ pc[w] = "process"
        /\ pc' = [pc EXCEPT ![w] = "finish"]
        /\ processed' = processed \cup {i}
        /\ UNCHANGED <<blockVars, dagVars, main, scan, txn, copy, etcdVars, starts,
                       staleWin>>
    BY DEF ProcessTxn
  <1>3. i \in assigned /\ i \in Txns /\ starts[i] > 0
    BY <1>1, <1>2 DEF IInv, Mine, Holding
  <1>4. main \notin {"read", "components", "schedule"} /\ Prepared'
    BY <1>2, PreparedStep
  <1>5. \A v \in Workers : pc'[v] = IF v = w THEN "finish" ELSE pc[v]
    BY <1>1, <1>2
  <1>6. \A v \in Workers : Holding(v)' <=> Holding(v)
    BY <1>2, <1>5 DEF Holding
  <1>7. Mine'
    BY <1>2, <1>3, <1>5, <1>6 DEF IInv, Mine
  <1>8. ASSUME ~staleWin PROVE Handed' /\ Accounting' /\ Counting' /\ Published'
    <2>1. Handed /\ Accounting /\ Counting /\ Published /\ Mine /\ TypeOK
      BY <1>4, <1>8 DEF IInv
    <2>2. i \notin processed
      BY <1>2, <2>1 DEF Handed
    <2>3. \A v \in Workers : Holding(v) /\ txn[v] = i => v = w
      BY <1>2, <2>1 DEF Handed, Holding
    <2>4. completedTxns < NTxns
      <3>1. Counted # assigned
        BY <1>3, <2>2 DEF Counted
      <3>2. QED
        BY <2>1, <3>1, AllCounted
    <2>5. completedTxns # NTxns
      BY <2>1, <2>4, NTxnsAssumption DEF TypeOK
    <2>6. Handed'
      <3>1. AtMostOnce'
        BY <1>2, <2>1 DEF AtMostOnce, Handed
      <3>2. \A u, v \in Workers :
              Holding(u)' /\ Holding(v)' /\ txn'[u] = txn'[v] => u = v
        BY <1>2, <1>6, <2>1 DEF Handed
      <3>3. starts[i] # 0
        BY <1>3
      <3>4. \A j \in Txns : starts'[j] = 0 => j \notin processed'
        BY <1>2, <2>1, <3>3 DEF Handed
      <3>5. \A v \in Workers :
              /\ pc'[v] \in {"mark", "process"} => txn'[v] \notin processed'
              /\ pc'[v] \in {"finish", "count", "release"} => txn'[v] \in processed'
        BY <1>2, <1>5, <2>1, <2>3 DEF Handed, Holding
      <3>6. QED
        BY <3>1, <3>2, <3>4, <3>5 DEF Handed
    <2>7. Counted' = Counted
      BY <1>2, <1>5, <2>2 DEF Counted
    <2>8. \A k, j \in Txns : Released(k, j)' <=> Released(k, j)
      BY <1>2, <1>5, <2>2 DEF Released
    <2>9. \A j \in Txns : Pending(j)' = Pending(j)
      BY <1>2, <2>8 DEF Pending
    <2>10. Accounting' /\ Counting'
      BY <1>1, <1>2, <2>1, <2>7, <2>9 DEF Accounting, Counting
    <2>11. Published'
      BY <1>2, <1>5, <2>1, <2>5 DEF Published
    <2>12. QED
      BY <2>6, <2>10, <2>11
  <1>9. QED
    BY <1>2, <1>4, <1>7, <1>8 DEF IInv

\* complete() on the entry of the transaction itself: negative stays negative.
LEMMA SelfStep ==
  ASSUME IInv, NEW w \in Workers, TypeOK', CompleteSelf(w)
  PROVE  IInv'
  <1> USE DEF blockVars, dagVars, flagVars, etcdVars, envVars, historyVars, Goto
  <1> DEFINE i == txn[w]
  <1>1. /\ pc \in [Workers -> Locations] /\ inDegree \in [Txns -> Int]
        /\ assigned \in SUBSET Txns /\ processed \in SUBSET Txns
    BY DEF IInv, TypeOK
  <1>2. /\ pc[w] = "finish"
        /\ pc' = [pc EXCEPT ![w] = "count"]
        /\ inDegree' = [inDegree EXCEPT ![i] = inDegree[i] - 1]
        /\ UNCHANGED <<blockVars, adjacencyMatrix, completedTxns, main, scan, txn,
                       copy, etcdVars, historyVars>>
    BY DEF CompleteSelf
  <1>3. i \in assigned /\ i \in Txns /\ starts[i] > 0
    BY <1>1, <1>2 DEF IInv, Mine, Holding
  <1>4. main \notin {"read", "components", "schedule"} /\ Prepared'
    BY <1>2, PreparedStep
  <1>5. \A v \in Workers : pc'[v] = IF v = w THEN "count" ELSE pc[v]
    BY <1>1, <1>2
  <1>6. \A v \in Workers : Holding(v)' <=> Holding(v)
    BY <1>2, <1>5 DEF Holding
  <1>7. \A j \in Txns : inDegree'[j] = IF j = i THEN inDegree[i] - 1 ELSE inDegree[j]
    BY <1>1, <1>2
  <1>8. Mine'
    BY <1>2, <1>3, <1>5, <1>6, <1>7 DEF IInv, Mine
  <1>9. ASSUME ~staleWin PROVE Handed' /\ Accounting' /\ Counting' /\ Published'
    <2>1. Handed /\ Accounting /\ Counting /\ Published
      BY <1>4, <1>9 DEF IInv
    <2>2. Handed'
      BY <1>2, <1>5, <1>6, <2>1 DEF Handed, AtMostOnce
    <2>3. Counted' = Counted
      BY <1>2, <1>5 DEF Counted
    <2>4. \A k, j \in Txns : Released(k, j)' <=> Released(k, j)
      BY <1>2, <1>5 DEF Released
    <2>5. \A j \in Txns : Pending(j)' = Pending(j)
      BY <1>2, <2>4 DEF Pending
    <2>6. Accounting'
      <3>1. inDegree[i] \in Int /\ starts[i] # 0
        BY <1>1, <1>3
      <3>2. inDegree[i] - 1 < 0 /\ Pending(i) = {}
        BY <1>3, <2>1, <3>1 DEF Accounting
      <3>3. \A j \in assigned : j \in Txns /\ starts'[j] = starts[j]
        BY <1>1, <1>2
      <3>4. QED
        BY <1>2, <1>7, <2>1, <2>5, <3>1, <3>2, <3>3 DEF Accounting
    <2>7. Counting' /\ Published'
      BY <1>2, <1>5, <2>1, <2>3 DEF Counting, Published
    <2>8. QED
      BY <2>2, <2>6, <2>7
  <1>10. QED
    BY <1>2, <1>4, <1>8, <1>9 DEF IInv

\* completedTxns++ counts one more transaction, and no successor is released yet.
LEMMA CountStep ==
  ASSUME IInv, NEW w \in Workers, TypeOK', CompleteCount(w)
  PROVE  IInv'
  <1> USE DEF blockVars, dagVars, flagVars, etcdVars, envVars, historyVars, Goto
  <1> DEFINE i == txn[w]
  <1>1. /\ pc \in [Workers -> Locations] /\ scan \in [Workers -> Nat]
        /\ assigned \in SUBSET Txns /\ processed \in SUBSET Txns
        /\ adjacencyMatrix \in SUBSET Edges
    BY DEF IInv, TypeOK
  <1>2. /\ pc[w] = "count"
        /\ pc' = [pc EXCEPT ![w] = "release"]
        /\ scan' = [scan EXCEPT ![w] = i + 1]
        /\ completedTxns' = completedTxns + 1
        /\ UNCHANGED <<blockVars, adjacencyMatrix, inDegree, main, txn, copy, etcdVars,
                       historyVars>>
    BY DEF CompleteCount
  <1>3. i \in assigned /\ i \in Txns
    BY <1>1, <1>2 DEF IInv, Mine, Holding
  <1>4. main \notin {"read", "components", "schedule"} /\ Prepared'
    BY <1>2, PreparedStep
  <1>5. \A v \in Workers : IF v = w THEN pc'[v] = "release" /\ scan'[v] = i + 1
                                    ELSE pc'[v] = pc[v] /\ scan'[v] = scan[v]
    BY <1>1, <1>2
  <1>6. \A v \in Workers : Holding(v)' <=> Holding(v)
    BY <1>2, <1>5 DEF Holding
  <1>7. Mine'
    BY <1>2, <1>5, <1>6 DEF IInv, Mine
  <1>8. ASSUME ~staleWin PROVE Handed' /\ Accounting' /\ Counting' /\ Published'
    <2>1. Handed /\ Accounting /\ Counting /\ Published /\ Mine /\ TypeOK
      BY <1>4, <1>8 DEF IInv
    <2>2. i \in processed /\ i \notin Counted
      BY <1>2, <2>1 DEF Handed, Counted
    <2>3. \A v \in Workers : Holding(v) /\ txn[v] = i => v = w
      BY <1>2, <2>1 DEF Handed, Holding
    <2>4. completedTxns < NTxns
      BY <1>3, <2>1, <2>2, AllCounted
    <2>5. completedTxns # NTxns
      BY <2>1, <2>4, NTxnsAssumption DEF TypeOK
    <2>6. Handed'
      BY <1>2, <1>5, <1>6, <2>1 DEF Handed, AtMostOnce
    <2>7. Counted' = Counted \cup {i}
      BY <1>2, <1>5, <2>2, <2>3 DEF Counted, Holding
    <2>8. Counting'
      <3>1. /\ IsFiniteSet(Counted) /\ Cardinality(Counted) \in Nat
            /\ Cardinality(assigned) \in Nat
        BY <1>1, TxnSubset DEF Counted
      <3>2. Cardinality(Counted \cup {i}) = Cardinality(Counted) + 1
        BY <2>2, <3>1, FS_AddElement
      <3>3. Cardinality(Counted') = Cardinality(Counted) + 1 /\ assigned' = assigned
        BY <1>2, <2>7, <3>2
      <3>4. QED
        BY <1>2, <2>1, <3>1, <3>3, NTxnsAssumption DEF Counting
    <2>9. \A k, j \in Txns : <<k, j>> \in adjacencyMatrix =>
                               (Released(k, j)' <=> Released(k, j))
      <3>1. ASSUME NEW k \in Txns, NEW j \in Txns, <<k, j>> \in adjacencyMatrix
            PROVE  Released(k, j)' <=> Released(k, j)
        <4>1. k < j /\ k \in Int /\ j \in Int
          BY <1>1, <3>1 DEF Edges, Txns
        <4>2. CASE k = i
          <5>1. ~(i + 1 > j)
            BY <4>1, <4>2
          <5>2. QED
            BY <1>2, <1>5, <4>2, <5>1 DEF Released
        <4>3. CASE k # i
          BY <1>2, <1>5, <4>3 DEF Released
        <4>4. QED
          BY <4>2, <4>3
      <3>2. QED
        BY <3>1
    <2>10. \A j \in Txns : Pending(j)' = Pending(j)
      BY <1>2, <2>9 DEF Pending
    <2>11. Accounting'
      BY <1>1, <1>2, <2>1, <2>10 DEF Accounting
    <2>12. Published'
      BY <1>2, <1>5, <2>1, <2>5 DEF Published
    <2>13. QED
      BY <2>6, <2>8, <2>11, <2>12
  <1>9. QED
    BY <1>2, <1>4, <1>7, <1>8 DEF IInv

\* One successor's in-degree and its set of pending predecessors shrink together.
LEMMA ReleaseStep ==
  ASSUME IInv, NEW w \in Workers, TypeOK', CompleteRelease(w)
  PROVE  IInv'
  <1> USE DEF blockVars, dagVars, flagVars, etcdVars, envVars, historyVars, Goto
  <1>0. TypeOK
    BY DEF IInv
  <1>s. PICK s \in Nat : s = scan[w]
    BY <1>0 DEF TypeOK
  <1>i. PICK i \in Nat : i = txn[w]
    BY <1>0 DEF TypeOK
  <1> DEFINE edge == <<i, s>> \in adjacencyMatrix
  <1>1. /\ scan \in [Workers -> Nat] /\ inDegree \in [Txns -> Int]
        /\ assigned \in SUBSET Txns /\ processed \in SUBSET Txns
        /\ adjacencyMatrix \in SUBSET conflicts
    BY DEF IInv, TypeOK
  <1>2. /\ pc[w] = "release" /\ s < NTxns
        /\ scan' = [scan EXCEPT ![w] = s + 1]
        /\ inDegree' = IF edge THEN [inDegree EXCEPT ![s] = inDegree[s] - 1] ELSE inDegree
        /\ UNCHANGED <<blockVars, adjacencyMatrix, completedTxns, main, pc, txn, copy,
                       etcdVars, historyVars>>
    BY <1>s, <1>i DEF CompleteRelease
  <1>3. i \in assigned /\ i \in Txns
    BY <1>i, <1>1, <1>2 DEF IInv, Mine, Holding
  <1>4. s \in Txns /\ s \in Nat
    BY <1>1, <1>2, NTxnsAssumption DEF Txns
  <1>5. edge => s \in assigned
    BY <1>1, <1>3 DEF IInv, Prepared, Closed
  <1>6. main \notin {"read", "components", "schedule"} /\ Prepared'
    BY <1>2, PreparedStep
  <1>7. \A v \in Workers : scan'[v] = IF v = w THEN s + 1 ELSE scan[v]
    BY <1>1, <1>2
  <1>8. \A j \in Txns : inDegree'[j] = IF edge /\ j = s THEN inDegree[s] - 1
                                                       ELSE inDegree[j]
    BY <1>1, <1>2
  <1>9. \A v \in Workers : Holding(v)' <=> Holding(v)
    BY <1>2 DEF Holding
  <1>10. Mine'
    <2>1. \A j \in Txns \ assigned : inDegree'[j] = -1 /\ starts'[j] = 0
      BY <1>2, <1>5, <1>8 DEF IInv, Mine
    <2>2. \A v \in Workers : pc'[v] \in {"cas1", "cas2"} => scan'[v] \in assigned
      BY <1>2, <1>7 DEF IInv, Mine
    <2>3. QED
      BY <1>2, <1>9, <2>1, <2>2 DEF IInv, Mine
  <1>11. ASSUME ~staleWin PROVE Handed' /\ Accounting' /\ Counting' /\ Published'
    <2>1. Handed /\ Accounting /\ Counting /\ Published
      BY <1>6, <1>11 DEF IInv
    <2>2. i \in processed
      BY <1>i, <1>2, <2>1 DEF Handed
    <2>3. \A v \in Workers : Holding(v) /\ txn[v] = i => v = w
      BY <1>i, <1>2, <2>1 DEF Handed, Holding
    <2>4. Handed'
      BY <1>2, <1>9, <2>1 DEF Handed, AtMostOnce
    <2>5. Counted' = Counted
      BY <1>2 DEF Counted
    <2>6. \A k, j \in Txns : k # i => (Released(k, j)' <=> Released(k, j))
      BY <1>i, <1>2, <1>7 DEF Released
    <2>7. \A j \in Txns : /\ Released(i, j) <=> s > j
                          /\ Released(i, j)' <=> s + 1 > j
      BY <1>i, <1>s, <1>2, <1>7, <2>2, <2>3 DEF Released, Holding
    <2>8. ~Released(i, s) /\ Released(i, s)'
      BY <1>4, <2>7
    <2>9. \A j \in Txns : j # s => (Released(i, j)' <=> Released(i, j))
      <3>1. \A j \in Txns : j # s => (s + 1 > j <=> s > j)
        BY <1>4 DEF Txns
      <3>2. QED
        BY <2>7, <3>1
    <2>10. \A j \in Txns : j # s => Pending(j)' = Pending(j)
      BY <1>2, <2>6, <2>9 DEF Pending
    <2>11. Pending(s)' = IF edge THEN Pending(s) \ {i} ELSE Pending(s)
      BY <1>2, <1>4, <2>6, <2>8 DEF Pending
    <2>12. edge => i \in Pending(s)
      BY <1>3, <2>8 DEF Pending
    <2>13. ASSUME NEW j \in assigned
           PROVE  IF starts'[j] = 0 THEN inDegree'[j] = Cardinality(Pending(j)')
                                    ELSE inDegree'[j] < 0 /\ Pending(j)' = {}
      <3>1. CASE edge /\ j = s
        <4>1. starts[s] = 0 /\ inDegree[s] = Cardinality(Pending(s))
          BY <1>5, <2>1, <2>12, <3>1 DEF Accounting
        <4>2. IsFiniteSet(Pending(s)) /\ Cardinality(Pending(s)) \in Nat
          BY TxnSubset DEF Pending
        <4>3. Cardinality(Pending(s) \ {i}) = Cardinality(Pending(s)) - 1
          BY <2>12, <3>1, <4>2, FS_RemoveElement
        <4>4. inDegree'[s] = inDegree[s] - 1 /\ Pending(s)' = Pending(s) \ {i}
          BY <1>4, <1>8, <2>11, <3>1
        <4>5. QED
          BY <1>2, <3>1, <4>1, <4>3, <4>4
      <3>2. CASE ~(edge /\ j = s)
        <4>1. j \in Txns
          BY <1>1
        <4>2. inDegree'[j] = inDegree[j] /\ starts'[j] = starts[j]
          BY <1>2, <1>8, <3>2, <4>1
        <4>3. Pending(j)' = Pending(j)
          BY <2>10, <2>11, <3>2, <4>1
        <4>4. QED
          BY <2>1, <4>2, <4>3 DEF Accounting
      <3>3. QED
        BY <3>1, <3>2
    <2>14. Accounting'
      BY <1>2, <2>13 DEF Accounting
    <2>15. Counting' /\ Published'
      BY <1>2, <2>1, <2>5 DEF Counting, Published
    <2>16. QED
      BY <2>4, <2>14, <2>15
  <1>12. QED
    BY <1>2, <1>6, <1>10, <1>11 DEF IInv

\* complete() returns when all successors are behind it.
LEMMA ReturnStep ==
  ASSUME IInv, NEW w \in Workers, TypeOK', CompleteReturn(w)
  PROVE  IInv'
  <1> USE DEF blockVars, dagVars, flagVars, etcdVars, envVars, historyVars, Goto
  <1>1. /\ pc \in [Workers -> Locations] /\ scan \in [Workers -> Nat]
        /\ assigned \in SUBSET Txns /\ processed \in SUBSET Txns
    BY DEF IInv, TypeOK
  <1>2. /\ pc[w] = "release" /\ scan[w] >= NTxns
        /\ pc' = [pc EXCEPT ![w] = "compCount"]
        /\ UNCHANGED <<blockVars, dagVars, main, scan, txn, copy, etcdVars, historyVars>>
    BY DEF CompleteReturn, Move
  <1>3. main \notin {"read", "components", "schedule"} /\ Prepared'
    BY <1>2, PreparedStep
  <1>4. \A v \in Workers : pc'[v] = IF v = w THEN "compCount" ELSE pc[v]
    BY <1>1, <1>2
  <1>5. \A v \in Workers : Holding(v)' => Holding(v)
    BY <1>4 DEF Holding
  <1>6. Mine'
    BY <1>2, <1>4, <1>5 DEF IInv, Mine
  <1>7. ASSUME ~staleWin PROVE Handed' /\ Accounting' /\ Counting' /\ Published'
    <2>1. Handed /\ Accounting /\ Counting /\ Published
      BY <1>3, <1>7 DEF IInv
    <2>2. Handed'
      BY <1>2, <1>4, <1>5, <2>1 DEF Handed, AtMostOnce
    <2>3. Counted' = Counted
      BY <1>2, <1>4 DEF Counted
    <2>4. \A j \in Txns : scan[w] > j
      BY <1>1, <1>2, NTxnsAssumption DEF Txns
    <2>5. \A k, j \in Txns : Released(k, j)' <=> Released(k, j)
      BY <1>2, <1>4, <2>4 DEF Released
    <2>6. \A j \in Txns : Pending(j)' = Pending(j)
      BY <1>2, <2>5 DEF Pending
    <2>7. Accounting' /\ Counting' /\ Published'
      BY <1>1, <1>2, <1>4, <2>1, <2>3, <2>6 DEF Accounting, Counting, Published
    <2>8. QED
      BY <2>2, <2>7
  <1>8. QED
    BY <1>2, <1>3, <1>6, <1>7 DEF IInv

-----------------------------------------------------------------------------
(***************************************************************************)
(* The main thread, the monitor, the watches and the leader.               *)
(***************************************************************************)
\* readBlock: every entry is marked "not mine".
LEMMA ReadBlockStep ==
  ASSUME IInv, ReadBlock
  PROVE  IInv'
  <1> USE DEF blockVars, flagVars, workerVars, etcdVars, envVars, historyVars
  <1>1. /\ main = "read" /\ main' = "components" /\ completedTxns' = NTxns
        /\ inDegree' = [i \in Txns |-> -1]
        /\ adjacencyMatrix' = IF threadCount = 0 THEN {} ELSE conflicts
        /\ UNCHANGED <<blockVars, lastTxn, flagVars, monitor, workerVars, etcdVars,
                       envVars, historyVars>>
    BY DEF ReadBlock
  <1>2. TypeOK'
    <2>1. inDegree' \in [Txns -> Int] /\ completedTxns' \in Nat
      BY <1>1, NTxnsAssumption
    <2>2. adjacencyMatrix' \in SUBSET conflicts'
      BY <1>1
    <2>3. QED
      BY <1>1, <2>1, <2>2 DEF IInv, TypeOK
  <1>3. Prepared'
    BY <1>1 DEF IInv, Prepared, Closed
  <1>4. \A w \in Workers : pc[w] = "idle" /\ ~Holding(w)'
    BY <1>1 DEF IInv, Prepared, Holding
  <1>5. Mine'
    BY <1>1, <1>4 DEF IInv, Mine, Prepared
  <1>6. ASSUME ~staleWin PROVE Handed' /\ Published'
    <2>1. Handed'
      BY <1>1, <1>4, <1>6 DEF IInv, Handed, AtMostOnce
    <2>2. Published'
      BY <1>1, <1>4, <1>6 DEF IInv, Published, Prepared
    <2>3. QED
      BY <2>1, <2>2
  <1>7. QED
    BY <1>1, <1>2, <1>3, <1>5, <1>6 DEF IInv

\* ProcessIndegree: the entries of the assigned components get their column sums.
LEMMA ExtractStep ==
  ASSUME IInv, ExtractComponents
  PROVE  IInv'
  <1> USE DEF blockVars, workerVars, etcdVars, envVars, historyVars
  <1>1. /\ main = "components" /\ main' = "schedule" /\ updateFlag' = TRUE
        /\ inDegree' = [j \in Txns |-> IF j \in assigned THEN columnSum(j)
                                                        ELSE inDegree[j]]
        /\ completedTxns' = completedTxns - Cardinality(assigned)
        /\ UNCHANGED <<blockVars, adjacencyMatrix, lastTxn, flag, completeFlag,
                       compCount, monitor, workerVars, etcdVars, envVars, historyVars>>
    BY DEF ExtractComponents
  <1>2. /\ completedTxns = NTxns /\ inDegree = [i \in Txns |-> -1]
        /\ processed = {} /\ status = Absent
        /\ \A w \in Workers : pc[w] = "idle"
        /\ \A i \in Txns : starts[i] = 0
    BY <1>1 DEF IInv, Prepared
  <1>3. assigned \in SUBSET Txns
    BY DEF IInv, TypeOK
  <1>4. Cardinality(assigned) \in Nat /\ Cardinality(assigned) <= NTxns
    BY <1>3, TxnSubset
  <1>5. \A j \in Txns : columnSum(j) \in Nat
    BY TxnSubset DEF columnSum
  <1>6. TypeOK'
    <2>1. completedTxns' \in Nat
      BY <1>1, <1>2, <1>4, NTxnsAssumption
    <2>2. inDegree' \in [Txns -> Int]
      BY <1>1, <1>2, <1>5
    <2>3. updateFlag' \in BOOLEAN
      BY <1>1
    <2>4. QED
      BY <1>1, <2>1, <2>2, <2>3 DEF IInv, TypeOK
  <1>7. Prepared'
    BY <1>1, <1>2 DEF IInv, Prepared, Closed
  <1>8. \A w \in Workers : ~Holding(w)'
    BY <1>1, <1>2 DEF Holding
  <1>9. Mine'
    BY <1>1, <1>2, <1>8 DEF IInv, Mine
  <1>10. ASSUME ~staleWin PROVE Handed' /\ Accounting' /\ Counting' /\ Published'
    <2>1. Handed'
      BY <1>1, <1>2, <1>8, <1>10 DEF IInv, Handed, AtMostOnce
    <2>2. \A i, j \in Txns : ~Released(i, j)'
      BY <1>1, <1>2 DEF Released
    <2>3. \A j \in Txns : Pending(j)' = {i \in Txns : <<i, j>> \in adjacencyMatrix}
      BY <1>1, <2>2 DEF Pending
    <2>4. \A j \in assigned : inDegree'[j] = Cardinality(Pending(j)') /\ starts'[j] = 0
      BY <1>1, <1>2, <1>3, <2>3 DEF columnSum
    <2>5. Accounting'
      BY <1>1, <2>4 DEF Accounting
    <2>6. Counted' = {}
      BY <1>1, <1>2 DEF Counted
    <2>7. Cardinality(Counted') = 0
      BY <2>6, FS_EmptySet
    <2>8. Counting'
      BY <1>1, <1>2, <1>4, <2>7, NTxnsAssumption DEF Counting
    <2>9. Published'
      BY <1>1, <1>2, <1>10 DEF IInv, Published
    <2>10. QED
      BY <2>1, <2>5, <2>8, <2>9
  <1>11. QED
    BY <1>1, <1>6, <1>7, <1>9, <1>10 DEF IInv

\* Steps that leave the workers, the graph and the data alone.
LEMMA QuietStep ==
  ASSUME IInv, TypeOK',
         UNCHANGED <<conflicts, assigned, threadCount, adjacencyMatrix, inDegree,
                     completedTxns, pc, scan, txn, copy, status, data, starts,
                     processed, applied, staleWin>>,
         main' = main \/ {main, main'} \subseteq {"joinMonitor", "joinWorkers", "returned"},
         run' = run \/ status # Absent
  PROVE  IInv'
  <1>1. Prepared'
    BY DEF IInv, Prepared, Closed
  <1>2. \A w \in Workers : Holding(w)' <=> Holding(w)
    BY DEF Holding
  <1>3. Mine'
    BY <1>2 DEF IInv, Mine
  <1>4. ASSUME ~staleWin
        PROVE  /\ Handed' /\ Published'
               /\ main \notin {"read", "components"} => Accounting' /\ Counting'
    <2>1. Handed'
      BY <1>2, <1>4 DEF IInv, Handed, AtMostOnce
    <2>2. Published'
      BY <1>4 DEF IInv, Published
    <2>3. Counted' = Counted /\ \A j \in Txns : Pending(j)' = Pending(j)
      BY DEF Counted, Pending, Released
    <2>4. ASSUME main \notin {"read", "components"} PROVE Accounting' /\ Counting'
      BY <1>4, <2>3, <2>4 DEF IInv, TypeOK, Accounting, Counting
    <2>5. QED
      BY <2>1, <2>2, <2>4
  <1>5. main' \notin {"read", "components"} => main \notin {"read", "components"}
    OBVIOUS
  <1>6. QED
    BY <1>1, <1>3, <1>4, <1>5 DEF IInv

\* scheduleTxns starts the workers.
LEMMA ScheduleStep ==
  ASSUME IInv, ScheduleTxns
  PROVE  IInv'
  <1> USE DEF blockVars, dagVars, etcdVars, envVars, historyVars
  <1>1. /\ main = "schedule" /\ main' = "joinMonitor" /\ monitor' = "check"
        /\ pc' = [w \in Workers |-> "loop"]
        /\ UNCHANGED <<blockVars, dagVars, updateFlag, compCount, scan, txn, var_zero,
                       copy, etcdVars, envVars, historyVars>>
    BY DEF ScheduleTxns
  <1>2. flag' \in BOOLEAN /\ completeFlag' \in BOOLEAN
    BY DEF ScheduleTxns
  <1>3. TypeOK'
    <2>1. pc' \in [Workers -> Locations]
      BY <1>1 DEF Locations
    <2>2. QED
      BY <1>1, <1>2, <2>1 DEF IInv, TypeOK
  <1>4. \A w \in Workers : pc[w] = "idle" /\ pc'[w] = "loop" /\ ~Holding(w)'
    BY <1>1 DEF IInv, Prepared, Holding
  <1>5. Prepared'
    BY <1>1 DEF IInv, Prepared, Closed
  <1>6. Mine'
    BY <1>1, <1>4 DEF IInv, Mine
  <1>7. ASSUME ~staleWin PROVE Handed' /\ Accounting' /\ Counting' /\ Published'
    <2>1. Handed /\ Accounting /\ Counting /\ Published
      BY <1>1, <1>7 DEF IInv
    <2>2. Handed'
      BY <1>1, <1>4, <2>1 DEF Handed, AtMostOnce
    <2>3. Published'
      BY <1>1, <1>4, <2>1 DEF Published
    <2>4. Counted' = Counted /\ \A j \in Txns : Pending(j)' = Pending(j)
      BY <1>1, <1>4 DEF Counted, Pending, Released
    <2>5. Accounting' /\ Counting'
      BY <1>1, <2>1, <2>4 DEF IInv, TypeOK, Accounting, Counting
    <2>6. QED
      BY <2>2, <2>3, <2>5
  <1>8. QED
    BY <1>1, <1>3, <1>5, <1>6, <1>7 DEF IInv

\* The joins, the monitor, the callbacks and the leader's own steps.
LEMMA OtherStep ==
  ASSUME IInv,
         \/ JoinMonitor \/ JoinWorkers \/ Monitor \/ WatchLeaderGone \/ WatchNewLeader
         \/ LeaderFinish \/ LeaderCrash
  PROVE  IInv'
  <1> USE DEF blockVars, dagVars, flagVars, workerVars, etcdVars, envVars, historyVars
  <1>0. TypeOK
    BY DEF IInv
  <1>1. CASE JoinMonitor \/ JoinWorkers
    <2>1. TypeOK'
      BY <1>0, <1>1 DEF TypeOK, JoinMonitor, JoinWorkers
    <2>2. QED
      BY <1>1, <2>1, QuietStep DEF JoinMonitor, JoinWorkers
  <1>2. CASE MonitorCheck
    <2>1. TypeOK'
      BY <1>0, <1>2 DEF TypeOK, MonitorCheck
    <2>2. QED
      BY <1>2, <2>1, QuietStep DEF MonitorCheck
  <1>3. CASE MonitorGet
    <2>1. completeFlag' \in BOOLEAN /\ monitor' \in {"idle", "check", "get", "done"}
      BY <1>0, <1>3 DEF TypeOK, MonitorGet
    <2>2. TypeOK'
      BY <1>0, <1>3, <2>1 DEF TypeOK, MonitorGet
    <2>3. QED
      BY <1>3, <2>2, QuietStep DEF MonitorGet
  <1>4. CASE WatchLeaderGone \/ WatchNewLeader
    <2>1. flag' \in BOOLEAN /\ leaderCrashed' \in BOOLEAN
      BY <1>4 DEF WatchLeaderGone, WatchNewLeader, StopExecution
    <2>2. watchers' \in 0 .. 2
      BY <1>0, <1>4 DEF TypeOK, WatchLeaderGone, WatchNewLeader
    <2>3. TypeOK'
      BY <1>0, <1>4, <2>1, <2>2 DEF TypeOK, WatchLeaderGone, WatchNewLeader, StopExecution
    <2>4. QED
      BY <1>4, <2>3, QuietStep DEF WatchLeaderGone, WatchNewLeader, StopExecution
  <1>5. CASE LeaderFinish
    <2>1. TypeOK'
      BY <1>0, <1>5 DEF TypeOK, LeaderFinish
    <2>2. Cardinality(assigned) \in Nat
      BY <1>0, TxnSubset DEF TypeOK
    <2>3. status # Absent
      BY <1>5, <2>2 DEF LeaderFinish, Absent
    <2>4. QED
      BY <1>5, <2>1, <2>3, QuietStep DEF LeaderFinish
  <1>6. CASE LeaderCrash
    <2>1. leaderAlive' \in BOOLEAN
      BY <1>6 DEF LeaderCrash
    <2>2. TypeOK'
      BY <1>0, <1>6, <2>1 DEF TypeOK, LeaderCrash
    <2>3. QED
      BY <1>6, <2>2, QuietStep DEF LeaderCrash
  <1>7. QED
    BY <1>1, <1>2, <1>3, <1>4, <1>5, <1>6 DEF Monitor

-----------------------------------------------------------------------------
\* Every step of the follower, of its watches and of the leader preserves IInv.
LEMMA NextStep ==
  ASSUME IInv, [Next]_vars
  PROVE  IInv'
  <1>1. CASE ReadBlock
    BY <1>1, ReadBlockStep
  <1>2. CASE ExtractComponents
    BY <1>2, ExtractStep
  <1>3. CASE ScheduleTxns
    BY <1>3, ScheduleStep
  <1>4. CASE \/ JoinMonitor \/ JoinWorkers \/ Monitor \/ WatchLeaderGone
             \/ WatchNewLeader \/ LeaderFinish \/ LeaderCrash
    BY <1>4, OtherStep
  <1>5. ASSUME NEW w \in Workers, Worker(w) PROVE IInv'
    <2>0. TypeOK'
      BY <1>5, TypeWorker
    <2>1. CASE CheckLoop(w) \/ CheckReady(w) \/ ParseFailure(w)
      BY <2>0, <2>1, LoopStep
    <2>2. CASE SnapshotMap(w) \/ PutData(w) \/ ReadCount(w) \/ PutStatus(w)
                 \/ ClearUpdate(w) \/ AddCompCount(w)
      BY <2>0, <2>2, PublishStep
    <2>3. CASE SelectPos(w) \/ SelectLoad(w) \/ SelectMark(w)
      BY <2>0, <2>3, ScanStep
    <2>4. CASE SelectCas1(w)
      <3>1. pc[w] \in {"cas1", "cas2"} /\ CompareExchange(w, 0, "load1")
        BY <2>4 DEF SelectCas1
      <3>2. QED
        BY <2>0, <3>1, WinStep, LoseStep
    <2>5. CASE SelectCas2(w)
      <3>1. pc[w] \in {"cas1", "cas2"} /\ CompareExchange(w, var_zero[w], "load2")
        BY <2>5 DEF SelectCas2
      <3>2. QED
        BY <2>0, <3>1, WinStep, LoseStep
    <2>6. CASE ProcessTxn(w)
      BY <2>0, <2>6, ProcessStep
    <2>7. CASE CompleteSelf(w)
      BY <2>0, <2>7, SelfStep
    <2>8. CASE CompleteCount(w)
      BY <2>0, <2>8, CountStep
    <2>9. CASE CompleteRelease(w)
      BY <2>0, <2>9, ReleaseStep
    <2>10. CASE CompleteReturn(w)
      BY <2>0, <2>10, ReturnStep
    <2>11. QED
      BY <1>5, <2>1, <2>2, <2>3, <2>4, <2>5, <2>6, <2>7, <2>8, <2>9, <2>10 DEF Worker
  <1>6. CASE UNCHANGED vars
    <2>1. TypeOK'
      BY <1>6 DEF IInv, TypeOK, vars, blockVars, dagVars, flagVars, workerVars,
                  etcdVars, envVars, historyVars
    <2>2. QED
      BY <1>6, <2>1, QuietStep DEF vars, blockVars, dagVars, flagVars, workerVars,
                                   etcdVars, envVars, historyVars
  <1>7. QED
    BY <1>1, <1>2, <1>3, <1>4, <1>5, <1>6 DEF Next, Main

\* IInv is an invariant of the follower: for any block, any set of components and
\* any number of workers.
THEOREM Invariance == Spec => []IInv
  <1>1. IInv /\ [Next]_vars => IInv'
    BY NextStep
  <1>2. QED
    BY InitIInv, <1>1, PTL DEF Spec

\* No transaction of another follower is executed here, whatever exchange is won
\* with a stale expected value.
THEOREM OthersUntouched == Spec => []OnlyAssigned
  <1>1. IInv => OnlyAssigned
    BY DEF IInv, Mine, OnlyAssigned
  <1>2. QED
    BY Invariance, <1>1, PTL

\* As long as no exchange is won with a stale value, selectTxn and complete hand
\* every transaction out once and conflicting ones in block order.
THEOREM ScheduleCorrect == Spec => []SchedulerInv
  <1>1. IInv => OnceUnlessStale
    BY DEF IInv, Handed, OnceUnlessStale
  <1>2. IInv => OrderedUnlessStale
    <2>1. SUFFICES ASSUME IInv, ~staleWin, threadCount # 0,
                          NEW i \in Txns, NEW j \in Txns,
                          <<i, j>> \in conflicts, starts[j] > 0
                   PROVE  i \in processed
      BY DEF OrderedUnlessStale, ConflictOrder
    <2>2. starts[j] # 0
      BY <2>1
    <2>3. main \notin {"read", "components", "schedule"} /\ j \in assigned
      BY <2>1, <2>2 DEF IInv, Prepared, Mine
    <2>4. adjacencyMatrix = conflicts /\ Pending(j) = {}
      BY <2>1, <2>2, <2>3 DEF IInv, Prepared, Accounting
    <2>5. QED
      BY <2>1, <2>4 DEF Pending, Released
  <1>3. IInv => SchedulerInv
    BY <1>1, <1>2 DEF IInv, SchedulerInv
  <1>4. QED
    BY Invariance, <1>3, PTL

\* When the leader has answered run = finish, the follower has executed all it was
\* assigned and its data key holds every write.
THEOREM FinishIsComplete == Spec => []FinishedDataComplete
  <1>1. IInv => FinishedDataComplete
    <2>1. SUFFICES ASSUME IInv, run = "finish", ~staleWin
                   PROVE  processed = assigned /\ data = applied
      BY DEF FinishedDataComplete
    <2>2. completedTxns = NTxns /\ data = applied /\ status # Absent
      BY <2>1 DEF IInv, Published
    <2>3. TypeOK /\ Mine /\ Counting
      BY <2>1, <2>2 DEF IInv, Prepared
    <2>4. QED
      BY <2>2, <2>3, AllCounted
  <1>2. QED
    BY Invariance, <1>1, PTL

=============================================================================
