------------------------- MODULE DagCreationProofs -------------------------
(***************************************************************************)
(* Proofs about DagCreation, for every block, every number of threads and  *)
(* every set of pool workers.                                              *)
(***************************************************************************)
EXTENDS DagCreation, FiniteSetTheorems, SequenceTheorems, TLAPS

(***************************************************************************)
(* Arithmetic of the chunks.                                               *)
(***************************************************************************)
\* Division with remainder.
LEMMA DivMod ==
  ASSUME NEW x \in Nat, NEW n \in Nat \ {0}
  PROVE  /\ x \div n \in Nat /\ x % n \in 0 .. n - 1
         /\ x = n * (x \div n) + (x % n)
  <1>1. x \div n \in Nat
    OBVIOUS
  <1>2. x % n \in 0 .. n - 1
    OBVIOUS
  <1>3. x = n * (x \div n) + (x % n)
    OBVIOUS
  <1>4. QED
    BY <1>1, <1>2, <1>3

\* Products are monotone.
LEMMA Monotone ==
  ASSUME NEW a \in Nat, NEW b \in Nat, NEW q \in Nat, a <= b
  PROVE  a * q <= b * q /\ a * q \in Nat /\ b * q \in Nat
  OBVIOUS

\* One more row of a product.
LEMMA Distribute ==
  ASSUME NEW a \in Nat, NEW b \in Nat, NEW q \in Nat
  PROVE  (a + b) * q = a * q + b * q /\ a * q \in Nat /\ b * q \in Nat
  OBVIOUS

\* std::min of two numbers.
LEMMA MinOfTwo ==
  ASSUME NEW a \in Int, NEW b \in Int
  PROVE  Min({a, b}) = IF a <= b THEN a ELSE b
  BY DEF Min

\* The chunks of the threads: PIDs up to the remainder do one row more.
LEMMA ThreadChunks ==
  ASSUME NEW T \in Nat \ {0}, threadCount = T
  PROVE  /\ \A p \in PIDs : Start(p) \in Nat /\ End(p) \in Int
         /\ \A p, u \in PIDs : p < u => End(p) < Start(u)
         /\ \A i \in Txns : \E p \in PIDs : Start(p) <= i /\ i <= End(p)
  <1>0. NTxns \in Nat
    BY NTxnsAssumption
  <1>1. PICK q \in Nat : q = NTxns \div T
    BY <1>0, DivMod
  <1>2. PICK r \in 0 .. T - 1 : r = NTxns % T
    BY <1>0, DivMod
  <1>3. NTxns = T * q + r
    BY <1>0, <1>1, <1>2, DivMod
  <1> DEFINE least(p) == IF p <= r THEN p ELSE r
  <1>4. ASSUME NEW p \in Nat
        PROVE  /\ Start(p) = p * q + least(p)
               /\ End(p) = p * q + least(p) + q - 1 + (IF p < r THEN 1 ELSE 0)
               /\ p * q \in Nat
    <2>1. Min({p, r}) = least(p)
      BY <1>4, MinOfTwo
    <2>2. p * q \in Nat
      BY Monotone
    <2>3. Start(p) = p * q + least(p)
      BY <1>1, <1>2, <2>1 DEF Start
    <2>4. QED
      BY <1>1, <1>2, <2>2, <2>3 DEF End
  <1>5. PIDs = 0 .. T - 1
    BY DEF PIDs
  <1>6. ASSUME NEW p \in PIDs PROVE Start(p) \in Nat /\ End(p) \in Int
    <2>1. p \in Nat /\ least(p) \in Nat
      BY <1>5
    <2>2. PICK a \in Nat : a = p * q
      BY <1>4, <2>1
    <2>3. Start(p) = a + least(p)
          /\ End(p) = a + least(p) + q - 1 + (IF p < r THEN 1 ELSE 0)
      BY <1>4, <2>1, <2>2
    <2>4. QED
      BY <2>1, <2>3
  <1>7. ASSUME NEW p \in PIDs, NEW u \in PIDs, p < u PROVE End(p) < Start(u)
    <2>1. p \in Nat /\ u \in Nat /\ p + 1 <= u
      BY <1>5, <1>7
    <2>2. (p + 1) * q <= u * q /\ (p + 1) * q = p * q + 1 * q
      BY <2>1, Monotone, Distribute
    <2>3. least(p) + (IF p < r THEN 1 ELSE 0) <= least(u)
      BY <2>1
    <2>4. PICK a \in Nat, b \in Nat : a = p * q /\ b = u * q
      BY <1>4, <2>1
    <2>5. a + q <= b
      BY <2>2, <2>4
    <2>6. Start(u) = b + least(u)
      BY <1>4, <2>1, <2>4
    <2>7. End(p) = a + least(p) + q - 1 + (IF p < r THEN 1 ELSE 0)
      BY <1>4, <2>1, <2>4
    <2>8. least(p) \in Nat /\ least(u) \in Nat
      BY <2>1
    <2>9. QED
      BY <2>3, <2>5, <2>6, <2>7, <2>8
  <1>8. ASSUME NEW i \in Txns PROVE \E p \in PIDs : Start(p) <= i /\ i <= End(p)
    <2>1. i \in Nat /\ i < NTxns
      BY <1>0 DEF Txns
    <2>2. r * (q + 1) \in Nat /\ r * (q + 1) = r * q + r /\ r * q \in Nat
      OBVIOUS
    <2>3. CASE i < r * (q + 1)
      <3>1. PICK d \in Nat, m \in 0 .. q : i = (q + 1) * d + m
        <4>1. PICK n \in Nat \ {0} : n = q + 1
          OBVIOUS
        <4>2. /\ i \div n \in Nat /\ i % n \in 0 .. n - 1
              /\ i = n * (i \div n) + (i % n)
          BY <2>1, DivMod
        <4>3. i % n \in 0 .. q
          BY <4>1, <4>2
        <4>4. QED
          BY <4>1, <4>2, <4>3
      <3>2. (q + 1) * d = d * q + d /\ d * q \in Nat
        OBVIOUS
      <3>3. d < r
        <4>1. SUFFICES ASSUME r <= d PROVE FALSE
          OBVIOUS
        <4>2. r * (q + 1) <= d * (q + 1)
          BY <4>1, Monotone
        <4>3. QED
          BY <2>1, <2>2, <2>3, <3>1, <4>2
      <3>4. d \in PIDs
        BY <1>5, <3>3
      <3>5. least(d) = d
        BY <3>3
      <3>6. PICK a \in Nat : a = d * q
        BY <3>2
      <3>7. i = a + d + m /\ Start(d) = a + d /\ End(d) = a + d + q
        <4>1. Start(d) = a + least(d) /\ End(d) = a + least(d) + q - 1 + 1
          BY <1>4, <3>3, <3>6
        <4>2. QED
          BY <3>1, <3>2, <3>5, <3>6, <4>1
      <3>8. Start(d) <= i /\ i <= End(d)
        BY <3>7
      <3>9. QED
        BY <3>4, <3>8
    <2>4. CASE i >= r * (q + 1)
      <3>1. q # 0
        BY <1>3, <2>1, <2>2, <2>4
      <3>2. PICK y \in Nat : y = i - r * (q + 1)
        BY <2>1, <2>2, <2>4
      <3>3. PICK d \in Nat, m \in 0 .. q - 1 : y = q * d + m
        <4>1. q \in Nat \ {0}
          BY <3>1
        <4>2. QED
          BY <4>1, DivMod
      <3>4. (r + d) * q = r * q + d * q /\ d * q \in Nat /\ q * d = d * q
        <4>1. r \in Nat
          OBVIOUS
        <4>2. (r + d) * q = r * q + d * q /\ d * q \in Nat
          BY <4>1, Distribute
        <4>3. q * d = d * q
          OBVIOUS
        <4>4. QED
          BY <4>2, <4>3
      <3>5. i = (r + d) * q + r + m
        <4>1. PICK a \in Nat, b \in Nat : a = r * q /\ b = d * q
          BY <2>2, <3>4
        <4>2. i = y + (a + r) /\ y = b + m /\ (r + d) * q = a + b
          BY <2>1, <2>2, <3>2, <3>3, <3>4, <4>1
        <4>3. QED
          BY <4>2
      <3>6. r + d < T
        <4>1. SUFFICES ASSUME T <= r + d PROVE FALSE
          OBVIOUS
        <4>2. T * q <= (r + d) * q /\ T * q \in Nat /\ (r + d) * q \in Nat
          BY <4>1, Monotone
        <4>3. QED
          BY <1>3, <2>1, <3>5, <4>2
      <3>7. r + d \in PIDs /\ r + d \in Nat /\ r <= r + d
        BY <1>5, <3>6
      <3>8. PICK p \in Nat : p = r + d
        BY <3>7
      <3>9. least(p) = r /\ ~(p < r)
        BY <3>8
      <3>10. Start(p) = p * q + r /\ End(p) = p * q + r + q - 1 /\ p * q \in Nat
        BY <1>4, <3>9
      <3>11. QED
        BY <3>5, <3>7, <3>8, <3>10
    <2>5. QED
      BY <2>1, <2>2, <2>3, <2>4
  <1>9. QED
    BY <1>6, <1>7, <1>8

\* The chunks of the pool: every PID does one row more than the quotient.
LEMMA PoolChunks ==
  ASSUME NEW T \in Nat \ {0}, threadCount = T
  PROVE  /\ \A p \in PIDs : StartPool(p) \in Nat /\ EndPool(p) \in Int
         /\ \A p, u \in PIDs : p < u => EndPool(p) < StartPool(u)
         /\ \A i \in Txns : \E p \in PIDs : StartPool(p) <= i /\ i <= EndPool(p)
  <1>0. NTxns \in Nat
    BY NTxnsAssumption
  <1>1. PICK q \in Nat : q = NTxns \div T
    BY <1>0, DivMod
  <1>2. PICK r \in 0 .. T - 1 : r = NTxns % T
    BY <1>0, DivMod
  <1>3. NTxns = T * q + r
    BY <1>0, <1>1, <1>2, DivMod
  <1>4. \A p \in Nat : /\ StartPool(p) = p * (q + 1) /\ p * (q + 1) \in Nat
                       /\ EndPool(p) = p * (q + 1) + q
    BY <1>1 DEF StartPool, EndPool
  <1>5. PIDs = 0 .. T - 1
    BY DEF PIDs
  <1>6. ASSUME NEW p \in PIDs PROVE StartPool(p) \in Nat /\ EndPool(p) \in Int
    <2>1. p \in Nat
      BY <1>5
    <2>2. PICK a \in Nat : a = p * (q + 1)
      BY <1>4, <2>1
    <2>3. StartPool(p) = a /\ EndPool(p) = a + q
      BY <1>4, <2>1, <2>2
    <2>4. QED
      BY <2>3
  <1>7. ASSUME NEW p \in PIDs, NEW u \in PIDs, p < u PROVE EndPool(p) < StartPool(u)
    <2>1. p \in Nat /\ u \in Nat /\ p + 1 <= u /\ q + 1 \in Nat
      BY <1>5, <1>7
    <2>2. (p + 1) * (q + 1) <= u * (q + 1)
      BY <2>1, Monotone
    <2>3. (p + 1) * (q + 1) = p * (q + 1) + (q + 1)
      BY <2>1
    <2>4. QED
      BY <1>4, <2>1, <2>2, <2>3
  <1>8. ASSUME NEW i \in Txns PROVE \E p \in PIDs : StartPool(p) <= i /\ i <= EndPool(p)
    <2>1. i \in Nat /\ i < NTxns
      BY <1>0 DEF Txns
    <2>2. PICK d \in Nat, m \in 0 .. q : i = (q + 1) * d + m
      <3>1. PICK n \in Nat \ {0} : n = q + 1
        OBVIOUS
      <3>2. /\ i \div n \in Nat /\ i % n \in 0 .. n - 1
            /\ i = n * (i \div n) + (i % n)
        BY <2>1, DivMod
      <3>3. i % n \in 0 .. q
        BY <3>1, <3>2
      <3>4. QED
        BY <3>1, <3>2, <3>3
    <2>3. (q + 1) * d = d * (q + 1)
      OBVIOUS
    <2>4. d < T
      <3>1. SUFFICES ASSUME T <= d PROVE FALSE
        OBVIOUS
      <3>2. T * (q + 1) <= d * (q + 1) /\ T * (q + 1) = T * q + T
        BY <3>1, Monotone
      <3>3. QED
        BY <1>3, <2>1, <2>2, <2>3, <3>2
    <2>5. d \in PIDs
      BY <1>5, <2>4
    <2>6. QED
      BY <1>4, <2>2, <2>3, <2>5
  <1>9. QED
    BY <1>6, <1>7, <1>8

\* Whatever the variant, the PIDs' chunks are disjoint and cover the block.
LEMMA Chunks ==
  ASSUME threadCount \in Nat \ {0}, variant \in {"threads", "serial", "pool"},
         variant = "serial" => threadCount = 1
  PROVE  /\ \A p \in PIDs : First(p) \in Nat /\ Last(p) \in Int
         /\ \A p, u \in PIDs : p < u => Last(p) < First(u)
         /\ \A i \in Txns : \E p \in PIDs : First(p) <= i /\ i <= Last(p)
  <1>1. CASE variant = "threads"
    <2>1. \A p : First(p) = Start(p) /\ Last(p) = End(p)
      BY <1>1 DEF First, Last
    <2>2. QED
      BY <2>1, ThreadChunks
  <1>2. CASE variant = "pool"
    <2>1. \A p : First(p) = StartPool(p) /\ Last(p) = EndPool(p)
      BY <1>2 DEF First, Last
    <2>2. QED
      BY <2>1, PoolChunks
  <1>3. CASE variant = "serial"
    <2>1. \A p : First(p) = 0 /\ Last(p) = NTxns - 1
      BY <1>3 DEF First, Last
    <2>2. PIDs = {0}
      BY <1>3 DEF PIDs
    <2>3. QED
      BY <2>1, <2>2, NTxnsAssumption DEF Txns
  <1>4. QED
    BY <1>1, <1>2, <1>3

-----------------------------------------------------------------------------
(***************************************************************************)
(* Facts the steps share.                                                  *)
(***************************************************************************)
\* A set of transactions is finite and no larger than the block.
LEMMA TxnSubset ==
  ASSUME NEW S \in SUBSET Txns
  PROVE  IsFiniteSet(S) /\ Cardinality(S) \in 0 .. NTxns
  <1>1. 0 \in Int /\ NTxns - 1 \in Int /\ NTxns \in Nat
    BY NTxnsAssumption
  <1>2. IsFiniteSet(0 .. NTxns - 1)
        /\ Cardinality(0 .. NTxns - 1) =
             IF 0 > NTxns - 1 THEN 0 ELSE NTxns - 1 - 0 + 1
    BY <1>1, FS_Interval
  <1>3. IsFiniteSet(Txns) /\ Cardinality(Txns) = NTxns
    BY <1>1, <1>2 DEF Txns
  <1>4. IsFiniteSet(S) /\ Cardinality(S) <= NTxns
    BY <1>3, FS_Subset
  <1>5. Cardinality(S) \in Nat
    BY <1>4, FS_CardinalityType
  <1>6. QED
    BY <1>1, <1>4, <1>5

\* The block, and so every chunk, stays what it is.
LEMMA BlockKept ==
  ASSUME UNCHANGED block
  PROVE  /\ PIDs' = PIDs /\ \A p : First(p)' = First(p) /\ Last(p)' = Last(p)
         /\ UNCHANGED <<CurrentTransactions, threadCount, variant>>
  <1>1. UNCHANGED <<CurrentTransactions, threadCount, variant>>
    BY DEF block
  <1>2. QED
    BY <1>1 DEF PIDs, First, Last, Start, End, StartPool, EndPool

\* What the chunks are in a state of the system.
LEMMA StateChunks ==
  ASSUME TypeOK, variant = "serial" => threadCount = 1
  PROVE  /\ \A p \in PIDs : First(p) \in Nat /\ Last(p) \in Int
         /\ \A p, u \in PIDs : p < u => Last(p) < First(u)
         /\ \A i \in Txns : \E p \in PIDs : First(p) <= i /\ i <= Last(p)
  BY Chunks, ThreadCountsAssumption, VariantsAssumption DEF TypeOK

\* When no row is left to do, every pair has been compared.
LEMMA AllCompared ==
  ASSUME TypeOK, Filled, \A p \in PIDs : ~Working(p)
  PROVE  \A i, j \in Txns : Compared(i, j)
  <1> SUFFICES ASSUME NEW i \in Txns, NEW j \in Txns PROVE Compared(i, j)
    OBVIOUS
  <1>1. PICK p \in PIDs : First(p) <= i /\ i <= Last(p)
    BY StateChunks DEF Filled
  <1>2. First(p) \in Nat /\ Last(p) \in Int /\ row[p] \in Nat /\ i \in Int /\ i < NTxns
    BY StateChunks, NTxnsAssumption DEF Filled, TypeOK, Txns
  <1>3. i < row[p]
    BY <1>1, <1>2, NTxnsAssumption DEF Working
  <1>4. QED
    BY <1>1, <1>3 DEF Compared

\* The three clauses of dependencyMatrix say that one writes what the other touches.
LEMMA ConflictIsMayNotSwap ==
  ASSUME NEW a \in Transaction, NEW b \in Transaction
  PROVE  Conflict(a, b) <=> MayNotSwap(a, b)
  <1>1. /\ a.inputs \subseteq Addresses /\ a.outputs \subseteq Addresses
        /\ b.inputs \subseteq Addresses /\ b.outputs \subseteq Addresses
    BY DEF Transaction
  <1>2. QED
    BY <1>1 DEF Conflict, MayNotSwap

\* A step of the pool leaves the graph alone.
LEMMA FilledFrame ==
  ASSUME Filled, UNCHANGED poolOnly
  PROVE  Filled'
  <1>1. /\ PIDs' = PIDs /\ (\A p : First(p)' = First(p) /\ Last(p)' = Last(p))
        /\ UNCHANGED <<CurrentTransactions, threadCount, variant>>
    BY BlockKept DEF poolOnly
  <1>2. UNCHANGED <<adjacencyMatrix, inDegree, row, col, joined, pass>>
    BY DEF poolOnly
  <1>3. \A i, j : Compared(i, j)' <=> Compared(i, j)
    BY <1>1, <1>2 DEF Compared
  <1>4. \A j : Found(j)' = Found(j)
    BY <1>1, <1>3 DEF Found
  <1>5. \A p : Working(p)' <=> Working(p)
    BY <1>1, <1>2 DEF Working
  <1>6. QED
    BY <1>1, <1>2, <1>3, <1>4, <1>5 DEF Filled

\* A step of a row leaves the pool alone.
LEMMA TasksFrame ==
  ASSUME Tasks, NoLostWakeup, UNCHANGED <<block, pool>>,
         \A p \in PIDs : Working(p)' => Working(p)
  PROVE  Tasks' /\ NoLostWakeup'
  <1>1. PIDs' = PIDs /\ UNCHANGED <<threadCount, variant>>
    BY BlockKept
  <1>2. UNCHANGED <<tasks, worker, enqueued, owed, stop>>
    BY DEF pool
  <1>3. Tasks'
    BY <1>1, <1>2 DEF Tasks
  <1>4. NoLostWakeup'
    BY <1>2 DEF NoLostWakeup
  <1>5. QED
    BY <1>3, <1>4

\* create, called the first time: nothing compared, nothing queued.
LEMMA InitIInv == Init => IInv
  <1> SUFFICES ASSUME Init PROVE IInv
    OBVIOUS
  <1>1. /\ threadCount \in Nat \ {0} /\ variant \in {"threads", "serial", "pool"}
        /\ variant = "serial" => threadCount = 1
    BY ThreadCountsAssumption, VariantsAssumption DEF Init
  <1>2. \A p \in PIDs : First(p) \in Nat
    BY <1>1, Chunks
  <1>3. \A p \in PIDs : row[p] = First(p) /\ col[p] = First(p) + 1
    BY DEF Init
  <1>4. TypeOK
    <2>1. row \in [PIDs -> Nat] /\ col \in [PIDs -> Nat]
      BY <1>2 DEF Init
    <2>2. inDegree \in [Txns -> 0 .. NTxns]
      BY NTxnsAssumption DEF Init
    <2>3. tasks \in Seq(PIDs) /\ Len(tasks) <= threadCount /\ enqueued \in 0 .. threadCount
      BY <1>1 DEF Init
    <2>4. worker \in [Workers -> PIDs \cup {Ready, Asleep, Ended}]
      BY DEF Init
    <2>5. /\ CurrentTransactions \in [Txns -> Transaction]
          /\ threadCount \in ThreadCounts /\ variant \in Variants
          /\ adjacencyMatrix \in SUBSET {e \in Txns \X Txns : e[1] < e[2]}
          /\ stop \in {"no", "set", "told"} /\ pass \in 1 .. 2
      BY DEF Init
    <2>6. joined \in BOOLEAN /\ owed \in BOOLEAN
      BY DEF Init
    <2>7. QED
      BY <2>1, <2>2, <2>3, <2>4, <2>5, <2>6 DEF TypeOK
  <1>5. Filled
    <2>1. \A i, j \in Txns : i < j => ~Compared(i, j)
      <3>1. SUFFICES ASSUME NEW i \in Txns, NEW j \in Txns, i < j, Compared(i, j)
                     PROVE  FALSE
        OBVIOUS
      <3>2. PICK p \in PIDs : First(p) <= i /\ (i < row[p] \/ (i = row[p] /\ j < col[p]))
        BY <3>1 DEF Compared
      <3>3. i \in Int /\ j \in Int /\ First(p) \in Nat
        BY <1>2, NTxnsAssumption DEF Txns
      <3>4. QED
        BY <1>3, <3>1, <3>2, <3>3
    <2>2. \A j \in Txns : Found(j) = {}
      BY <2>1 DEF Found
    <2>3. \A j \in Txns : inDegree[j] = Cardinality(Found(j))
      BY <2>2, FS_EmptySet DEF Init
    <2>4. adjacencyMatrix = {} /\ pass = 1 /\ ~joined
      BY DEF Init
    <2>5. \A e \in Txns \X Txns : e[1] < e[2] => ~Compared(e[1], e[2])
      BY <2>1
    <2>6. \A p \in PIDs : First(p) <= row[p] /\ row[p] < col[p]
      BY <1>2, <1>3
    <2>7. QED
      BY <1>1, <2>3, <2>4, <2>5, <2>6 DEF Filled
  <1>6. Tasks /\ NoLostWakeup
    BY WorkersAssumption DEF Init, Tasks, NoLostWakeup, Ready, Asleep, Ended, PIDs
  <1>7. QED
    BY <1>4, <1>5, <1>6 DEF IInv

-----------------------------------------------------------------------------
(***************************************************************************)
(* The rows.                                                               *)
(***************************************************************************)
\* One iteration of the inner loop compares one pair, which no thread has compared
\* in this call: its row lies in one chunk only.
LEMMA CompareStep ==
  ASSUME IInv, NEW p \in PIDs, ComparePair(p)
  PROVE  IInv'
  <1>0. TypeOK /\ Filled /\ Tasks /\ NoLostWakeup
    BY DEF IInv
  <1>i. PICK i \in Nat : i = row[p]
    BY <1>0 DEF TypeOK
  <1>j. PICK j \in Nat : j = col[p]
    BY <1>0 DEF TypeOK
  <1> DEFINE hit == Conflict(CurrentTransactions[i], CurrentTransactions[j])
  <1>1. /\ col' = [col EXCEPT ![p] = j + 1]
        /\ adjacencyMatrix' = IF hit THEN adjacencyMatrix \cup {<<i, j>>} ELSE adjacencyMatrix
        /\ inDegree' = IF hit THEN [inDegree EXCEPT ![j] = inDegree[j] + 1] ELSE inDegree
        /\ UNCHANGED <<block, row, joined, pass, pool>>
    BY <1>i, <1>j DEF ComparePair
  <1>2. /\ PIDs' = PIDs /\ (\A u : First(u)' = First(u) /\ Last(u)' = Last(u))
        /\ UNCHANGED <<CurrentTransactions, threadCount, variant>>
    BY <1>1, BlockKept
  <1>3. i \in Txns /\ j \in Txns /\ i < j /\ i <= Last(p) /\ First(p) <= i
    <2>1. i < NTxns /\ j < NTxns /\ i <= Last(p)
      BY <1>i, <1>j DEF ComparePair, Working
    <2>2. First(p) <= i /\ i < j
      BY <1>0, <1>i, <1>j DEF Filled
    <2>3. QED
      BY <2>1, <2>2, NTxnsAssumption DEF Txns
  <1>4. col \in [PIDs -> Nat] /\ row \in [PIDs -> Nat]
    BY <1>0 DEF TypeOK
  <1>5. \A u \in PIDs : /\ col'[u] = IF u = p THEN j + 1 ELSE col[u]
                        /\ row'[u] = row[u]
    BY <1>1, <1>4
  <1>6. /\ \A u \in PIDs : First(u) \in Nat /\ Last(u) \in Int
        /\ \A u, v \in PIDs : u < v => Last(u) < First(v)
    BY <1>0, StateChunks DEF Filled
  <1>7. \A u \in PIDs : First(u) <= i /\ i <= Last(u) => u = p
    <2>1. SUFFICES ASSUME NEW u \in PIDs, First(u) <= i, i <= Last(u), u # p PROVE FALSE
      OBVIOUS
    <2>2. /\ First(u) \in Nat /\ Last(u) \in Int /\ First(p) \in Nat /\ Last(p) \in Int
          /\ u \in Int /\ p \in Int
      BY <1>6 DEF PIDs
    <2>3. u < p \/ p < u
      BY <2>1, <2>2
    <2>4. QED
      BY <1>3, <1>6, <2>1, <2>2, <2>3
  <1>8. ~Compared(i, j)
    <2>1. SUFFICES ASSUME Compared(i, j) PROVE FALSE
      OBVIOUS
    <2>2. PICK u \in PIDs : /\ First(u) <= i /\ i <= Last(u)
                            /\ i < row[u] \/ (i = row[u] /\ j < col[u])
      BY <2>1 DEF Compared
    <2>3. u = p
      BY <1>7, <2>2
    <2>4. QED
      BY <1>i, <1>j, <2>2, <2>3
  <1>9. \A a, b \in Txns : Compared(a, b)' <=> (Compared(a, b) \/ (a = i /\ b = j))
    <2> SUFFICES ASSUME NEW a \in Txns, NEW b \in Txns
                 PROVE  Compared(a, b)' <=> (Compared(a, b) \/ (a = i /\ b = j))
      OBVIOUS
    <2>1. a \in Int /\ b \in Int
      BY DEF Txns
    <2>2. \A u \in PIDs :
            (a < row'[u] \/ (a = row'[u] /\ b < col'[u]))
            <=> \/ a < row[u] \/ (a = row[u] /\ b < col[u])
                \/ u = p /\ a = i /\ b = j
      BY <1>i, <1>j, <1>4, <1>5, <2>1
    <2>3. QED
      BY <1>2, <1>3, <2>2 DEF Compared
  <1>10. Filled' /\ inDegree' \in [Txns -> 0 .. NTxns]
    <2>1. \A u \in PIDs' : First(u)' <= row'[u] /\ row'[u] < col'[u]
      BY <1>0, <1>2, <1>3, <1>i, <1>5 DEF Filled
    <2>2. adjacencyMatrix' =
            {e \in Txns \X Txns :
               /\ e[1] < e[2]
               /\ pass' = 2 \/ Compared(e[1], e[2])'
               /\ Conflict(CurrentTransactions'[e[1]], CurrentTransactions'[e[2]])}
      <3>1. adjacencyMatrix =
              {e \in Txns \X Txns :
                 /\ e[1] < e[2]
                 /\ pass = 2 \/ Compared(e[1], e[2])
                 /\ Conflict(CurrentTransactions[e[1]], CurrentTransactions[e[2]])}
        BY <1>0 DEF Filled
      <3>2. \A e \in Txns \X Txns :
              Compared(e[1], e[2])' <=> (Compared(e[1], e[2]) \/ e = <<i, j>>)
        BY <1>9
      <3>3. <<i, j>> \in Txns \X Txns
        BY <1>3
      <3>4. QED
        BY <1>1, <1>2, <1>3, <3>1, <3>2, <3>3
    <2>3. \A b \in Txns : Found(b)' = IF b = j /\ hit THEN Found(b) \cup {i} ELSE Found(b)
      BY <1>2, <1>3, <1>9 DEF Found
    <2>4. \A b \in Txns : IsFiniteSet(Found(b)) /\ Cardinality(Found(b)) \in 0 .. NTxns
      BY TxnSubset DEF Found
    <2>5. i \notin Found(j)
      BY <1>8 DEF Found
    <2>6. Cardinality(Found(j) \cup {i}) = Cardinality(Found(j)) + 1
      BY <1>3, <2>4, <2>5, FS_AddElement
    <2>7. \A b \in Txns : inDegree'[b] = IF b = j /\ hit THEN inDegree[b] + 1 ELSE inDegree[b]
      BY <1>0, <1>1, <1>3 DEF TypeOK
    <2>8. \A b \in Txns : inDegree'[b] = Cardinality(Found(b)')
      BY <1>0, <2>3, <2>6, <2>7 DEF Filled
    <2>9. \A b \in Txns : Found(b)' \in SUBSET Txns
      BY <1>2 DEF Found
    <2>10. \A b \in Txns : inDegree'[b] \in 0 .. NTxns
      BY <2>8, <2>9, TxnSubset
    <2>11. inDegree' \in [Txns -> 0 .. NTxns]
      <3>1. DOMAIN inDegree' = Txns /\ inDegree' = [b \in DOMAIN inDegree' |-> inDegree'[b]]
        BY <1>0, <1>1 DEF TypeOK
      <3>2. QED
        BY <2>10, <3>1
    <2>12. joined' => \A u \in PIDs' : ~Working(u)'
      BY <1>0, <1>1, <1>2 DEF Filled, Working
    <2>13. QED
      BY <1>0, <1>1, <1>2, <2>1, <2>2, <2>8, <2>11, <2>12 DEF Filled
  <1>11. TypeOK'
    <2>1. col' \in [PIDs' -> Nat]
      BY <1>1, <1>2, <1>4
    <2>2. adjacencyMatrix' \in SUBSET {e \in Txns \X Txns : e[1] < e[2]}
      BY <1>10 DEF Filled
    <2>3. QED
      BY <1>0, <1>1, <1>2, <1>10, <2>1, <2>2 DEF TypeOK, pool
  <1>12. \A u \in PIDs : Working(u)' => Working(u)
    BY <1>1, <1>2 DEF Working
  <1>13. QED
    BY <1>0, <1>1, <1>10, <1>11, <1>12, TasksFrame DEF IInv

\* The next row starts right of the diagonal: nothing is compared by moving there.
LEMMA NextRowStep ==
  ASSUME IInv, NEW p \in PIDs, NextRow(p)
  PROVE  IInv'
  <1>0. TypeOK /\ Filled /\ Tasks /\ NoLostWakeup
    BY DEF IInv
  <1>i. PICK i \in Nat : i = row[p]
    BY <1>0 DEF TypeOK
  <1>1. /\ row' = [row EXCEPT ![p] = i + 1] /\ col' = [col EXCEPT ![p] = i + 2]
        /\ col[p] >= NTxns /\ Working(p)
        /\ UNCHANGED <<block, adjacencyMatrix, inDegree, joined, pass, pool>>
    BY <1>i DEF NextRow
  <1>2. /\ PIDs' = PIDs /\ (\A u : First(u)' = First(u) /\ Last(u)' = Last(u))
        /\ UNCHANGED <<CurrentTransactions, threadCount, variant>>
    BY <1>1, BlockKept
  <1>3. col \in [PIDs -> Nat] /\ row \in [PIDs -> Nat] /\ NTxns \in Nat
    BY <1>0, NTxnsAssumption DEF TypeOK
  <1>4. \A u \in PIDs : /\ col'[u] = IF u = p THEN i + 2 ELSE col[u]
                        /\ row'[u] = IF u = p THEN i + 1 ELSE row[u]
    BY <1>1, <1>3
  <1>5. \A u \in PIDs : First(u) \in Nat /\ Last(u) \in Int
    BY <1>0, StateChunks DEF Filled
  <1>6. \A a, b \in Txns : a < b => (Compared(a, b)' <=> Compared(a, b))
    <2> SUFFICES ASSUME NEW a \in Txns, NEW b \in Txns, a < b
                 PROVE  Compared(a, b)' <=> Compared(a, b)
      OBVIOUS
    <2>1. a \in Int /\ b \in Int /\ b < NTxns
      BY <1>3 DEF Txns
    <2>2. \A u \in PIDs :
            (a < row'[u] \/ (a = row'[u] /\ b < col'[u]))
            <=> (a < row[u] \/ (a = row[u] /\ b < col[u]))
      <3>1. ASSUME NEW u \in PIDs, u # p
            PROVE (a < row'[u] \/ (a = row'[u] /\ b < col'[u]))
                  <=> (a < row[u] \/ (a = row[u] /\ b < col[u]))
        BY <1>4, <3>1
      <3>2. (a < row'[p] \/ (a = row'[p] /\ b < col'[p])) <=> a < i + 1
        BY <1>4, <2>1
      <3>3. (a < row[p] \/ (a = row[p] /\ b < col[p])) <=> a <= i
        BY <1>i, <1>1, <1>3, <2>1
      <3>4. QED
        BY <2>1, <3>1, <3>2, <3>3
    <2>3. QED
      BY <1>2, <2>2 DEF Compared
  <1>7. Filled'
    <2>1. \A u \in PIDs' : First(u)' <= row'[u] /\ row'[u] < col'[u]
      BY <1>0, <1>2, <1>i, <1>4, <1>5 DEF Filled
    <2>2. \A e \in Txns \X Txns : e[1] < e[2] =>
                                    (Compared(e[1], e[2])' <=> Compared(e[1], e[2]))
      BY <1>6
    <2>3. adjacencyMatrix' =
            {e \in Txns \X Txns :
               /\ e[1] < e[2]
               /\ pass' = 2 \/ Compared(e[1], e[2])'
               /\ Conflict(CurrentTransactions'[e[1]], CurrentTransactions'[e[2]])}
      BY <1>0, <1>1, <1>2, <2>2 DEF Filled
    <2>4. \A b \in Txns : Found(b)' = Found(b)
      BY <1>2, <1>6 DEF Found
    <2>5. ~joined'
      BY <1>0, <1>1 DEF Filled
    <2>6. QED
      BY <1>0, <1>1, <1>2, <2>1, <2>3, <2>4, <2>5 DEF Filled
  <1>8. TypeOK'
    <2>1. col' \in [PIDs' -> Nat] /\ row' \in [PIDs' -> Nat]
      BY <1>1, <1>2, <1>3
    <2>2. QED
      BY <1>0, <1>1, <1>2, <2>1 DEF TypeOK, pool
  <1>9. \A u \in PIDs : Working(u)' => Working(u)
    BY <1>i, <1>2, <1>3, <1>4, <1>5 DEF Working
  <1>10. QED
    BY <1>0, <1>1, <1>7, <1>8, <1>9, TasksFrame DEF IInv


-----------------------------------------------------------------------------
(***************************************************************************)
(* The calls of create.                                                    *)
(***************************************************************************)
\* Nothing is left to do when the threads are joined.  The pool is joined when its
\* workers have ended, which they do only with the queue empty and after the last
\* task was queued; so every task was taken, and its taker has finished it.
LEMMA JoinStep ==
  ASSUME IInv, Join
  PROVE  IInv'
  <1>0. TypeOK /\ Filled /\ Tasks /\ NoLostWakeup
    BY DEF IInv
  <1>1. joined' = TRUE /\ UNCHANGED <<block, adjacencyMatrix, inDegree, row, col, pass, pool>>
    BY DEF Join
  <1>2. /\ PIDs' = PIDs /\ (\A u : First(u)' = First(u) /\ Last(u)' = Last(u))
        /\ UNCHANGED <<CurrentTransactions, threadCount, variant>>
    BY <1>1, BlockKept
  <1>3. \A p \in PIDs : ~Working(p)
    <2>1. CASE variant # "pool"
      BY <2>1 DEF Join
    <2>2. CASE variant = "pool"
      <3>1. \A w \in Workers : worker[w] = Ended
        BY <2>2 DEF Join
      <3>2. PICK w \in Workers : worker[w] = Ended
        BY <3>1, WorkersAssumption
      <3>3. tasks = <<>> /\ enqueued = threadCount
        BY <1>0, <3>2 DEF Tasks
      <3>4. \A p \in PIDs : p < enqueued
        BY <1>0, <3>3, ThreadCountsAssumption DEF PIDs, TypeOK
      <3>5. \A p \in PIDs : p # Ended
        BY DEF PIDs, Ended
      <3>6. ~\E k \in DOMAIN tasks : TRUE
        BY <3>3
      <3>7. QED
        BY <1>0, <2>2, <3>1, <3>4, <3>5, <3>6 DEF Tasks
    <2>3. QED
      BY <2>1, <2>2
  <1>4. \A u : Working(u)' <=> Working(u)
    BY <1>1, <1>2 DEF Working
  <1>5. \A i, j : Compared(i, j)' <=> Compared(i, j)
    BY <1>1, <1>2 DEF Compared
  <1>6. \A j : Found(j)' = Found(j)
    BY <1>2, <1>5 DEF Found
  <1>7. Filled'
    BY <1>0, <1>1, <1>2, <1>3, <1>4, <1>5, <1>6 DEF Filled
  <1>8. TypeOK'
    BY <1>0, <1>1, <1>2 DEF TypeOK, pool
  <1>9. QED
    BY <1>0, <1>1, <1>4, <1>7, <1>8, TasksFrame DEF IInv

\* The serial baseline's second create compares everything again from in-degrees of
\* zero, over the matrix the first one completed.
LEMMA CreateAgainStep ==
  ASSUME IInv, CreateAgain
  PROVE  IInv'
  <1>0. TypeOK /\ Filled /\ Tasks /\ NoLostWakeup
    BY DEF IInv
  <1>1. /\ pass' = 2 /\ joined' = FALSE /\ joined /\ pass = 1 /\ variant = "serial"
        /\ inDegree' = [i \in Txns |-> 0]
        /\ row' = [p \in PIDs |-> First(p)] /\ col' = [p \in PIDs |-> First(p) + 1]
        /\ UNCHANGED <<block, adjacencyMatrix, pool>>
    BY DEF CreateAgain
  <1>2. /\ PIDs' = PIDs /\ (\A u : First(u)' = First(u) /\ Last(u)' = Last(u))
        /\ UNCHANGED <<CurrentTransactions, threadCount, variant>>
    BY <1>1, BlockKept
  <1>3. \A u \in PIDs : First(u) \in Nat
    BY <1>0, StateChunks DEF Filled
  <1>4. \A u \in PIDs : row'[u] = First(u) /\ col'[u] = First(u) + 1
    BY <1>1
  <1>5. \A i, j \in Txns : Compared(i, j)
    BY <1>0, <1>1, AllCompared DEF Filled
  <1>6. \A i, j \in Txns : i < j => ~Compared(i, j)'
    <2>1. SUFFICES ASSUME NEW i \in Txns, NEW j \in Txns, i < j, Compared(i, j)'
                   PROVE  FALSE
      OBVIOUS
    <2>2. PICK p \in PIDs : First(p) <= i /\ (i < row'[p] \/ (i = row'[p] /\ j < col'[p]))
      BY <1>2, <2>1 DEF Compared
    <2>3. i \in Int /\ j \in Int /\ First(p) \in Nat
      BY <1>3 DEF Txns
    <2>4. QED
      BY <1>4, <2>1, <2>2, <2>3
  <1>7. \A j \in Txns : Found(j)' = {}
    BY <1>6 DEF Found
  <1>8. Filled'
    <2>1. \A j \in Txns : inDegree'[j] = Cardinality(Found(j)')
      BY <1>1, <1>7, FS_EmptySet
    <2>2. \A u \in PIDs' : First(u)' <= row'[u] /\ row'[u] < col'[u]
      BY <1>2, <1>3, <1>4
    <2>3. \A e \in Txns \X Txns : Compared(e[1], e[2])
      BY <1>5
    <2>4. adjacencyMatrix' =
            {e \in Txns \X Txns :
               /\ e[1] < e[2]
               /\ pass' = 2 \/ Compared(e[1], e[2])'
               /\ Conflict(CurrentTransactions'[e[1]], CurrentTransactions'[e[2]])}
      BY <1>0, <1>1, <1>2, <2>3 DEF Filled
    <2>5. QED
      BY <1>0, <1>1, <1>2, <2>1, <2>2, <2>4 DEF Filled
  <1>9. TypeOK'
    <2>1. row' \in [PIDs' -> Nat] /\ col' \in [PIDs' -> Nat]
      BY <1>1, <1>2, <1>3
    <2>2. inDegree' \in [Txns -> 0 .. NTxns]
      BY <1>1, NTxnsAssumption
    <2>3. (joined' \in BOOLEAN) /\ pass' \in 1 .. 2
      <3>1. joined' = FALSE
        BY <1>1
      <3>2. joined' \in BOOLEAN
        BY <3>1
      <3>3. QED
        BY <1>1, <3>2
    <2>4. UNCHANGED <<adjacencyMatrix, tasks, worker, enqueued, owed, stop>>
      BY <1>1 DEF pool
    <2>5. QED
      BY <1>0, <1>2, <2>1, <2>2, <2>3, <2>4 DEF TypeOK
  <1>10. Tasks' /\ NoLostWakeup'
    BY <1>0, <1>1, <1>2 DEF Tasks, NoLostWakeup, pool
  <1>11. QED
    BY <1>8, <1>9, <1>10 DEF IInv

-----------------------------------------------------------------------------
(***************************************************************************)
(* The pool.                                                               *)
(***************************************************************************)
\* No PID is one of the numbers that stand for an idle worker.
LEMMA IdleNumbers ==
  /\ Ready \notin PIDs /\ Asleep \notin PIDs /\ Ended \notin PIDs
  /\ Ready # Asleep /\ Ready # Ended /\ Asleep # Ended
  BY DEF Ready, Asleep, Ended, PIDs

\* A step of the pool keeps the invariant when it keeps the pool's part of it.
LEMMA PoolFrame ==
  ASSUME IInv, UNCHANGED poolOnly,
         tasks' \in Seq(PIDs), Len(tasks') <= threadCount, owed' \in BOOLEAN,
         worker' \in [Workers -> PIDs \cup {Ready, Asleep, Ended}],
         stop' \in {"no", "set", "told"}, enqueued' \in 0 .. threadCount,
         Len(tasks') <= enqueued',
         variant = "pool" => \A p \in PIDs : p < enqueued' =>
           \/ \E k \in DOMAIN tasks' : tasks'[k] = p
           \/ \E w \in Workers : worker'[w] = p
           \/ ~Working(p),
         stop' # "no" => enqueued' = threadCount,
         \A w \in Workers : worker'[w] = Ended => stop' # "no" /\ tasks' = <<>>,
         NoLostWakeup'
  PROVE  IInv'
  <1>1. /\ PIDs' = PIDs /\ (\A u : First(u)' = First(u) /\ Last(u)' = Last(u))
        /\ UNCHANGED <<CurrentTransactions, threadCount, variant>>
    BY BlockKept DEF poolOnly
  <1>2. UNCHANGED <<adjacencyMatrix, inDegree, row, col, joined, pass>>
    BY DEF poolOnly
  <1>3. Filled'
    BY FilledFrame DEF IInv
  <1>4. TypeOK'
    BY <1>1, <1>2 DEF IInv, TypeOK, Ready, Asleep, Ended
  <1>5. \A u : Working(u)' <=> Working(u)
    BY <1>1, <1>2 DEF Working
  <1>6. Tasks'
    BY <1>1, <1>5 DEF Tasks, Ended
  <1>7. QED
    BY <1>3, <1>4, <1>6 DEF IInv


\* create's loop queues the next PID and owes a notify.
LEMMA EnqueueStep ==
  ASSUME IInv, enqueue
  PROVE  IInv'
  <1>0. /\ tasks \in Seq(PIDs) /\ Len(tasks) <= enqueued /\ enqueued \in 0 .. threadCount
        /\ worker \in [Workers -> PIDs \cup {Ready, Asleep, Ended}]
        /\ stop \in {"no", "set", "told"} /\ threadCount \in Nat
    BY ThreadCountsAssumption DEF IInv, TypeOK, Tasks
  <1>1. /\ variant = "pool" /\ enqueued < threadCount
        /\ tasks' = Append(tasks, enqueued) /\ enqueued' = enqueued + 1 /\ owed' = TRUE
        /\ UNCHANGED <<poolOnly, worker, stop>>
    BY DEF enqueue
  <1>2. enqueued \in PIDs /\ Len(tasks) \in Nat /\ DOMAIN tasks = 1 .. Len(tasks)
    BY <1>0, <1>1 DEF PIDs
  <1>3. /\ tasks' \in Seq(PIDs) /\ Len(tasks') = Len(tasks) + 1
        /\ DOMAIN tasks' = 1 .. Len(tasks) + 1
        /\ (\A k \in 1 .. Len(tasks) : tasks'[k] = tasks[k])
        /\ tasks'[Len(tasks) + 1] = enqueued
    BY <1>0, <1>1, <1>2
  <1>4. stop = "no"
    BY <1>0, <1>1 DEF IInv, Tasks
  <1>5. \A w \in Workers : worker[w] # Ended
    BY <1>4 DEF IInv, Tasks
  <1>6. \A p \in PIDs : p < enqueued' =>
           \/ \E k \in DOMAIN tasks' : tasks'[k] = p
           \/ \E w \in Workers : worker'[w] = p
           \/ ~Working(p)
    <2>1. SUFFICES ASSUME NEW p \in PIDs, p < enqueued + 1
                   PROVE  \/ \E k \in DOMAIN tasks' : tasks'[k] = p
                          \/ \E w \in Workers : worker[w] = p
                          \/ ~Working(p)
      BY <1>1
    <2>2. CASE p = enqueued
      <3>1. Len(tasks) + 1 \in DOMAIN tasks'
        BY <1>2, <1>3
      <3>2. QED
        BY <1>3, <2>2, <3>1
    <2>3. CASE p # enqueued
      <3>1. p < enqueued
        BY <1>0, <2>1, <2>3 DEF PIDs
      <3>2. DOMAIN tasks \subseteq DOMAIN tasks'
        BY <1>2, <1>3
      <3>3. \/ \E k \in DOMAIN tasks : tasks[k] = p
            \/ \E w \in Workers : worker[w] = p
            \/ ~Working(p)
        BY <1>1, <3>1 DEF IInv, Tasks
      <3>4. QED
        BY <1>2, <1>3, <3>2, <3>3
    <2>4. QED
      BY <2>2, <2>3
  <1>7. /\ enqueued' \in 0 .. threadCount /\ Len(tasks') <= enqueued'
        /\ Len(tasks') <= threadCount
    BY <1>0, <1>1, <1>2, <1>3
  <1>8. NoLostWakeup'
    BY <1>1, <1>4 DEF NoLostWakeup
  <1>9. owed' \in BOOLEAN
    BY <1>1
  <1>10. QED
    BY <1>0, <1>1, <1>3, <1>4, <1>5, <1>6, <1>7, <1>8, <1>9, PoolFrame

\* A worker that is woken holds no PID before or after.
LEMMA WakeKeepsTasks ==
  ASSUME IInv, UNCHANGED <<tasks, enqueued>>,
         \A w \in Workers : worker'[w] = worker[w]
                            \/ (worker[w] \notin PIDs /\ worker'[w] = Ready)
  PROVE  /\ Len(tasks') <= enqueued'
         /\ variant = "pool" => \A p \in PIDs : p < enqueued' =>
              \/ \E k \in DOMAIN tasks' : tasks'[k] = p
              \/ \E w \in Workers : worker'[w] = p
              \/ ~Working(p)
         /\ \A w \in Workers : worker'[w] = Ended => stop # "no" /\ tasks' = <<>>
  BY IdleNumbers DEF IInv, Tasks

\* cv_.notify_one wakes a sleeper if there is one.
LEMMA NotifyOneStep ==
  ASSUME IInv, NotifyOne
  PROVE  IInv'
  <1>0. /\ tasks \in Seq(PIDs) /\ Len(tasks) <= threadCount /\ enqueued \in 0 .. threadCount
        /\ worker \in [Workers -> PIDs \cup {Ready, Asleep, Ended}]
        /\ stop \in {"no", "set", "told"} /\ (stop # "no" => enqueued = threadCount)
    BY DEF IInv, TypeOK, Tasks
  <1>1. UNCHANGED <<poolOnly, tasks, enqueued, stop>> /\ owed' = FALSE
    BY DEF NotifyOne
  <1>2. CASE \E w \in Workers : worker[w] = Asleep /\ worker' = [worker EXCEPT ![w] = Ready]
    <2>1. PICK w \in Workers : worker[w] = Asleep /\ worker' = [worker EXCEPT ![w] = Ready]
      BY <1>2
    <2>2. worker' \in [Workers -> PIDs \cup {Ready, Asleep, Ended}]
      BY <1>0, <2>1
    <2>3. \A v \in Workers : worker'[v] = IF v = w THEN Ready ELSE worker[v]
      BY <1>0, <2>1
    <2>4. \A v \in Workers : worker'[v] = worker[v]
                             \/ (worker[v] \notin PIDs /\ worker'[v] = Ready)
      BY <2>1, <2>3, IdleNumbers
    <2>5. NoLostWakeup'
      BY <1>1, <2>1, <2>3, IdleNumbers DEF IInv, NoLostWakeup
    <2>6. owed' \in BOOLEAN
      BY <1>1
    <2>7. QED
      BY <1>0, <1>1, <2>2, <2>4, <2>5, <2>6, WakeKeepsTasks, PoolFrame
  <1>3. CASE (\A w \in Workers : worker[w] # Asleep) /\ UNCHANGED worker
    <2>1. NoLostWakeup'
      BY <1>1, <1>3, WorkersAssumption DEF NoLostWakeup
    <2>2. owed' \in BOOLEAN
      BY <1>1
    <2>3. QED
      BY <1>0, <1>1, <1>3, <2>1, <2>2, WakeKeepsTasks, PoolFrame
  <1>4. QED
    BY <1>2, <1>3 DEF NotifyOne

\* Under the lock a worker takes the oldest task, ends, or sleeps on an empty queue.
LEMMA WorkerTakesStep ==
  ASSUME IInv, NEW w \in Workers, WorkerTakes(w)
  PROVE  IInv'
  <1>0. /\ tasks \in Seq(PIDs) /\ Len(tasks) <= threadCount /\ enqueued \in 0 .. threadCount
        /\ worker \in [Workers -> PIDs \cup {Ready, Asleep, Ended}]
        /\ stop \in {"no", "set", "told"} /\ (stop # "no" => enqueued = threadCount)
        /\ Len(tasks) <= enqueued /\ threadCount \in Nat
    BY ThreadCountsAssumption DEF IInv, TypeOK, Tasks
  <1>1. /\ variant = "pool" /\ worker[w] = Ready
        /\ UNCHANGED <<poolOnly, enqueued, owed, stop>>
    BY DEF WorkerTakes
  <1>2. owed' \in BOOLEAN
    BY <1>1 DEF IInv, TypeOK
  <1>3. CASE tasks # <<>> /\ worker' = [worker EXCEPT ![w] = Head(tasks)] /\ tasks' = Tail(tasks)
    <2>1. /\ tasks' \in Seq(PIDs) /\ Len(tasks) \in Nat /\ Len(tasks) > 0
          /\ Len(tasks') = Len(tasks) - 1 /\ DOMAIN tasks = 1 .. Len(tasks)
          /\ DOMAIN tasks' = 1 .. Len(tasks) - 1
          /\ (\A k \in 1 .. Len(tasks) - 1 : tasks'[k] = tasks[k + 1])
          /\ Head(tasks) = tasks[1] /\ Head(tasks) \in PIDs
      BY <1>0, <1>3
    <2>2. worker' \in [Workers -> PIDs \cup {Ready, Asleep, Ended}]
      BY <1>0, <1>3, <2>1
    <2>3. \A v \in Workers : worker'[v] = IF v = w THEN tasks[1] ELSE worker[v]
      BY <1>0, <1>3, <2>1
    <2>4. tasks[1] # Ended /\ tasks[1] # Asleep
      BY <2>1, IdleNumbers
    <2>5. \A v \in Workers : worker'[v] # Ended
      BY <1>3, <2>3, <2>4 DEF IInv, Tasks
    <2>6. NoLostWakeup'
      BY <1>1, <2>3, <2>4 DEF IInv, NoLostWakeup
    <2>7. \A p \in PIDs : p < enqueued =>
             \/ \E k \in DOMAIN tasks' : tasks'[k] = p
             \/ \E v \in Workers : worker'[v] = p
             \/ ~Working(p)
      <3>1. SUFFICES ASSUME NEW p \in PIDs, p < enqueued, Working(p)
                     PROVE  \/ \E k \in DOMAIN tasks' : tasks'[k] = p
                            \/ \E v \in Workers : worker'[v] = p
        OBVIOUS
      <3>2. (\E k \in DOMAIN tasks : tasks[k] = p) \/ (\E v \in Workers : worker[v] = p)
        BY <1>1, <3>1 DEF IInv, Tasks
      <3>3. CASE \E v \in Workers : worker[v] = p
        BY <1>1, <2>3, <3>3, IdleNumbers
      <3>4. CASE \E k \in DOMAIN tasks : tasks[k] = p
        <4>1. PICK k \in 1 .. Len(tasks) : tasks[k] = p
          BY <2>1, <3>4
        <4>2. CASE k = 1
          BY <2>3, <4>1, <4>2
        <4>3. CASE k # 1
          <5>1. k - 1 \in 1 .. Len(tasks) - 1 /\ k - 1 + 1 = k
            BY <2>1, <4>1, <4>3
          <5>2. QED
            BY <2>1, <4>1, <5>1
        <4>4. QED
          BY <4>2, <4>3
      <3>5. QED
        BY <3>2, <3>3, <3>4
    <2>8. Len(tasks') <= threadCount /\ Len(tasks') <= enqueued
      BY <1>0, <2>1
    <2>9. QED
      BY <1>0, <1>1, <1>2, <2>1, <2>2, <2>5, <2>6, <2>7, <2>8, PoolFrame
  <1>4. CASE /\ tasks = <<>> /\ UNCHANGED tasks
             /\ worker' = [worker EXCEPT ![w] = IF stop = "no" THEN Asleep ELSE Ended]
    <2>1. worker' \in [Workers -> PIDs \cup {Ready, Asleep, Ended}]
      BY <1>0, <1>4
    <2>2. \A v \in Workers : worker'[v] = IF v = w THEN IF stop = "no" THEN Asleep ELSE Ended
                                                   ELSE worker[v]
      BY <1>0, <1>4
    <2>3. \A v \in Workers : worker'[v] = Ended => stop' # "no" /\ tasks' = <<>>
      BY <1>1, <1>4, <2>2, IdleNumbers DEF IInv, Tasks
    <2>4. NoLostWakeup'
      BY <1>1, <1>4, <2>2, IdleNumbers DEF IInv, NoLostWakeup
    <2>5. \A p \in PIDs : p < enqueued =>
             \/ \E k \in DOMAIN tasks' : tasks'[k] = p
             \/ \E v \in Workers : worker'[v] = p
             \/ ~Working(p)
      BY <1>1, <1>4, <2>2, IdleNumbers DEF IInv, Tasks
    <2>6. QED
      BY <1>0, <1>1, <1>2, <1>4, <2>1, <2>3, <2>4, <2>5, PoolFrame
  <1>5. QED
    BY <1>3, <1>4 DEF WorkerTakes

\* A worker is ready again when the rows of its PID are done.
LEMMA TaskDoneStep ==
  ASSUME IInv, NEW w \in Workers, TaskDone(w)
  PROVE  IInv'
  <1>0. /\ tasks \in Seq(PIDs) /\ Len(tasks) <= threadCount /\ enqueued \in 0 .. threadCount
        /\ worker \in [Workers -> PIDs \cup {Ready, Asleep, Ended}]
        /\ stop \in {"no", "set", "told"} /\ (stop # "no" => enqueued = threadCount)
        /\ Len(tasks) <= enqueued
    BY DEF IInv, TypeOK, Tasks
  <1>1. /\ worker[w] \in PIDs /\ ~Working(worker[w])
        /\ worker' = [worker EXCEPT ![w] = Ready]
        /\ UNCHANGED <<poolOnly, tasks, enqueued, owed, stop>>
    BY DEF TaskDone
  <1>2. owed' \in BOOLEAN
    BY <1>1 DEF IInv, TypeOK
  <1>3. worker' \in [Workers -> PIDs \cup {Ready, Asleep, Ended}]
    BY <1>0, <1>1
  <1>4. \A v \in Workers : worker'[v] = IF v = w THEN Ready ELSE worker[v]
    BY <1>0, <1>1
  <1>5. \A v \in Workers : worker'[v] = Ended => stop' # "no" /\ tasks' = <<>>
    BY <1>1, <1>4, IdleNumbers DEF IInv, Tasks
  <1>6. NoLostWakeup'
    BY <1>1, <1>4, IdleNumbers DEF IInv, NoLostWakeup
  <1>7. variant = "pool" => \A p \in PIDs : p < enqueued =>
           \/ \E k \in DOMAIN tasks' : tasks'[k] = p
           \/ \E v \in Workers : worker'[v] = p
           \/ ~Working(p)
    BY <1>1, <1>4 DEF IInv, Tasks
  <1>8. QED
    BY <1>0, <1>1, <1>2, <1>3, <1>5, <1>6, <1>7, PoolFrame

\* ~ThreadPool sets stop_ with every task queued, then wakes every sleeper.
LEMMA DestructorStep ==
  ASSUME IInv, DestructorStops \/ NotifyAll
  PROVE  IInv'
  <1>0. /\ tasks \in Seq(PIDs) /\ Len(tasks) <= threadCount /\ enqueued \in 0 .. threadCount
        /\ worker \in [Workers -> PIDs \cup {Ready, Asleep, Ended}]
        /\ (stop # "no" => enqueued = threadCount)
    BY DEF IInv, TypeOK, Tasks
  <1>1. UNCHANGED <<poolOnly, tasks, enqueued, owed>>
    BY DEF DestructorStops, NotifyAll
  <1>2. owed' \in BOOLEAN
    BY <1>1 DEF IInv, TypeOK
  <1>3. stop' \in {"set", "told"} /\ enqueued = threadCount
    BY <1>0 DEF DestructorStops, NotifyAll
  <1>4. CASE DestructorStops
    <2>1. UNCHANGED worker /\ stop' = "set"
      BY <1>4 DEF DestructorStops
    <2>2. NoLostWakeup'
      BY <1>1, <2>1 DEF IInv, NoLostWakeup
    <2>3. QED
      BY <1>0, <1>1, <1>2, <1>3, <2>1, <2>2, WakeKeepsTasks, PoolFrame
  <1>5. CASE NotifyAll
    <2>1. worker' = [w \in Workers |-> IF worker[w] = Asleep THEN Ready ELSE worker[w]]
      BY <1>5 DEF NotifyAll
    <2>2. worker' \in [Workers -> PIDs \cup {Ready, Asleep, Ended}]
      BY <1>0, <2>1
    <2>3. \A w \in Workers : worker'[w] = worker[w]
                             \/ (worker[w] \notin PIDs /\ worker'[w] = Ready)
      BY <2>1, IdleNumbers
    <2>4. \A w \in Workers : worker'[w] # Asleep
      BY <2>1, IdleNumbers
    <2>5. NoLostWakeup'
      BY <2>4, WorkersAssumption DEF NoLostWakeup, Asleep
    <2>6. QED
      BY <1>0, <1>1, <1>2, <1>3, <2>2, <2>3, <2>5, WakeKeepsTasks, PoolFrame
  <1>6. QED
    BY <1>4, <1>5

-----------------------------------------------------------------------------
(***************************************************************************)
(* The theorems.                                                           *)
(***************************************************************************)
\* Every step of DAGmodule::create keeps the inductive invariant.
LEMMA NextIInv == IInv /\ [Next]_vars => IInv'
  <1> SUFFICES ASSUME IInv, [Next]_vars PROVE IInv'
    OBVIOUS
  <1>1. CASE Join
    BY <1>1, JoinStep
  <1>2. CASE CreateAgain
    BY <1>2, CreateAgainStep
  <1>3. CASE \E p \in PIDs : ComparePair(p) \/ NextRow(p)
    BY <1>3, CompareStep, NextRowStep
  <1>4. CASE enqueue
    BY <1>4, EnqueueStep
  <1>5. CASE NotifyOne
    BY <1>5, NotifyOneStep
  <1>6. CASE DestructorStops \/ NotifyAll
    BY <1>6, DestructorStep
  <1>7. CASE \E w \in Workers : WorkerTakes(w) \/ TaskDone(w)
    BY <1>7, WorkerTakesStep, TaskDoneStep
  <1>8. CASE UNCHANGED vars
    <2>1. UNCHANGED poolOnly /\ UNCHANGED <<block, pool>>
      BY <1>8 DEF vars, poolOnly
    <2>2. UNCHANGED <<tasks, worker, enqueued, owed, stop>>
      BY <2>1 DEF pool
    <2>3. NoLostWakeup'
      BY <2>2 DEF IInv, NoLostWakeup
    <2>4. QED
      BY <2>1, <2>2, <2>3, PoolFrame DEF IInv, TypeOK, Tasks
  <1>9. QED
    BY <1>1, <1>2, <1>3, <1>4, <1>5, <1>6, <1>7, <1>8 DEF Next, Done

\* The matrix and the in-degrees are those of the pairs compared so far, and every
\* task of the pool is queued, run or done.
THEOREM Invariance == Spec => []IInv
  BY InitIInv, NextIInv, PTL DEF Spec

\* For any number of transactions, threads and pool workers: once create has joined
\* its threads the matrix is the conflict relation, no pair missed and none invented,
\* and in a first call the in-degrees count its columns at every moment.
THEOREM GraphExact == Spec => []GraphInv
  <1>1. IInv => GraphInv
    <2> SUFFICES ASSUME TypeOK, Filled PROVE GraphInv
      BY DEF IInv
    <2>1. \A e \in Txns \X Txns :
            Conflict(CurrentTransactions[e[1]], CurrentTransactions[e[2]])
            <=> MayNotSwap(CurrentTransactions[e[1]], CurrentTransactions[e[2]])
      BY ConflictIsMayNotSwap DEF TypeOK
    <2>2. joined => \A i, j \in Txns : Compared(i, j)
      BY AllCompared DEF Filled
    <2>3. joined => \A e \in Txns \X Txns : Compared(e[1], e[2])
      BY <2>2
    <2>4. MatrixExact
      BY <2>1, <2>3 DEF MatrixExact, Filled
    <2>5. InDegreeExact
      <3>1. SUFFICES ASSUME pass = 1 \/ joined, NEW j \in Txns
                     PROVE  inDegree[j] = Cardinality({i \in Txns : <<i, j>> \in adjacencyMatrix})
        BY DEF InDegreeExact
      <3>2. \A i \in Txns : (pass = 2 \/ Compared(i, j)) <=> Compared(i, j)
        BY <2>2, <3>1
      <3>3. \A i \in Txns : <<i, j>> \in adjacencyMatrix <=> i \in Found(j)
        BY <3>2 DEF Filled, Found
      <3>4. Found(j) = {i \in Txns : <<i, j>> \in adjacencyMatrix}
        BY <3>3 DEF Found
      <3>5. QED
        BY <3>4 DEF Filled
    <2>6. QED
      BY <2>4, <2>5 DEF GraphInv
  <1>2. QED
    BY <1>1, Invariance, PTL

\* For any number of workers and tasks: no wake-up of the pool is lost.
THEOREM NoWakeupLost == Spec => []NoLostWakeup
  <1>1. IInv => NoLostWakeup
    BY DEF IInv
  <1>2. QED
    BY <1>1, Invariance, PTL

=============================================================================
