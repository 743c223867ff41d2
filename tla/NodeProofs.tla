----------------------------- MODULE NodeProofs -----------------------------
(***************************************************************************)
(* Proofs about the main loop of a node and about its state: NodeMain, for *)
(* every set of nodes, every lease time that exceeds the nap and the       *)
(* slowest renewal, and every history of raft terms; StateTree, for every  *)
(* set of keys and values, every number of threads, blocks and calls.      *)
(***************************************************************************)
EXTENDS NodeMain, StateTree, FiniteSetTheorems, SequenceTheorems, WellFoundedInduction, TLAPS

Past == {"check", "call", "leading", "getLeader", "poll"}

\* The initial states.
LEMMA InitIInv == Init => IInv
  <1> SUFFICES ASSUME Init PROVE IInv
    OBVIOUS
  <1>1. TypeOK
    <2>1. /\ term \in 1 .. MaxTerm /\ failed \in 0 .. NMembers /\ ttl \in 0 .. TTL
          /\ faults \in 0 .. MaxFaults /\ leaderOf \in [1 .. term -> Nodes]
      BY BoundAssumption, TimeAssumption DEF Init
    <2>2. redpandaUp \in BOOLEAN /\ calm \in BOOLEAN
      BY DEF Init
    <2>3. CurrentLeader \in Nodes \cup {None} /\ holder \in Nodes \cup {None}
      BY DEF Init
    <2>4. /\ pc \in [Nodes -> Locations]
          /\ lease \in [Nodes -> {None, "start", "check", "put", "sleep", "done"}]
          /\ Leader \in [Nodes -> Nodes \cup {None}]
      BY DEF Init, Locations
    <2>5. /\ raftTerm \in [Nodes -> 0 .. term] /\ under \in [Nodes -> 0 .. term]
          /\ count \in [Nodes -> 0 .. BlocksCount] /\ timer \in [Nodes -> 0 .. TTL]
      BY BoundAssumption, TimeAssumption DEF Init
    <2>6. /\ LLease \in [Nodes -> BOOLEAN] /\ mixed \in [Nodes -> BOOLEAN]
          /\ etcdHealth \in [Nodes -> BOOLEAN] /\ redpandaHealth \in [Nodes -> BOOLEAN]
          /\ etcdMonitor \in [Nodes -> BOOLEAN]
      BY DEF Init
    <2>7. QED
      BY <2>1, <2>2, <2>3, <2>4, <2>5, <2>6 DEF TypeOK
  <1>2. Counted
    BY DEF Init, Counted
  <1>3. Renewal
    BY NodesAssumption DEF Init, Renewal, Alive, None
  <1>4. OwnTerm /\ LedInOwnTerm
    BY DEF Init, OwnTerm, LedInOwnTerm
  <1>5. QED
    BY <1>1, <1>2, <1>3, <1>4 DEF IInv

-----------------------------------------------------------------------------
(***************************************************************************)
(* What a step leaves alone.                                               *)
(***************************************************************************)
\* A step that takes nobody past the loop condition and counts no block.
LEMMA CountedFrame ==
  ASSUME Counted, UNCHANGED count,
         \A n \in Nodes : pc'[n] \in Past => pc[n] \in Past
  PROVE  Counted'
  BY DEF Counted, Past

\* A step that touches neither the key nor the lease threads, and ends no process.
LEMMA RenewalFrame ==
  ASSUME Renewal, UNCHANGED <<failed, calm, key, thread>>,
         \A n \in Nodes : Alive(n)' <=> Alive(n)
  PROVE  Renewal'
  BY DEF Renewal, key, thread

\* A step that finds no leader and calls no leaderProtocol.
LEMMA TermFrame ==
  ASSUME OwnTerm, LedInOwnTerm, UNCHANGED <<leaderOf, raftTerm, history>>,
         \A n \in Nodes : pc'[n] \in {"check", "call"} => pc[n] \in {"check", "call"}
  PROVE  OwnTerm' /\ LedInOwnTerm'
  BY DEF OwnTerm, LedInOwnTerm, history

-----------------------------------------------------------------------------
(***************************************************************************)
(* etcd and time.                                                          *)
(***************************************************************************)
\* An election adds a term; the leaders of the earlier ones stay what they were.
LEMMA ElectStep ==
  ASSUME IInv, Elect
  PROVE  IInv'
  <1> USE DEF key, health, thread, history
  <1>1. /\ TypeOK /\ term < MaxTerm /\ term' = term + 1
        /\ UNCHANGED <<failed, redpandaUp, faults, calm, key, pc, raftTerm, count, LLease,
                       health, thread, Leader, history>>
    BY DEF IInv, Elect
  <1>2. PICK n \in Nodes :
          leaderOf' = [t \in 1 .. term + 1 |-> IF t <= term THEN leaderOf[t] ELSE n]
    BY DEF Elect
  <1>3. term \in Nat /\ term + 1 \in 1 .. MaxTerm
    BY <1>1, BoundAssumption DEF TypeOK
  <1>4. leaderOf' \in [1 .. term' -> Nodes]
    <2>1. \A t \in 1 .. term + 1 : t <= term => t \in 1 .. term
      BY <1>3
    <2>2. \A t \in 1 .. term + 1 : (IF t <= term THEN leaderOf[t] ELSE n) \in Nodes
      BY <1>1, <2>1 DEF TypeOK
    <2>3. QED
      BY <1>1, <1>2, <2>2
  <1>5. \A t \in 1 .. term : leaderOf'[t] = leaderOf[t]
    BY <1>2, <1>3
  <1>t. raftTerm \in [Nodes -> 0 .. term] /\ under \in [Nodes -> 0 .. term]
    BY <1>1 DEF TypeOK
  <1>6. raftTerm \in [Nodes -> 0 .. term'] /\ under \in [Nodes -> 0 .. term']
    <2>1. \A t \in 0 .. term : t \in 0 .. term'
      BY <1>1, <1>3
    <2>2. QED
      BY <1>t, <2>1
  <1>7. TypeOK'
    <2>1. term' \in 1 .. MaxTerm /\ UNCHANGED <<raftTerm, under>>
      BY <1>1, <1>3
    <2>2. QED
      BY <1>1, <1>4, <1>6, <2>1 DEF TypeOK
  <1>8. Counted' /\ Renewal'
    BY <1>1, CountedFrame, RenewalFrame DEF IInv, Alive
  <1>9. \A m \in Nodes : /\ raftTerm[m] # 0 => raftTerm[m] \in 1 .. term
                         /\ under[m] # 0 => under[m] \in 1 .. term
    <2>1. \A t \in 0 .. term : t # 0 => t \in 1 .. term
      BY <1>3
    <2>2. QED
      BY <1>t, <2>1
  <1>10. OwnTerm' /\ LedInOwnTerm'
    BY <1>1, <1>5, <1>9 DEF IInv, OwnTerm, LedInOwnTerm
  <1>11. QED
    BY <1>7, <1>8, <1>10 DEF IInv

\* Members of etcd fail or come back; redpanda fails.
LEMMA OutageStep ==
  ASSUME IInv, Outage
  PROVE  IInv'
  <1> USE DEF key, health, thread, history
  <1>1. /\ TypeOK
        /\ UNCHANGED <<leaderOf, term, key, pc, raftTerm, count, LLease, health, thread,
                       Leader, history>>
    BY DEF IInv, Outage
  <1>2. faults' \in 0 .. MaxFaults
    BY <1>1, BoundAssumption DEF TypeOK, Outage
  <1>3. failed' \in 0 .. NMembers
    BY <1>1, BoundAssumption DEF TypeOK, Outage
  <1>4. redpandaUp' \in BOOLEAN /\ calm' \in BOOLEAN
    BY <1>1 DEF TypeOK, Outage
  <1>5. TypeOK'
    BY <1>1, <1>2, <1>3, <1>4 DEF TypeOK
  <1>6. calm' => calm /\ failed' = failed
    BY DEF Outage
  <1>7. Renewal'
    BY <1>1, <1>6 DEF IInv, Renewal, Alive
  <1>8. QED
    BY <1>1, <1>5, <1>7, CountedFrame, TermFrame DEF IInv

\* A tick takes the same from the lease as from the nap, and gives an awake thread
\* no more than MaxLag.
LEMMA TickStep ==
  ASSUME IInv, Tick
  PROVE  IInv'
  <1> USE DEF raft, health, history
  <1>1. /\ TypeOK /\ Renewal
        /\ UNCHANGED <<raft, holder, pc, raftTerm, count, LLease, health, lease, Leader,
                       history>>
        /\ ttl' = IF ttl > 0 THEN ttl - 1 ELSE 0
        /\ CurrentLeader' = IF ttl = 1 THEN None ELSE CurrentLeader
    BY DEF IInv, Tick
  <1>2. TTL \in Nat /\ MaxLag \in Nat /\ Nap \in Nat /\ Nap + MaxLag < TTL
    BY TimeAssumption
  <1>3. ttl \in 0 .. TTL /\ \A n \in Nodes : timer[n] \in 0 .. TTL
    BY <1>1 DEF TypeOK
  <1>4. ASSUME NEW n \in Nodes
        PROVE  /\ lease[n] = "sleep" => timer[n] > 0 /\ timer'[n] = timer[n] - 1
               /\ lease[n] \in {"check", "put"} => timer[n] < MaxLag /\ timer'[n] = timer[n] + 1
               /\ lease[n] \notin {"sleep", "check", "put"} => timer'[n] = timer[n]
    BY <1>4 DEF Tick
  <1>5. TypeOK'
    <2>1. ttl' \in 0 .. TTL /\ CurrentLeader' \in Nodes \cup {None}
      BY <1>1, <1>2, <1>3 DEF TypeOK
    <2>2. \A n \in Nodes : timer'[n] \in 0 .. TTL
      BY <1>2, <1>3, <1>4
    <2>3. DOMAIN timer' = Nodes /\ timer' = [n \in DOMAIN timer' |-> timer'[n]]
      BY DEF Tick
    <2>4. timer' \in [Nodes -> 0 .. TTL]
      BY <2>2, <2>3
    <2>5. QED
      BY <1>1, <2>1, <2>4 DEF TypeOK
  <1>6. Renewal'
    <2>1. ASSUME NEW n \in Nodes
          PROVE  /\ lease[n] \in {"check", "put"} => timer'[n] <= MaxLag
                 /\ calm /\ holder = n /\ lease[n] = "sleep"
                      => CurrentLeader' = n /\ ttl' > timer'[n] + MaxLag
                 /\ calm /\ holder = n /\ lease[n] \in {"check", "put"}
                      => CurrentLeader' = n /\ ttl' + timer'[n] > MaxLag
      <3>1. timer[n] \in Nat /\ ttl \in Nat
        BY <1>2, <1>3
      <3>2. lease[n] \in {"check", "put"} => timer'[n] <= MaxLag
        BY <1>2, <1>4, <3>1
      <3>3. ASSUME calm, holder = n, lease[n] = "sleep"
            PROVE  CurrentLeader' = n /\ ttl' > timer'[n] + MaxLag
        <4>1. CurrentLeader = n /\ ttl > timer[n] + MaxLag
          BY <1>1, <3>3 DEF Renewal
        <4>2. timer[n] > 0 /\ timer'[n] = timer[n] - 1
          BY <1>4, <3>3
        <4>3. ttl' = ttl - 1 /\ ttl # 1
          BY <1>1, <1>2, <3>1, <4>1, <4>2
        <4>4. QED
          BY <1>1, <1>2, <3>1, <4>1, <4>2, <4>3
      <3>4. ASSUME calm, holder = n, lease[n] \in {"check", "put"}
            PROVE  CurrentLeader' = n /\ ttl' + timer'[n] > MaxLag
        <4>1. CurrentLeader = n /\ ttl + timer[n] > MaxLag
          BY <1>1, <3>4 DEF Renewal
        <4>2. timer[n] < MaxLag /\ timer'[n] = timer[n] + 1
          BY <1>4, <3>4
        <4>3. ttl' = ttl - 1 /\ ttl # 1
          BY <1>1, <1>2, <3>1, <4>1, <4>2
        <4>4. QED
          BY <1>1, <1>2, <3>1, <4>1, <4>2, <4>3
      <3>5. QED
        BY <3>2, <3>3, <3>4
    <2>2. QED
      BY <1>1, <2>1 DEF Renewal, Alive
  <1>7. QED
    BY <1>1, <1>5, <1>6, CountedFrame, TermFrame DEF IInv

-----------------------------------------------------------------------------
(***************************************************************************)
(* The lease thread.                                                       *)
(***************************************************************************)
\* findLeader stores nothing but a term etcd has reached.
LEMMA FindLeaderType ==
  ASSUME TypeOK, NEW n \in Nodes, findLeader(n)
  PROVE  /\ etcdHealth' \in [Nodes -> BOOLEAN]
         /\ raftTerm' \in [Nodes -> 0 .. term]
         /\ raftTerm'[n] \in {raftTerm[n], term}
         /\ etcdUp => raftTerm'[n] = term
         /\ \A m \in Nodes \ {n} : raftTerm'[m] = raftTerm[m]
  <1>0. term \in 0 .. term
    <2>1. term \in Nat
      BY BoundAssumption DEF TypeOK
    <2>2. QED
      BY <2>1
  <1>1. /\ term \in 0 .. term /\ raftTerm \in [Nodes -> 0 .. term]
        /\ etcdHealth \in [Nodes -> BOOLEAN] /\ etcdUp \in BOOLEAN
    <2>1. failed \in Int /\ NMembers \in Int
      BY BoundAssumption DEF TypeOK
    <2>2. etcdUp \in BOOLEAN
      BY <2>1 DEF etcdUp
    <2>3. QED
      BY <1>0, <2>2 DEF TypeOK
  <1>2. etcdHealth' \in [Nodes -> BOOLEAN]
    BY <1>1 DEF findLeader
  <1>3. raftTerm' \in [Nodes -> 0 .. term]
    BY <1>1 DEF findLeader
  <1>4. QED
    BY <1>1, <1>2, <1>3 DEF findLeader

\* A thread that starts serves a node that has put nothing yet.
LEMMA LeaseStartStep ==
  ASSUME IInv, NEW n \in Nodes, LeaseStart(n)
  PROVE  IInv'
  <1> USE DEF raft, key, health, history
  <1>1. /\ TypeOK /\ Renewal /\ lease[n] = "start"
        /\ lease' = [lease EXCEPT ![n] = "check"] /\ LLease' = [LLease EXCEPT ![n] = TRUE]
        /\ timer' = [timer EXCEPT ![n] = 0]
        /\ UNCHANGED <<raft, key, pc, raftTerm, count, health, Leader, history>>
    BY DEF IInv, LeaseStart
  <1>2. TypeOK'
    <2>1. timer' \in [Nodes -> 0 .. TTL]
      BY <1>1, TimeAssumption DEF TypeOK
    <2>2. /\ lease' \in [Nodes -> {None, "start", "check", "put", "sleep", "done"}]
          /\ LLease' \in [Nodes -> BOOLEAN]
      BY <1>1 DEF TypeOK
    <2>3. QED
      BY <1>1, <2>1, <2>2 DEF TypeOK
  <1>3. Alive(n) /\ holder # n
    BY <1>1 DEF Renewal, None
  <1>4. \A m \in Nodes : IF m = n THEN lease'[m] = "check" /\ timer'[m] = 0
                                  ELSE lease'[m] = lease[m] /\ timer'[m] = timer[m]
    BY <1>1 DEF TypeOK
  <1>5. Renewal'
    BY <1>1, <1>3, <1>4, TimeAssumption DEF Renewal, Alive
  <1>6. QED
    BY <1>1, <1>2, <1>5, CountedFrame, TermFrame DEF IInv

\* The loop condition: a thread goes on only on an answer of a majority.
LEMMA LeaseCheckStep ==
  ASSUME IInv, NEW n \in Nodes, LeaseCheck(n)
  PROVE  IInv'
  <1> USE DEF raft, key
  <1> DEFINE goOn == etcdHealth[n] /\ IsLeader(n)
  <1>1. /\ TypeOK /\ Renewal /\ OwnTerm /\ lease[n] = "check"
        /\ lease' = [lease EXCEPT ![n] = IF goOn THEN "put" ELSE "done"]
        /\ LLease' = [LLease EXCEPT ![n] = goOn]
        /\ mixed' = [mixed EXCEPT ![n] = mixed[n] \/ (/\ pc[n] \in {"check", "call"}
                                                     /\ raftTerm'[n] # raftTerm[n])]
        /\ UNCHANGED <<raft, key, pc, count, redpandaHealth, etcdMonitor, timer, Leader,
                       under>>
    BY DEF IInv, LeaseCheck
  <1>2. /\ etcdHealth' \in [Nodes -> BOOLEAN]
        /\ raftTerm' \in [Nodes -> 0 .. term]
        /\ \A m \in Nodes \ {n} : raftTerm'[m] = raftTerm[m]
    <2>1. CASE etcdHealth[n]
      BY <1>1, <2>1, FindLeaderType DEF LeaseCheck
    <2>2. CASE ~etcdHealth[n]
      BY <1>1, <2>2 DEF LeaseCheck, TypeOK
    <2>3. QED
      BY <2>1, <2>2
  <1>3. TypeOK'
    <2>1. goOn \in BOOLEAN
      BY <1>1 DEF TypeOK, IsLeader
    <2>2. lease' \in [Nodes -> {None, "start", "check", "put", "sleep", "done"}]
      BY <1>1 DEF TypeOK
    <2>3. LLease' \in [Nodes -> BOOLEAN]
      BY <1>1, <2>1 DEF TypeOK
    <2>4. mixed' \in [Nodes -> BOOLEAN]
      BY <1>1 DEF TypeOK
    <2>5. QED
      BY <1>1, <1>2, <2>2, <2>3, <2>4 DEF TypeOK
  <1>4. goOn => NMembers > 0
    <2>1. failed \in Nat /\ NMembers \in Nat
      BY <1>1, BoundAssumption DEF TypeOK
    <2>2. etcdUp => NMembers > 0
      BY <2>1 DEF etcdUp
    <2>3. QED
      BY <2>2 DEF IsLeader
  <1>5. \A m \in Nodes : lease'[m] = IF m = n THEN IF goOn THEN "put" ELSE "done"
                                              ELSE lease[m]
    BY <1>1 DEF TypeOK
  <1>6. Renewal'
    <2>1. lease'[n] \in {"put", "done"} /\ (lease'[n] = "put" => NMembers > 0)
      BY <1>4, <1>5
    <2>2. \A m \in Nodes \ {n} : lease'[m] = lease[m]
      BY <1>5
    <2>3. Alive(n)
      BY <1>1 DEF Renewal, None
    <2>4. QED
      BY <1>1, <2>1, <2>2, <2>3 DEF Renewal, Alive, None
  <1>7. \A m \in Nodes : ~mixed'[m] /\ pc[m] \in {"check", "call"}
                           => ~mixed[m] /\ raftTerm'[m] = raftTerm[m]
    BY <1>1, <1>2 DEF TypeOK
  <1>8. OwnTerm'
    BY <1>1, <1>7 DEF OwnTerm
  <1>9. \A m \in Nodes : mixed[m] => mixed'[m]
    BY <1>1 DEF TypeOK
  <1>10. LedInOwnTerm'
    BY <1>1, <1>9 DEF IInv, LedInOwnTerm
  <1>11. QED
    BY <1>1, <1>3, <1>6, <1>8, <1>10, CountedFrame DEF IInv

\* leasegrant and put: a fresh lease is longer than the nap and a late renewal.
LEMMA LeasePutStep ==
  ASSUME IInv, NEW n \in Nodes, LeasePut(n)
  PROVE  IInv'
  <1> USE DEF raft, key, health, history
  <1>1. /\ TypeOK /\ Renewal /\ lease[n] = "put"
        /\ lease' = [lease EXCEPT ![n] = "sleep"] /\ timer' = [timer EXCEPT ![n] = Nap]
        /\ UNCHANGED <<raft, pc, raftTerm, count, LLease, health, Leader, history>>
    BY DEF IInv, LeasePut
  <1>2. \/ etcdUp /\ CurrentLeader' = n /\ holder' = n /\ ttl' = TTL
        \/ ~etcdUp /\ UNCHANGED key
    BY DEF LeasePut
  <1>3. TTL \in Nat /\ Nap \in Nat /\ MaxLag \in Nat /\ TTL > Nap + MaxLag
    BY TimeAssumption
  <1>4. TypeOK'
    <2>1. timer' \in [Nodes -> 0 .. TTL]
      <3>1. Nap \in 0 .. TTL
        BY <1>3
      <3>2. QED
        BY <1>1, <3>1 DEF TypeOK
    <2>2. lease' \in [Nodes -> {None, "start", "check", "put", "sleep", "done"}]
      BY <1>1 DEF TypeOK
    <2>3. ttl' \in 0 .. TTL
      BY <1>1, <1>2, <1>3 DEF TypeOK
    <2>4. CurrentLeader' \in Nodes \cup {None} /\ holder' \in Nodes \cup {None}
      BY <1>1, <1>2 DEF TypeOK
    <2>5. QED
      BY <1>1, <2>1, <2>2, <2>3, <2>4 DEF TypeOK
  <1>5. Alive(n) /\ NMembers > 0
    BY <1>1 DEF Renewal, None
  <1>6. \A m \in Nodes : IF m = n THEN lease'[m] = "sleep" /\ timer'[m] = Nap
                                  ELSE lease'[m] = lease[m] /\ timer'[m] = timer[m]
    BY <1>1 DEF TypeOK
  <1>7. calm => etcdUp
    BY <1>1, <1>5, BoundAssumption DEF Renewal, etcdUp
  <1>8. Renewal'
    <2>1. ASSUME NEW m \in Nodes, m # n, holder' = m PROVE UNCHANGED key
      BY <1>2, <2>1
    <2>2. ASSUME NEW m \in Nodes
          PROVE  /\ ~Alive(m)' => lease'[m] = None
                 /\ lease'[m] = "put" => NMembers > 0
                 /\ lease'[m] \in {"check", "put"} => timer'[m] <= MaxLag
                 /\ holder' = m /\ lease'[m] \in {None, "start"} => ~Alive(m)'
      BY <1>1, <1>5, <1>6, <2>1 DEF Renewal, Alive, None
    <2>3. ASSUME NEW m \in Nodes, calm
          PROVE  /\ holder' = m /\ lease'[m] = "sleep"
                      => CurrentLeader' = m /\ ttl' > timer'[m] + MaxLag
                 /\ holder' = m /\ lease'[m] \in {"check", "put"}
                      => CurrentLeader' = m /\ ttl' + timer'[m] > MaxLag
      <3>1. CASE m = n
        BY <1>2, <1>3, <1>6, <1>7, <2>3, <3>1
      <3>2. CASE m # n
        BY <1>1, <1>6, <2>1, <2>3, <3>2 DEF Renewal
      <3>3. QED
        BY <3>1, <3>2
    <2>4. (calm => failed = 0)'
      BY <1>1 DEF Renewal
    <2>5. QED
      BY <1>1, <2>2, <2>3, <2>4 DEF Renewal
  <1>9. QED
    BY <1>1, <1>4, <1>8, CountedFrame, TermFrame DEF IInv

\* The nap is over.
LEMMA LeaseWakeStep ==
  ASSUME IInv, NEW n \in Nodes, LeaseWake(n)
  PROVE  IInv'
  <1> USE DEF raft, key, health, history
  <1>1. /\ TypeOK /\ Renewal /\ lease[n] = "sleep" /\ timer[n] = 0
        /\ lease' = [lease EXCEPT ![n] = "check"]
        /\ UNCHANGED <<raft, key, pc, raftTerm, count, LLease, health, timer, Leader,
                       history>>
    BY DEF IInv, LeaseWake
  <1>2. TypeOK'
    <2>1. lease' \in [Nodes -> {None, "start", "check", "put", "sleep", "done"}]
      BY <1>1 DEF TypeOK
    <2>2. QED
      BY <1>1, <2>1 DEF TypeOK
  <1>3. \A m \in Nodes : lease'[m] = IF m = n THEN "check" ELSE lease[m]
    BY <1>1 DEF TypeOK
  <1>4. ttl \in Nat /\ MaxLag \in Nat
    BY <1>1, TimeAssumption DEF TypeOK
  <1>5. Renewal'
    BY <1>1, <1>3, <1>4 DEF Renewal, Alive, None
  <1>6. QED
    BY <1>1, <1>2, <1>5, CountedFrame, TermFrame DEF IInv

-----------------------------------------------------------------------------
(***************************************************************************)
(* The monitors and main.                                                  *)
(***************************************************************************)
\* The monitors store only what main and the lease thread read of the health.
LEMMA MonitorStep ==
  ASSUME IInv, NEW n \in Nodes, etcdMonitorFunc(n) \/ redpandaMonitorFunc(n)
  PROVE  IInv'
  <1> USE DEF raft, key, thread, history
  <1>1. /\ TypeOK
        /\ UNCHANGED <<raft, key, pc, raftTerm, count, LLease, thread, Leader, history>>
    BY DEF IInv, etcdMonitorFunc, redpandaMonitorFunc
  <1>2. /\ etcdHealth' \in [Nodes -> BOOLEAN] /\ redpandaHealth' \in [Nodes -> BOOLEAN]
        /\ etcdMonitor' \in [Nodes -> BOOLEAN]
    BY <1>1 DEF TypeOK, etcdMonitorFunc, redpandaMonitorFunc
  <1>3. TypeOK'
    BY <1>1, <1>2 DEF TypeOK
  <1>4. Renewal'
    BY <1>1, RenewalFrame DEF IInv, Alive
  <1>5. QED
    BY <1>1, <1>3, <1>4, CountedFrame, TermFrame DEF IInv

\* A process that ends takes its lease thread with it.
LEMMA DiesStep ==
  ASSUME IInv, NEW n \in Nodes, NEW how \in {"aborted", "killed"}, Dies(n, how),
         UNCHANGED <<leaderOf, term, failed, redpandaUp, calm, key>>,
         faults' \in 0 .. MaxFaults
  PROVE  IInv'
  <1> USE DEF key
  <1>1. TypeOK /\ Renewal /\ OwnTerm /\ LedInOwnTerm /\ Counted
    BY DEF IInv
  <1>2. TypeOK'
    <2>1. term \in Nat /\ TTL \in Nat /\ BlocksCount \in Nat
      BY <1>1, BoundAssumption, TimeAssumption DEF TypeOK
    <2>2. 0 \in 0 .. term /\ 0 \in 0 .. TTL /\ 0 \in 0 .. BlocksCount
      BY <2>1
    <2>3. /\ raftTerm' \in [Nodes -> 0 .. term] /\ under' \in [Nodes -> 0 .. term]
          /\ count' \in [Nodes -> 0 .. BlocksCount] /\ timer' \in [Nodes -> 0 .. TTL]
      BY <1>1, <2>2 DEF TypeOK, Dies
    <2>4. /\ LLease' \in [Nodes -> BOOLEAN] /\ mixed' \in [Nodes -> BOOLEAN]
          /\ etcdHealth' \in [Nodes -> BOOLEAN] /\ redpandaHealth' \in [Nodes -> BOOLEAN]
          /\ etcdMonitor' \in [Nodes -> BOOLEAN]
      BY <1>1 DEF TypeOK, Dies
    <2>5. /\ pc' \in [Nodes -> Locations]
          /\ lease' \in [Nodes -> {None, "start", "check", "put", "sleep", "done"}]
          /\ Leader' \in [Nodes -> Nodes \cup {None}]
      BY <1>1 DEF TypeOK, Dies, Locations
    <2>6. QED
      BY <1>1, <2>3, <2>4, <2>5 DEF TypeOK
  <1>3. /\ pc'[n] = how /\ lease'[n] = None /\ under'[n] = 0
        /\ \A m \in Nodes \ {n} :
             /\ pc'[m] = pc[m] /\ count'[m] = count[m] /\ raftTerm'[m] = raftTerm[m]
             /\ lease'[m] = lease[m] /\ timer'[m] = timer[m]
             /\ under'[m] = under[m] /\ mixed'[m] = mixed[m]
    BY <1>1 DEF TypeOK, Dies
  <1>4. Counted'
    BY <1>1, <1>3 DEF Counted
  <1>5. Renewal'
    BY <1>1, <1>3 DEF Renewal, Alive, None
  <1>6. OwnTerm' /\ LedInOwnTerm'
    BY <1>1, <1>3 DEF OwnTerm, LedInOwnTerm
  <1>7. QED
    BY <1>2, <1>4, <1>5, <1>6 DEF IInv

\* The loop condition, and findLeader: a node that is told it leads has its own
\* term in raftTerm.
LEMMA LoopHeadStep ==
  ASSUME IInv, NEW n \in Nodes, LoopHead(n)
  PROVE  IInv'
  <1> USE DEF raft, key, thread, history
  <1>1. /\ TypeOK /\ Renewal /\ OwnTerm /\ LedInOwnTerm /\ Counted /\ pc[n] = "loop"
        /\ UNCHANGED <<raft, key, count, LLease, redpandaHealth, etcdMonitor, thread,
                       Leader, history>>
    BY DEF IInv, LoopHead
  <1>2. CASE etcdHealth[n] /\ redpandaHealth[n] /\ count[n] < BlocksCount
    <2>1. /\ findLeader(n)
          /\ pc' = [pc EXCEPT ![n] = IF IsLeader(n) THEN "check" ELSE "getLeader"]
      BY <1>2 DEF LoopHead
    <2>2. /\ etcdHealth' \in [Nodes -> BOOLEAN]
          /\ raftTerm' \in [Nodes -> 0 .. term]
          /\ etcdUp => raftTerm'[n] = term
          /\ \A m \in Nodes \ {n} : raftTerm'[m] = raftTerm[m]
      BY <1>1, <2>1, FindLeaderType
    <2>3. pc' \in [Nodes -> Locations]
      BY <1>1, <2>1 DEF TypeOK, Locations
    <2>4. TypeOK'
      BY <1>1, <2>2, <2>3 DEF TypeOK
    <2>5. /\ \A m \in Nodes \ {n} : pc'[m] = pc[m]
          /\ pc'[n] \in {"check", "getLeader"}
          /\ pc'[n] = "check" => IsLeader(n)
      BY <1>1, <2>1 DEF TypeOK
    <2>6. Counted'
      BY <1>1, <1>2, <2>5 DEF Counted
    <2>7. Renewal'
      BY <1>1, <2>5, RenewalFrame DEF Alive
    <2>8. pc'[n] = "check" => raftTerm'[n] # 0 /\ leaderOf[raftTerm'[n]] = n
      <3>1. term # 0
        BY <1>1, BoundAssumption DEF TypeOK
      <3>2. QED
        BY <2>2, <2>5, <3>1 DEF IsLeader
    <2>9. OwnTerm' /\ LedInOwnTerm'
      BY <1>1, <2>2, <2>5, <2>8 DEF OwnTerm, LedInOwnTerm
    <2>10. QED
      BY <2>4, <2>6, <2>7, <2>9 DEF IInv
  <1>3. CASE ~(etcdHealth[n] /\ redpandaHealth[n] /\ count[n] < BlocksCount)
    <2>1. pc' = [pc EXCEPT ![n] = "end"] /\ UNCHANGED <<etcdHealth, raftTerm>>
      BY <1>3 DEF LoopHead
    <2>2. pc' \in [Nodes -> Locations]
      BY <1>1, <2>1 DEF TypeOK, Locations
    <2>3. TypeOK'
      BY <1>1, <2>1, <2>2 DEF TypeOK
    <2>4. pc'[n] = "end" /\ \A m \in Nodes \ {n} : pc'[m] = pc[m]
      BY <1>1, <2>1 DEF TypeOK
    <2>5. Renewal'
      BY <1>1, <2>4, RenewalFrame DEF Alive
    <2>6. Counted' /\ OwnTerm' /\ LedInOwnTerm'
      BY <1>1, <2>1, <2>4, CountedFrame, TermFrame DEF Past
    <2>7. QED
      BY <2>3, <2>5, <2>6 DEF IInv
  <1>4. QED
    BY <1>2, <1>3

\* The start of the lease thread, or the end of the process that starts a second.
LEMMA StartLeaseStep ==
  ASSUME IInv, NEW n \in Nodes, StartLease(n)
  PROVE  IInv'
  <1> USE DEF raft, key, local, health, thread, history
  <1>1. /\ TypeOK /\ Renewal /\ OwnTerm /\ LedInOwnTerm /\ Counted /\ pc[n] = "check"
        /\ UNCHANGED <<raft, key>>
    BY DEF IInv, StartLease
  <1>2. CASE pc' = [pc EXCEPT ![n] = "call"]
    <2>1. pc' \in [Nodes -> Locations]
      BY <1>1, <1>2 DEF TypeOK, Locations
    <2>2. pc'[n] = "call" /\ \A m \in Nodes \ {n} : pc'[m] = pc[m]
      BY <1>1, <1>2 DEF TypeOK
    <2>3. UNCHANGED <<raftTerm, count, LLease, health, timer, Leader, history>>
      <3>1. ~Dies(n, "aborted")
        BY <1>1, <2>2 DEF Dies, TypeOK
      <3>2. QED
        BY <3>1 DEF StartLease
    <2>4. \/ UNCHANGED lease
          \/ lease[n] = None /\ lease' = [lease EXCEPT ![n] = "start"]
      <3>1. ~Dies(n, "aborted")
        BY <1>1, <2>2 DEF Dies, TypeOK
      <3>2. QED
        BY <3>1 DEF StartLease
    <2>5. lease' \in [Nodes -> {None, "start", "check", "put", "sleep", "done"}]
      BY <1>1, <2>4 DEF TypeOK
    <2>6. TypeOK'
      BY <1>1, <2>1, <2>3, <2>5 DEF TypeOK
    <2>7. Counted' /\ OwnTerm' /\ LedInOwnTerm'
      BY <1>1, <2>2, <2>3, CountedFrame, TermFrame DEF Past
    <2>8. /\ \A m \in Nodes \ {n} : lease'[m] = lease[m]
          /\ \/ lease'[n] = lease[n]
             \/ lease[n] = None /\ lease'[n] = "start"
      BY <1>1, <2>4 DEF TypeOK
    <2>9. Renewal'
      BY <1>1, <2>2, <2>3, <2>8 DEF Renewal, Alive, None
    <2>10. QED
      BY <2>6, <2>7, <2>9 DEF IInv
  <1>3. CASE pc' # [pc EXCEPT ![n] = "call"]
    <2>1. Dies(n, "aborted")
      BY <1>3 DEF StartLease
    <2>2. faults' \in 0 .. MaxFaults
      BY <1>1 DEF TypeOK
    <2>3. QED
      BY <1>1, <2>1, <2>2, DiesStep
  <1>4. QED
    BY <1>2, <1>3

\* leaderProtocol gets the term by value.
LEMMA CallStep ==
  ASSUME IInv, NEW n \in Nodes, Call(n)
  PROVE  IInv'
  <1> USE DEF raft, key, health, thread
  <1>1. /\ TypeOK /\ Renewal /\ OwnTerm /\ LedInOwnTerm /\ Counted /\ pc[n] = "call"
        /\ under' = [under EXCEPT ![n] = raftTerm[n]]
        /\ pc' = [pc EXCEPT ![n] = "leading"]
        /\ UNCHANGED <<raft, key, raftTerm, count, LLease, health, thread, Leader, mixed>>
    BY DEF IInv, Call
  <1>2. TypeOK'
    <2>1. under' \in [Nodes -> 0 .. term]
      BY <1>1 DEF TypeOK
    <2>2. pc' \in [Nodes -> Locations]
      BY <1>1 DEF TypeOK, Locations
    <2>3. QED
      BY <1>1, <2>1, <2>2 DEF TypeOK
  <1>3. /\ pc'[n] = "leading" /\ under'[n] = raftTerm[n]
        /\ \A m \in Nodes \ {n} : pc'[m] = pc[m] /\ under'[m] = under[m]
    BY <1>1 DEF TypeOK
  <1>4. Counted'
    BY <1>1, <1>3, CountedFrame DEF Past
  <1>5. Renewal'
    BY <1>1, <1>3, RenewalFrame DEF Alive
  <1>6. OwnTerm' /\ LedInOwnTerm'
    BY <1>1, <1>3 DEF OwnTerm, LedInOwnTerm
  <1>7. QED
    BY <1>2, <1>4, <1>5, <1>6 DEF IInv

\* leaderProtocol returns, with a block or without.
LEMMA ReturnStep ==
  ASSUME IInv, NEW n \in Nodes, Return(n)
  PROVE  IInv'
  <1> USE DEF raft, key, health, thread
  <1>1. /\ TypeOK /\ Renewal /\ OwnTerm /\ LedInOwnTerm /\ Counted /\ pc[n] = "leading"
        /\ count' \in {count, [count EXCEPT ![n] = count[n] + 1]}
        /\ under' = [under EXCEPT ![n] = 0] /\ mixed' = [mixed EXCEPT ![n] = FALSE]
        /\ pc' = [pc EXCEPT ![n] = "loop"]
        /\ UNCHANGED <<raft, key, raftTerm, LLease, health, thread, Leader>>
    BY DEF IInv, Return
  <1>2. TypeOK'
    <2>1. count[n] + 1 \in 0 .. BlocksCount
      <3>1. count[n] \in 0 .. BlocksCount /\ count[n] < BlocksCount
        BY <1>1 DEF TypeOK, Counted
      <3>2. QED
        BY <3>1, BoundAssumption
    <2>2. count' \in [Nodes -> 0 .. BlocksCount]
      BY <1>1, <2>1 DEF TypeOK
    <2>3. under' \in [Nodes -> 0 .. term]
      <3>1. term \in Nat
        BY <1>1, BoundAssumption DEF TypeOK
      <3>2. 0 \in 0 .. term
        BY <3>1
      <3>3. QED
        BY <1>1, <3>2 DEF TypeOK
    <2>4. mixed' \in [Nodes -> BOOLEAN]
      BY <1>1 DEF TypeOK
    <2>5. pc' \in [Nodes -> Locations]
      BY <1>1 DEF TypeOK, Locations
    <2>6. QED
      BY <1>1, <2>2, <2>3, <2>4, <2>5 DEF TypeOK
  <1>3. /\ pc'[n] = "loop" /\ under'[n] = 0
        /\ \A m \in Nodes \ {n} : /\ pc'[m] = pc[m] /\ under'[m] = under[m]
                                   /\ mixed'[m] = mixed[m] /\ count'[m] = count[m]
    BY <1>1 DEF TypeOK
  <1>4. Counted'
    BY <1>1, <1>3 DEF Counted
  <1>5. Renewal'
    BY <1>1, <1>3, RenewalFrame DEF Alive
  <1>6. OwnTerm' /\ LedInOwnTerm'
    BY <1>1, <1>3 DEF OwnTerm, LedInOwnTerm
  <1>7. QED
    BY <1>2, <1>4, <1>5, <1>6 DEF IInv

\* The follower's side of the loop, and the wait after it.
LEMMA FollowStep ==
  ASSUME IInv, NEW n \in Nodes, getLeaderID(n) \/ Poll(n) \/ JoinMonitor(n)
  PROVE  IInv'
  <1> USE DEF raft, key, health, thread, history
  <1>1. /\ TypeOK /\ Renewal /\ OwnTerm /\ LedInOwnTerm /\ Counted
        /\ UNCHANGED <<raft, key, raftTerm, count, LLease, health, thread, history>>
    BY DEF IInv, getLeaderID, Poll, JoinMonitor
  <1>2. TypeOK'
    <2>1. Leader' \in [Nodes -> Nodes \cup {None}]
      <3>1. (IF etcdUp THEN CurrentLeader ELSE None) \in Nodes \cup {None}
        BY <1>1 DEF TypeOK
      <3>2. QED
        BY <1>1, <3>1 DEF TypeOK, getLeaderID, Poll, JoinMonitor
    <2>2. pc' \in [Nodes -> Locations]
      BY <1>1 DEF TypeOK, getLeaderID, Poll, JoinMonitor, Locations
    <2>3. QED
      BY <1>1, <2>1, <2>2 DEF TypeOK
  <1>3. /\ \A m \in Nodes \ {n} : pc'[m] = pc[m]
        /\ \/ pc[n] = "getLeader" /\ pc'[n] \in {"loop", "poll"}
           \/ pc[n] = "poll" /\ pc'[n] = "loop"
           \/ pc[n] = "end" /\ pc'[n] = "hang"
    BY <1>1 DEF TypeOK, getLeaderID, Poll, JoinMonitor
  <1>4. Counted' /\ OwnTerm' /\ LedInOwnTerm'
    BY <1>1, <1>3, CountedFrame, TermFrame DEF Past
  <1>5. Renewal'
    BY <1>1, <1>3, RenewalFrame DEF Alive
  <1>6. QED
    BY <1>2, <1>4, <1>5 DEF IInv

-----------------------------------------------------------------------------
\* Every step of a node, of etcd and of time preserves IInv.
LEMMA NextStep ==
  ASSUME IInv, [Next]_vars
  PROVE  IInv'
  <1>1. CASE Elect
    BY <1>1, ElectStep
  <1>2. CASE Outage
    BY <1>2, OutageStep
  <1>3. CASE Tick
    BY <1>3, TickStep
  <1>4. ASSUME NEW n \in Nodes, main(n) PROVE IInv'
    BY <1>4, LoopHeadStep, StartLeaseStep, CallStep, ReturnStep, FollowStep DEF main
  <1>5. ASSUME NEW n \in Nodes, leaderTTL(n) PROVE IInv'
    BY <1>5, LeaseStartStep, LeaseCheckStep, LeasePutStep, LeaseWakeStep DEF leaderTTL
  <1>6. ASSUME NEW n \in Nodes, etcdMonitorFunc(n) \/ redpandaMonitorFunc(n) PROVE IInv'
    BY <1>6, MonitorStep
  <1>7. ASSUME NEW n \in Nodes, Kill(n) PROVE IInv'
    <2>1. faults' \in 0 .. MaxFaults
      BY <1>7, BoundAssumption DEF IInv, TypeOK, Kill
    <2>2. QED
      BY <1>7, <2>1, DiesStep DEF Kill
  <1>8. CASE UNCHANGED vars
    <2> USE <1>8 DEF vars, raft, key, health, thread, history
    <2>1. TypeOK'
      BY DEF IInv, TypeOK
    <2>2. Renewal'
      BY RenewalFrame DEF IInv, Alive
    <2>3. QED
      BY <2>1, <2>2, CountedFrame, TermFrame DEF IInv
  <1>9. QED
    BY <1>1, <1>2, <1>3, <1>4, <1>5, <1>6, <1>7, <1>8 DEF Next

\* IInv is an invariant of the cluster, whatever terms, outages and crashes come.
THEOREM Invariance == Spec => []IInv
  <1>1. IInv /\ [Next]_vars => IInv'
    BY NextStep
  <1>2. QED
    BY InitIInv, <1>1, PTL DEF Spec

\* While etcd answers and renewals come within MaxLag, the key of the last node to
\* put it never vanishes under its running lease thread.
THEOREM LeaseIsHeld == Spec => []LeaseInv
  <1>1. IInv => LeaseInv
    BY DEF IInv, Renewal, LeaseInv, LeaseHeld
  <1>2. QED
    BY Invariance, <1>1, PTL

\* Blocks are written under a term of the writer's own, but for the lease thread's
\* findLeader between main's and leaderProtocol.
THEOREM TermIsOwn == Spec => []LedInOwnTerm
  <1>1. IInv => LedInOwnTerm
    BY DEF IInv
  <1>2. QED
    BY Invariance, <1>1, PTL

-----------------------------------------------------------------------------
(***************************************************************************)
(* StateTree.                                                              *)
(***************************************************************************)

\* What nodes, trees, threads and calls of dfs are.
IsSeq(s)  == s \in Seq(Range(s))
IsNode(n) == n = Node(n.hash, n.value, n.children) /\ IsSeq(n.children)
IsTree(d) == d = [x \in DOMAIN d |-> d[x]] /\ \A x \in DOMAIN d : IsNode(d[x])
IsThread(w, K) ==
  /\ w = [pc |-> w.pc, keys |-> w.keys, level |-> w.level, snap |-> w.snap]
  /\ w.pc \in {"idle", "leaf", "get", "put"} /\ w.keys \in Seq(K)
  /\ w.level \in 0 .. PathLen - 1 /\ IsNode(w.snap)
  /\ IF w.pc = "idle" THEN w = Idle ELSE w.keys # <<>>
IsFrame(f) ==
  /\ f = [key |-> f.key, node |-> f.node, next |-> f.next, hashes |-> f.hashes]
  /\ IsNode(f.node) /\ f.next \in 1 .. Len(f.node.children) + 1
  /\ IsSeq(f.hashes) /\ Len(f.hashes) = f.next - 1

\* The types.
TreeShapes ==
  /\ mode \in Modes /\ ops \in 0 .. Bound
  /\ phase \in {"start", "idle", "insert", "hash", "dfs"}
  /\ db = [s \in Stores |-> db[s]] /\ \A s \in Stores : IsTree(db[s])
  /\ pending \in [DOMAIN pending -> Values] /\ DOMAIN pending \subseteq Keys
  /\ order \in Seq(Keys)
  /\ written = [s \in Stores |-> written[s]] /\ linked = [s \in Stores |-> linked[s]]
  /\ lost = [s \in Stores |-> lost[s]]
  /\ \A s \in Stores : DOMAIN written[s] \subseteq Keys /\ linked[s] \subseteq Keys
  /\ raced \in BOOLEAN /\ overlaid \in BOOLEAN /\ clean \in BOOLEAN /\ torn \in BOOLEAN
ThreadShapes ==
  /\ th = [t \in Threads |-> th[t]] /\ \A t \in Threads : IsThread(th[t], DOMAIN pending)
  /\ phase # "insert" => \A t \in Threads : th[t] = Idle
PhaseShapes ==
  /\ phase \in {"insert", "hash"} /\ mode # "leader" => order # <<>>
  /\ phase = "start" => mode = "serial"
  /\ phase = "dfs" => mode = "library"
  /\ phase = "hash" => mode \notin {"serialTree", "library"}

\* A written key's leaf is in the store and holds the value.
Stored ==
  \A s \in Stores : \A k \in DOMAIN written[s] :
     PathOf[k] \in DOMAIN db[s] /\ db[s][PathOf[k]].value = written[s][k]

\* What a thread has linked so far, and what it has in hand.
Link(k, i)  == <<ParentAt(k, i), ChildAt(k, i)>>
Known(s)    == Pairs(db[s]) \cup lost[s]
BegunBy(w, known) ==
  /\ w.pc \in {"get", "put"} => \A i \in 0 .. w.level - 1 : Link(Head(w.keys), i) \in known
  /\ w.pc = "put" => \A x \in Range(w.snap.children) :
        <<ParentAt(Head(w.keys), w.level), x>> \in Links
          => <<ParentAt(Head(w.keys), w.level), x>> \in known
LinksBegun == \A t \in Threads : BegunBy(th[t], Known(Store))

\* Why a link can be lost, in either store.
LossReasons ==
  /\ mode # "library" => lost["globalState"] = {} \/ raced
  /\ mode = "library" => \A s \in Stores : lost[s] = {} \/ raced \/ overlaid

\* The variants with one thread.
Alone ==
  mode \in OneThread =>
    /\ ~raced /\ \A t \in Threads \ {0} : th[t] = Idle
    /\ th[0].pc = "put" =>
         th[0].snap = getNode(db[Store], ParentAt(Head(th[0].keys), th[0].level))

\* The calls of dfs: nobody else writes the nodes they have read.
Walking ==
  /\ IsSeq(stack) /\ \A i \in DOMAIN stack : IsFrame(stack[i])
  /\ (phase = "dfs") = (stack # <<>>)
  /\ \A i \in DOMAIN stack : /\ stack[i].key \in visited
                             /\ stack[i].node = getNode(db["globalState"], stack[i].key)
  /\ \A i, j \in DOMAIN stack : stack[i].key = stack[j].key => i = j
  /\ \A i \in DOMAIN stack : i + 1 \in DOMAIN stack => /\ stack[i].next \in DOMAIN stack[i].node.children
                                                      /\ stack[i + 1].key = stack[i].node.children[stack[i].next]

\* A leaf exists, and is a child, only once its key was written: duplicateState then
\* overlays no leaf by a node that dfs made up.  The serial node never writes the
\* store it copies from.
IsOwned(n, W) ==
  /\ n.value \in Values \cup {Empty} /\ (n.children = <<>> => \E z : n.hash = Sha(z))
  /\ \A k \in Keys : PathOf[k] \in Range(n.children) => k \in W
Owned(d, W) ==
  /\ \A x \in DOMAIN d : IsOwned(d[x], W)
  /\ \A k \in Keys : PathOf[k] \in DOMAIN d => k \in W
Ownership ==
  /\ mode = "serial" => db["globalState"] = GlobalState(EmptyStore)
  /\ mode = "library" =>
       /\ \A s \in Stores : Owned(db[s], DOMAIN written[s])
       /\ th[0].pc \in {"get", "put"} => Head(th[0].keys) \in DOMAIN written["globalState"]
       /\ \A i \in DOMAIN stack, k \in Keys : stack[i].key = PathOf[k] => k \in DOMAIN written["globalState"]

LinkInv  == InsertLinks /\ LinksBegun /\ LossReasons /\ Alone
TreeIInv == TreeShapes /\ ThreadShapes /\ PhaseShapes /\ Stored /\ LinkInv /\ Walking

-----------------------------------------------------------------------------
(***************************************************************************)
(* Nodes and trees.                                                        *)
(***************************************************************************)
\* Sequences: the empty one, one more element, two of them.
LEMMA SeqEmpty == IsSeq(<<>>) /\ Range(<<>>) = {}
  BY DEF IsSeq, Range

LEMMA SeqAppend ==
  ASSUME NEW s, IsSeq(s), NEW x
  PROVE  /\ IsSeq(Append(s, x)) /\ Range(Append(s, x)) = Range(s) \cup {x}
         /\ Append(s, x) # <<>> /\ Len(Append(s, x)) = Len(s) + 1 /\ Len(s) \in Nat
         /\ DOMAIN s = 1 .. Len(s) /\ DOMAIN Append(s, x) = 1 .. Len(s) + 1
         /\ Append(s, x)[Len(s) + 1] = x /\ \A i \in 1 .. Len(s) : Append(s, x)[i] = s[i]
  <1> DEFINE R == Range(s) \cup {x}
  <1>1. s \in Seq(R)
    BY DEF IsSeq
  <1> HIDE DEF R
  <1>2. x \in R
    BY DEF R
  <1>3. /\ Len(Append(s, x)) = Len(s) + 1 /\ Len(s) \in Nat
        /\ DOMAIN s = 1 .. Len(s) /\ DOMAIN Append(s, x) = 1 .. Len(s) + 1
        /\ Append(s, x)[Len(s) + 1] = x /\ \A i \in 1 .. Len(s) : Append(s, x)[i] = s[i]
    BY <1>1, <1>2
  <1>4. Range(Append(s, x)) = R
    <2>1. Range(Append(s, x)) \subseteq R
      BY <1>3 DEF Range, R
    <2>2. \A i \in 1 .. Len(s) : s[i] \in Range(Append(s, x))
      <3>1. TAKE i \in 1 .. Len(s)
      <3>2. i \in 1 .. Len(s) + 1
        BY <1>3
      <3>3. QED
        BY <1>3, <3>2 DEF Range
    <2>3. x \in Range(Append(s, x))
      <3>1. Len(s) + 1 \in 1 .. Len(s) + 1
        BY <1>3
      <3>2. QED
        BY <1>3, <3>1 DEF Range
    <2>4. QED
      BY <1>3, <2>1, <2>2, <2>3 DEF Range, R
  <1>5. Append(s, x) \in Seq(R)
    BY <1>1, <1>2
  <1>6. Append(s, x) # <<>>
    BY <1>3
  <1>7. QED
    BY <1>3, <1>4, <1>5, <1>6 DEF IsSeq, R

LEMMA SeqShort ==
  ASSUME NEW x, NEW y
  PROVE  /\ IsSeq(<<x>>) /\ IsSeq(<<x, y>>) /\ Range(<<x>>) = {x} /\ Range(<<x, y>>) = {x, y}
         /\ <<x>> # <<>> /\ <<x, y>> # <<>>
  BY DEF IsSeq, Range

\* The store after a Put.
LEMMA PutAt ==
  ASSUME NEW d, NEW pos, NEW n
  PROVE  /\ DOMAIN Put(d, pos, n) = DOMAIN d \cup {pos} /\ Put(d, pos, n)[pos] = n
         /\ \A x \in DOMAIN d \ {pos} : Put(d, pos, n)[x] = d[x]
         /\ Put(d, pos, n) = [x \in DOMAIN Put(d, pos, n) |-> Put(d, pos, n)[x]]
  BY DEF Put

\* The fields of a node.
LEMMA NodeFields ==
  ASSUME NEW h, NEW v, NEW c
  PROVE  Node(h, v, c).hash = h /\ Node(h, v, c).value = v /\ Node(h, v, c).children = c
  BY DEF Node

LEMMA NodeIs ==
  ASSUME NEW h, NEW v, NEW c, IsSeq(c)
  PROVE  IsNode(Node(h, v, c))
  BY NodeFields DEF IsNode

\* A node with another hash, and with another child list.
LEMMA NodeChanged ==
  ASSUME NEW n, IsNode(n), NEW h, NEW c
  PROVE  /\ [n EXCEPT !.hash = h] = Node(h, n.value, n.children)
         /\ [n EXCEPT !.children = c] = Node(n.hash, n.value, c)
  BY DEF IsNode, Node

LEMMA NoNodeIs == IsNode(NoNode) /\ NoNode.children = <<>> /\ NoNode.value = Empty /\ NoNode.hash = Empty
  BY NodeIs, NodeFields, SeqEmpty DEF NoNode

\* Reading a node back: the hash and the value as written, and children, always some.
LEMMA ReadBack ==
  ASSUME NEW n, IsNode(n)
  PROVE  /\ IsNode(deserializeNode(n)) /\ deserializeNode(n).hash = n.hash
         /\ deserializeNode(n).value = n.value /\ deserializeNode(n).children # <<>>
         /\ n.children # <<>> => deserializeNode(n) = n
         /\ n.children = <<>> => deserializeNode(n).children =
              IF n.value = Empty THEN <<n.hash>> ELSE <<n.hash, n.value>>
  <1>1. CASE n.children # <<>>
    BY <1>1 DEF deserializeNode
  <1>2. CASE n.children = <<>>
    <2>1. PICK c : c = IF n.value = Empty THEN <<n.hash>> ELSE <<n.hash, n.value>>
      OBVIOUS
    <2>2. c = <<n.hash>> \o (IF n.value = Empty THEN <<>> ELSE <<n.value>>)
      <3>1. <<n.hash>> \o <<>> = <<n.hash>> /\ <<n.hash>> \o <<n.value>> = <<n.hash, n.value>>
        <4>1. PICK a, b : a = <<n.hash>> /\ b = <<n.value>>
          OBVIOUS
        <4>2. PICK S : S = {n.hash, n.value}
          OBVIOUS
        <4>3. a \in Seq(S) /\ b \in Seq(S) /\ Len(a) = 1 /\ Len(b) = 1 /\ a[1] = n.hash /\ b[1] = n.value
          BY <4>1, <4>2
        <4>4. a \o <<>> = a
          BY <4>3
        <4>5. a \o b \in Seq(S) /\ Len(a \o b) = 2 /\ (a \o b)[1] = n.hash /\ (a \o b)[2] = n.value
          BY <4>3, ConcatProperties
        <4>6. a \o b = <<n.hash, n.value>>
          <5>1. PICK c2 : c2 = <<n.hash, n.value>>
            OBVIOUS
          <5>2. c2 \in Seq(S) /\ Len(c2) = 2 /\ c2[1] = n.hash /\ c2[2] = n.value
            BY <4>2, <5>1
          <5>3. \A i \in 1 .. 2 : (a \o b)[i] = c2[i]
            BY <4>5, <5>2
          <5>4. QED
            BY <4>5, <5>1, <5>2, <5>3, SeqEqual
        <4>7. QED
          BY <4>1, <4>4, <4>6
      <3>2. QED
        BY <2>1, <3>1
    <2>3. IsSeq(c) /\ c # <<>>
      BY <2>1, SeqShort
    <2>4. deserializeNode(n) = Node(n.hash, n.value, c)
      BY <1>2, <2>2, NodeChanged DEF deserializeNode
    <2>5. QED
      BY <1>2, <2>1, <2>3, <2>4, NodeFields, NodeIs
  <1>3. QED
    BY <1>1, <1>2

\* What is read is a node.
LEMMA ReadNode ==
  ASSUME NEW d, IsTree(d), NEW x
  PROVE  /\ IsNode(getNode(d, x))
         /\ x \in DOMAIN d => /\ getNode(d, x).value = d[x].value /\ getNode(d, x).hash = d[x].hash
                              /\ getNode(d, x).children # <<>>
         /\ x \notin DOMAIN d => getNode(d, x) = NoNode
  BY ReadBack, NoNodeIs DEF getNode, IsTree

\* After a Put the other nodes read as before.
LEMMA ReadOther ==
  ASSUME NEW d, NEW pos, NEW n, NEW x, x # pos
  PROVE  getNode(Put(d, pos, n), x) = getNode(d, x)
  <1>1. PICK e : e = Put(d, pos, n)
    OBVIOUS
  <1>2. DOMAIN e = DOMAIN d \cup {pos} /\ \A y \in DOMAIN d \ {pos} : e[y] = d[y]
    BY <1>1 DEF Put
  <1>3. getNode(e, x) = getNode(d, x)
    BY <1>2 DEF getNode
  <1>4. QED
    BY <1>1, <1>3

LEMMA ReadPut ==
  ASSUME NEW d, NEW pos, NEW n
  PROVE  getNode(Put(d, pos, n), pos) = deserializeNode(n)
  <1>1. PICK e : e = Put(d, pos, n)
    OBVIOUS
  <1>2. DOMAIN e = DOMAIN d \cup {pos} /\ e[pos] = n
    BY <1>1 DEF Put
  <1>3. getNode(e, pos) = deserializeNode(n)
    BY <1>2 DEF getNode
  <1>4. QED
    BY <1>1, <1>3

LEMMA PutTree ==
  ASSUME NEW d, IsTree(d), NEW pos, NEW n, IsNode(n)
  PROVE  IsTree(Put(d, pos, n))
  <1>1. PICK e : e = Put(d, pos, n)
    OBVIOUS
  <1>2. /\ DOMAIN e = DOMAIN d \cup {pos} /\ e[pos] = n
        /\ \A y \in DOMAIN d \ {pos} : e[y] = d[y]
        /\ e = [x \in DOMAIN e |-> e[x]]
    BY <1>1 DEF Put
  <1>3. IsTree(e)
    BY <1>2 DEF IsTree
  <1>4. QED
    BY <1>1, <1>3

\* A new store whose nodes hold the same values and at least the same children.
Keeps(d, e) ==
  /\ IsTree(e) /\ DOMAIN d \subseteq DOMAIN e
  /\ \A x \in DOMAIN d : e[x].value = d[x].value
  /\ \A x : Range(getNode(d, x).children) \subseteq Range(getNode(e, x).children)

LEMMA KeepsItself ==
  ASSUME NEW d, IsTree(d)
  PROVE  Keeps(d, d)
  BY DEF Keeps

LEMMA KeepsOn ==
  ASSUME NEW d, NEW e, NEW f, Keeps(d, e), Keeps(e, f)
  PROVE  Keeps(d, f)
  BY DEF Keeps

\* Writing a node back with another hash.
LEMMA KeepsHash ==
  ASSUME NEW d, IsTree(d), NEW pos, NEW h
  PROVE  Keeps(d, Put(d, pos, [getNode(d, pos) EXCEPT !.hash = h]))
  <1>1. PICK n : n = getNode(d, pos)
    OBVIOUS
  <1>2. PICK m : m = [n EXCEPT !.hash = h]
    OBVIOUS
  <1>3. /\ IsNode(n) /\ (pos \in DOMAIN d => n.value = d[pos].value)
        /\ (pos \notin DOMAIN d => n = NoNode) /\ (pos \in DOMAIN d => n.children # <<>>)
    BY <1>1, ReadNode
  <1>4. m = Node(h, n.value, n.children)
    BY <1>2, <1>3, NodeChanged
  <1>5. IsNode(m) /\ m.value = n.value /\ m.children = n.children
    BY <1>3, <1>4, NodeIs, NodeFields DEF IsNode
  <1>6. PICK e : e = Put(d, pos, m)
    OBVIOUS
  <1>7. /\ IsTree(e) /\ DOMAIN e = DOMAIN d \cup {pos} /\ e[pos] = m
        /\ \A x \in DOMAIN d \ {pos} : e[x] = d[x]
    <2>1. IsTree(e)
      BY <1>5, <1>6, PutTree
    <2>2. QED
      BY <1>6, <2>1 DEF Put
  <1>8. Range(getNode(d, pos).children) \subseteq Range(getNode(e, pos).children)
    <2>1. getNode(e, pos) = deserializeNode(m)
      BY <1>6, ReadPut
    <2>2. CASE pos \in DOMAIN d
      BY <1>1, <1>3, <1>5, <2>1, <2>2, ReadBack
    <2>3. CASE pos \notin DOMAIN d
      BY <1>1, <1>3, <2>3, NoNodeIs, SeqEmpty
    <2>4. QED
      BY <2>2, <2>3
  <1>9. \A x : Range(getNode(d, x).children) \subseteq Range(getNode(e, x).children)
    BY <1>6, <1>8, ReadOther
  <1>10. QED
    BY <1>1, <1>2, <1>3, <1>5, <1>6, <1>7, <1>9 DEF Keeps

LEMMA KeepsRehash ==
  ASSUME NEW d, IsTree(d), NEW pos
  PROVE  Keeps(d, Rehash(d, pos))
  BY KeepsHash DEF Rehash

\* A longer tree has at least the same links.
LEMMA KeepsPairs ==
  ASSUME NEW d, NEW e, Keeps(d, e)
  PROVE  Pairs(d) \subseteq Pairs(e)
  BY DEF Keeps, Pairs

\* All the nodes on the paths at once.
LEMMA KeepsNodes ==
  ASSUME NEW d, IsTree(d), NEW keys
  PROVE  Keeps(d, UpdateTreeNodes(d, keys))
  <1> DEFINE onPath == {SubSeq(PathOf[k], 1, i) : k \in keys, i \in 1 .. PathLen}
             new(x) == [getNode(d, x) EXCEPT !.hash = Sha(ConcatHashes(d, getNode(d, x)) \o getNode(d, x).value)]
             put == {x \in onPath : new(x) # getNode(d, x)}
  <1>1. PICK e : e = UpdateTreeNodes(d, keys)
    OBVIOUS
  <1>2. e = [x \in DOMAIN d \cup put |-> IF x \in put THEN new(x) ELSE d[x]]
    BY <1>1 DEF UpdateTreeNodes
  <1>3. \A x : \E h : new(x) = [getNode(d, x) EXCEPT !.hash = h]
    OBVIOUS
  <1> HIDE DEF put, new
  <1>4. \A x \in DOMAIN d \ put : e[x] = d[x]
    BY <1>2
  <1>5. \A x \in put : /\ IsNode(new(x)) /\ new(x).value = getNode(d, x).value
                       /\ new(x).children = getNode(d, x).children
    <2>1. TAKE x \in put
    <2>2. PICK h : new(x) = [getNode(d, x) EXCEPT !.hash = h]
      BY <1>3
    <2>3. IsNode(getNode(d, x))
      BY ReadNode
    <2>4. new(x) = Node(h, getNode(d, x).value, getNode(d, x).children)
      BY <2>2, <2>3, NodeChanged
    <2>5. QED
      BY <2>3, <2>4, NodeIs, NodeFields DEF IsNode
  <1>6. IsTree(e)
    BY <1>2, <1>5 DEF IsTree
  <1>7. \A x \in DOMAIN d : x \in DOMAIN e /\ e[x].value = d[x].value
    BY <1>2, <1>5, ReadNode
  <1>8. ASSUME NEW x PROVE Range(getNode(d, x).children) \subseteq Range(getNode(e, x).children)
    <2>1. CASE x \notin put
      BY <1>2, <1>4, <2>1 DEF getNode
    <2>2. CASE x \in put /\ x \in DOMAIN d
      <3>1. getNode(e, x) = deserializeNode(new(x))
        BY <1>2, <2>2 DEF getNode
      <3>2. getNode(d, x).children # <<>>
        BY <2>2, ReadNode
      <3>3. QED
        BY <1>5, <2>2, <3>1, <3>2, ReadBack
    <2>3. CASE x \notin DOMAIN d
      BY <2>3, ReadNode, NoNodeIs, SeqEmpty
    <2>4. QED
      BY <2>1, <2>2, <2>3
  <1>9. QED
    BY <1>1, <1>6, <1>7, <1>8 DEF Keeps

LEMMA KeepsTree ==
  ASSUME NEW d, IsTree(d), NEW keys
  PROVE  Keeps(d, updateTree(d, keys))
  <1>1. PICK e : e = UpdateTreeNodes(d, keys)
    OBVIOUS
  <1>2. Keeps(d, e) /\ IsTree(e)
    BY <1>1, KeepsNodes DEF Keeps
  <1>3. Keeps(e, Rehash(e, Root))
    BY <1>2, KeepsRehash
  <1>4. updateTree(d, keys) = Rehash(e, Root)
    BY <1>1 DEF updateTree
  <1>5. QED
    BY <1>2, <1>3, <1>4, KeepsOn

\* Induction over the numbers up to N, as a set.
LEMMA UpTo ==
  ASSUME NEW N \in Nat, NEW T, 0 \in T, \A n \in 0 .. N - 1 : n \in T => n + 1 \in T
  PROVE  \A n \in 0 .. N : n \in T
  <1> DEFINE B == {n \in 0 .. N : n \notin T}
  <1>1. SUFFICES ASSUME B # {} PROVE FALSE
    OBVIOUS
  <1> DEFINE U == {0 .. b : b \in B}
  <1>2. \A b \in B : b \in Nat /\ b <= N /\ 0 .. b \in SUBSET (0 .. N) /\ IsFiniteSet(0 .. b)
    BY FS_Interval
  <1>3. U \subseteq FiniteSubsetsOf(0 .. N) /\ U # {}
    BY <1>1, <1>2 DEF FiniteSubsetsOf
  <1>4. PICK s \in U : \A r \in U : <<r, s>> \notin StrictSubsetOrdering(0 .. N)
    <2> HIDE DEF U
    <2> QED
      BY <1>3, FS_StrictSubsetOrderingWellFounded, WFMin
  <1>5. PICK b \in B : s = 0 .. b
    OBVIOUS
  <1>6. b - 1 \in 0 .. N - 1 /\ b - 1 + 1 = b /\ b \in Nat
    OBVIOUS
  <1>7. b - 1 \in T
    <2>1. SUFFICES ASSUME b - 1 \in B PROVE FALSE
      BY <1>6
    <2>2. 0 .. b - 1 \in U /\ 0 .. b - 1 \subseteq s /\ b \in s /\ b \notin 0 .. b - 1
      BY <1>5, <1>6, <2>1
    <2>3. <<0 .. b - 1, s>> \in StrictSubsetOrdering(0 .. N)
      BY <1>2, <1>5, <2>1, <2>2 DEF StrictSubsetOrdering
    <2>4. QED
      BY <1>4, <2>2, <2>3
  <1>8. QED
    BY <1>6, <1>7

\* The stores updateParentHashes passes through, one node written after the other.
PrefixAt(s, i) == IF i = Len(s) THEN Root ELSE SubSeq(s, 1, Len(s) - i)
GoesUp(f, d, s) ==
  /\ f[0] = d /\ \A i \in 1 .. Len(s) : f[i] = Rehash(f[i - 1], PrefixAt(s, i))
  /\ updateParentHashes(d, s) = f[Len(s)]

\* They exist: the recursion is well founded.
LEMMA ParentRun ==
  ASSUME NEW d, NEW s, Len(s) \in Nat
  PROVE  \E f : GoesUp(f, d, s)
  <1> DEFINE N == Len(s)
             After1(n, x) == IF n = 0 THEN d ELSE Rehash(x, PrefixAt(s, n))
             Upto(g, k) == g = [n \in 0 .. k |-> After1(n, g[n - 1])]
             T == {k \in 0 .. N : \E g : Upto(g, k)}
  <1>1. 0 \in T
    <2>1. PICK g : g = [n \in 0 .. 0 |-> d]
      OBVIOUS
    <2>2. DOMAIN g = 0 .. 0 /\ \A n \in 0 .. 0 : g[n] = After1(n, g[n - 1])
      BY <2>1
    <2>3. Upto(g, 0)
      BY <2>1, <2>2
    <2>4. QED
      BY <2>3
  <1>2. ASSUME NEW k \in 0 .. N - 1, k \in T PROVE k + 1 \in T
    <2>1. PICK g : Upto(g, k)
      BY <1>2
    <2>2. PICK h : h = [n \in 0 .. k + 1 |-> IF n = k + 1 THEN After1(k + 1, g[k]) ELSE g[n]]
      OBVIOUS
    <2>3. \A n \in 0 .. k : g[n] = After1(n, g[n - 1])
      BY <2>1
    <2>4. \A n \in 0 .. k + 1 : h[n] = After1(n, h[n - 1])
      <3>1. TAKE n \in 0 .. k + 1
      <3>2. CASE n = 0
        BY <2>2, <2>3, <3>2
      <3>3. CASE n # 0 /\ n \in 0 .. k
        <4>1. h[n] = g[n] /\ h[n - 1] = g[n - 1]
          BY <2>2, <3>3
        <4>2. QED
          BY <2>3, <3>3, <4>1
      <3>4. CASE n = k + 1
        <4>1. h[n] = After1(k + 1, g[k]) /\ h[n - 1] = g[k]
          BY <2>2, <3>4
        <4>2. QED
          BY <3>4, <4>1
      <3>5. QED
        BY <3>2, <3>3, <3>4
    <2>5. Upto(h, k + 1)
      BY <2>2, <2>4
    <2>6. QED
      BY <2>5
  <1>3. N \in T
    <2> HIDE DEF T
    <2> QED
      <3>1. N \in Nat /\ N \in 0 .. N
        OBVIOUS
      <3> HIDE DEF N
      <3>2. \A k \in 0 .. N - 1 : k \in T => k + 1 \in T
        BY <1>2
      <3>3. QED
        BY <1>1, <3>1, <3>2, UpTo
  <1>4. PICK g : Upto(g, N)
    BY <1>3
  <1>5. PICK f : f = CHOOSE h : Upto(h, N)
    OBVIOUS
  <1>6. Upto(f, N)
    <2> HIDE DEF Upto
    <2> QED
      BY <1>4, <1>5
  <1>7. updateParentHashes(d, s) = f[N]
    BY <1>5 DEF updateParentHashes, PrefixAt
  <1>8. \A n \in 0 .. N : f[n] = After1(n, f[n - 1])
    BY <1>6
  <1>9. f[0] = d /\ \A n \in 1 .. N : f[n] = Rehash(f[n - 1], PrefixAt(s, n))
    BY <1>8
  <1>10. QED
    BY <1>7, <1>9 DEF GoesUp

LEMMA KeepsParents ==
  ASSUME NEW d, IsTree(d), NEW s, Len(s) \in Nat
  PROVE  Keeps(d, updateParentHashes(d, s))
  <1>1. PICK f : GoesUp(f, d, s)
    BY ParentRun
  <1> DEFINE T == {i \in 0 .. Len(s) : Keeps(d, f[i])}
  <1>2. 0 \in T
    BY <1>1, KeepsItself DEF GoesUp
  <1>3. ASSUME NEW i \in 0 .. Len(s) - 1, i \in T PROVE i + 1 \in T
    <2>1. f[i + 1] = Rehash(f[i], PrefixAt(s, i + 1))
      <3>1. i + 1 \in 1 .. Len(s) /\ i + 1 - 1 = i
        OBVIOUS
      <3>2. QED
        BY <1>1, <3>1 DEF GoesUp
    <2>2. Keeps(d, f[i]) /\ IsTree(f[i])
      BY <1>3 DEF Keeps
    <2>3. Keeps(f[i], f[i + 1])
      BY <2>1, <2>2, KeepsRehash
    <2>4. Keeps(d, f[i + 1])
      BY <2>2, <2>3, KeepsOn
    <2>5. QED
      BY <2>4
  <1>4. Len(s) \in T
    <2>1. \A i \in 0 .. Len(s) - 1 : i \in T => i + 1 \in T
      BY <1>3
    <2> DEFINE N == Len(s)
    <2>2. N \in Nat /\ N \in 0 .. N
      OBVIOUS
    <2> HIDE DEF T, N
    <2>3. \A i \in 0 .. N - 1 : i \in T => i + 1 \in T
      BY <2>1 DEF N
    <2>4. N \in T
      BY <1>2, <2>2, <2>3, UpTo
    <2>5. QED
      BY <2>4 DEF N
  <1>5. QED
    BY <1>1, <1>4 DEF GoesUp

-----------------------------------------------------------------------------
(***************************************************************************)
(* Paths, and what a write does to the links.                              *)
(***************************************************************************)
\* The prefixes of a path: a node that gets children is never a leaf.
LEMMA PathFacts ==
  ASSUME NEW k \in Keys, NEW i \in 0 .. PathLen - 1
  PROVE  /\ PathOf[k] \in Seq(Chars) /\ Len(PathOf[k]) = 3
         /\ i # 0 => ParentAt(k, i) \in Seq(Chars) /\ Len(ParentAt(k, i)) = i
         /\ Len(ParentAt(k, i)) < 3 /\ (i = 0 => ParentAt(k, i) = Root)
         /\ ChildAt(k, i) \in Seq(Chars) /\ Len(ChildAt(k, i)) = i + 1
         /\ \A j \in Keys : ParentAt(k, i) # PathOf[j]
  <1>1. \A j \in Keys : PathOf[j] \in Seq(Chars) /\ Len(PathOf[j]) = 3
    BY KeysAssumption DEF PathLen
  <1>2. i \in 0 .. 2
    BY DEF PathLen
  <1>3. Len(Root) = 1
    BY DEF Root
  <1>4. i # 0 => ParentAt(k, i) \in Seq(Chars) /\ Len(ParentAt(k, i)) = i
    BY <1>1, <1>2, SubSeqProperties DEF ParentAt
  <1>5. i = 0 => ParentAt(k, i) = Root
    BY DEF ParentAt
  <1>6. ChildAt(k, i) \in Seq(Chars) /\ Len(ChildAt(k, i)) = i + 1
    BY <1>1, <1>2, SubSeqProperties DEF ChildAt
  <1>7. Len(ParentAt(k, i)) < 3
    BY <1>2, <1>3, <1>4, <1>5
  <1>8. \A j \in Keys : ParentAt(k, i) # PathOf[j]
    <2>1. ASSUME NEW j \in Keys, ParentAt(k, i) = PathOf[j] PROVE FALSE
      <3>1. Len(ParentAt(k, i)) = 3
        BY <1>1, <2>1
      <3>2. QED
        BY <1>7, <3>1
    <2>2. QED
      BY <2>1
  <1>9. QED
    BY <1>1, <1>4, <1>5, <1>6, <1>7, <1>8

LEMMA NameFacts ==
  ASSUME NEW k \in Keys
  PROVE  NameOf[k] \in Seq(Chars) /\ Len(NameOf[k]) \in Nat /\ Len(NameOf[k]) > 0
  <1>1. NameOf[k] \in Seq(Chars) /\ Len(NameOf[k]) > 0
    BY KeysAssumption
  <1>2. QED
    BY <1>1

\* The two stores after a write to one of them: no link is forgotten.
LEMMA Wrote ==
  ASSUME TreeShapes, NEW s \in Stores, NEW d, Write(s, d)
  PROVE  /\ db' = [r \in Stores |-> db'[r]] /\ lost' = [r \in Stores |-> lost'[r]]
         /\ db'[s] = d /\ lost'[s] = (lost[s] \cup Pairs(db[s])) \ Pairs(d)
         /\ \A r \in Stores \ {s} : db'[r] = db[r] /\ lost'[r] = lost[r]
         /\ \A r \in Stores : Known(r) \subseteq Known(r)'
  <1>1. db = [r \in Stores |-> db[r]] /\ lost = [r \in Stores |-> lost[r]]
    BY DEF TreeShapes
  <1>2. db' = [db EXCEPT ![s] = d] /\ lost' = [lost EXCEPT ![s] = (@ \cup Pairs(db[s])) \ Pairs(d)]
    BY DEF Write
  <1>3. /\ db' = [r \in Stores |-> db'[r]] /\ lost' = [r \in Stores |-> lost'[r]]
        /\ db'[s] = d /\ lost'[s] = (lost[s] \cup Pairs(db[s])) \ Pairs(d)
        /\ \A r \in Stores \ {s} : db'[r] = db[r] /\ lost'[r] = lost[r]
    BY <1>1, <1>2
  <1>4. ASSUME NEW r \in Stores PROVE Known(r) \subseteq Known(r)'
    <2>1. CASE r = s
      BY <1>3, <2>1 DEF Known
    <2>2. CASE r # s
      BY <1>3, <2>2 DEF Known
    <2>3. QED
      BY <2>1, <2>2
  <1>5. QED
    BY <1>3, <1>4

\* A write that keeps values and children loses nothing.
LEMMA WroteMore ==
  ASSUME TreeShapes, NEW s \in Stores, NEW d, Write(s, d), Keeps(db[s], d)
  PROVE  \A r \in Stores : IsTree(db'[r]) /\ lost'[r] \subseteq lost[r] /\ Keeps(db[r], db'[r])
  <1>1. /\ db'[s] = d /\ lost'[s] = (lost[s] \cup Pairs(db[s])) \ Pairs(d)
        /\ \A r \in Stores \ {s} : db'[r] = db[r] /\ lost'[r] = lost[r]
    BY Wrote
  <1>2. Pairs(db[s]) \subseteq Pairs(d)
    BY KeepsPairs
  <1>3. \A r \in Stores : IsTree(db[r])
    BY DEF TreeShapes
  <1>4. \A r \in Stores : lost'[r] \subseteq lost[r]
    BY <1>1, <1>2
  <1>5. \A r \in Stores : Keeps(db[r], db'[r])
    BY <1>1, <1>3, KeepsItself
  <1>6. QED
    BY <1>4, <1>5 DEF Keeps

\* Written keys stay readable while the leaves stay.
LEMMA StoredStays ==
  ASSUME TreeShapes, Stored, written' = written,
         \A s \in Stores : \A k \in Keys : PathOf[k] \in DOMAIN db[s] =>
            PathOf[k] \in DOMAIN db'[s] /\ db'[s][PathOf[k]].value = db[s][PathOf[k]].value
  PROVE  Stored'
  <1>1. ASSUME NEW s \in Stores, NEW k \in DOMAIN written'[s]
        PROVE  PathOf[k] \in DOMAIN db'[s] /\ db'[s][PathOf[k]].value = written'[s][k]
    <2>1. k \in Keys /\ PathOf[k] \in DOMAIN db[s] /\ db[s][PathOf[k]].value = written[s][k]
      BY DEF TreeShapes, Stored
    <2>2. QED
      BY <2>1
  <1>2. QED
    BY <1>1 DEF Stored

LEMMA KeepsStored ==
  ASSUME TreeShapes, Stored, written' = written, \A s \in Stores : Keeps(db[s], db'[s])
  PROVE  Stored'
  <1>1. ASSUME NEW s \in Stores, NEW k \in Keys, PathOf[k] \in DOMAIN db[s]
        PROVE  PathOf[k] \in DOMAIN db'[s] /\ db'[s][PathOf[k]].value = db[s][PathOf[k]].value
    <2>1. Keeps(db[s], db'[s])
      OBVIOUS
    <2>2. QED
      BY <1>1, <2>1 DEF Keeps
  <1>2. QED
    BY <1>1, StoredStays

\* Linked keys stay linked, or their links known to be lost.
LEMMA LinksStay ==
  ASSUME InsertLinks, linked' = linked, \A s \in Stores : Known(s) \subseteq Known(s)'
  PROVE  InsertLinks'
  <1>1. ASSUME NEW s \in Stores, NEW k \in linked'[s], NEW i \in 0 .. PathLen - 1
        PROVE  <<ParentAt(k, i), ChildAt(k, i)>> \in Known(s)'
    BY DEF InsertLinks, Known
  <1>2. QED
    BY <1>1 DEF InsertLinks, Known

LEMMA BegunStays ==
  ASSUME NEW w, NEW K, NEW L, BegunBy(w, K), K \subseteq L
  PROVE  BegunBy(w, L)
  BY DEF BegunBy

LEMMA IdleBegun ==
  ASSUME NEW w, w.pc \in {"idle", "leaf"}, NEW K
  PROVE  BegunBy(w, K)
  BY DEF BegunBy

\* The variants write one of the two stores.
LEMMA StoreIs == Store \in Stores /\ (mode # "serial" => Store = "globalState")
                 /\ "globalState" \in Stores /\ "globalState_tmp" \in Stores
  BY DEF Store, Stores

LEMMA IdleIs == /\ Idle.pc = "idle" /\ Idle.keys = <<>> /\ Idle.level = 0 /\ Idle.snap = NoNode
                /\ Idle = [pc |-> Idle.pc, keys |-> Idle.keys, level |-> Idle.level, snap |-> Idle.snap]
  BY DEF Idle

\* What a thread with work left is.
LEMMA WorkIs ==
  ASSUME NEW K, NEW keys \in Seq(K)
  PROVE  IsThread(Work(keys), K) /\ Work(keys).pc \in {"idle", "leaf"} /\ Work(keys).level = 0
         /\ Work(keys).keys = keys
  <1>1. 0 \in 0 .. PathLen - 1
    BY DEF PathLen
  <1>2. CASE keys = <<>>
    BY <1>1, <1>2, IdleIs, NoNodeIs DEF Work, IsThread
  <1>3. CASE keys # <<>>
    BY <1>1, <1>3, NoNodeIs DEF Work, IsThread
  <1>4. QED
    BY <1>2, <1>3

-----------------------------------------------------------------------------
(***************************************************************************)
(* The steps.                                                              *)
(***************************************************************************)
\* The first store, and the one after resetTree.
LEMMA FreshTree ==
  /\ IsTree(EmptyStore) /\ DOMAIN EmptyStore = {} /\ IsTree(GlobalState(EmptyStore))
  /\ DOMAIN GlobalState(EmptyStore) = {Root}
  /\ GlobalState(EmptyStore)[Root] = Node(Sha(Empty), Empty, <<>>)
  <1>1. DOMAIN EmptyStore = {} /\ IsTree(EmptyStore)
    BY DEF EmptyStore, IsTree
  <1>2. GlobalState(EmptyStore) = Put(EmptyStore, Root, Node(Sha(Empty), Empty, <<>>))
    BY <1>1 DEF GlobalState
  <1>3. IsNode(Node(Sha(Empty), Empty, <<>>))
    BY SeqEmpty, NodeIs
  <1>4. IsTree(GlobalState(EmptyStore))
    BY <1>1, <1>2, <1>3, PutTree
  <1>5. QED
    BY <1>1, <1>2, <1>4 DEF Put

LEMMA NoPairs == Pairs(EmptyStore) = {}
  <1>1. \A x : getNode(EmptyStore, x) = NoNode
    BY FreshTree DEF getNode
  <1>2. QED
    BY <1>1, NoNodeIs, SeqEmpty DEF Pairs

\* Threads at rest.
LEMMA IdleThread ==
  ASSUME NEW K
  PROVE  IsThread(Idle, K)
  <1>1. <<>> \in Seq(K) /\ 0 \in 0 .. PathLen - 1
    BY DEF PathLen
  <1>2. QED
    BY <1>1, IdleIs, NoNodeIs DEF IsThread

LEMMA TreeInitInv == TreeInit => TreeIInv
  <1>1. SUFFICES ASSUME TreeInit PROVE TreeIInv
    OBVIOUS
  <1>2. Bound \in Nat
    BY BoundsAssumption DEF Bound
  <1>3. \A s \in Stores : IsTree(db[s])
    BY <1>1, FreshTree DEF TreeInit
  <1>4. TreeShapes
    <2>1. pending \in [DOMAIN pending -> Values] /\ DOMAIN pending = {}
      BY <1>1 DEF TreeInit
    <2>2. phase \in {"start", "idle"} /\ ops \in 0 .. Bound /\ order \in Seq(Keys) /\ mode \in Modes
      BY <1>1, <1>2 DEF TreeInit
    <2>5. raced \in BOOLEAN /\ overlaid \in BOOLEAN /\ clean \in BOOLEAN /\ torn \in BOOLEAN
      BY <1>1 DEF TreeInit
    <2>3. /\ db = [s \in Stores |-> db[s]] /\ written = [s \in Stores |-> written[s]]
          /\ linked = [s \in Stores |-> linked[s]] /\ lost = [s \in Stores |-> lost[s]]
          /\ \A s \in Stores : DOMAIN written[s] = {} /\ linked[s] = {}
      BY <1>1 DEF TreeInit
    <2>4. QED
      BY <1>3, <2>1, <2>2, <2>3, <2>5 DEF TreeShapes
  <1>5. ThreadShapes
    <2>1. th = [t \in Threads |-> Idle]
      BY <1>1 DEF TreeInit
    <2>2. QED
      BY <2>1, IdleThread DEF ThreadShapes
  <1>6. PhaseShapes /\ Stored
    BY <1>1 DEF TreeInit, PhaseShapes, Stored
  <1>7. LinkInv
    <2>1. InsertLinks /\ LossReasons
      <3>1. \A s \in Stores : linked[s] = {} /\ lost[s] = {}
        BY <1>1 DEF TreeInit
      <3>2. QED
        BY <3>1, StoreIs DEF InsertLinks, LossReasons
    <2>2. \A t \in Threads : th[t] = Idle
      BY <1>1 DEF TreeInit
    <2>3. LinksBegun
      BY <2>2, IdleIs, IdleBegun DEF LinksBegun
    <2>4. 0 \in Threads
      BY BoundsAssumption DEF Threads
    <2>5. Alone
      BY <1>1, <2>2, <2>4, IdleIs DEF Alone, TreeInit
    <2>6. QED
      BY <2>1, <2>3, <2>5 DEF LinkInv
  <1>8. Walking
    BY <1>1, SeqEmpty DEF TreeInit, Walking
  <1>9. QED
    BY <1>4, <1>5, <1>6, <1>7, <1>8 DEF TreeIInv

\* Steps that write neither store.
LEMMA SameStores ==
  ASSUME TreeIInv, UNCHANGED <<db, written, linked, lost>>
  PROVE  /\ Stored' /\ InsertLinks' /\ \A s \in Stores : Known(s) \subseteq Known(s)'
         /\ db' = [s \in Stores |-> db'[s]] /\ \A s \in Stores : IsTree(db'[s])
         /\ written' = [s \in Stores |-> written'[s]] /\ linked' = [s \in Stores |-> linked'[s]]
         /\ lost' = [s \in Stores |-> lost'[s]]
         /\ \A s \in Stores : DOMAIN written'[s] \subseteq Keys /\ linked'[s] \subseteq Keys
  <1>1. TreeShapes /\ Stored /\ InsertLinks
    BY DEF TreeIInv, LinkInv
  <1>2. Stored' /\ InsertLinks'
    BY <1>1 DEF Stored, InsertLinks
  <1>3. \A s \in Stores : Known(s) \subseteq Known(s)'
    BY DEF Known
  <1>4. QED
    BY <1>1, <1>2, <1>3 DEF TreeShapes

\* Steps after which all threads rest.
LEMMA AllIdle ==
  ASSUME th' = [t \in Threads |-> Idle], mode' = mode, mode \in OneThread => ~raced'
  PROVE  ThreadShapes' /\ LinksBegun' /\ Alone'
  <1>1. \A t \in Threads : th'[t] = Idle
    OBVIOUS
  <1>3. ThreadShapes'
    BY <1>1, IdleThread DEF ThreadShapes
  <1>4. LinksBegun'
    BY <1>1, IdleIs, IdleBegun DEF LinksBegun
  <1>5. 0 \in Threads
    BY BoundsAssumption DEF Threads
  <1>6. Alone'
    BY <1>1, <1>5, IdleIs DEF Alone
  <1>7. QED
    BY <1>3, <1>4, <1>6

\* Outside "insert" all threads rest.
LEMMA RestIs ==
  ASSUME ThreadShapes, phase # "insert"
  PROVE  th = [t \in Threads |-> Idle]
  BY DEF ThreadShapes

\* No call of dfs outside "dfs".
LEMMA WalkingOff ==
  ASSUME Walking, phase # "dfs", phase' # "dfs", UNCHANGED <<stack, visited>>
  PROVE  Walking'
  <1>1. stack = <<>> /\ stack' = <<>>
    BY DEF Walking
  <1>2. DOMAIN stack' = {}
    BY <1>1
  <1>3. QED
    BY <1>1, <1>2, SeqEmpty DEF Walking

\* The keys of a map are a sequence of them.
LEMMA MapOrder ==
  ASSUME NEW ks \in SUBSET Keys, NEW q \in InMapOrder(ks)
  PROVE  q \in Seq(ks) /\ (ks # {} => q # <<>>) /\ Len(q) \in Nat
  <1>1. IsFiniteSet(ks) /\ Cardinality(ks) \in Nat
    BY KeysAssumption, FS_Subset, FS_CardinalityType
  <1>2. q \in [1 .. Cardinality(ks) -> ks]
    BY DEF InMapOrder
  <1>3. q \in Seq(ks) /\ Len(q) = Cardinality(ks)
    BY <1>1, <1>2
  <1>4. ks # {} => Cardinality(ks) # 0
    BY <1>1, FS_EmptySet
  <1>5. QED
    BY <1>1, <1>3, <1>4

\* A chunk is a part of the sequence.
LEMMA ChunkIs ==
  ASSUME NEW S, NEW q \in Seq(S), NEW n \in Nat \ {0}, NEW t \in Nat
  PROVE  Chunk(q, n, t) \in Seq(S)
  <1>1. Len(q) \in Nat /\ \A i \in 1 .. Len(q) : q[i] \in S
    OBVIOUS
  <1>2. PICK size : size = (Len(q) + n - 1) \div n
    OBVIOUS
  <1>3. size \in Nat
    BY <1>1, <1>2
  <1>4. PICK a : a = t * size
    OBVIOUS
  <1>5. a \in Nat
    BY <1>3, <1>4
  <1>6. PICK b : b = Least((t + 1) * size, Len(q))
    OBVIOUS
  <1>7. b \in Int /\ b <= Len(q)
    <2>1. (t + 1) * size \in Int
      BY <1>3
    <2>2. QED
      BY <1>1, <1>6, <2>1 DEF Least
  <1>8. Chunk(q, n, t) = SubSeq(q, a + 1, b)
    BY <1>2, <1>4, <1>6 DEF Chunk
  <1>9. \A i \in a + 1 .. b : q[i] \in S
    BY <1>1, <1>5, <1>7
  <1>10. SubSeq(q, a + 1, b) \in Seq(S)
    BY <1>5, <1>7, <1>9, SubSeqProperties
  <1>11. QED
    BY <1>8, <1>10

\* The threads of a flush: each gets keys of the block, and one alone gets them all.
LEMMA FlushThreads ==
  ASSUME NEW ks \in SUBSET Keys, NEW seq \in InMapOrder(ks), Flush(ks, seq),
         th = [t \in Threads |-> Idle]
  PROVE  /\ th' = [t \in Threads |-> th'[t]]
         /\ \A t \in Threads : \E q \in Seq(ks) : th'[t] = Work(q)
         /\ mode \in OneThread => \A t \in Threads \ {0} : th'[t] = Idle
  <1>1. seq \in Seq(ks)
    BY MapOrder
  <1>2. Work(<<>>) = Idle /\ <<>> \in Seq(ks)
    BY DEF Work
  <1>3. \A t \in Threads : t \in Nat
    BY BoundsAssumption DEF Threads
  <1>4. CASE mode \in {"parallel", "parallelTree"}
    <2>1. flushMapToStateP(seq) /\ mode \notin OneThread
      BY <1>4 DEF Flush, parallelInsertFromMap, OneThread
    <2>2. PICK n \in 1 .. MaxThreads :
            th' = [t \in Threads |-> IF t < n THEN Work(Chunk(seq, n, t)) ELSE Idle]
      BY <2>1 DEF flushMapToStateP
    <2>3. n \in Nat \ {0}
      BY BoundsAssumption
    <2>4. ASSUME NEW t \in Threads PROVE \E q \in Seq(ks) : th'[t] = Work(q)
      <3>1. Chunk(seq, n, t) \in Seq(ks)
        BY <1>1, <1>3, <2>3, ChunkIs
      <3>2. th'[t] = IF t < n THEN Work(Chunk(seq, n, t)) ELSE Idle
        BY <2>2
      <3>3. QED
        BY <1>2, <3>1, <3>2
    <2>5. QED
      BY <2>1, <2>2, <2>4
  <1>5. CASE mode = "leader"
    <2>1. saveData(ks) /\ mode \notin OneThread
      BY <1>5 DEF Flush, OneThread
    <2>2. PICK part \in [Threads -> UNION {InMapOrder(x) : x \in SUBSET ks}] :
            th' = [t \in Threads |-> Work(part[t])]
      BY <2>1 DEF saveData
    <2>3. ASSUME NEW t \in Threads PROVE \E q \in Seq(ks) : th'[t] = Work(q)
      <3>1. PICK x \in SUBSET ks : part[t] \in InMapOrder(x)
        BY <2>2
      <3>2. part[t] \in Seq(x)
        BY <3>1, MapOrder
      <3>3. part[t] \in Seq(ks)
        BY <3>2
      <3>4. QED
        BY <2>2, <3>3
    <2>4. QED
      BY <2>1, <2>2, <2>3
  <1>6. CASE mode \notin {"parallel", "parallelTree", "leader"}
    <2>1. th' = [th EXCEPT ![0] = Work(seq)]
      BY <1>6 DEF Flush, flushMapToStateS
    <2>2. \A t \in Threads : th'[t] = IF t = 0 THEN Work(seq) ELSE Idle
      BY <2>1
    <2>3. QED
      BY <1>1, <1>2, <2>1, <2>2
  <1>7. QED
    BY <1>4, <1>5, <1>6

LEMMA StartFlushStep ==
  ASSUME TreeIInv, StartFlush
  PROVE  TreeIInv'
  <1>1. TreeShapes /\ ThreadShapes /\ PhaseShapes /\ LinkInv /\ Walking
    BY DEF TreeIInv
  <1>2. PICK ks \in SUBSET Keys : \E vs \in [ks -> Values], seq \in InMapOrder(ks) :
          /\ mode # "leader" => ks # {}
          /\ pending' = vs /\ order' = seq /\ Flush(ks, seq)
    BY DEF StartFlush
  <1>3. PICK seq \in InMapOrder(ks) :
          /\ mode # "leader" => ks # {}
          /\ pending' \in [ks -> Values] /\ order' = seq /\ Flush(ks, seq)
    BY <1>2
  <1>4. /\ phase = "idle" /\ ops < Bound /\ phase' = "insert" /\ ops' = ops + 1 /\ clean' = FALSE
        /\ UNCHANGED <<mode, db, stack, visited, written, linked, lost, raced, overlaid, torn>>
    BY DEF StartFlush, walk
  <1>5. UNCHANGED <<db, written, linked, lost>>
    BY <1>4
  <1>6. Bound \in Nat /\ Bound' = Bound
    BY <1>4, BoundsAssumption DEF Bound
  <1>7. DOMAIN pending' = ks
    BY <1>3
  <1>8. seq \in Seq(ks) /\ (ks # {} => seq # <<>>)
    BY MapOrder
  <1>9. TreeShapes'
    <2>1. ops' \in 0 .. Bound'
      BY <1>1, <1>4, <1>6 DEF TreeShapes
    <2>2. order' \in Seq(Keys)
      BY <1>3, <1>8
    <2>3. clean' \in BOOLEAN
      BY <1>4
    <2>4. QED
      BY <1>1, <1>3, <1>4, <1>5, <1>7, <2>1, <2>2, <2>3, SameStores DEF TreeShapes
  <1>10. /\ th' = [t \in Threads |-> th'[t]]
         /\ \A t \in Threads : \E q \in Seq(ks) : th'[t] = Work(q)
         /\ mode \in OneThread => \A t \in Threads \ {0} : th'[t] = Idle
    BY <1>1, <1>3, <1>4, RestIs, FlushThreads
  <1>11. \A t \in Threads : IsThread(th'[t], DOMAIN pending') /\ th'[t].pc \in {"idle", "leaf"}
    <2>1. TAKE t \in Threads
    <2>2. PICK q \in Seq(ks) : th'[t] = Work(q)
      BY <1>10
    <2>3. IsThread(Work(q), ks) /\ Work(q).pc \in {"idle", "leaf"}
      BY WorkIs
    <2>4. QED
      BY <1>7, <2>2, <2>3
  <1>12. ThreadShapes'
    BY <1>4, <1>10, <1>11 DEF ThreadShapes
  <1>13. PhaseShapes'
    BY <1>3, <1>4, <1>8 DEF PhaseShapes
  <1>14. LinkInv'
    <2>1. LinksBegun'
      BY <1>11, IdleBegun DEF LinksBegun
    <2>2. LossReasons'
      BY <1>1, <1>4 DEF LinkInv, LossReasons
    <2>3. Alone'
      <3>1. 0 \in Threads
        BY BoundsAssumption DEF Threads
      <3>2. th'[0].pc # "put"
        BY <1>11, <3>1
      <3>3. mode' = mode /\ (mode \in OneThread => ~raced')
        BY <1>1, <1>4 DEF LinkInv, Alone
      <3>4. QED
        BY <1>10, <3>2, <3>3 DEF Alone
    <2>4. QED
      BY <1>5, <2>1, <2>2, <2>3, SameStores DEF LinkInv
  <1>15. Walking'
    BY <1>1, <1>4, WalkingOff
  <1>16. QED
    BY <1>5, <1>9, <1>12, <1>13, <1>14, <1>15, SameStores DEF TreeIInv

\* A thread at work.
LEMMA AtWork ==
  ASSUME TreeIInv, NEW t \in Threads, th[t].pc # "idle"
  PROVE  /\ phase = "insert" /\ (mode \in OneThread => t = 0)
         /\ IsThread(th[t], DOMAIN pending) /\ th[t].keys # <<>> /\ th[t].keys \in Seq(DOMAIN pending)
         /\ Head(th[t].keys) \in Keys /\ Head(th[t].keys) \in DOMAIN pending
         /\ Tail(th[t].keys) \in Seq(DOMAIN pending)
         /\ th[t].level \in 0 .. PathLen - 1 /\ IsNode(th[t].snap)
         /\ BegunBy(th[t], Known(Store))
         /\ th[t] = [pc |-> th[t].pc, keys |-> th[t].keys, level |-> th[t].level, snap |-> th[t].snap]
  <1>1. ThreadShapes /\ TreeShapes /\ Alone /\ LinksBegun
    BY DEF TreeIInv, LinkInv
  <1>2. th[t] # Idle
    BY IdleIs
  <1>3. phase = "insert" /\ (mode \in OneThread => t = 0)
    BY <1>1, <1>2 DEF ThreadShapes, Alone
  <1>4. IsThread(th[t], DOMAIN pending) /\ BegunBy(th[t], Known(Store)) /\ DOMAIN pending \subseteq Keys
    BY <1>1 DEF ThreadShapes, LinksBegun, TreeShapes
  <1>5. /\ th[t].keys # <<>> /\ th[t].keys \in Seq(DOMAIN pending)
        /\ th[t].level \in 0 .. PathLen - 1 /\ IsNode(th[t].snap)
        /\ th[t] = [pc |-> th[t].pc, keys |-> th[t].keys, level |-> th[t].level, snap |-> th[t].snap]
    BY <1>4 DEF IsThread
  <1>6. Head(th[t].keys) \in DOMAIN pending /\ Tail(th[t].keys) \in Seq(DOMAIN pending)
    BY <1>5, HeadTailProperties
  <1>7. QED
    BY <1>3, <1>4, <1>5, <1>6

\* What is left to show of a step of one thread.
LEMMA OneThreadStep ==
  ASSUME TreeIInv, NEW t \in Threads, th[t].pc # "idle", NEW w, IsThread(w, DOMAIN pending),
         th' = [th EXCEPT ![t] = w],
         UNCHANGED <<mode, phase, pending, order, ops, stack, visited, overlaid, clean, torn>>,
         db' = [s \in Stores |-> db'[s]], \A s \in Stores : IsTree(db'[s]),
         written' = [s \in Stores |-> written'[s]], linked' = [s \in Stores |-> linked'[s]],
         lost' = [s \in Stores |-> lost'[s]],
         \A s \in Stores : DOMAIN written'[s] \subseteq Keys /\ linked'[s] \subseteq Keys,
         raced' \in BOOLEAN, Stored', InsertLinks', LossReasons',
         \A s \in Stores : Known(s) \subseteq Known(s)', BegunBy(w, Known(Store)'),
         mode \in OneThread => /\ ~raced'
                               /\ w.pc = "put" => w.snap = getNode(db'[Store], ParentAt(Head(w.keys), w.level))
  PROVE  TreeIInv'
  <1>1. TreeShapes /\ ThreadShapes /\ PhaseShapes /\ LinkInv /\ Walking
    BY DEF TreeIInv
  <1>2. phase = "insert" /\ (mode \in OneThread => t = 0)
    BY AtWork
  <1>3. th' = [u \in Threads |-> IF u = t THEN w ELSE th[u]]
    BY <1>1 DEF ThreadShapes
  <1>4. Store' = Store /\ Bound' = Bound /\ Store \in Stores
    BY StoreIs DEF Store, Bound
  <1>5. TreeShapes'
    BY <1>1, <1>4 DEF TreeShapes
  <1>6. ThreadShapes'
    BY <1>1, <1>2, <1>3 DEF ThreadShapes
  <1>7. PhaseShapes'
    BY <1>1 DEF PhaseShapes
  <1>8. LinksBegun'
    <2>1. Known(Store)' = Pairs(db'[Store']) \cup lost'[Store']
      BY DEF Known
    <2>2. PICK K, L : K = Known(Store) /\ L = Known(Store)'
      OBVIOUS
    <2>3. K \subseteq L
      BY <1>4, <2>2 DEF Known
    <2>4. ASSUME NEW u \in Threads PROVE BegunBy(th'[u], L)
      <3>1. CASE u = t
        BY <1>3, <2>2, <3>1
      <3>2. CASE u # t
        <4>1. BegunBy(th[u], K)
          BY <1>1, <2>2 DEF LinkInv, LinksBegun
        <4>2. QED
          BY <1>3, <2>3, <3>2, <4>1, BegunStays
      <3>3. QED
        BY <3>1, <3>2
    <2>5. QED
      BY <2>2, <2>4 DEF LinksBegun
  <1>9. Alone'
    <2>1. SUFFICES ASSUME mode \in OneThread
                   PROVE  /\ ~raced' /\ \A u \in Threads \ {0} : th'[u] = Idle
                          /\ th'[0].pc = "put" =>
                               th'[0].snap = getNode(db'[Store'], ParentAt(Head(th'[0].keys), th'[0].level))
      BY DEF Alone
    <2>2. t = 0 /\ \A u \in Threads \ {0} : th[u] = Idle
      BY <1>1, <1>2, <2>1 DEF LinkInv, Alone
    <2>3. th'[0] = w /\ \A u \in Threads \ {0} : th'[u] = Idle
      BY <1>3, <2>2
    <2>4. QED
      BY <1>4, <2>1, <2>3
  <1>10. Walking'
    BY <1>1, <1>2, WalkingOff
  <1>11. QED
    BY <1>5, <1>6, <1>7, <1>8, <1>9, <1>10 DEF TreeIInv, LinkInv

LEMMA GetParentStep ==
  ASSUME TreeIInv, NEW t \in Threads, GetParent(t)
  PROVE  TreeIInv'
  <1>1. PICK k, i : k = Head(th[t].keys) /\ i = th[t].level
    OBVIOUS
  <1>2. PICK n : n = getNode(db[Store], ParentAt(k, i))
    OBVIOUS
  <1>3. /\ th[t].pc = "get" /\ th' = [th EXCEPT ![t].pc = "put", ![t].snap = n]
        /\ UNCHANGED <<mode, db, phase, pending, order, ops, stack, visited,
                       written, linked, lost, raced, overlaid, clean, torn>>
    BY <1>1, <1>2 DEF GetParent, walk
  <1>4. /\ IsThread(th[t], DOMAIN pending) /\ th[t].keys # <<>> /\ BegunBy(th[t], Known(Store))
        /\ th[t] = [pc |-> th[t].pc, keys |-> th[t].keys, level |-> th[t].level, snap |-> th[t].snap]
        /\ th[t].level \in 0 .. PathLen - 1
    BY <1>3, AtWork
  <1>5. PICK w : w = [pc |-> "put", keys |-> th[t].keys, level |-> th[t].level, snap |-> n]
    OBVIOUS
  <1>6. TreeShapes /\ ThreadShapes /\ LossReasons /\ Alone
    BY DEF TreeIInv, LinkInv
  <1>7. th' = [th EXCEPT ![t] = w]
    <2>1. th = [u \in Threads |-> th[u]]
      BY <1>6 DEF ThreadShapes
    <2>2. PICK a : a = th[t]
      OBVIOUS
    <2>3. a = [pc |-> a.pc, keys |-> a.keys, level |-> a.level, snap |-> a.snap]
      BY <1>4, <2>2
    <2>4. [a EXCEPT !.pc = "put", !.snap = n] = [pc |-> "put", keys |-> a.keys, level |-> a.level, snap |-> n]
      <3>1. PICK b : b = [a EXCEPT !.pc = "put"]
        OBVIOUS
      <3>2. b = [pc |-> "put", keys |-> a.keys, level |-> a.level, snap |-> a.snap]
        BY <2>3, <3>1
      <3>3. [b EXCEPT !.snap = n] = [pc |-> "put", keys |-> a.keys, level |-> a.level, snap |-> n]
        BY <3>2
      <3>4. QED
        BY <3>1, <3>3
    <2>5. th' = [th EXCEPT ![t] = [a EXCEPT !.pc = "put", !.snap = n]]
      BY <1>3, <2>1, <2>2
    <2>6. QED
      BY <1>5, <2>2, <2>4, <2>5
  <1>8. IsTree(db[Store]) /\ IsNode(n)
    BY <1>2, <1>6, StoreIs, ReadNode DEF TreeShapes
  <1>9. IsThread(w, DOMAIN pending)
    BY <1>4, <1>5, <1>8 DEF IsThread
  <1>10. UNCHANGED <<db, written, linked, lost>>
    BY <1>3
  <1>11. BegunBy(w, Known(Store)')
    <2>1. Known(Store)' = Known(Store)
      BY <1>3 DEF Known, Store
    <2>2. \A x \in Range(n.children) :
            <<ParentAt(k, i), x>> \in Links => <<ParentAt(k, i), x>> \in Known(Store)
      BY <1>2 DEF Known, Pairs
    <2>3. \A j \in 0 .. w.level - 1 : Link(Head(w.keys), j) \in Known(Store)
      BY <1>3, <1>4, <1>5 DEF BegunBy
    <2>4. QED
      BY <1>1, <1>5, <2>1, <2>2, <2>3 DEF BegunBy
  <1>12. LossReasons'
    BY <1>3, <1>6 DEF LossReasons
  <1>13. mode \in OneThread => ~raced' /\ w.snap = getNode(db'[Store], ParentAt(Head(w.keys), w.level))
    BY <1>1, <1>2, <1>3, <1>5, <1>6 DEF Alone
  <1>14. raced' \in BOOLEAN /\ th[t].pc # "idle"
    BY <1>3, <1>6 DEF TreeShapes
  <1>15. /\ Stored' /\ InsertLinks' /\ \A s \in Stores : Known(s) \subseteq Known(s)'
         /\ db' = [s \in Stores |-> db'[s]] /\ \A s \in Stores : IsTree(db'[s])
         /\ written' = [s \in Stores |-> written'[s]] /\ linked' = [s \in Stores |-> linked'[s]]
         /\ lost' = [s \in Stores |-> lost'[s]]
         /\ \A s \in Stores : DOMAIN written'[s] \subseteq Keys /\ linked'[s] \subseteq Keys
    BY <1>10, SameStores
  <1>16. UNCHANGED <<mode, phase, pending, order, ops, stack, visited, overlaid, clean, torn>>
    BY <1>3
  <1>17. QED
    BY <1>7, <1>9, <1>11, <1>12, <1>13, <1>14, <1>15, <1>16, OneThreadStep

LEMMA LossStays ==
  ASSUME LossReasons, mode' = mode, raced => raced', overlaid => overlaid',
         \A s \in Stores : lost'[s] \subseteq lost[s]
  PROVE  LossReasons'
  BY StoreIs DEF LossReasons

\* A thread's record with other fields.
LEMMA ThreadRecord ==
  ASSUME NEW a, a = [pc |-> a.pc, keys |-> a.keys, level |-> a.level, snap |-> a.snap],
         NEW l, NEW n
  PROVE  /\ [a EXCEPT !.pc = "get", !.level = l] = [pc |-> "get", keys |-> a.keys, level |-> l, snap |-> a.snap]
         /\ [a EXCEPT !.pc = "get", !.level = l, !.snap = n]
              = [pc |-> "get", keys |-> a.keys, level |-> l, snap |-> n]
  <1>1. PICK b : b = [a EXCEPT !.pc = "get"]
    OBVIOUS
  <1>2. b = [pc |-> "get", keys |-> a.keys, level |-> a.level, snap |-> a.snap]
    BY <1>1
  <1>3. PICK c : c = [b EXCEPT !.level = l]
    OBVIOUS
  <1>4. c = [pc |-> "get", keys |-> a.keys, level |-> l, snap |-> a.snap]
    BY <1>2, <1>3
  <1>5. [c EXCEPT !.snap = n] = [pc |-> "get", keys |-> a.keys, level |-> l, snap |-> n]
    BY <1>4
  <1>6. QED
    BY <1>1, <1>3, <1>4, <1>5

\* No link starts at a leaf.
LEMMA LinkStarts ==
  ASSUME NEW p \in Links
  PROVE  \A k \in Keys : p[1] # PathOf[k]
  <1>1. PICK j \in Keys, i \in 0 .. PathLen - 1 : p = <<ParentAt(j, i), ChildAt(j, i)>>
    BY DEF Links
  <1>2. p[1] = ParentAt(j, i)
    BY <1>1
  <1>3. QED
    BY <1>2, PathFacts

LEMMA PutLeafStep ==
  ASSUME TreeIInv, NEW t \in Threads, PutLeaf(t)
  PROVE  TreeIInv'
  <1>1. PICK k, v, n, w : /\ k = Head(th[t].keys) /\ v = pending[k] /\ n = Node(Sha(v), v, <<>>)
                          /\ w = [pc |-> "get", keys |-> th[t].keys, level |-> 0, snap |-> th[t].snap]
    OBVIOUS
  <1>2. PICK d : d = Put(db[Store], PathOf[k], n)
    OBVIOUS
  <1>3. /\ th[t].pc = "leaf" /\ Write(Store, d)
        /\ written' = [written EXCEPT ![Store] = Put(@, k, v)]
        /\ th' = [th EXCEPT ![t].pc = "get", ![t].level = 0]
        /\ UNCHANGED <<mode, phase, pending, order, ops, stack, visited, linked, raced, overlaid, clean, torn>>
    BY <1>1, <1>2 DEF PutLeaf, walk
  <1>4. /\ IsThread(th[t], DOMAIN pending) /\ th[t].keys # <<>> /\ k \in Keys
        /\ th[t] = [pc |-> th[t].pc, keys |-> th[t].keys, level |-> th[t].level, snap |-> th[t].snap]
    BY <1>1, <1>3, AtWork
  <1>5. TreeShapes /\ ThreadShapes /\ LossReasons /\ Alone /\ Stored /\ InsertLinks
    BY DEF TreeIInv, LinkInv
  <1>6. th' = [th EXCEPT ![t] = w]
    <2>1. th = [u \in Threads |-> th[u]]
      BY <1>5 DEF ThreadShapes
    <2>2. PICK a : a = th[t]
      OBVIOUS
    <2>3. [a EXCEPT !.pc = "get", !.level = 0] = [pc |-> "get", keys |-> a.keys, level |-> 0, snap |-> a.snap]
      BY <1>4, <2>2, ThreadRecord
    <2>4. th' = [th EXCEPT ![t] = [a EXCEPT !.pc = "get", !.level = 0]]
      BY <1>3, <2>1, <2>2
    <2>5. QED
      BY <1>1, <2>2, <2>3, <2>4
  <1>7. IsThread(w, DOMAIN pending) /\ w.pc = "get" /\ w.level = 0
    <2>1. 0 \in 0 .. PathLen - 1
      BY DEF PathLen
    <2>2. QED
      BY <1>1, <1>4, <2>1 DEF IsThread
  <1>8. PICK s \in Stores : s = Store
    BY StoreIs
  <1>9. IsTree(db[s]) /\ IsNode(n) /\ n.value = v
    BY <1>1, <1>5, <1>8, SeqEmpty, NodeIs, NodeFields DEF TreeShapes
  <1>10. IsTree(d)
    BY <1>2, <1>8, <1>9, PutTree
  <1>11. /\ db' = [r \in Stores |-> db'[r]] /\ lost' = [r \in Stores |-> lost'[r]]
         /\ db'[s] = d /\ lost'[s] = (lost[s] \cup Pairs(db[s])) \ Pairs(d)
         /\ \A r \in Stores \ {s} : db'[r] = db[r] /\ lost'[r] = lost[r]
         /\ \A r \in Stores : Known(r) \subseteq Known(r)'
    BY <1>3, <1>5, <1>8, Wrote
  <1>12. \A r \in Stores : IsTree(db'[r])
    BY <1>5, <1>10, <1>11 DEF TreeShapes
  <1>13. /\ written' = [r \in Stores |-> written'[r]]
         /\ DOMAIN written'[s] = DOMAIN written[s] \cup {k} /\ written'[s][k] = v
         /\ \A j \in DOMAIN written[s] \ {k} : written'[s][j] = written[s][j]
         /\ \A r \in Stores \ {s} : written'[r] = written[r]
    <2>1. written = [r \in Stores |-> written[r]]
      BY <1>5 DEF TreeShapes
    <2>2. written'[s] = Put(written[s], k, v) /\ \A r \in Stores \ {s} : written'[r] = written[r]
      BY <1>3, <1>8, <2>1
    <2>3. written' = [r \in Stores |-> written'[r]]
      BY <1>3, <1>8, <2>1
    <2>4. QED
      BY <2>2, <2>3 DEF Put
  <1>14. \A r \in Stores : DOMAIN written'[r] \subseteq Keys /\ linked'[r] \subseteq Keys
    BY <1>3, <1>4, <1>5, <1>13 DEF TreeShapes
  <1>15. Stored'
    <2>1. DOMAIN d = DOMAIN db[s] \cup {PathOf[k]} /\ d[PathOf[k]] = n
          /\ \A x \in DOMAIN db[s] \ {PathOf[k]} : d[x] = db[s][x]
      BY <1>2, <1>8 DEF Put
    <2>2. ASSUME NEW r \in Stores, NEW j \in DOMAIN written'[r]
          PROVE  PathOf[j] \in DOMAIN db'[r] /\ db'[r][PathOf[j]].value = written'[r][j]
      <3>1. CASE r # s
        BY <1>5, <1>11, <1>13, <3>1 DEF Stored
      <3>2. CASE r = s /\ j = k
        BY <1>9, <1>11, <1>13, <2>1, <3>2
      <3>3. CASE r = s /\ j # k
        <4>1. j \in DOMAIN written[s] /\ j \in Keys
          BY <1>5, <1>13, <3>3 DEF TreeShapes
        <4>2. PathOf[j] \in DOMAIN db[s] /\ db[s][PathOf[j]].value = written[s][j]
          BY <1>5, <4>1 DEF Stored
        <4>3. PathOf[j] # PathOf[k]
          BY <1>4, <3>3, <4>1, KeysAssumption
        <4>4. QED
          BY <1>11, <1>13, <2>1, <3>3, <4>1, <4>2, <4>3
      <3>4. QED
        BY <3>1, <3>2, <3>3
    <2>3. QED
      BY <2>2 DEF Stored
  <1>16. \A r \in Stores : lost'[r] \subseteq lost[r]
    <2>1. ASSUME NEW p \in Pairs(db[s]) PROVE p \in Pairs(d)
      <3>1. p \in Links /\ p[2] \in Range(getNode(db[s], p[1]).children)
        BY DEF Pairs
      <3>2. p[1] # PathOf[k]
        BY <1>4, <3>1, LinkStarts
      <3>3. getNode(d, p[1]) = getNode(db[s], p[1])
        BY <1>2, <1>8, <3>2, ReadOther
      <3>4. QED
        BY <3>1, <3>3 DEF Pairs
    <2>2. QED
      BY <1>11, <2>1
  <1>17. LossReasons' /\ InsertLinks'
    <2>1. LossReasons'
      BY <1>3, <1>5, <1>16, LossStays
    <2>2. QED
      BY <1>3, <1>5, <1>11, <2>1, LinksStay
  <1>18. BegunBy(w, Known(Store)')
    BY <1>7 DEF BegunBy
  <1>19. (mode \in OneThread => ~raced') /\ raced' \in BOOLEAN /\ th[t].pc # "idle"
    BY <1>3, <1>5 DEF Alone, TreeShapes
  <1>20. linked' = [r \in Stores |-> linked'[r]]
    BY <1>3, <1>5 DEF TreeShapes
  <1>21. UNCHANGED <<mode, phase, pending, order, ops, stack, visited, overlaid, clean, torn>>
    BY <1>3
  <1>22. w.pc # "put"
    BY <1>7
  <1>23. QED
    BY <1>6, <1>7, <1>11, <1>12, <1>13, <1>14, <1>15, <1>17, <1>18, <1>19, <1>20, <1>21, <1>22, OneThreadStep

\* The parent's new node.
LEMMA ChildAdded ==
  ASSUME NEW d, IsTree(d), NEW p, NEW n, IsNode(n), NEW c
  PROVE  /\ IsNode(AddChild(n, c)) /\ IsTree(Put(d, p, AddChild(n, c)))
         /\ getNode(Put(d, p, AddChild(n, c)), p) = AddChild(n, c)
         /\ Range(AddChild(n, c).children) = Range(n.children) \cup {c}
         /\ AddChild(n, c).hash = n.hash /\ AddChild(n, c).value = n.value
  <1>1. PICK q : q = Append(n.children, c)
    OBVIOUS
  <1>2. IsSeq(q) /\ Range(q) = Range(n.children) \cup {c} /\ q # <<>>
    BY <1>1, SeqAppend DEF IsNode
  <1>3. PICK m : m = AddChild(n, c)
    OBVIOUS
  <1>4. m = Node(n.hash, n.value, q)
    BY <1>1, <1>3, NodeChanged DEF AddChild
  <1>5. IsNode(m) /\ m.children = q /\ m.hash = n.hash /\ m.value = n.value
    BY <1>2, <1>4, NodeIs, NodeFields
  <1>6. IsTree(Put(d, p, m))
    BY <1>5, PutTree
  <1>7. getNode(Put(d, p, m), p) = m
    <2>1. getNode(Put(d, p, m), p) = deserializeNode(m)
      BY ReadPut
    <2>2. deserializeNode(m) = m
      BY <1>2, <1>5, ReadBack
    <2>3. QED
      BY <2>1, <2>2
  <1>8. QED
    BY <1>2, <1>3, <1>5, <1>6, <1>7

\* What PutParent writes, for the node n it has read.
Linking(d, p, n, c) == IF c \in Range(n.children) THEN d ELSE Put(d, p, AddChild(n, c))

LEMMA LinkingFacts ==
  ASSUME NEW d, IsTree(d), NEW p, NEW n, IsNode(n), NEW c
  PROVE  /\ IsTree(Linking(d, p, n, c))
         /\ c \notin Range(n.children) => c \in Range(getNode(Linking(d, p, n, c), p).children)
         /\ \A x \in DOMAIN d \ {p} : x \in DOMAIN Linking(d, p, n, c) /\ Linking(d, p, n, c)[x] = d[x]
         /\ n = getNode(d, p) => Pairs(d) \subseteq Pairs(Linking(d, p, n, c))
  <1>1. CASE c \in Range(n.children)
    BY <1>1 DEF Linking
  <1>2. CASE c \notin Range(n.children)
    <2>1. PICK e : e = Linking(d, p, n, c)
      OBVIOUS
    <2>2. e = Put(d, p, AddChild(n, c))
      BY <1>2, <2>1 DEF Linking
    <2>3. IsTree(e) /\ Range(getNode(e, p).children) = Range(n.children) \cup {c}
      BY <2>2, ChildAdded
    <2>4. \A x \in DOMAIN d \ {p} : x \in DOMAIN e /\ e[x] = d[x]
      BY <2>2 DEF Put
    <2>5. ASSUME n = getNode(d, p), NEW q \in Pairs(d) PROVE q \in Pairs(e)
      <3>1. q \in Links /\ q[2] \in Range(getNode(d, q[1]).children)
        BY DEF Pairs
      <3>2. CASE q[1] = p
        BY <2>3, <2>5, <3>1, <3>2 DEF Pairs
      <3>3. CASE q[1] # p
        <4>1. getNode(e, q[1]) = getNode(d, q[1])
          BY <2>2, <3>3, ReadOther
        <4>2. QED
          BY <3>1, <4>1 DEF Pairs
      <3>4. QED
        BY <3>2, <3>3
    <2>6. QED
      BY <2>1, <2>3, <2>4, <2>5
  <1>3. QED
    BY <1>1, <1>2

LEMMA PutParentStep ==
  ASSUME TreeIInv, NEW t \in Threads, PutParent(t)
  PROVE  TreeIInv'
  <1>1. PICK k, i, n : k = Head(th[t].keys) /\ i = th[t].level /\ n = th[t].snap
    OBVIOUS
  <1>2. PICK p, c : p = ParentAt(k, i) /\ c = ChildAt(k, i)
    OBVIOUS
  <1>3. PICK d, e, w :
          /\ d = Linking(db[Store], p, n, c)
          /\ e = IF i + 1 = PathLen /\ mode = "serialTree" THEN updateParentHashes(d, PathOf[k]) ELSE d
          /\ w = IF i + 1 = PathLen THEN Work(Tail(th[t].keys))
                 ELSE [th[t] EXCEPT !.pc = "get", !.level = i + 1, !.snap = NoNode]
    OBVIOUS
  <1>4. /\ th[t].pc = "put" /\ Write(Store, e)
        /\ raced' = (raced \/ (c \notin Range(n.children) /\ n # getNode(db[Store], p)))
        /\ linked' = IF i + 1 = PathLen THEN [linked EXCEPT ![Store] = @ \cup {k}] ELSE linked
        /\ th' = [th EXCEPT ![t] = w]
        /\ UNCHANGED <<mode, phase, pending, order, ops, stack, visited, written, overlaid, clean, torn>>
    BY <1>1, <1>2, <1>3 DEF PutParent, Linking, walk
  <1>5. /\ IsThread(th[t], DOMAIN pending) /\ th[t].keys # <<>> /\ k \in Keys
        /\ th[t] = [pc |-> th[t].pc, keys |-> th[t].keys, level |-> th[t].level, snap |-> th[t].snap]
        /\ Tail(th[t].keys) \in Seq(DOMAIN pending) /\ th[t].keys \in Seq(DOMAIN pending)
        /\ i \in 0 .. PathLen - 1 /\ IsNode(n) /\ BegunBy(th[t], Known(Store))
        /\ (mode \in OneThread => t = 0)
    BY <1>1, <1>4, AtWork
  <1>6. TreeShapes /\ ThreadShapes /\ LossReasons /\ Alone /\ Stored /\ InsertLinks
    BY DEF TreeIInv, LinkInv
  <1>7. PICK s \in Stores : s = Store
    BY StoreIs
  <1>8. IsTree(db[s])
    BY <1>6 DEF TreeShapes
  <1>9. /\ IsTree(d) /\ (c \notin Range(n.children) => c \in Range(getNode(d, p).children))
        /\ \A x \in DOMAIN db[s] \ {p} : x \in DOMAIN d /\ d[x] = db[s][x]
        /\ (n = getNode(db[s], p) => Pairs(db[s]) \subseteq Pairs(d))
    BY <1>3, <1>5, <1>7, <1>8, LinkingFacts
  <1>10. Keeps(d, e)
    <2>1. Len(PathOf[k]) \in Nat
      BY <1>5, PathFacts
    <2>2. QED
      BY <1>3, <1>9, <2>1, KeepsItself, KeepsParents
  <1>11. /\ db' = [r \in Stores |-> db'[r]] /\ lost' = [r \in Stores |-> lost'[r]]
         /\ db'[s] = e /\ lost'[s] = (lost[s] \cup Pairs(db[s])) \ Pairs(e)
         /\ \A r \in Stores \ {s} : db'[r] = db[r] /\ lost'[r] = lost[r]
         /\ \A r \in Stores : Known(r) \subseteq Known(r)'
    BY <1>4, <1>6, <1>7, Wrote
  <1>12. Pairs(d) \subseteq Pairs(e) /\ IsTree(e)
    BY <1>10, KeepsPairs DEF Keeps
  <1>13. \A r \in Stores : IsTree(db'[r])
    BY <1>6, <1>11, <1>12 DEF TreeShapes
  <1>14. PICK K, L : K = Known(s) /\ L = Known(s)'
    OBVIOUS
  <1>15. K \subseteq L /\ L = Pairs(e) \cup lost'[s] /\ L = Known(Store)'
    <2>1. Store' = Store
      BY <1>4 DEF Store
    <2>2. Known(Store)' = Pairs(db'[Store']) \cup lost'[Store']
      BY DEF Known
    <2>3. Known(s)' = Pairs(db'[s]) \cup lost'[s]
      BY DEF Known
    <2>4. K \subseteq L
      BY <1>11, <1>14
    <2>5. QED
      BY <1>7, <1>11, <1>14, <2>1, <2>2, <2>3, <2>4
  <1>16. Link(k, i) \in L
    <2>1. <<p, c>> = Link(k, i) /\ <<p, c>> \in Links
      BY <1>2, <1>5 DEF Link, Links
    <2>2. CASE c \in Range(n.children)
      <3>1. <<p, c>> \in K
        BY <1>1, <1>2, <1>4, <1>5, <1>7, <1>14, <2>1, <2>2 DEF BegunBy
      <3>2. QED
        BY <1>15, <2>1, <3>1
    <2>3. CASE c \notin Range(n.children)
      <3>1. <<p, c>>[1] = p /\ <<p, c>>[2] = c
        OBVIOUS
      <3>2. <<p, c>> \in Pairs(d)
        BY <1>9, <2>1, <2>3, <3>1 DEF Pairs
      <3>3. QED
        BY <1>12, <1>15, <2>1, <3>2
    <2>4. QED
      BY <2>2, <2>3
  <1>17. \A j \in 0 .. i : Link(k, j) \in L
    <2>1. \A j \in 0 .. i - 1 : Link(k, j) \in K
      BY <1>1, <1>4, <1>5, <1>7, <1>14 DEF BegunBy
    <2>2. i \in Int
      BY <1>5 DEF PathLen
    <2>3. QED
      BY <1>15, <1>16, <2>1, <2>2
  <1>18. linked' = [r \in Stores |-> linked'[r]] /\ linked'[s] \subseteq linked[s] \cup {k}
         /\ (i + 1 # PathLen => linked'[s] = linked[s]) /\ \A r \in Stores \ {s} : linked'[r] = linked[r]
    BY <1>4, <1>6, <1>7 DEF TreeShapes
  <1>19. InsertLinks'
    <2>1. ASSUME NEW r \in Stores, NEW q \in linked'[r], NEW j \in 0 .. PathLen - 1
          PROVE  Link(q, j) \in Known(r)'
      <3>1. CASE q \in linked[r]
        BY <1>6, <1>11, <3>1 DEF InsertLinks, Known, Link
      <3>2. CASE q \notin linked[r]
        <4>1. r = s /\ q = k /\ i + 1 = PathLen
          BY <1>18, <3>2
        <4>2. j \in 0 .. i
          BY <1>5, <4>1 DEF PathLen
        <4>3. QED
          BY <1>14, <1>17, <4>1, <4>2
      <3>3. QED
        BY <3>1, <3>2
    <2>2. QED
      BY <2>1 DEF InsertLinks, Known, Link
  <1>20. LossReasons'
    <2>1. CASE raced'
      BY <2>1, <1>4, <1>6 DEF LossReasons
    <2>2. CASE ~raced'
      <3>1. Pairs(db[s]) \subseteq Pairs(d)
        <4>1. CASE c \in Range(n.children)
          BY <1>3, <1>7, <4>1 DEF Linking
        <4>2. CASE c \notin Range(n.children)
          <5>1. n = getNode(db[s], p)
            BY <1>4, <1>7, <2>2, <4>2
          <5>2. QED
            BY <1>9, <5>1
        <4>3. QED
          BY <4>1, <4>2
      <3>2. \A r \in Stores : lost'[r] \subseteq lost[r]
        BY <1>11, <1>12, <3>1
      <3>3. raced => raced'
        BY <1>4
      <3>4. QED
        BY <1>4, <1>6, <3>2, <3>3, LossStays
    <2>3. QED
      BY <2>1, <2>2
  <1>21. Stored'
    <2>1. ASSUME NEW r \in Stores, NEW j \in Keys, PathOf[j] \in DOMAIN db[r]
          PROVE  PathOf[j] \in DOMAIN db'[r] /\ db'[r][PathOf[j]].value = db[r][PathOf[j]].value
      <3>1. CASE r # s
        BY <1>11, <2>1, <3>1
      <3>2. CASE r = s
        <4>1. PathOf[j] # p
          BY <1>2, <1>5, PathFacts
        <4>2. PathOf[j] \in DOMAIN d /\ d[PathOf[j]] = db[s][PathOf[j]]
          BY <1>9, <2>1, <3>2, <4>1
        <4>3. QED
          BY <1>10, <1>11, <3>2, <4>2 DEF Keeps
      <3>3. QED
        BY <3>1, <3>2
    <2>2. QED
      BY <1>4, <1>6, <2>1, StoredStays
  <1>22. IsThread(w, DOMAIN pending) /\ w.pc # "put" /\ BegunBy(w, L)
    <2>1. CASE i + 1 = PathLen
      <3>1. w = Work(Tail(th[t].keys))
        BY <1>3, <2>1
      <3>2. IsThread(w, DOMAIN pending) /\ w.pc \in {"idle", "leaf"}
        BY <1>5, <3>1, WorkIs
      <3>3. QED
        BY <3>2, IdleBegun
    <2>2. CASE i + 1 # PathLen
      <3>1. w = [pc |-> "get", keys |-> th[t].keys, level |-> i + 1, snap |-> NoNode]
        BY <1>3, <1>5, <2>2, ThreadRecord
      <3>2. i + 1 \in 0 .. PathLen - 1 /\ i + 1 - 1 = i
        BY <1>5, <2>2 DEF PathLen
      <3>3. IsThread(w, DOMAIN pending)
        BY <1>5, <3>1, <3>2, NoNodeIs DEF IsThread
      <3>4. w.pc = "get" /\ w.level - 1 = i /\ Head(w.keys) = k
        <4>1. w.pc = "get" /\ w.level = i + 1 /\ w.keys = th[t].keys
          BY <3>1
        <4>2. Head(w.keys) = k
          BY <1>1, <4>1, Zenon
        <4>3. w.level - 1 = i
          <5>1. i \in Int
            BY <1>5 DEF PathLen
          <5>2. QED
            BY <4>1, <5>1
        <4>4. QED
          BY <4>1, <4>2, <4>3
      <3>5. QED
        BY <1>17, <3>3, <3>4 DEF BegunBy
    <2>3. QED
      BY <2>1, <2>2
  <1>23. mode \in OneThread => ~raced'
    <2>1. SUFFICES ASSUME mode \in OneThread PROVE ~raced'
      OBVIOUS
    <2>2. t = 0 /\ ~raced
      BY <1>5, <1>6, <2>1 DEF Alone
    <2>3. n = getNode(db[Store], p)
      BY <1>1, <1>2, <1>4, <1>6, <2>1, <2>2 DEF Alone
    <2>4. QED
      BY <1>4, <2>2, <2>3
  <1>24. raced' \in BOOLEAN /\ th[t].pc # "idle"
    BY <1>4
  <1>25. \A r \in Stores : DOMAIN written'[r] \subseteq Keys /\ linked'[r] \subseteq Keys
    BY <1>4, <1>5, <1>6, <1>18 DEF TreeShapes
  <1>26. written' = [r \in Stores |-> written'[r]]
    BY <1>4, <1>6 DEF TreeShapes
  <1>27. UNCHANGED <<mode, phase, pending, order, ops, stack, visited, overlaid, clean, torn>>
    BY <1>4
  <1>28. BegunBy(w, Known(Store)')
    BY <1>15, <1>22
  <1>29. QED
    BY <1>4, <1>11, <1>13, <1>18, <1>19, <1>20, <1>21, <1>22, <1>23, <1>24, <1>25, <1>26, <1>27, <1>28,
       OneThreadStep

\* What is left to show of a step after which all threads rest.
LEMMA RestStep ==
  ASSUME TreeIInv, th' = [t \in Threads |-> Idle], mode' = mode, raced' = raced, ops' \in 0 .. Bound,
         phase' \in {"start", "idle", "insert", "hash", "dfs"},
         pending' \in [DOMAIN pending' -> Values], DOMAIN pending' \subseteq Keys, order' \in Seq(Keys),
         db' = [s \in Stores |-> db'[s]], \A s \in Stores : IsTree(db'[s]),
         written' = [s \in Stores |-> written'[s]], linked' = [s \in Stores |-> linked'[s]],
         lost' = [s \in Stores |-> lost'[s]],
         \A s \in Stores : DOMAIN written'[s] \subseteq Keys /\ linked'[s] \subseteq Keys,
         overlaid' \in BOOLEAN, clean' \in BOOLEAN, torn' \in BOOLEAN,
         PhaseShapes', Stored', InsertLinks', LossReasons', Walking'
  PROVE  TreeIInv'
  <1>1. TreeShapes /\ Alone
    BY DEF TreeIInv, LinkInv
  <1>2. Bound' = Bound
    BY DEF Bound
  <1>3. TreeShapes'
    BY <1>1, <1>2 DEF TreeShapes
  <1>4. mode \in OneThread => ~raced'
    BY <1>1 DEF Alone
  <1>5. ThreadShapes' /\ LinksBegun' /\ Alone'
    BY <1>4, AllIdle
  <1>6. QED
    BY <1>3, <1>5 DEF TreeIInv, LinkInv

\* The end of a flush.
LEMMA NothingPending ==
  ASSUME EndFlush
  PROVE  /\ pending' \in [DOMAIN pending' -> Values] /\ DOMAIN pending' \subseteq Keys
         /\ order' \in Seq(Keys) /\ phase' = "idle" /\ clean' \in BOOLEAN
  <1>1. phase' = "idle" /\ order' = <<>> /\ pending' = [k \in {} |-> Empty] /\ clean' = (mode # "library")
    BY DEF EndFlush
  <1>2. DOMAIN pending' = {} /\ order' \in Seq(Keys)
    BY <1>1
  <1>3. pending' \in [DOMAIN pending' -> Values]
    BY <1>1, <1>2
  <1>4. QED
    BY <1>1, <1>2, <1>3

LEMMA JoinStep ==
  ASSUME TreeIInv, Join
  PROVE  TreeIInv'
  <1>1. TreeShapes /\ ThreadShapes /\ PhaseShapes /\ LossReasons /\ Walking
    BY DEF TreeIInv, LinkInv
  <1>2. /\ phase = "insert" /\ \A t \in Threads : th[t] = Idle
        /\ UNCHANGED <<mode, db, th, ops, stack, visited, written, linked, lost, raced, overlaid, torn>>
        /\ IF mode \in {"serialTree", "library"} THEN EndFlush
           ELSE phase' = "hash" /\ UNCHANGED <<pending, order, clean>>
    BY DEF Join, walk
  <1>3. th' = [t \in Threads |-> Idle]
    BY <1>1, <1>2 DEF ThreadShapes
  <1>4. UNCHANGED <<db, written, linked, lost>>
    BY <1>2
  <1>5. LossReasons'
    BY <1>1, <1>2 DEF LossReasons
  <1>6. ops' \in 0 .. Bound /\ overlaid' \in BOOLEAN /\ torn' \in BOOLEAN
    BY <1>1, <1>2 DEF TreeShapes
  <1>7. /\ pending' \in [DOMAIN pending' -> Values] /\ DOMAIN pending' \subseteq Keys
        /\ order' \in Seq(Keys) /\ phase' \in {"idle", "hash"} /\ clean' \in BOOLEAN /\ PhaseShapes'
    <2>1. CASE mode \in {"serialTree", "library"}
      <3>1. /\ pending' \in [DOMAIN pending' -> Values] /\ DOMAIN pending' \subseteq Keys
            /\ order' \in Seq(Keys) /\ phase' = "idle" /\ clean' \in BOOLEAN
        BY <1>2, <2>1, NothingPending
      <3>2. PhaseShapes'
        BY <3>1 DEF PhaseShapes
      <3>3. QED
        BY <3>1, <3>2
    <2>2. CASE mode \notin {"serialTree", "library"}
      <3>1. phase' = "hash" /\ UNCHANGED <<pending, order, clean>>
        BY <1>2, <2>2
      <3>2. PhaseShapes'
        BY <1>1, <1>2, <2>2, <3>1 DEF PhaseShapes
      <3>3. QED
        BY <1>1, <3>1, <3>2 DEF TreeShapes
    <2>3. QED
      BY <2>1, <2>2
  <1>8. Walking'
    BY <1>1, <1>2, <1>7, WalkingOff
  <1>9. /\ Stored' /\ InsertLinks' /\ db' = [s \in Stores |-> db'[s]] /\ \A s \in Stores : IsTree(db'[s])
        /\ written' = [s \in Stores |-> written'[s]] /\ linked' = [s \in Stores |-> linked'[s]]
        /\ lost' = [s \in Stores |-> lost'[s]]
        /\ \A s \in Stores : DOMAIN written'[s] \subseteq Keys /\ linked'[s] \subseteq Keys
    BY <1>4, SameStores
  <1>10. QED
    BY <1>2, <1>3, <1>5, <1>6, <1>7, <1>8, <1>9, RestStep

LEMMA UpdateHashesStep ==
  ASSUME TreeIInv, UpdateHashes
  PROVE  TreeIInv'
  <1>1. TreeShapes /\ ThreadShapes /\ PhaseShapes /\ LossReasons /\ Walking /\ Stored /\ InsertLinks
    BY DEF TreeIInv, LinkInv
  <1>2. phase = "hash" /\ UNCHANGED <<mode, th, ops, stack, visited, written, linked, raced, overlaid, torn>>
    BY DEF UpdateHashes, walk
  <1>3. PICK s \in Stores : s = Store
    BY StoreIs
  <1>4. IsTree(db[s])
    BY <1>1 DEF TreeShapes
  <1>5. PICK e : /\ Write(s, e) /\ Keeps(db[s], e)
                 /\ \/ EndFlush
                    \/ /\ mode # "leader" /\ order # <<>> /\ Len(order) # 1
                       /\ order' = Tail(order) /\ UNCHANGED <<phase, pending, clean>>
    <2>1. CASE mode = "leader"
      <3>1. Write(s, updateTree(db[s], Range(order))) /\ EndFlush
        BY <1>3, <2>1 DEF UpdateHashes
      <3>2. Keeps(db[s], updateTree(db[s], Range(order)))
        BY <1>4, KeepsTree
      <3>3. QED
        BY <3>1, <3>2
    <2>2. CASE mode # "leader"
      <3>1. order # <<>> /\ order \in Seq(Keys)
        BY <1>1, <1>2, <2>2 DEF PhaseShapes, TreeShapes
      <3>2. Head(order) \in Keys
        BY <3>1, HeadTailProperties
      <3>3. Len(NameOf[Head(order)]) \in Nat
        BY <3>2, NameFacts
      <3>4. Keeps(db[s], updateParentHashes(db[s], NameOf[Head(order)]))
        BY <1>4, <3>3, KeepsParents
      <3>5. Write(s, updateParentHashes(db[s], NameOf[Head(order)]))
        BY <1>3, <2>2 DEF UpdateHashes
      <3>6. \/ EndFlush
            \/ Len(order) # 1 /\ order' = Tail(order) /\ UNCHANGED <<phase, pending, clean>>
        BY <2>2 DEF UpdateHashes
      <3>7. QED
        BY <2>2, <3>1, <3>4, <3>5, <3>6
    <2>3. QED
      BY <2>1, <2>2
  <1>6. /\ db' = [r \in Stores |-> db'[r]] /\ lost' = [r \in Stores |-> lost'[r]]
        /\ \A r \in Stores : Known(r) \subseteq Known(r)'
    BY <1>1, <1>5, Wrote
  <1>7. \A r \in Stores : IsTree(db'[r]) /\ lost'[r] \subseteq lost[r] /\ Keeps(db[r], db'[r])
    BY <1>1, <1>5, WroteMore
  <1>8. Stored' /\ InsertLinks' /\ LossReasons'
    <2>1. Stored'
      BY <1>1, <1>2, <1>7, KeepsStored
    <2>2. InsertLinks'
      BY <1>1, <1>2, <1>6, LinksStay
    <2>3. LossReasons'
      BY <1>1, <1>2, <1>7, LossStays
    <2>4. QED
      BY <2>1, <2>2, <2>3
  <1>9. /\ pending' \in [DOMAIN pending' -> Values] /\ DOMAIN pending' \subseteq Keys
        /\ order' \in Seq(Keys) /\ phase' \in {"idle", "hash"} /\ clean' \in BOOLEAN /\ PhaseShapes'
    <2>1. CASE EndFlush
      <3>1. /\ pending' \in [DOMAIN pending' -> Values] /\ DOMAIN pending' \subseteq Keys
            /\ order' \in Seq(Keys) /\ phase' = "idle" /\ clean' \in BOOLEAN
        BY <2>1, NothingPending
      <3>2. PhaseShapes'
        BY <3>1 DEF PhaseShapes
      <3>3. QED
        BY <3>1, <3>2
    <2>2. CASE /\ mode # "leader" /\ order # <<>> /\ Len(order) # 1
               /\ order' = Tail(order) /\ UNCHANGED <<phase, pending, clean>>
      <3>1. order \in Seq(Keys)
        BY <1>1 DEF TreeShapes
      <3>2. order' \in Seq(Keys) /\ Len(order') = Len(order) - 1 /\ Len(order) \in Nat /\ Len(order) # 0
        BY <2>2, <3>1, HeadTailProperties
      <3>3. order' # <<>>
        <4>1. Len(order) # 1
          BY <2>2
        <4>2. Len(order') # 0
          BY <3>2, <4>1
        <4>3. Len(<<>>) = 0
          OBVIOUS
        <4>4. QED
          BY <4>2, <4>3
      <3>4. PhaseShapes'
        BY <1>1, <1>2, <2>2, <3>3 DEF PhaseShapes
      <3>5. QED
        BY <1>1, <1>2, <2>2, <3>2, <3>4 DEF TreeShapes
    <2>3. QED
      BY <1>5, <2>1, <2>2
  <1>10. Walking'
    BY <1>1, <1>2, <1>9, WalkingOff
  <1>11. th' = [t \in Threads |-> Idle]
    BY <1>1, <1>2, RestIs
  <1>12. /\ written' = [r \in Stores |-> written'[r]] /\ linked' = [r \in Stores |-> linked'[r]]
         /\ \A r \in Stores : DOMAIN written'[r] \subseteq Keys /\ linked'[r] \subseteq Keys
         /\ ops' \in 0 .. Bound /\ overlaid' \in BOOLEAN /\ torn' \in BOOLEAN
    BY <1>1, <1>2 DEF TreeShapes
  <1>13. QED
    BY <1>2, <1>6, <1>7, <1>8, <1>9, <1>10, <1>11, <1>12, RestStep

LEMMA CrashStep ==
  ASSUME TreeIInv, Crash
  PROVE  TreeIInv'
  <1>1. TreeShapes /\ ThreadShapes /\ PhaseShapes /\ LossReasons /\ Walking
    BY DEF TreeIInv, LinkInv
  <1>2. /\ mode # "library" /\ torn' = (torn \/ phase # "idle")
        /\ phase' = (IF mode = "serial" THEN "start" ELSE "idle")
        /\ pending' = [k \in {} |-> Empty] /\ order' = <<>> /\ th' = [t \in Threads |-> Idle]
        /\ UNCHANGED <<mode, db, ops, stack, visited, written, linked, lost, raced, overlaid, clean>>
    BY DEF Crash, walk
  <1>3. UNCHANGED <<db, written, linked, lost>>
    BY <1>2
  <1>4. LossReasons'
    BY <1>1, <1>2 DEF LossReasons
  <1>5. ops' \in 0 .. Bound /\ overlaid' \in BOOLEAN /\ clean' \in BOOLEAN
    BY <1>1, <1>2 DEF TreeShapes
  <1>6. torn' \in BOOLEAN
    BY <1>2
  <1>7. /\ DOMAIN pending' = {} /\ order' \in Seq(Keys) /\ phase' \in {"start", "idle"} /\ PhaseShapes'
    BY <1>2 DEF PhaseShapes
  <1>8. pending' \in [DOMAIN pending' -> Values]
    BY <1>2, <1>7
  <1>9. Walking'
    BY <1>1, <1>2, <1>7, WalkingOff DEF PhaseShapes
  <1>10. /\ Stored' /\ InsertLinks' /\ db' = [s \in Stores |-> db'[s]] /\ \A s \in Stores : IsTree(db'[s])
         /\ written' = [s \in Stores |-> written'[s]] /\ linked' = [s \in Stores |-> linked'[s]]
         /\ lost' = [s \in Stores |-> lost'[s]]
         /\ \A s \in Stores : DOMAIN written'[s] \subseteq Keys /\ linked'[s] \subseteq Keys
    BY <1>3, SameStores
  <1>11. QED
    BY <1>2, <1>4, <1>5, <1>6, <1>7, <1>8, <1>9, <1>10, RestStep

LEMMA resetTreeStep ==
  ASSUME TreeIInv, resetTree
  PROVE  TreeIInv'
  <1>1. TreeShapes /\ ThreadShapes /\ PhaseShapes /\ LossReasons /\ Walking /\ Stored /\ InsertLinks
    BY DEF TreeIInv, LinkInv
  <1>2. /\ phase = "idle" /\ ops < Bound
        /\ db' = [db EXCEPT !["globalState"] = GlobalState(EmptyStore)]
        /\ written' = [written EXCEPT !["globalState"] = [k \in {} |-> Empty]]
        /\ linked' = [linked EXCEPT !["globalState"] = {}]
        /\ lost' = [lost EXCEPT !["globalState"] = {}]
        /\ ops' = ops + 1 /\ clean' = TRUE /\ torn' = FALSE
        /\ UNCHANGED <<mode, phase, pending, order, th, stack, visited, raced, overlaid>>
    BY DEF resetTree, walk
  <1>3. th' = [t \in Threads |-> Idle]
    BY <1>1, <1>2, RestIs
  <1>4. /\ db' = [s \in Stores |-> db'[s]] /\ written' = [s \in Stores |-> written'[s]]
        /\ linked' = [s \in Stores |-> linked'[s]] /\ lost' = [s \in Stores |-> lost'[s]]
        /\ db'["globalState"] = GlobalState(EmptyStore) /\ DOMAIN written'["globalState"] = {}
        /\ linked'["globalState"] = {} /\ lost'["globalState"] = {}
        /\ \A s \in Stores \ {"globalState"} : /\ db'[s] = db[s] /\ written'[s] = written[s]
                                               /\ linked'[s] = linked[s] /\ lost'[s] = lost[s]
    BY <1>1, <1>2, StoreIs DEF TreeShapes
  <1>5. \A s \in Stores : IsTree(db'[s]) /\ DOMAIN written'[s] \subseteq Keys /\ linked'[s] \subseteq Keys
    BY <1>1, <1>4, FreshTree DEF TreeShapes
  <1>6. Stored' /\ InsertLinks' /\ LossReasons'
    <2>1. Stored'
      BY <1>1, <1>4 DEF Stored
    <2>2. InsertLinks'
      BY <1>1, <1>4 DEF InsertLinks
    <2>3. LossReasons'
      BY <1>1, <1>2, <1>4 DEF LossReasons
    <2>4. QED
      BY <2>1, <2>2, <2>3
  <1>7. ops' \in 0 .. Bound
    <2>1. Bound \in Nat /\ ops \in 0 .. Bound
      BY <1>1, BoundsAssumption DEF TreeShapes, Bound
    <2>2. QED
      BY <1>2, <2>1
  <1>8. clean' \in BOOLEAN /\ torn' \in BOOLEAN /\ overlaid' \in BOOLEAN
    BY <1>1, <1>2 DEF TreeShapes
  <1>9. /\ pending' \in [DOMAIN pending' -> Values] /\ DOMAIN pending' \subseteq Keys /\ order' \in Seq(Keys)
        /\ phase' \in {"idle"} /\ PhaseShapes'
    BY <1>1, <1>2 DEF TreeShapes, PhaseShapes
  <1>10. Walking'
    BY <1>1, <1>2, WalkingOff
  <1>11. QED
    BY <1>2, <1>3, <1>4, <1>5, <1>6, <1>7, <1>8, <1>9, <1>10, RestStep

\* The copy: the source's nodes over the target's.
LEMMA OverAt ==
  ASSUME NEW d, NEW e
  PROVE  /\ DOMAIN Over(d, e) = DOMAIN d \cup DOMAIN e
         /\ \A x \in DOMAIN d : Over(d, e)[x] = d[x]
         /\ \A x \in DOMAIN e \ DOMAIN d : Over(d, e)[x] = e[x]
         /\ Over(d, e) = [x \in DOMAIN Over(d, e) |-> Over(d, e)[x]]
  BY DEF Over

LEMMA OverReads ==
  ASSUME NEW d, IsTree(d), NEW e, IsTree(e)
  PROVE  /\ IsTree(Over(d, e)) /\ Pairs(d) \subseteq Pairs(Over(d, e))
         /\ (\A x \in DOMAIN d \cap DOMAIN e : d[x] = e[x]) => Pairs(e) \subseteq Pairs(Over(d, e))
  <1>1. PICK f : f = Over(d, e)
    OBVIOUS
  <1>2. /\ DOMAIN f = DOMAIN d \cup DOMAIN e /\ \A x \in DOMAIN d : f[x] = d[x]
        /\ \A x \in DOMAIN e \ DOMAIN d : f[x] = e[x]
        /\ f = [x \in DOMAIN f |-> f[x]]
    BY <1>1 DEF Over
  <1>3. IsTree(f)
    BY <1>2 DEF IsTree
  <1>4. Pairs(d) \subseteq Pairs(f)
    <2>1. ASSUME NEW x PROVE Range(getNode(d, x).children) \subseteq Range(getNode(f, x).children)
      <3>1. CASE x \in DOMAIN d
        BY <1>2, <3>1 DEF getNode
      <3>2. CASE x \notin DOMAIN d
        BY <3>2, ReadNode, NoNodeIs, SeqEmpty
      <3>3. QED
        BY <3>1, <3>2
    <2>2. QED
      BY <2>1 DEF Pairs
  <1>5. ASSUME \A x \in DOMAIN d \cap DOMAIN e : d[x] = e[x] PROVE Pairs(e) \subseteq Pairs(f)
    <2>1. ASSUME NEW x PROVE Range(getNode(e, x).children) \subseteq Range(getNode(f, x).children)
      <3>1. CASE x \in DOMAIN e
        <4>1. f[x] = e[x] /\ x \in DOMAIN f
          BY <1>2, <1>5, <3>1
        <4>2. QED
          BY <3>1, <4>1 DEF getNode
      <3>2. CASE x \notin DOMAIN e
        BY <3>2, ReadNode, NoNodeIs, SeqEmpty
      <3>3. QED
        BY <3>1, <3>2
    <2>2. QED
      BY <2>1 DEF Pairs
  <1>6. QED
    BY <1>1, <1>3, <1>4, <1>5

LEMMA Duplicated ==
  ASSUME TreeIInv, Ownership, mode \in {"serial", "library"}, mode' = mode, raced' = raced, duplicateState
  PROVE  /\ db' = [s \in Stores |-> db'[s]] /\ written' = [s \in Stores |-> written'[s]]
         /\ linked' = [s \in Stores |-> linked'[s]] /\ lost' = [s \in Stores |-> lost'[s]]
         /\ \A s \in Stores : IsTree(db'[s]) /\ DOMAIN written'[s] \subseteq Keys /\ linked'[s] \subseteq Keys
         /\ overlaid' \in BOOLEAN /\ Stored' /\ InsertLinks' /\ LossReasons'
         /\ db'["globalState"] = db["globalState"] /\ written'["globalState"] = written["globalState"]
         /\ db'["globalState_tmp"] = Over(db["globalState"], db["globalState_tmp"])
         /\ DOMAIN written'["globalState_tmp"] = DOMAIN written["globalState"] \cup DOMAIN written["globalState_tmp"]
  <1>1. TreeShapes /\ Stored /\ InsertLinks /\ LossReasons
    BY DEF TreeIInv, LinkInv
  <1>2. PICK g, t : g = "globalState" /\ t = "globalState_tmp"
    OBVIOUS
  <1>3. g \in Stores /\ t \in Stores /\ g # t /\ Stores = {g, t}
    BY <1>2 DEF Stores
  <1>4. PICK new : new = Over(db[g], db[t])
    OBVIOUS
  <1>5. PICK wr : wr = Over(written[g], written[t])
    OBVIOUS
  <1>6. /\ db' = [db EXCEPT ![t] = new] /\ written' = [written EXCEPT ![t] = wr]
        /\ linked' = [linked EXCEPT ![t] = @ \cup linked[g]]
        /\ lost' = [lost EXCEPT ![t] = (@ \cup Pairs(db[t]) \cup lost[g]) \ Pairs(new)]
        /\ overlaid' = (overlaid \/ \E x \in DOMAIN db[g] \cap DOMAIN db[t] : db[g][x] # db[t][x])
    <2>1. written' = [written EXCEPT ![t] = Over(written[g], @)]
      BY <1>2 DEF duplicateState
    <2>2. written = [s \in Stores |-> written[s]]
      BY <1>1 DEF TreeShapes
    <2>3. written' = [written EXCEPT ![t] = wr]
      BY <1>3, <1>5, <2>1, <2>2
    <2>4. QED
      BY <1>2, <1>4, <2>3 DEF duplicateState
  <1>7. /\ db' = [s \in Stores |-> db'[s]] /\ written' = [s \in Stores |-> written'[s]]
        /\ linked' = [s \in Stores |-> linked'[s]] /\ lost' = [s \in Stores |-> lost'[s]]
        /\ db'[g] = db[g] /\ written'[g] = written[g] /\ linked'[g] = linked[g] /\ lost'[g] = lost[g]
        /\ db'[t] = new /\ written'[t] = wr /\ linked'[t] = linked[t] \cup linked[g]
        /\ lost'[t] = (lost[t] \cup Pairs(db[t]) \cup lost[g]) \ Pairs(new)
    BY <1>1, <1>3, <1>6 DEF TreeShapes
  <1>8. IsTree(db[g]) /\ IsTree(db[t])
    BY <1>1, <1>3 DEF TreeShapes
  <1>9. IsTree(new) /\ Pairs(db[g]) \subseteq Pairs(new)
        /\ ((\A x \in DOMAIN db[g] \cap DOMAIN db[t] : db[g][x] = db[t][x]) => Pairs(db[t]) \subseteq Pairs(new))
    BY <1>4, <1>8, OverReads
  <1>10. /\ DOMAIN new = DOMAIN db[g] \cup DOMAIN db[t] /\ \A x \in DOMAIN db[g] : new[x] = db[g][x]
         /\ \A x \in DOMAIN db[t] \ DOMAIN db[g] : new[x] = db[t][x]
    BY <1>4 DEF Over
  <1>11. /\ DOMAIN wr = DOMAIN written[g] \cup DOMAIN written[t]
         /\ \A k \in DOMAIN written[g] : wr[k] = written[g][k]
         /\ \A k \in DOMAIN written[t] \ DOMAIN written[g] : wr[k] = written[t][k]
    BY <1>5 DEF Over
  <1>12. \A s \in Stores : IsTree(db'[s]) /\ DOMAIN written'[s] \subseteq Keys /\ linked'[s] \subseteq Keys
    BY <1>1, <1>3, <1>7, <1>8, <1>9, <1>11 DEF TreeShapes
  <1>13. \A k \in Keys : PathOf[k] \in DOMAIN db[g] => k \in DOMAIN written[g]
    <2>1. CASE mode = "library"
      BY <1>3, <2>1 DEF Ownership, Owned
    <2>2. CASE mode = "serial"
      <3>1. DOMAIN db[g] = {Root}
        BY <1>2, <2>2, FreshTree DEF Ownership
      <3>2. \A k \in Keys : PathOf[k] # Root
        <4>1. Len(Root) = 1
          BY DEF Root
        <4>2. \A k \in Keys : Len(PathOf[k]) = 3
          BY KeysAssumption DEF PathLen
        <4>3. QED
          BY <4>1, <4>2
      <3>3. QED
        BY <3>1, <3>2
    <2>3. QED
      BY <2>1, <2>2
  <1>14. Stored'
    <2>1. ASSUME NEW s \in Stores, NEW k \in DOMAIN written'[s]
          PROVE  PathOf[k] \in DOMAIN db'[s] /\ db'[s][PathOf[k]].value = written'[s][k]
      <3>1. CASE s = g
        BY <1>1, <1>7, <3>1 DEF Stored
      <3>2. CASE s = t /\ k \in DOMAIN written[g]
        <4>1. PathOf[k] \in DOMAIN db[g] /\ db[g][PathOf[k]].value = written[g][k]
          BY <1>1, <1>3, <3>2 DEF Stored
        <4>2. QED
          BY <1>7, <1>10, <1>11, <3>2, <4>1
      <3>3. CASE s = t /\ k \notin DOMAIN written[g]
        <4>1. k \in DOMAIN written[t] /\ k \in Keys
          BY <1>1, <1>7, <1>11, <3>3 DEF TreeShapes
        <4>2. PathOf[k] \in DOMAIN db[t] /\ db[t][PathOf[k]].value = written[t][k]
          BY <1>1, <1>3, <4>1 DEF Stored
        <4>3. PathOf[k] \notin DOMAIN db[g]
          BY <1>13, <3>3, <4>1
        <4>4. QED
          BY <1>7, <1>10, <1>11, <3>3, <4>1, <4>2, <4>3
      <3>4. QED
        BY <1>3, <3>1, <3>2, <3>3
    <2>2. QED
      BY <2>1 DEF Stored
  <1>15. InsertLinks'
    <2>1. ASSUME NEW s \in Stores, NEW k \in linked'[s], NEW i \in 0 .. PathLen - 1
          PROVE  <<ParentAt(k, i), ChildAt(k, i)>> \in Pairs(db'[s]) \cup lost'[s]
      <3>1. CASE s = g
        BY <1>1, <1>7, <3>1 DEF InsertLinks
      <3>2. CASE s = t
        <4>1. k \in linked[g] \/ k \in linked[t]
          BY <1>7, <3>2
        <4>2. <<ParentAt(k, i), ChildAt(k, i)>> \in Pairs(db[g]) \cup lost[g] \cup Pairs(db[t]) \cup lost[t]
          BY <1>1, <1>3, <4>1 DEF InsertLinks
        <4>3. QED
          BY <1>7, <1>9, <3>2, <4>2
      <3>3. QED
        BY <1>3, <3>1, <3>2
    <2>2. QED
      BY <2>1 DEF InsertLinks
  <1>16. LossReasons'
    <2>1. CASE mode = "library"
      <3>1. \A s \in Stores : lost[s] = {} \/ raced \/ overlaid
        BY <1>1, <2>1 DEF LossReasons
      <3>2. overlaid \/ overlaid' \/ Pairs(db[t]) \subseteq Pairs(new)
        BY <1>6, <1>9
      <3>3. overlaid => overlaid'
        BY <1>6
      <3>4. \A s \in Stores : lost'[s] = {} \/ raced' \/ overlaid'
        BY <1>3, <1>7, <3>1, <3>2, <3>3
      <3>5. QED
        BY <2>1, <3>4 DEF LossReasons
    <2>2. CASE mode # "library"
      BY <1>1, <1>2, <1>7, <2>2 DEF LossReasons
    <2>3. QED
      BY <2>1, <2>2
  <1>17. overlaid' \in BOOLEAN
    BY <1>6
  <1>18. QED
    BY <1>2, <1>4, <1>7, <1>11, <1>12, <1>14, <1>15, <1>16, <1>17

LEMMA StartStep ==
  ASSUME TreeIInv, Ownership, Start
  PROVE  TreeIInv'
  <1>1. TreeShapes /\ ThreadShapes /\ PhaseShapes /\ Walking
    BY DEF TreeIInv
  <1>2. /\ phase = "start" /\ duplicateState /\ phase' = "idle"
        /\ UNCHANGED <<mode, pending, order, th, ops, stack, visited, raced, clean, torn>>
    BY DEF Start, walk
  <1>3. mode \in {"serial", "library"}
    BY <1>1, <1>2 DEF PhaseShapes
  <1>4. th' = [t \in Threads |-> Idle]
    BY <1>1, <1>2, RestIs
  <1>5. /\ db' = [s \in Stores |-> db'[s]] /\ written' = [s \in Stores |-> written'[s]]
        /\ linked' = [s \in Stores |-> linked'[s]] /\ lost' = [s \in Stores |-> lost'[s]]
        /\ \A s \in Stores : IsTree(db'[s]) /\ DOMAIN written'[s] \subseteq Keys /\ linked'[s] \subseteq Keys
        /\ overlaid' \in BOOLEAN /\ Stored' /\ InsertLinks' /\ LossReasons'
    BY <1>2, <1>3, Duplicated
  <1>6. /\ pending' \in [DOMAIN pending' -> Values] /\ DOMAIN pending' \subseteq Keys /\ order' \in Seq(Keys)
        /\ ops' \in 0 .. Bound /\ clean' \in BOOLEAN /\ torn' \in BOOLEAN
    BY <1>1, <1>2 DEF TreeShapes
  <1>7. PhaseShapes'
    BY <1>2 DEF PhaseShapes
  <1>8. Walking'
    BY <1>1, <1>2, WalkingOff
  <1>9. QED
    BY <1>2, <1>4, <1>5, <1>6, <1>7, <1>8, RestStep

\* Opening a database adds at most the root.
LEMMA Opened ==
  ASSUME NEW d, IsTree(d)
  PROVE  Keeps(d, GlobalState(d)) /\ Root \in DOMAIN GlobalState(d)
  <1>1. CASE Root \in DOMAIN d
    BY <1>1, KeepsItself DEF GlobalState
  <1>2. CASE Root \notin DOMAIN d
    <2>1. PICK n : n = Node(Sha(Empty), Empty, <<>>)
      OBVIOUS
    <2>2. PICK e : e = Put(d, Root, n)
      OBVIOUS
    <2>3. GlobalState(d) = e
      BY <1>2, <2>1, <2>2 DEF GlobalState
    <2>4. IsTree(e)
      BY <2>1, <2>2, SeqEmpty, NodeIs, PutTree
    <2>5. DOMAIN e = DOMAIN d \cup {Root} /\ \A x \in DOMAIN d : e[x] = d[x]
      BY <1>2, <2>2 DEF Put
    <2>6. ASSUME NEW x PROVE Range(getNode(d, x).children) \subseteq Range(getNode(e, x).children)
      <3>1. CASE x \in DOMAIN d
        BY <2>5, <3>1 DEF getNode
      <3>2. CASE x \notin DOMAIN d
        BY <3>2, ReadNode, NoNodeIs, SeqEmpty
      <3>3. QED
        BY <3>1, <3>2
    <2>7. QED
      BY <2>3, <2>4, <2>5, <2>6 DEF Keeps
  <1>3. QED
    BY <1>1, <1>2

LEMMA Replaced ==
  ASSUME TreeIInv, mode = "library", mode' = mode, raced' = raced, overlaid' = overlaid, replaceWith
  PROVE  /\ db' = [s \in Stores |-> db'[s]] /\ written' = [s \in Stores |-> written'[s]]
         /\ linked' = [s \in Stores |-> linked'[s]] /\ lost' = [s \in Stores |-> lost'[s]]
         /\ \A s \in Stores : IsTree(db'[s]) /\ DOMAIN written'[s] \subseteq Keys /\ linked'[s] \subseteq Keys
         /\ Stored' /\ InsertLinks' /\ LossReasons'
         /\ db'["globalState"] = GlobalState(db["globalState_tmp"]) /\ db'["globalState_tmp"] = EmptyStore
         /\ written'["globalState"] = written["globalState_tmp"] /\ DOMAIN written'["globalState_tmp"] = {}
  <1>1. TreeShapes /\ Stored /\ InsertLinks /\ LossReasons
    BY DEF TreeIInv, LinkInv
  <1>2. PICK g, t : g = "globalState" /\ t = "globalState_tmp"
    OBVIOUS
  <1>3. g \in Stores /\ t \in Stores /\ g # t /\ Stores = {g, t}
    BY <1>2 DEF Stores
  <1>4. PICK new, none : new = GlobalState(db[t]) /\ none = [k \in {} |-> Empty]
    OBVIOUS
  <1>5. /\ db' = [db EXCEPT ![g] = new, ![t] = EmptyStore] /\ written' = [written EXCEPT ![g] = written[t], ![t] = none]
        /\ linked' = [linked EXCEPT ![g] = linked[t], ![t] = {}] /\ lost' = [lost EXCEPT ![g] = lost[t], ![t] = {}]
    BY <1>2, <1>4 DEF replaceWith
  <1>6. /\ db' = [s \in Stores |-> db'[s]] /\ written' = [s \in Stores |-> written'[s]]
        /\ linked' = [s \in Stores |-> linked'[s]] /\ lost' = [s \in Stores |-> lost'[s]]
        /\ db'[g] = new /\ written'[g] = written[t] /\ linked'[g] = linked[t] /\ lost'[g] = lost[t]
        /\ db'[t] = EmptyStore /\ written'[t] = none /\ linked'[t] = {} /\ lost'[t] = {}
    BY <1>1, <1>3, <1>5 DEF TreeShapes
  <1>7. DOMAIN none = {}
    BY <1>4
  <1>8. Keeps(db[t], new) /\ IsTree(db[t])
    BY <1>1, <1>3, <1>4, Opened DEF TreeShapes
  <1>9. IsTree(new) /\ Pairs(db[t]) \subseteq Pairs(new)
    BY <1>8, KeepsPairs DEF Keeps
  <1>10. \A s \in Stores : IsTree(db'[s]) /\ DOMAIN written'[s] \subseteq Keys /\ linked'[s] \subseteq Keys
    BY <1>1, <1>3, <1>6, <1>7, <1>9, FreshTree DEF TreeShapes
  <1>11. Stored'
    <2>1. ASSUME NEW s \in Stores, NEW k \in DOMAIN written'[s]
          PROVE  PathOf[k] \in DOMAIN db'[s] /\ db'[s][PathOf[k]].value = written'[s][k]
      <3>1. s = g
        BY <1>3, <1>6, <1>7
      <3>2. PathOf[k] \in DOMAIN db[t] /\ db[t][PathOf[k]].value = written[t][k]
        BY <1>1, <1>3, <1>6, <3>1 DEF Stored
      <3>3. QED
        BY <1>6, <1>8, <3>1, <3>2 DEF Keeps
    <2>2. QED
      BY <2>1 DEF Stored
  <1>12. InsertLinks'
    <2>1. ASSUME NEW s \in Stores, NEW k \in linked'[s], NEW i \in 0 .. PathLen - 1
          PROVE  <<ParentAt(k, i), ChildAt(k, i)>> \in Pairs(db'[s]) \cup lost'[s]
      <3>1. s = g
        BY <1>3, <1>6
      <3>2. <<ParentAt(k, i), ChildAt(k, i)>> \in Pairs(db[t]) \cup lost[t]
        BY <1>1, <1>3, <1>6, <3>1 DEF InsertLinks
      <3>3. QED
        BY <1>6, <1>9, <3>1, <3>2
    <2>2. QED
      BY <2>1 DEF InsertLinks
  <1>13. LossReasons'
    <2>1. \A s \in Stores : lost'[s] = {} \/ raced' \/ overlaid'
      BY <1>1, <1>3, <1>6 DEF LossReasons
    <2>2. QED
      BY <2>1 DEF LossReasons
  <1>14. QED
    BY <1>2, <1>4, <1>6, <1>7, <1>10, <1>11, <1>12, <1>13

\* A new call of dfs.
LEMMA FrameIs ==
  ASSUME NEW d, IsTree(d), NEW x
  PROVE  /\ IsFrame(Frame(d, x)) /\ Frame(d, x).key = x /\ Frame(d, x).node = getNode(d, x)
         /\ Frame(d, x).next = 1 /\ Frame(d, x).hashes = <<>>
  <1>1. PICK n, f : n = getNode(d, x) /\ f = Frame(d, x)
    OBVIOUS
  <1>2. f = [key |-> x, node |-> n, next |-> 1, hashes |-> <<>>]
    BY <1>1 DEF Frame
  <1>3. IsNode(n)
    BY <1>1, ReadNode
  <1>4. Len(n.children) \in Nat
    BY <1>3 DEF IsNode, IsSeq
  <1>5. f.key = x /\ f.node = n /\ f.next = 1 /\ f.hashes = <<>>
    BY <1>2
  <1>6. 1 \in 1 .. Len(n.children) + 1 /\ Len(<<>>) = 1 - 1
    BY <1>4
  <1>7. IsFrame(f)
    BY <1>2, <1>3, <1>5, <1>6, SeqEmpty DEF IsFrame
  <1>8. QED
    BY <1>1, <1>5, <1>7

LEMMA LibraryCallStep ==
  ASSUME TreeIInv, Ownership, LibraryCall
  PROVE  TreeIInv'
  <1>1. TreeShapes /\ ThreadShapes /\ PhaseShapes /\ LossReasons /\ Walking
    BY DEF TreeIInv, LinkInv
  <1>2. /\ mode = "library" /\ phase = "idle" /\ ops < Bound /\ ops' = ops + 1
        /\ UNCHANGED <<mode, pending, order, th, raced, torn>>
    BY DEF LibraryCall
  <1>3. th' = [t \in Threads |-> Idle]
    BY <1>1, <1>2, RestIs
  <1>4. ops' \in 0 .. Bound
    <2>1. Bound \in Nat /\ ops \in 0 .. Bound
      BY <1>1, BoundsAssumption DEF TreeShapes, Bound
    <2>2. QED
      BY <1>2, <2>1
  <1>5. /\ pending' \in [DOMAIN pending' -> Values] /\ DOMAIN pending' \subseteq Keys /\ order' \in Seq(Keys)
        /\ torn' \in BOOLEAN
    BY <1>1, <1>2 DEF TreeShapes
  <1>6. CASE updateAllNonLeafHashes /\ UNCHANGED <<db, written, linked, lost, overlaid, clean>>
    <2>1. PICK f : f = Frame(db["globalState"], Root)
      OBVIOUS
    <2>2. phase' = "dfs" /\ stack' = <<f>> /\ visited' = {Root}
      BY <1>6, <2>1 DEF updateAllNonLeafHashes
    <2>3. IsTree(db["globalState"])
      BY <1>1, StoreIs DEF TreeShapes
    <2>4. IsFrame(f) /\ f.key = Root /\ f.node = getNode(db["globalState"], Root)
      BY <2>1, <2>3, FrameIs
    <2>5. IsSeq(stack') /\ DOMAIN stack' = {1} /\ stack'[1] = f /\ stack' # <<>>
      <3>1. PICK st : st = <<f>>
        OBVIOUS
      <3>2. IsSeq(st) /\ st # <<>>
        BY <3>1, SeqShort
      <3>3. st[1] = f /\ DOMAIN st = 1 .. 1
        BY <3>1
      <3>4. 1 .. 1 = {1}
        OBVIOUS
      <3>5. QED
        BY <2>2, <3>1, <3>2, <3>3, <3>4
    <2>6. Walking'
      BY <1>6, <2>2, <2>4, <2>5 DEF Walking
    <2>7. PhaseShapes'
      BY <1>2, <2>2 DEF PhaseShapes
    <2>8. UNCHANGED <<db, written, linked, lost>>
      BY <1>6
    <2>9. LossReasons' /\ overlaid' \in BOOLEAN /\ clean' \in BOOLEAN
      BY <1>1, <1>2, <1>6 DEF LossReasons, TreeShapes
    <2>10. /\ Stored' /\ InsertLinks' /\ db' = [s \in Stores |-> db'[s]] /\ \A s \in Stores : IsTree(db'[s])
           /\ written' = [s \in Stores |-> written'[s]] /\ linked' = [s \in Stores |-> linked'[s]]
           /\ lost' = [s \in Stores |-> lost'[s]]
           /\ \A s \in Stores : DOMAIN written'[s] \subseteq Keys /\ linked'[s] \subseteq Keys
      BY <2>8, SameStores
    <2>11. QED
      BY <1>2, <1>3, <1>4, <1>5, <2>2, <2>6, <2>7, <2>9, <2>10, RestStep
  <1>7. CASE duplicateState /\ UNCHANGED <<phase, walk, clean>>
    <2>1. UNCHANGED <<phase, stack, visited, clean>>
      BY <1>7 DEF walk
    <2>2. Walking' /\ PhaseShapes' /\ clean' \in BOOLEAN
      BY <1>1, <1>2, <2>1, WalkingOff DEF PhaseShapes, TreeShapes
    <2>3. /\ db' = [s \in Stores |-> db'[s]] /\ written' = [s \in Stores |-> written'[s]]
          /\ linked' = [s \in Stores |-> linked'[s]] /\ lost' = [s \in Stores |-> lost'[s]]
          /\ \A s \in Stores : IsTree(db'[s]) /\ DOMAIN written'[s] \subseteq Keys /\ linked'[s] \subseteq Keys
          /\ overlaid' \in BOOLEAN /\ Stored' /\ InsertLinks' /\ LossReasons'
      BY <1>2, <1>7, Duplicated
    <2>4. QED
      BY <1>2, <1>3, <1>4, <1>5, <2>1, <2>2, <2>3, RestStep
  <1>8. CASE replaceWith /\ clean' = FALSE /\ UNCHANGED <<phase, walk, overlaid>>
    <2>1. UNCHANGED <<phase, stack, visited, overlaid>>
      BY <1>8 DEF walk
    <2>2. Walking' /\ PhaseShapes' /\ overlaid' \in BOOLEAN
      BY <1>1, <1>2, <2>1, WalkingOff DEF PhaseShapes, TreeShapes
    <2>3. clean' \in BOOLEAN
      BY <1>8
    <2>4. /\ db' = [s \in Stores |-> db'[s]] /\ written' = [s \in Stores |-> written'[s]]
          /\ linked' = [s \in Stores |-> linked'[s]] /\ lost' = [s \in Stores |-> lost'[s]]
          /\ \A s \in Stores : IsTree(db'[s]) /\ DOMAIN written'[s] \subseteq Keys /\ linked'[s] \subseteq Keys
          /\ Stored' /\ InsertLinks' /\ LossReasons'
      BY <1>2, <1>8, <2>1, Replaced
    <2>5. QED
      BY <1>2, <1>3, <1>4, <1>5, <2>1, <2>2, <2>3, <2>4, RestStep
  <1>9. QED
    BY <1>6, <1>7, <1>8 DEF LibraryCall

\* The calls under way.
LEMMA OnStack ==
  ASSUME TreeIInv, phase = "dfs"
  PROVE  /\ mode = "library" /\ Store = "globalState" /\ IsTree(db["globalState"])
         /\ Len(stack) \in Nat /\ Len(stack) # 0 /\ DOMAIN stack = 1 .. Len(stack) /\ Len(stack) \in DOMAIN stack
         /\ \A i \in DOMAIN stack :
              /\ IsFrame(stack[i]) /\ stack[i].key \in visited
              /\ stack[i].node = getNode(db["globalState"], stack[i].key)
              /\ stack[i].next \in Nat \ {0}
              /\ IsSeq(stack[i].node.children) /\ Len(stack[i].node.children) \in Nat
              /\ DOMAIN stack[i].node.children = 1 .. Len(stack[i].node.children)
  <1>1. TreeShapes /\ PhaseShapes /\ Walking
    BY DEF TreeIInv
  <1>2. mode = "library" /\ Store = "globalState" /\ IsTree(db["globalState"])
    BY <1>1, StoreIs DEF PhaseShapes, TreeShapes
  <1>3. IsSeq(stack) /\ stack # <<>>
    BY <1>1 DEF Walking
  <1>4. Len(stack) \in Nat /\ Len(stack) # 0 /\ DOMAIN stack = 1 .. Len(stack)
    BY <1>3 DEF IsSeq
  <1>5. Len(stack) \in DOMAIN stack
    BY <1>4
  <1>6. ASSUME NEW i \in DOMAIN stack
        PROVE  /\ IsFrame(stack[i]) /\ stack[i].key \in visited
               /\ stack[i].node = getNode(db["globalState"], stack[i].key)
               /\ stack[i].next \in Nat \ {0}
               /\ IsSeq(stack[i].node.children) /\ Len(stack[i].node.children) \in Nat
               /\ DOMAIN stack[i].node.children = 1 .. Len(stack[i].node.children)
    <2>1. IsFrame(stack[i]) /\ stack[i].key \in visited /\ stack[i].node = getNode(db["globalState"], stack[i].key)
      BY <1>1 DEF Walking
    <2>2. IsSeq(stack[i].node.children)
      BY <2>1 DEF IsFrame, IsNode
    <2>3. Len(stack[i].node.children) \in Nat /\ DOMAIN stack[i].node.children = 1 .. Len(stack[i].node.children)
      BY <2>2 DEF IsSeq
    <2>4. stack[i].next \in Nat \ {0}
      BY <2>1, <2>3 DEF IsFrame
    <2>5. QED
      BY <2>1, <2>2, <2>3, <2>4
  <1>7. QED
    BY <1>2, <1>4, <1>5, <1>6

\* A call that has got the hash of its next child.
LEMMA ReturnedIs ==
  ASSUME NEW f, IsFrame(f), f.next <= Len(f.node.children), NEW h
  PROVE  /\ IsFrame(Returned(f, h)) /\ Returned(f, h).key = f.key /\ Returned(f, h).node = f.node
         /\ Returned(f, h).next = f.next + 1 /\ Returned(f, h).hashes = Append(f.hashes, h)
  <1>1. PICK q : q = Append(f.hashes, h)
    OBVIOUS
  <1>2. f = [key |-> f.key, node |-> f.node, next |-> f.next, hashes |-> f.hashes]
    BY DEF IsFrame
  <1>3. PICK a : a = [f EXCEPT !.next = f.next + 1]
    OBVIOUS
  <1>4. a = [key |-> f.key, node |-> f.node, next |-> f.next + 1, hashes |-> f.hashes]
    BY <1>2, <1>3
  <1>5. PICK b : b = [a EXCEPT !.hashes = q]
    OBVIOUS
  <1>6. b = [key |-> f.key, node |-> f.node, next |-> f.next + 1, hashes |-> q]
    BY <1>4, <1>5
  <1>7. Returned(f, h) = b
    <2>1. Returned(f, h) = [f EXCEPT !.next = f.next + 1, !.hashes = q]
      BY <1>1, <1>2 DEF Returned
    <2>2. QED
      BY <1>3, <1>5, <2>1
  <1>8. b.key = f.key /\ b.node = f.node /\ b.next = f.next + 1 /\ b.hashes = q
    BY <1>6
  <1>9. Len(f.node.children) \in Nat
    BY DEF IsFrame, IsNode, IsSeq
  <1>10. f.next \in Nat /\ f.next + 1 \in 1 .. Len(f.node.children) + 1
    BY <1>9 DEF IsFrame
  <1>11. IsSeq(q) /\ Len(q) = f.next + 1 - 1
    BY <1>1, <1>10, SeqAppend DEF IsFrame
  <1>12. IsFrame(b)
    BY <1>6, <1>8, <1>10, <1>11 DEF IsFrame
  <1>13. QED
    BY <1>1, <1>7, <1>8, <1>12

\* A function on 1 .. n is a sequence.
LEMMA FunSeq ==
  ASSUME NEW s, NEW n \in Nat, DOMAIN s = 1 .. n, s = [i \in DOMAIN s |-> s[i]]
  PROVE  IsSeq(s) /\ Len(s) = n /\ (n # 0 => s # <<>>)
  <1>1. s \in [1 .. n -> Range(s)]
    BY DEF Range
  <1>2. IsSeq(s) /\ Len(s) = n
    BY <1>1 DEF IsSeq
  <1>3. QED
    BY <1>2

\* The calls under way after a step that leaves some.
LEMMA WalkingOn ==
  ASSUME phase' = "dfs", NEW n \in Nat \ {0}, DOMAIN stack' = 1 .. n, stack' = [i \in DOMAIN stack' |-> stack'[i]],
         \A i \in 1 .. n : /\ IsFrame(stack'[i]) /\ stack'[i].key \in visited'
                           /\ stack'[i].node = getNode(db'["globalState"], stack'[i].key),
         \A i, j \in 1 .. n : stack'[i].key = stack'[j].key => i = j,
         \A i \in 1 .. n : i + 1 \in 1 .. n =>
            /\ stack'[i].next \in DOMAIN stack'[i].node.children
            /\ stack'[i + 1].key = stack'[i].node.children[stack'[i].next]
  PROVE  Walking'
  <1>1. IsSeq(stack') /\ stack' # <<>>
    BY FunSeq
  <1>2. QED
    BY <1>1 DEF Walking

LEMMA DfsCallStep ==
  ASSUME TreeIInv, DfsCall
  PROVE  TreeIInv'
  <1>1. TreeShapes /\ ThreadShapes /\ PhaseShapes /\ LossReasons /\ Walking
    BY DEF TreeIInv, LinkInv
  <1>2. PICK d, n, f : d = db["globalState"] /\ n = Len(stack) /\ f = stack[n]
    OBVIOUS
  <1>3. PICK c : c = f.node.children[f.next]
    OBVIOUS
  <1>4. /\ phase = "dfs" /\ f.next <= Len(f.node.children)
        /\ \/ /\ c \in visited /\ visited' = visited
              /\ stack' = [stack EXCEPT ![n] = Returned(f, getNode(d, c).hash)]
           \/ /\ c \notin visited /\ visited' = visited \cup {c}
              /\ stack' = Append(stack, Frame(d, c))
        /\ UNCHANGED <<mode, db, phase, pending, order, th, ops, written, linked, lost, raced, overlaid, clean, torn>>
    BY <1>2, <1>3 DEF DfsCall
  <1>5. /\ IsTree(d) /\ n \in Nat \ {0} /\ DOMAIN stack = 1 .. n /\ n \in DOMAIN stack
        /\ \A i \in 1 .. n : /\ IsFrame(stack[i]) /\ stack[i].key \in visited
                             /\ stack[i].node = getNode(d, stack[i].key)
    BY <1>2, <1>4, OnStack
  <1>6. /\ \A i, j \in 1 .. n : stack[i].key = stack[j].key => i = j
        /\ \A i \in 1 .. n : i + 1 \in 1 .. n =>
             /\ stack[i].next \in DOMAIN stack[i].node.children
             /\ stack[i + 1].key = stack[i].node.children[stack[i].next]
        /\ stack = [i \in 1 .. n |-> stack[i]]
    BY <1>1, <1>5 DEF Walking, IsSeq
  <1>7. f.next \in DOMAIN f.node.children /\ IsFrame(f)
    <2>1. IsFrame(f)
      BY <1>2, <1>5
    <2>2. Len(f.node.children) \in Nat /\ DOMAIN f.node.children = 1 .. Len(f.node.children)
      BY <2>1 DEF IsFrame, IsNode, IsSeq
    <2>3. QED
      BY <1>4, <2>1, <2>2 DEF IsFrame
  <1>8. db' = db /\ phase' = "dfs" /\ db'["globalState"] = d
    BY <1>2, <1>4
  <1>9. Walking'
    <2>1. CASE c \in visited
      <3>1. PICK g : g = Returned(f, getNode(d, c).hash)
        OBVIOUS
      <3>2. IsFrame(g) /\ g.key = f.key /\ g.node = f.node
        BY <1>4, <1>7, <3>1, ReturnedIs
      <3>3. /\ DOMAIN stack' = 1 .. n /\ stack' = [i \in DOMAIN stack' |-> stack'[i]]
            /\ stack'[n] = g /\ \A i \in 1 .. n : i # n => stack'[i] = stack[i]
        BY <1>4, <1>5, <1>6, <2>1, <3>1
      <3>4. \A i \in 1 .. n : /\ stack'[i].key = stack[i].key /\ stack'[i].node = stack[i].node
                              /\ IsFrame(stack'[i])
        BY <1>2, <1>5, <3>2, <3>3
      <3>5. \A i \in 1 .. n : i + 1 \in 1 .. n => stack'[i] = stack[i]
        BY <1>5, <3>3
      <3>6. visited' = visited
        BY <1>4, <2>1
      <3>7. \A i \in 1 .. n : i + 1 \in 1 .. n =>
               /\ stack'[i].next \in DOMAIN stack'[i].node.children
               /\ stack'[i + 1].key = stack'[i].node.children[stack'[i].next]
        BY <1>6, <3>4, <3>5
      <3>8. \A i \in 1 .. n : /\ IsFrame(stack'[i]) /\ stack'[i].key \in visited'
                              /\ stack'[i].node = getNode(db'["globalState"], stack'[i].key)
        BY <1>5, <1>8, <3>4, <3>6
      <3>9. \A i, j \in 1 .. n : stack'[i].key = stack'[j].key => i = j
        BY <1>6, <3>4
      <3>10. QED
        BY <1>5, <1>8, <3>3, <3>7, <3>8, <3>9, WalkingOn
    <2>2. CASE c \notin visited
      <3>1. PICK g : g = Frame(d, c)
        OBVIOUS
      <3>2. IsFrame(g) /\ g.key = c /\ g.node = getNode(d, c)
        BY <1>5, <3>1, FrameIs
      <3>3. IsSeq(stack) /\ stack' = Append(stack, g) /\ visited' = visited \cup {c}
        BY <1>1, <1>4, <2>2, <3>1 DEF Walking
      <3>4. /\ IsSeq(stack') /\ DOMAIN stack' = 1 .. n + 1 /\ stack'[n + 1] = g
            /\ \A i \in 1 .. n : stack'[i] = stack[i]
        BY <1>2, <3>3, SeqAppend
      <3>5. stack' = [i \in DOMAIN stack' |-> stack'[i]]
        BY <3>4 DEF IsSeq
      <3>6. \A i \in 1 .. n + 1 : i = n + 1 \/ i \in 1 .. n
        BY <1>5
      <3>7. \A i \in 1 .. n + 1 : /\ IsFrame(stack'[i]) /\ stack'[i].key \in visited'
                                  /\ stack'[i].node = getNode(db'["globalState"], stack'[i].key)
        BY <1>5, <1>8, <3>2, <3>3, <3>4, <3>6
      <3>8. \A i \in 1 .. n : stack[i].key # c
        BY <1>5, <2>2
      <3>9. \A i, j \in 1 .. n + 1 : stack'[i].key = stack'[j].key => i = j
        BY <1>6, <3>2, <3>4, <3>6, <3>8
      <3>10. ASSUME NEW i \in 1 .. n + 1, i + 1 \in 1 .. n + 1
             PROVE  /\ stack'[i].next \in DOMAIN stack'[i].node.children
                    /\ stack'[i + 1].key = stack'[i].node.children[stack'[i].next]
        <4>1. CASE i = n
          BY <1>2, <1>3, <1>5, <1>7, <3>2, <3>4, <4>1
        <4>2. CASE i # n
          <5>1. i \in 1 .. n /\ i + 1 \in 1 .. n
            BY <1>5, <3>10, <4>2
          <5>2. QED
            BY <1>6, <3>4, <5>1
        <4>3. QED
          BY <4>1, <4>2
      <3>11. n + 1 \in Nat \ {0}
        BY <1>5
      <3>12. QED
        BY <1>8, <3>4, <3>5, <3>7, <3>9, <3>10, <3>11, WalkingOn
    <2>3. QED
      BY <2>1, <2>2
  <1>10. th' = [t \in Threads |-> Idle]
    BY <1>1, <1>4, RestIs
  <1>11. UNCHANGED <<db, written, linked, lost>>
    BY <1>4
  <1>12. /\ Stored' /\ InsertLinks' /\ db' = [s \in Stores |-> db'[s]] /\ \A s \in Stores : IsTree(db'[s])
         /\ written' = [s \in Stores |-> written'[s]] /\ linked' = [s \in Stores |-> linked'[s]]
         /\ lost' = [s \in Stores |-> lost'[s]]
         /\ \A s \in Stores : DOMAIN written'[s] \subseteq Keys /\ linked'[s] \subseteq Keys
    BY <1>11, SameStores
  <1>13. /\ ops' \in 0 .. Bound /\ overlaid' \in BOOLEAN /\ clean' \in BOOLEAN /\ torn' \in BOOLEAN
         /\ pending' \in [DOMAIN pending' -> Values] /\ DOMAIN pending' \subseteq Keys /\ order' \in Seq(Keys)
    BY <1>1, <1>4 DEF TreeShapes
  <1>14. PhaseShapes' /\ LossReasons'
    BY <1>1, <1>4 DEF PhaseShapes, LossReasons
  <1>15. QED
    BY <1>4, <1>8, <1>9, <1>10, <1>12, <1>13, <1>14, RestStep

\* No call of dfs is left.
LEMMA WalkingEnds ==
  ASSUME phase' # "dfs", stack' = <<>>
  PROVE  Walking'
  <1>1. DOMAIN stack' = {}
    OBVIOUS
  <1>2. QED
    BY <1>1, SeqEmpty DEF Walking

LEMMA DfsReturnStep ==
  ASSUME TreeIInv, DfsReturn
  PROVE  TreeIInv'
  <1>1. TreeShapes /\ ThreadShapes /\ PhaseShapes /\ LossReasons /\ Walking /\ Stored /\ InsertLinks
    BY DEF TreeIInv, LinkInv
  <1>2. PICK g, n, f, h : /\ g = "globalState" /\ n = Len(stack) /\ f = stack[n]
                          /\ h = Sha(FlattenSeq(f.hashes) \o f.node.value)
    OBVIOUS
  <1>3. PICK m : m = [f.node EXCEPT !.hash = h]
    OBVIOUS
  <1>4. PICK e : e = Put(db[g], f.key, m)
    OBVIOUS
  <1>5. /\ phase = "dfs" /\ f.next > Len(f.node.children) /\ Write(g, e)
        /\ \/ n = 1 /\ stack' = <<>> /\ visited' = {} /\ phase' = "idle" /\ clean' = TRUE
           \/ /\ n > 1 /\ UNCHANGED <<visited, phase, clean>>
              /\ stack' = [i \in 1 .. n - 1 |-> IF i < n - 1 THEN stack[i] ELSE Returned(stack[i], h)]
        /\ UNCHANGED <<mode, pending, order, th, ops, written, linked, raced, overlaid, torn>>
    BY <1>2, <1>3, <1>4 DEF DfsReturn
  <1>6. g \in Stores
    BY <1>2, StoreIs
  <1>7. /\ IsTree(db[g]) /\ n \in Nat \ {0} /\ DOMAIN stack = 1 .. n /\ n \in DOMAIN stack
        /\ \A i \in 1 .. n : /\ IsFrame(stack[i]) /\ stack[i].key \in visited
                             /\ stack[i].node = getNode(db[g], stack[i].key)
    BY <1>2, <1>5, OnStack
  <1>8. /\ \A i, j \in 1 .. n : stack[i].key = stack[j].key => i = j
        /\ \A i \in 1 .. n : i + 1 \in 1 .. n =>
             /\ stack[i].next \in DOMAIN stack[i].node.children
             /\ stack[i + 1].key = stack[i].node.children[stack[i].next]
    BY <1>1, <1>7 DEF Walking
  <1>9. f.node = getNode(db[g], f.key)
    BY <1>2, <1>7
  <1>10. Keeps(db[g], e)
    BY <1>3, <1>4, <1>7, <1>9, KeepsHash
  <1>11. /\ db' = [r \in Stores |-> db'[r]] /\ lost' = [r \in Stores |-> lost'[r]]
         /\ \A r \in Stores : Known(r) \subseteq Known(r)' /\ db'[g] = e
    BY <1>1, <1>5, <1>6, Wrote
  <1>12. \A r \in Stores : IsTree(db'[r]) /\ lost'[r] \subseteq lost[r] /\ Keeps(db[r], db'[r])
    BY <1>1, <1>5, <1>6, <1>10, WroteMore
  <1>13. Stored'
    BY <1>1, <1>5, <1>12, KeepsStored
  <1>14. InsertLinks'
    BY <1>1, <1>5, <1>11, LinksStay
  <1>15. LossReasons'
    BY <1>1, <1>5, <1>12, LossStays
  <1>16. Walking' /\ PhaseShapes' /\ clean' \in BOOLEAN /\ phase' \in {"idle", "dfs"}
    <2>1. CASE n = 1
      <3>1. stack' = <<>> /\ phase' = "idle" /\ clean' = TRUE
        BY <1>5, <2>1
      <3>2. Walking'
        BY <3>1, WalkingEnds
      <3>3. PhaseShapes'
        BY <3>1 DEF PhaseShapes
      <3>4. QED
        BY <3>1, <3>2, <3>3
    <2>2. CASE n # 1
      <3>1. /\ visited' = visited /\ phase' = "dfs" /\ clean' = clean
            /\ stack' = [i \in 1 .. n - 1 |-> IF i < n - 1 THEN stack[i] ELSE Returned(stack[i], h)]
        BY <1>5, <2>2
      <3>2. PICK b : b = stack[n - 1]
        OBVIOUS
      <3>3. n - 1 \in 1 .. n /\ n - 1 + 1 = n /\ n - 1 \in Nat \ {0}
        BY <1>7, <2>2
      <3>4. IsFrame(b) /\ b.next \in DOMAIN b.node.children
        BY <1>7, <1>8, <3>2, <3>3
      <3>5. b.next <= Len(b.node.children)
        <4>1. Len(b.node.children) \in Nat /\ DOMAIN b.node.children = 1 .. Len(b.node.children)
          BY <3>4 DEF IsFrame, IsNode, IsSeq
        <4>2. QED
          BY <3>4, <4>1
      <3>6. PICK top : top = Returned(b, h)
        OBVIOUS
      <3>7. IsFrame(top) /\ top.key = b.key /\ top.node = b.node
        BY <3>4, <3>5, <3>6, ReturnedIs
      <3>8. /\ DOMAIN stack' = 1 .. n - 1 /\ stack' = [i \in DOMAIN stack' |-> stack'[i]]
            /\ stack'[n - 1] = top /\ \A i \in 1 .. n - 1 : i # n - 1 => stack'[i] = stack[i]
        <4>1. stack' = [i \in 1 .. n - 1 |-> IF i < n - 1 THEN stack[i] ELSE Returned(stack[i], h)]
          BY <3>1
        <4>2. n - 1 \in 1 .. n - 1 /\ ~(n - 1 < n - 1)
          BY <3>3
        <4>3. DOMAIN stack' = 1 .. n - 1 /\ stack' = [i \in DOMAIN stack' |-> stack'[i]]
          BY <4>1
        <4>4. stack'[n - 1] = top
          BY <3>2, <3>6, <4>1, <4>2
        <4>5. \A i \in 1 .. n - 1 : i # n - 1 => i < n - 1
          BY <3>3
        <4>6. QED
          BY <4>1, <4>3, <4>4, <4>5
      <3>9. \A i \in 1 .. n - 1 : i \in 1 .. n /\ i # n
        BY <1>7
      <3>10. \A i \in 1 .. n - 1 : /\ stack'[i].key = stack[i].key /\ stack'[i].node = stack[i].node
                                   /\ IsFrame(stack'[i])
        BY <1>7, <3>2, <3>7, <3>8, <3>9
      <3>11. \A i \in 1 .. n - 1 : stack[i].key # f.key
        BY <1>2, <1>7, <1>8, <3>9
      <3>12. \A i \in 1 .. n - 1 : /\ IsFrame(stack'[i]) /\ stack'[i].key \in visited'
                                   /\ stack'[i].node = getNode(db'["globalState"], stack'[i].key)
        <4>1. TAKE i \in 1 .. n - 1
        <4>2. getNode(e, stack[i].key) = getNode(db[g], stack[i].key)
          BY <1>4, <3>11, ReadOther
        <4>3. stack[i].node = getNode(e, stack[i].key) /\ stack[i].key \in visited
          BY <1>7, <3>9, <4>2
        <4>4. db'["globalState"] = e
          BY <1>2, <1>6, <1>11
        <4>5. QED
          BY <3>1, <3>10, <4>3, <4>4
      <3>13. \A i, j \in 1 .. n - 1 : stack'[i].key = stack'[j].key => i = j
        BY <1>8, <3>9, <3>10
      <3>14. ASSUME NEW i \in 1 .. n - 1, i + 1 \in 1 .. n - 1
             PROVE  /\ stack'[i].next \in DOMAIN stack'[i].node.children
                    /\ stack'[i + 1].key = stack'[i].node.children[stack'[i].next]
        <4>1. i # n - 1
          BY <3>3, <3>14
        <4>2. stack'[i] = stack[i] /\ stack'[i + 1].key = stack[i + 1].key
          BY <3>8, <3>10, <3>14, <4>1
        <4>3. QED
          BY <1>8, <3>9, <3>14, <4>2
      <3>15. Walking'
        BY <3>1, <3>3, <3>8, <3>12, <3>13, <3>14, WalkingOn
      <3>16. PhaseShapes'
        BY <1>1, <1>5, <3>1 DEF PhaseShapes
      <3>17. QED
        BY <1>1, <3>1, <3>15, <3>16 DEF TreeShapes
    <2>3. QED
      BY <2>1, <2>2
  <1>17. th' = [t \in Threads |-> Idle]
    BY <1>1, <1>5, RestIs
  <1>18. /\ written' = [r \in Stores |-> written'[r]] /\ linked' = [r \in Stores |-> linked'[r]]
         /\ \A r \in Stores : DOMAIN written'[r] \subseteq Keys /\ linked'[r] \subseteq Keys
         /\ ops' \in 0 .. Bound /\ overlaid' \in BOOLEAN /\ torn' \in BOOLEAN
         /\ pending' \in [DOMAIN pending' -> Values] /\ DOMAIN pending' \subseteq Keys /\ order' \in Seq(Keys)
    BY <1>1, <1>5 DEF TreeShapes
  <1>19. QED
    BY <1>5, <1>11, <1>12, <1>13, <1>14, <1>15, <1>16, <1>17, <1>18, RestStep

\* A step that changes nothing.
LEMMA TreeStays ==
  ASSUME TreeIInv, UNCHANGED treeVars
  PROVE  TreeIInv'
  <1>1. /\ UNCHANGED <<mode, db, phase, pending, order, th, ops, stack, visited>>
        /\ UNCHANGED <<written, linked, lost, raced, overlaid, clean, torn>>
    BY DEF treeVars
  <1>2. TreeShapes' /\ ThreadShapes' /\ PhaseShapes'
    BY <1>1 DEF TreeIInv, TreeShapes, ThreadShapes, PhaseShapes, Bound
  <1>3. Stored' /\ Walking'
    BY <1>1 DEF TreeIInv, Stored, Walking
  <1>4. LinkInv'
    <2>1. InsertLinks' /\ LossReasons'
      BY <1>1 DEF TreeIInv, LinkInv, InsertLinks, LossReasons
    <2>2. LinksBegun'
      BY <1>1 DEF TreeIInv, LinkInv, LinksBegun, Known, Store
    <2>3. Alone'
      BY <1>1 DEF TreeIInv, LinkInv, Alone, Store
    <2>4. QED
      BY <2>1, <2>2, <2>3 DEF LinkInv
  <1>5. QED
    BY <1>2, <1>3, <1>4 DEF TreeIInv

LEMMA TreeStep ==
  ASSUME TreeIInv, Ownership, [TreeNext]_treeVars
  PROVE  TreeIInv'
  <1>1. CASE Start
    BY <1>1, StartStep
  <1>2. CASE StartFlush
    BY <1>2, StartFlushStep
  <1>3. CASE Join
    BY <1>3, JoinStep
  <1>4. CASE UpdateHashes
    BY <1>4, UpdateHashesStep
  <1>5. CASE resetTree
    BY <1>5, resetTreeStep
  <1>6. CASE LibraryCall
    BY <1>6, LibraryCallStep
  <1>7. CASE DfsCall
    BY <1>7, DfsCallStep
  <1>8. CASE DfsReturn
    BY <1>8, DfsReturnStep
  <1>9. CASE Crash
    BY <1>9, CrashStep
  <1>10. CASE UNCHANGED treeVars
    BY <1>10, TreeStays
  <1>11. CASE \E t \in Threads : PutLeaf(t) \/ GetParent(t) \/ PutParent(t)
    BY <1>11, PutLeafStep, GetParentStep, PutParentStep
  <1>12. QED
    BY <1>1, <1>2, <1>3, <1>4, <1>5, <1>6, <1>7, <1>8, <1>9, <1>10, <1>11 DEF TreeNext, Finished

-----------------------------------------------------------------------------
(***************************************************************************)
(* Ownership.                                                              *)
(***************************************************************************)
\* A path is no digest, no value and not the root.
LEMMA PathApart ==
  ASSUME NEW k \in Keys
  PROVE  /\ PathOf[k] # Root /\ PathOf[k] # Empty /\ PathOf[k] \notin Values
         /\ \A z : PathOf[k] # Sha(z)
  <1>1. Len(PathOf[k]) = 3
    BY KeysAssumption DEF PathLen
  <1>2. Len(Root) = 1 /\ Len(Empty) = 0
    BY DEF Root, Empty
  <1>3. \A z : Len(Sha(z)) = 1
    BY DEF Sha
  <1>4. PathOf[k] # Root /\ PathOf[k] # Empty
    BY <1>1, <1>2
  <1>5. \A z : PathOf[k] # Sha(z)
    BY <1>1, <1>3
  <1>6. QED
    BY <1>4, <1>5, DigestsAssumption

\* What is read of an owned store.
LEMMA ReadOwned ==
  ASSUME NEW d, IsTree(d), NEW W, Owned(d, W), NEW x
  PROVE  /\ getNode(d, x).value \in Values \cup {Empty}
         /\ \A k \in Keys : PathOf[k] \in Range(getNode(d, x).children) => k \in W
  <1>1. CASE x \notin DOMAIN d
    BY <1>1, ReadNode, NoNodeIs, SeqEmpty
  <1>2. CASE x \in DOMAIN d
    <2>1. PICK n : n = d[x]
      OBVIOUS
    <2>2. IsNode(n) /\ IsOwned(n, W) /\ getNode(d, x) = deserializeNode(n)
      BY <1>2, <2>1 DEF IsTree, Owned, getNode
    <2>3. deserializeNode(n).value = n.value
      BY <2>2, ReadBack
    <2>4. ASSUME NEW k \in Keys, PathOf[k] \in Range(deserializeNode(n).children) PROVE k \in W
      <3>1. CASE n.children # <<>>
        BY <2>2, <2>4, <3>1, ReadBack DEF IsOwned
      <3>2. CASE n.children = <<>>
        <4>1. PICK z : n.hash = Sha(z)
          BY <2>2, <3>2 DEF IsOwned
        <4>2. PathOf[k] # n.hash
          BY <4>1, PathApart
        <4>3. PathOf[k] # n.value
          BY <2>2, PathApart DEF IsOwned
        <4>4. deserializeNode(n).children = IF n.value = Empty THEN <<n.hash>> ELSE <<n.hash, n.value>>
          BY <2>2, <3>2, ReadBack
        <4>5. Range(deserializeNode(n).children) \subseteq {n.hash, n.value}
          BY <4>4, SeqShort
        <4>6. QED
          BY <2>4, <4>2, <4>3, <4>5
      <3>3. QED
        BY <3>1, <3>2
    <2>5. QED
      BY <2>2, <2>3, <2>4 DEF IsOwned
  <1>3. QED
    BY <1>1, <1>2

\* A write of an owned node.
LEMMA PutOwned ==
  ASSUME NEW d, NEW W, Owned(d, W), NEW V, W \subseteq V, NEW pos, NEW n, IsOwned(n, V),
         \A k \in Keys : pos = PathOf[k] => k \in V
  PROVE  Owned(Put(d, pos, n), V)
  <1>1. PICK e : e = Put(d, pos, n)
    OBVIOUS
  <1>2. DOMAIN e = DOMAIN d \cup {pos} /\ e[pos] = n /\ \A x \in DOMAIN d \ {pos} : e[x] = d[x]
    BY <1>1 DEF Put
  <1>3. \A x \in DOMAIN d : IsOwned(d[x], V)
    BY DEF Owned, IsOwned
  <1>4. \A x \in DOMAIN e : IsOwned(e[x], V)
    BY <1>2, <1>3
  <1>5. \A k \in Keys : PathOf[k] \in DOMAIN e => k \in V
    BY <1>2 DEF Owned
  <1>6. QED
    BY <1>1, <1>4, <1>5 DEF Owned

\* A node without children, hashed.
LEMMA FreshOwned ==
  ASSUME NEW v \in Values \cup {Empty}, NEW W, NEW z
  PROVE  IsOwned(Node(Sha(z), v, <<>>), W)
  <1>1. PICK n : n = Node(Sha(z), v, <<>>)
    OBVIOUS
  <1>2. n.value = v /\ n.hash = Sha(z) /\ n.children = <<>>
    BY <1>1, NodeFields
  <1>3. Range(n.children) = {}
    BY <1>2, SeqEmpty
  <1>4. IsOwned(n, W)
    BY <1>2, <1>3 DEF IsOwned
  <1>5. QED
    BY <1>1, <1>4

LEMMA OpenOwned ==
  ASSUME NEW d, NEW W, Owned(d, W)
  PROVE  Owned(GlobalState(d), W)
  <1>1. PICK n : n = Node(Sha(Empty), Empty, <<>>)
    OBVIOUS
  <1>2. IsOwned(n, W)
    BY <1>1, FreshOwned
  <1>3. \A k \in Keys : Root # PathOf[k]
    BY PathApart
  <1>4. Owned(Put(d, Root, n), W)
    BY <1>2, <1>3, PutOwned
  <1>5. QED
    BY <1>1, <1>4 DEF GlobalState

LEMMA EmptyOwned ==
  ASSUME NEW W
  PROVE  Owned(EmptyStore, W) /\ Owned(GlobalState(EmptyStore), W)
  <1>1. Owned(EmptyStore, W)
    BY FreshTree DEF Owned
  <1>2. QED
    BY <1>1, OpenOwned

LEMMA OverOwned ==
  ASSUME NEW d, NEW e, NEW V, NEW W, Owned(d, V), Owned(e, W)
  PROVE  Owned(Over(d, e), V \cup W)
  <1>1. PICK f, U : f = Over(d, e) /\ U = V \cup W
    OBVIOUS
  <1>2. /\ DOMAIN f = DOMAIN d \cup DOMAIN e /\ \A x \in DOMAIN d : f[x] = d[x]
        /\ \A x \in DOMAIN e \ DOMAIN d : f[x] = e[x]
    BY <1>1 DEF Over
  <1>3. \A x \in DOMAIN d : IsOwned(d[x], U)
    BY <1>1 DEF Owned, IsOwned
  <1>4. \A x \in DOMAIN e : IsOwned(e[x], U)
    BY <1>1 DEF Owned, IsOwned
  <1>5. \A x \in DOMAIN f : IsOwned(f[x], U)
    BY <1>2, <1>3, <1>4
  <1>6. \A k \in Keys : PathOf[k] \in DOMAIN f => k \in U
    BY <1>1, <1>2 DEF Owned
  <1>7. QED
    BY <1>1, <1>5, <1>6 DEF Owned

\* A node written back with another hash, and with one more child.
LEMMA HashOwned ==
  ASSUME NEW d, IsTree(d), NEW W, Owned(d, W), NEW x, NEW z
  PROVE  IsOwned([getNode(d, x) EXCEPT !.hash = Sha(z)], W)
  <1>1. PICK n : n = getNode(d, x)
    OBVIOUS
  <1>2. /\ IsNode(n) /\ n.value \in Values \cup {Empty}
        /\ \A k \in Keys : PathOf[k] \in Range(n.children) => k \in W
    BY <1>1, ReadNode, ReadOwned
  <1>3. PICK m : m = [n EXCEPT !.hash = Sha(z)]
    OBVIOUS
  <1>4. m.value = n.value /\ m.children = n.children /\ m.hash = Sha(z)
    BY <1>2, <1>3, NodeChanged, NodeFields
  <1>5. IsOwned(m, W)
    BY <1>2, <1>4 DEF IsOwned
  <1>6. QED
    BY <1>1, <1>3, <1>5

LEMMA ChildOwned ==
  ASSUME NEW d, IsTree(d), NEW W, Owned(d, W), NEW x, NEW c, \A k \in Keys : c = PathOf[k] => k \in W
  PROVE  IsOwned(AddChild(getNode(d, x), c), W)
  <1>1. PICK n : n = getNode(d, x)
    OBVIOUS
  <1>2. /\ IsNode(n) /\ n.value \in Values \cup {Empty}
        /\ \A k \in Keys : PathOf[k] \in Range(n.children) => k \in W
    BY <1>1, ReadNode, ReadOwned
  <1>3. PICK a : a = AddChild(n, c)
    OBVIOUS
  <1>4. IsTree(d)
    OBVIOUS
  <1>5. Range(a.children) = Range(n.children) \cup {c} /\ a.value = n.value
    BY <1>2, <1>3, <1>4, ChildAdded
  <1>6. a.children # <<>>
    BY <1>5, SeqEmpty
  <1>7. IsOwned(a, W)
    BY <1>2, <1>5, <1>6 DEF IsOwned
  <1>8. QED
    BY <1>1, <1>3, <1>7

\* The serial node never writes the store it copies from.
LEMMA SourceStays ==
  ASSUME TreeIInv, mode = "serial", TreeNext
  PROVE  mode' = mode /\ db'["globalState"] = db["globalState"]
  <1>1. TreeShapes /\ PhaseShapes
    BY DEF TreeIInv
  <1>2. /\ Store = "globalState_tmp" /\ Store # "globalState"
        /\ "globalState" \in Stores /\ Store \in Stores
    BY DEF Store, Stores
  <1>3. db = [s \in Stores |-> db[s]]
    BY <1>1 DEF TreeShapes
  <1>4. ASSUME NEW d, Write(Store, d) PROVE db'["globalState"] = db["globalState"]
    BY <1>2, <1>3, <1>4 DEF Write
  <1>5. CASE Start
    <2>1. mode' = mode /\ \E d : db' = [db EXCEPT !["globalState_tmp"] = d]
      BY <1>5 DEF Start, duplicateState
    <2>2. QED
      BY <1>2, <1>3, <2>1
  <1>6. CASE StartFlush \/ Join \/ Crash \/ Finished
    BY <1>6 DEF StartFlush, Join, Crash, Finished, treeVars
  <1>7. CASE UpdateHashes
    <2>1. mode' = mode /\ \E d : Write(Store, d)
      BY <1>7 DEF UpdateHashes
    <2>2. QED
      BY <1>4, <2>1
  <1>8. ~resetTree /\ ~LibraryCall /\ ~DfsCall /\ ~DfsReturn
    BY <1>1 DEF resetTree, LibraryCall, DfsCall, DfsReturn, PhaseShapes
  <1>9. CASE \E t \in Threads : PutLeaf(t) \/ GetParent(t) \/ PutParent(t)
    <2>1. PICK t \in Threads : PutLeaf(t) \/ GetParent(t) \/ PutParent(t)
      BY <1>9
    <2>2. CASE PutLeaf(t)
      <3>1. mode' = mode /\ \E d : Write(Store, d)
        BY <2>2 DEF PutLeaf
      <3>2. QED
        BY <1>4, <3>1
    <2>3. CASE GetParent(t)
      BY <2>3 DEF GetParent
    <2>4. CASE PutParent(t)
      <3>1. mode' = mode /\ \E d : Write(Store, d)
        BY <2>4 DEF PutParent
      <3>2. QED
        BY <1>4, <3>1
    <2>5. QED
      BY <2>1, <2>2, <2>3, <2>4
  <1>10. QED
    BY <1>5, <1>6, <1>7, <1>8, <1>9 DEF TreeNext

\* What Ownership says of the mode "library".
LibraryOwned ==
  /\ \A s \in Stores : Owned(db[s], DOMAIN written[s])
  /\ th[0].pc \in {"get", "put"} => Head(th[0].keys) \in DOMAIN written["globalState"]
  /\ \A i \in DOMAIN stack, k \in Keys : stack[i].key = PathOf[k] => k \in DOMAIN written["globalState"]

LEMMA PutLeafOwned ==
  ASSUME TreeIInv, mode = "library", LibraryOwned, NEW t \in Threads, PutLeaf(t)
  PROVE  LibraryOwned'
  <1>1. PICK g, k, v : g = "globalState" /\ k = Head(th[t].keys) /\ v = pending[k]
    OBVIOUS
  <1>2. PICK n : n = Node(Sha(v), v, <<>>)
    OBVIOUS
  <1>3. PICK d : d = Put(db[g], PathOf[k], n)
    OBVIOUS
  <1>4. g \in Stores /\ Store = g
    BY <1>1, StoreIs
  <1>5. /\ th[t].pc = "leaf" /\ Write(g, d) /\ written' = [written EXCEPT ![g] = Put(@, k, v)]
        /\ th' = [th EXCEPT ![t].pc = "get", ![t].level = 0] /\ UNCHANGED <<stack, visited>>
    BY <1>1, <1>2, <1>3, <1>4 DEF PutLeaf, walk
  <1>6. TreeShapes /\ ThreadShapes
    BY DEF TreeIInv
  <1>7. /\ t = 0 /\ k \in Keys /\ k \in DOMAIN pending
        /\ th[t] = [pc |-> th[t].pc, keys |-> th[t].keys, level |-> th[t].level, snap |-> th[t].snap]
    BY <1>1, <1>5, AtWork DEF OneThread
  <1>8. v \in Values
    BY <1>1, <1>6, <1>7 DEF TreeShapes
  <1>9. /\ db'[g] = d /\ \A r \in Stores \ {g} : db'[r] = db[r]
    BY <1>4, <1>5, <1>6, Wrote
  <1>10. written'[g] = Put(written[g], k, v) /\ \A r \in Stores \ {g} : written'[r] = written[r]
    BY <1>4, <1>5, <1>6 DEF TreeShapes
  <1>11. PICK V : V = DOMAIN written'[g]
    OBVIOUS
  <1>12. V = DOMAIN written[g] \cup {k}
    BY <1>10, <1>11 DEF Put
  <1>13. Owned(d, V)
    <2>1. IsOwned(n, V)
      BY <1>2, <1>8, FreshOwned
    <2>2. \A j \in Keys : PathOf[k] = PathOf[j] => j \in V
      BY <1>7, <1>12, KeysAssumption
    <2>3. Owned(db[g], DOMAIN written[g])
      BY <1>4 DEF LibraryOwned
    <2>4. DOMAIN written[g] \subseteq V
      BY <1>12
    <2>5. QED
      BY <1>3, <2>1, <2>2, <2>3, <2>4, PutOwned
  <1>14. \A s \in Stores : Owned(db'[s], DOMAIN written'[s])
    BY <1>9, <1>10, <1>11, <1>13 DEF LibraryOwned
  <1>15. th'[0].keys = th[0].keys
    <2>1. th = [u \in Threads |-> th[u]]
      BY <1>6 DEF ThreadShapes
    <2>2. PICK a : a = th[t] /\ a = [pc |-> a.pc, keys |-> a.keys, level |-> a.level, snap |-> a.snap]
      BY <1>7
    <2>3. [a EXCEPT !.pc = "get", !.level = 0] = [pc |-> "get", keys |-> a.keys, level |-> 0, snap |-> a.snap]
      <3>1. PICK b : b = [a EXCEPT !.pc = "get"]
        OBVIOUS
      <3>2. b = [pc |-> "get", keys |-> a.keys, level |-> a.level, snap |-> a.snap]
        BY <2>2, <3>1
      <3>3. [b EXCEPT !.level = 0] = [pc |-> "get", keys |-> a.keys, level |-> 0, snap |-> a.snap]
        BY <3>2
      <3>4. QED
        BY <3>1, <3>3
    <2>4. th'[t] = [a EXCEPT !.pc = "get", !.level = 0]
      BY <1>5, <2>1, <2>2
    <2>5. QED
      BY <1>7, <2>2, <2>3, <2>4
  <1>16. Head(th'[0].keys) = k
    BY <1>1, <1>7, <1>15, Zenon
  <1>17. Head(th'[0].keys) \in DOMAIN written'["globalState"]
    BY <1>1, <1>11, <1>12, <1>16
  <1>18. \A i \in DOMAIN stack', j \in Keys : stack'[i].key = PathOf[j] => j \in DOMAIN written'["globalState"]
    BY <1>1, <1>5, <1>11, <1>12 DEF LibraryOwned
  <1>19. QED
    BY <1>14, <1>17, <1>18 DEF LibraryOwned

LEMMA GetParentOwned ==
  ASSUME TreeIInv, mode = "library", LibraryOwned, NEW t \in Threads, GetParent(t)
  PROVE  LibraryOwned'
  <1>1. PICK n : n = getNode(db[Store], ParentAt(Head(th[t].keys), th[t].level))
    OBVIOUS
  <1>2. /\ th[t].pc = "get" /\ th' = [th EXCEPT ![t].pc = "put", ![t].snap = n]
        /\ UNCHANGED <<db, written, stack>>
    BY <1>1 DEF GetParent, walk
  <1>3. /\ t = 0
        /\ th[t] = [pc |-> th[t].pc, keys |-> th[t].keys, level |-> th[t].level, snap |-> th[t].snap]
    BY <1>2, AtWork DEF OneThread
  <1>4. th = [u \in Threads |-> th[u]]
    BY DEF TreeIInv, ThreadShapes
  <1>5. th'[0].keys = th[0].keys
    <2>1. PICK a : a = th[t]
      OBVIOUS
    <2>2. th'[t] = [a EXCEPT !.pc = "put", !.snap = n]
      BY <1>2, <1>4, <2>1
    <2>3. PICK b : b = [a EXCEPT !.pc = "put"]
      OBVIOUS
    <2>4. b = [pc |-> "put", keys |-> a.keys, level |-> a.level, snap |-> a.snap]
      BY <1>3, <2>1, <2>3
    <2>5. [b EXCEPT !.snap = n] = [pc |-> "put", keys |-> a.keys, level |-> a.level, snap |-> n]
      BY <2>4
    <2>6. th'[t] = [pc |-> "put", keys |-> a.keys, level |-> a.level, snap |-> n]
      BY <2>2, <2>3, <2>5
    <2>7. QED
      BY <1>3, <2>1, <2>6
  <1>6. Head(th[0].keys) \in DOMAIN written["globalState"]
    BY <1>2, <1>3 DEF LibraryOwned
  <1>7. Head(th'[0].keys) \in DOMAIN written'["globalState"]
    BY <1>2, <1>5, <1>6
  <1>8. QED
    BY <1>2, <1>7 DEF LibraryOwned

\* A child that is a leaf is the one whose key is being inserted.
LEMMA LeafChild ==
  ASSUME NEW k \in Keys, NEW i \in 0 .. PathLen - 1, NEW j \in Keys, ChildAt(k, i) = PathOf[j]
  PROVE  j = k
  <1>1. Len(ChildAt(k, i)) = i + 1 /\ Len(PathOf[k]) = 3 /\ Len(PathOf[j]) = 3 /\ PathOf[k] \in Seq(Chars)
    BY PathFacts
  <1>2. i \in Int
    BY DEF PathLen
  <1>3. i + 1 = 3
    BY <1>1
  <1>4. ChildAt(k, i) = SubSeq(PathOf[k], 1, Len(PathOf[k]))
    BY <1>1, <1>3 DEF ChildAt
  <1>5. PICK p : p = PathOf[k]
    OBVIOUS
  <1>6. SubSeq(p, 1, Len(p)) = p
    <2>1. p \in Seq(Chars) /\ Len(p) = 3
      BY <1>1, <1>5
    <2>2. PICK q : q = SubSeq(p, 1, Len(p))
      OBVIOUS
    <2>3. q = SubSeq(p, 1, 3)
      BY <2>1, <2>2
    <2>5. q \in Seq(Chars) /\ Len(q) = 3 /\ \A l \in 1 .. 3 : q[l] = p[l]
      <3>1. \A l \in 1 .. 3 : p[l] \in Chars
        <4>1. \A l \in 1 .. Len(p) : p[l] \in Chars
          BY <2>1, ElementOfSeq
        <4>2. QED
          BY <2>1, <4>1
      <3>2. /\ q \in Seq(Chars) /\ Len(q) = IF 1 <= 3 THEN 3 - 1 + 1 ELSE 0
            /\ \A l \in 1 .. 3 - 1 + 1 : q[l] = p[1 + l - 1]
        BY <2>3, <3>1, SubSeqProperties
      <3>3. \A l \in 1 .. 3 : 1 + l - 1 = l
        OBVIOUS
      <3>4. QED
        BY <3>2, <3>3
    <2>4. QED
      BY <2>1, <2>2, <2>5, SeqEqual
  <1>7. QED
    BY <1>4, <1>5, <1>6, KeysAssumption

LEMMA PutParentOwned ==
  ASSUME TreeIInv, mode = "library", LibraryOwned, NEW t \in Threads, PutParent(t)
  PROVE  LibraryOwned'
  <1>1. PICK g, k, i, n : g = "globalState" /\ k = Head(th[t].keys) /\ i = th[t].level /\ n = th[t].snap
    OBVIOUS
  <1>2. PICK p, c : p = ParentAt(k, i) /\ c = ChildAt(k, i)
    OBVIOUS
  <1>3. PICK d, w :
          /\ d = Linking(db[g], p, n, c)
          /\ w = IF i + 1 = PathLen THEN Work(Tail(th[t].keys))
                 ELSE [th[t] EXCEPT !.pc = "get", !.level = i + 1, !.snap = NoNode]
    OBVIOUS
  <1>4. g \in Stores /\ Store = g
    BY <1>1, StoreIs
  <1>5. /\ th[t].pc = "put" /\ Write(g, d) /\ th' = [th EXCEPT ![t] = w]
        /\ UNCHANGED <<mode, written, stack>>
    BY <1>1, <1>2, <1>3, <1>4 DEF PutParent, Linking, walk
  <1>6. /\ t = 0 /\ k \in Keys /\ i \in 0 .. PathLen - 1
        /\ th[t] = [pc |-> th[t].pc, keys |-> th[t].keys, level |-> th[t].level, snap |-> th[t].snap]
        /\ Tail(th[t].keys) \in Seq(DOMAIN pending)
    BY <1>1, <1>5, AtWork DEF OneThread
  <1>7. TreeShapes /\ ThreadShapes /\ Alone
    BY DEF TreeIInv, LinkInv
  <1>8. n = getNode(db[g], p) /\ IsTree(db[g])
    BY <1>1, <1>2, <1>4, <1>5, <1>6, <1>7 DEF Alone, OneThread, TreeShapes
  <1>9. PICK W : W = DOMAIN written[g]
    OBVIOUS
  <1>10. Owned(db[g], W) /\ k \in W
    BY <1>1, <1>4, <1>5, <1>6, <1>9 DEF LibraryOwned
  <1>11. Owned(d, W)
    <2>1. \A j \in Keys : c = PathOf[j] => j \in W
      BY <1>2, <1>6, <1>10, LeafChild
    <2>2. IsOwned(AddChild(n, c), W)
      BY <1>8, <1>10, <2>1, ChildOwned
    <2>3. \A j \in Keys : p = PathOf[j] => j \in W
      BY <1>2, <1>6, PathFacts
    <2>4. Owned(Put(db[g], p, AddChild(n, c)), W)
      BY <1>10, <2>2, <2>3, PutOwned
    <2>5. QED
      BY <1>3, <1>10, <2>4 DEF Linking
  <1>12. db'[g] = d /\ \A r \in Stores \ {g} : db'[r] = db[r]
    BY <1>4, <1>5, <1>7, Wrote
  <1>13. \A s \in Stores : Owned(db'[s], DOMAIN written'[s])
    BY <1>5, <1>9, <1>11, <1>12 DEF LibraryOwned
  <1>14. th'[0] = w
    BY <1>5, <1>6, <1>7 DEF ThreadShapes
  <1>15. w.pc \in {"get", "put"} => w.keys = th[t].keys
    <2>1. CASE i + 1 = PathLen
      <3>1. w = Work(Tail(th[t].keys))
        BY <1>3, <2>1
      <3>2. w.pc \in {"idle", "leaf"}
        BY <1>6, <3>1, WorkIs
      <3>3. QED
        BY <3>2
    <2>2. CASE i + 1 # PathLen
      <3>1. w = [pc |-> "get", keys |-> th[t].keys, level |-> i + 1, snap |-> NoNode]
        BY <1>3, <1>6, <2>2, ThreadRecord
      <3>2. QED
        BY <3>1
    <2>3. QED
      BY <2>1, <2>2
  <1>16. w.pc \in {"get", "put"} => Head(w.keys) = k
    BY <1>1, <1>15, Zenon
  <1>17. th'[0].pc \in {"get", "put"} => Head(th'[0].keys) \in DOMAIN written'["globalState"]
    <2>1. SUFFICES ASSUME w.pc \in {"get", "put"} PROVE Head(w.keys) \in DOMAIN written'["globalState"]
      BY <1>14
    <2>2. Head(w.keys) = k
      BY <1>16, <2>1
    <2>3. QED
      BY <1>1, <1>5, <1>9, <1>10, <2>2
  <1>18. \A j \in DOMAIN stack', l \in Keys : stack'[j].key = PathOf[l] => l \in DOMAIN written'["globalState"]
    BY <1>5 DEF LibraryOwned
  <1>19. QED
    BY <1>13, <1>17, <1>18 DEF LibraryOwned

\* Steps after which all threads rest.
LEMMA RestOwned ==
  ASSUME th' = [t \in Threads |-> Idle],
         \A s \in Stores : Owned(db'[s], DOMAIN written'[s]),
         \A i \in DOMAIN stack', k \in Keys : stack'[i].key = PathOf[k] => k \in DOMAIN written'["globalState"]
  PROVE  LibraryOwned'
  <1>1. 0 \in Threads
    BY BoundsAssumption DEF Threads
  <1>2. th'[0].pc = "idle"
    BY <1>1, IdleIs
  <1>3. QED
    BY <1>2 DEF LibraryOwned

\* No call of dfs is under way.
LEMMA NoFrames ==
  ASSUME Walking, phase # "dfs"
  PROVE  stack = <<>> /\ DOMAIN stack = {}
  <1>1. stack = <<>>
    BY DEF Walking
  <1>2. QED
    BY <1>1

LEMMA LibraryCallOwned ==
  ASSUME TreeIInv, Ownership, mode = "library", LibraryOwned, LibraryCall
  PROVE  LibraryOwned'
  <1>1. TreeShapes /\ ThreadShapes /\ Walking
    BY DEF TreeIInv
  <1>2. phase = "idle" /\ UNCHANGED <<mode, th, raced>>
    BY DEF LibraryCall
  <1>3. th' = [t \in Threads |-> Idle]
    BY <1>1, <1>2, RestIs
  <1>4. stack = <<>> /\ DOMAIN stack = {}
    BY <1>1, <1>2, NoFrames
  <1>5. PICK g, t : g = "globalState" /\ t = "globalState_tmp"
    OBVIOUS
  <1>6. g \in Stores /\ t \in Stores /\ Stores = {g, t} /\ g # t
    BY <1>5 DEF Stores
  <1>7. Owned(db[g], DOMAIN written[g]) /\ Owned(db[t], DOMAIN written[t])
    BY <1>6 DEF LibraryOwned
  <1>8. CASE updateAllNonLeafHashes /\ UNCHANGED <<db, written, linked, lost, overlaid, clean>>
    <2>1. PICK f : f = Frame(db["globalState"], Root)
      OBVIOUS
    <2>2. stack' = <<f>> /\ UNCHANGED <<db, written>>
      BY <1>8, <2>1 DEF updateAllNonLeafHashes
    <2>3. IsTree(db["globalState"])
      BY <1>1, StoreIs DEF TreeShapes
    <2>4. f.key = Root
      BY <2>1, <2>3, FrameIs
    <2>5. \A i \in DOMAIN stack' : stack'[i] = f
      <3>1. PICK st : st = <<f>>
        OBVIOUS
      <3>2. \A i \in DOMAIN st : st[i] = f
        BY <3>1
      <3>3. QED
        BY <2>2, <3>1, <3>2
    <2>6. \A i \in DOMAIN stack', k \in Keys : stack'[i].key # PathOf[k]
      BY <2>4, <2>5, PathApart
    <2>7. \A s \in Stores : Owned(db'[s], DOMAIN written'[s])
      BY <2>2 DEF LibraryOwned
    <2>8. QED
      BY <1>3, <2>6, <2>7, RestOwned
  <1>9. CASE duplicateState /\ UNCHANGED <<phase, walk, clean>>
    <2>1. stack' = stack
      BY <1>9 DEF walk
    <2>2. /\ db'[g] = db[g] /\ written'[g] = written[g] /\ db'[t] = Over(db[g], db[t])
          /\ DOMAIN written'[t] = DOMAIN written[g] \cup DOMAIN written[t]
      BY <1>2, <1>5, <1>9, Duplicated
    <2>3. Owned(db'[t], DOMAIN written'[t])
      BY <1>7, <2>2, OverOwned
    <2>4. \A s \in Stores : Owned(db'[s], DOMAIN written'[s])
      BY <1>6, <1>7, <2>2, <2>3
    <2>5. DOMAIN stack' = {}
      BY <1>4, <2>1
    <2>6. QED
      BY <1>3, <2>4, <2>5, RestOwned
  <1>10. CASE replaceWith /\ clean' = FALSE /\ UNCHANGED <<phase, walk, overlaid>>
    <2>1. stack' = stack /\ overlaid' = overlaid
      BY <1>10 DEF walk
    <2>2. /\ db'[g] = GlobalState(db[t]) /\ db'[t] = EmptyStore
          /\ written'[g] = written[t]
      BY <1>2, <1>5, <1>10, <2>1, Replaced
    <2>3. Owned(db'[g], DOMAIN written'[g]) /\ Owned(db'[t], DOMAIN written'[t])
      BY <1>7, <2>2, OpenOwned, EmptyOwned
    <2>4. \A s \in Stores : Owned(db'[s], DOMAIN written'[s])
      BY <1>6, <2>3
    <2>5. DOMAIN stack' = {}
      BY <1>4, <2>1
    <2>6. QED
      BY <1>3, <2>4, <2>5, RestOwned
  <1>11. QED
    BY <1>8, <1>9, <1>10 DEF LibraryCall

LEMMA DfsCallOwned ==
  ASSUME TreeIInv, mode = "library", LibraryOwned, DfsCall
  PROVE  LibraryOwned'
  <1>1. TreeShapes /\ ThreadShapes /\ Walking
    BY DEF TreeIInv
  <1>2. PICK d, n, f : d = db["globalState"] /\ n = Len(stack) /\ f = stack[n]
    OBVIOUS
  <1>3. PICK c : c = f.node.children[f.next]
    OBVIOUS
  <1>4. /\ phase = "dfs" /\ f.next <= Len(f.node.children)
        /\ \/ c \in visited /\ stack' = [stack EXCEPT ![n] = Returned(f, getNode(d, c).hash)]
           \/ c \notin visited /\ stack' = Append(stack, Frame(d, c))
        /\ UNCHANGED <<mode, db, th, written>>
    BY <1>2, <1>3 DEF DfsCall
  <1>5. /\ IsTree(d) /\ n \in Nat \ {0} /\ DOMAIN stack = 1 .. n /\ n \in DOMAIN stack
        /\ IsFrame(f) /\ f.node = getNode(d, f.key)
    BY <1>2, <1>4, OnStack
  <1>6. th' = [t \in Threads |-> Idle]
    BY <1>1, <1>4, RestIs
  <1>7. \A s \in Stores : Owned(db'[s], DOMAIN written'[s])
    BY <1>4 DEF LibraryOwned
  <1>8. PICK W : W = DOMAIN written["globalState"]
    OBVIOUS
  <1>9. /\ \A i \in 1 .. n, k \in Keys : stack[i].key = PathOf[k] => k \in W
        /\ Owned(d, W)
    BY <1>2, <1>5, <1>8, StoreIs DEF LibraryOwned
  <1>10. \A i \in DOMAIN stack', k \in Keys : stack'[i].key = PathOf[k] => k \in W
    <2>1. CASE c \in visited
      <3>1. PICK g : g = Returned(f, getNode(d, c).hash)
        OBVIOUS
      <3>2. g.key = f.key
        BY <1>4, <1>5, <3>1, ReturnedIs
      <3>3. stack' = [stack EXCEPT ![n] = g]
        BY <1>4, <2>1, <3>1
      <3>4. DOMAIN stack' = 1 .. n /\ \A i \in 1 .. n : stack'[i] = IF i = n THEN g ELSE stack[i]
        BY <1>5, <3>3
      <3>5. \A i \in 1 .. n : stack'[i].key = stack[i].key
        BY <1>2, <3>2, <3>4
      <3>6. QED
        BY <1>9, <3>4, <3>5
    <2>2. CASE c \notin visited
      <3>1. PICK g : g = Frame(d, c)
        OBVIOUS
      <3>2. g.key = c
        BY <1>5, <3>1, FrameIs
      <3>3. IsSeq(stack) /\ stack' = Append(stack, g)
        BY <1>1, <1>4, <2>2, <3>1 DEF Walking
      <3>4. /\ DOMAIN stack' = 1 .. n + 1 /\ stack'[n + 1] = g
            /\ \A i \in 1 .. n : stack'[i] = stack[i]
        BY <1>2, <3>3, SeqAppend
      <3>5. \A i \in 1 .. n + 1 : i = n + 1 \/ i \in 1 .. n
        BY <1>5
      <3>6. c \in Range(f.node.children)
        <4>1. Len(f.node.children) \in Nat /\ DOMAIN f.node.children = 1 .. Len(f.node.children)
          BY <1>5 DEF IsFrame, IsNode, IsSeq
        <4>2. f.next \in DOMAIN f.node.children
          BY <1>4, <1>5, <4>1 DEF IsFrame
        <4>3. QED
          BY <1>3, <4>2 DEF Range
      <3>7. \A k \in Keys : c = PathOf[k] => k \in W
        BY <1>5, <1>9, <3>6, ReadOwned
      <3>8. QED
        BY <1>9, <3>2, <3>4, <3>5, <3>7
    <2>3. QED
      BY <2>1, <2>2
  <1>11. DOMAIN written'["globalState"] = W
    BY <1>4, <1>8
  <1>12. QED
    BY <1>6, <1>7, <1>10, <1>11, RestOwned

LEMMA DfsReturnOwned ==
  ASSUME TreeIInv, mode = "library", LibraryOwned, DfsReturn
  PROVE  LibraryOwned'
  <1>1. TreeShapes /\ ThreadShapes /\ Walking
    BY DEF TreeIInv
  <1>2. PICK g, n, f : g = "globalState" /\ n = Len(stack) /\ f = stack[n]
    OBVIOUS
  <1>3. PICK z, h : z = FlattenSeq(f.hashes) \o f.node.value /\ h = Sha(z)
    OBVIOUS
  <1>4. PICK m : m = [f.node EXCEPT !.hash = h]
    OBVIOUS
  <1>5. PICK e : e = Put(db[g], f.key, m)
    OBVIOUS
  <1>6. /\ phase = "dfs" /\ Write(g, e) /\ UNCHANGED <<mode, th, written>>
        /\ \/ n = 1 /\ stack' = <<>>
           \/ /\ n > 1
              /\ stack' = [i \in 1 .. n - 1 |-> IF i < n - 1 THEN stack[i] ELSE Returned(stack[i], h)]
    BY <1>2, <1>3, <1>4, <1>5 DEF DfsReturn
  <1>7. g \in Stores
    BY <1>2, StoreIs
  <1>8. /\ IsTree(db[g]) /\ n \in Nat \ {0} /\ DOMAIN stack = 1 .. n /\ n \in DOMAIN stack
        /\ f.node = getNode(db[g], f.key)
    BY <1>2, <1>6, OnStack
  <1>9. PICK W : W = DOMAIN written[g]
    OBVIOUS
  <1>10. /\ Owned(db[g], W) /\ \A i \in 1 .. n, k \in Keys : stack[i].key = PathOf[k] => k \in W
    BY <1>2, <1>7, <1>8, <1>9 DEF LibraryOwned
  <1>11. Owned(e, W)
    <2>2. IsOwned(m, W)
      BY <1>3, <1>4, <1>8, <1>10, HashOwned
    <2>3. \A k \in Keys : f.key = PathOf[k] => k \in W
      BY <1>2, <1>8, <1>10
    <2>4. QED
      BY <1>5, <1>10, <2>2, <2>3, PutOwned
  <1>12. db'[g] = e /\ \A r \in Stores \ {g} : db'[r] = db[r]
    BY <1>1, <1>6, <1>7, Wrote
  <1>13. \A s \in Stores : Owned(db'[s], DOMAIN written'[s])
    BY <1>6, <1>9, <1>11, <1>12 DEF LibraryOwned
  <1>14. \A i \in DOMAIN stack', k \in Keys : stack'[i].key = PathOf[k] => k \in W
    <2>1. CASE n = 1
      <3>1. stack' = <<>>
        BY <1>6, <2>1
      <3>2. DOMAIN stack' = {}
        BY <3>1
      <3>3. QED
        BY <3>2
    <2>2. CASE n # 1
      <3>1. stack' = [i \in 1 .. n - 1 |-> IF i < n - 1 THEN stack[i] ELSE Returned(stack[i], h)]
        BY <1>6, <2>2
      <3>2. n - 1 \in 1 .. n /\ n - 1 + 1 = n
        BY <1>8, <2>2
      <3>3. IsFrame(stack[n - 1]) /\ stack[n - 1].next \in DOMAIN stack[n - 1].node.children
        BY <1>1, <1>8, <3>2 DEF Walking
      <3>4. PICK b : b = stack[n - 1]
        OBVIOUS
      <3>5. b.next <= Len(b.node.children) /\ IsFrame(b)
        <4>1. IsFrame(b) /\ b.next \in DOMAIN b.node.children
          BY <3>3, <3>4
        <4>2. Len(b.node.children) \in Nat /\ DOMAIN b.node.children = 1 .. Len(b.node.children)
          BY <4>1 DEF IsFrame, IsNode, IsSeq
        <4>3. QED
          BY <4>1, <4>2
      <3>6. Returned(b, h).key = b.key
        BY <3>5, ReturnedIs
      <3>7. \A i \in 1 .. n - 1 : i \in 1 .. n /\ (i < n - 1 \/ i = n - 1)
        BY <1>8
      <3>8. \A i \in 1 .. n - 1 : stack'[i].key = stack[i].key
        BY <3>1, <3>4, <3>6, <3>7
      <3>9. DOMAIN stack' = 1 .. n - 1
        BY <3>1
      <3>10. QED
        BY <1>10, <3>7, <3>8, <3>9
    <2>3. QED
      BY <2>1, <2>2
  <1>15. DOMAIN written'["globalState"] = W
    BY <1>2, <1>6, <1>9
  <1>16. th' = [t \in Threads |-> Idle]
    BY <1>1, <1>6, RestIs
  <1>17. QED
    BY <1>13, <1>14, <1>15, <1>16, RestOwned

\* The other steps of the mode "library".
LEMMA FlushOwned ==
  ASSUME TreeIInv, mode = "library", LibraryOwned, StartFlush \/ Join \/ resetTree
  PROVE  LibraryOwned'
  <1>1. TreeShapes /\ ThreadShapes /\ Walking
    BY DEF TreeIInv
  <1>2. 0 \in Threads
    BY BoundsAssumption DEF Threads
  <1>3. CASE StartFlush
    <2>1. PICK ks \in SUBSET Keys : \E seq \in InMapOrder(ks) : Flush(ks, seq)
      BY <1>3 DEF StartFlush
    <2>2. PICK seq \in InMapOrder(ks) : Flush(ks, seq)
      BY <2>1
    <2>3. phase = "idle" /\ UNCHANGED <<db, written, stack>>
      BY <1>3 DEF StartFlush, walk
    <2>4. PICK q \in Seq(ks) : th'[0] = Work(q)
      BY <1>1, <1>2, <2>2, <2>3, RestIs, FlushThreads
    <2>5. th'[0].pc \in {"idle", "leaf"}
      BY <2>4, WorkIs
    <2>6. QED
      BY <2>3, <2>5 DEF LibraryOwned
  <1>4. CASE Join
    BY <1>4 DEF Join, walk, LibraryOwned
  <1>5. CASE resetTree
    <2>1. /\ phase = "idle" /\ UNCHANGED <<th, stack>>
          /\ db' = [db EXCEPT !["globalState"] = GlobalState(EmptyStore)]
          /\ written' = [written EXCEPT !["globalState"] = [k \in {} |-> Empty]]
      BY <1>5 DEF resetTree, walk
    <2>2. th' = [t \in Threads |-> Idle]
      BY <1>1, <2>1, RestIs
    <2>3. /\ db'["globalState"] = GlobalState(EmptyStore)
          /\ \A s \in Stores \ {"globalState"} : db'[s] = db[s] /\ written'[s] = written[s]
      BY <1>1, <2>1, StoreIs DEF TreeShapes
    <2>4. \A s \in Stores : Owned(db'[s], DOMAIN written'[s])
      BY <2>3, EmptyOwned DEF LibraryOwned
    <2>5. DOMAIN stack' = {}
      BY <1>1, <2>1, NoFrames
    <2>6. QED
      BY <2>2, <2>4, <2>5, RestOwned
  <1>6. QED
    BY <1>3, <1>4, <1>5

LEMMA ModeStays == [TreeNext]_treeVars => mode' = mode
  BY DEF TreeNext, treeVars, Start, StartFlush, Join, UpdateHashes, resetTree, LibraryCall, DfsCall, DfsReturn,
         Crash, Finished, PutLeaf, GetParent, PutParent

LEMMA OwnershipInit == TreeInit => Ownership
  <1>1. SUFFICES ASSUME TreeInit PROVE Ownership
    OBVIOUS
  <1>2. \A s \in Stores : db[s] = GlobalState(EmptyStore) \/ db[s] = EmptyStore
    BY <1>1 DEF TreeInit
  <1>3. db["globalState"] = GlobalState(EmptyStore)
    BY <1>1, StoreIs DEF TreeInit
  <1>4. \A s \in Stores : Owned(db[s], DOMAIN written[s])
    BY <1>2, EmptyOwned
  <1>5. 0 \in Threads
    BY BoundsAssumption DEF Threads
  <1>6. th[0].pc = "idle"
    BY <1>1, <1>5, IdleIs DEF TreeInit
  <1>7. DOMAIN stack = {}
    BY <1>1 DEF TreeInit
  <1>8. QED
    BY <1>3, <1>4, <1>6, <1>7 DEF Ownership

LEMMA OwnershipStep ==
  ASSUME TreeIInv, Ownership, [TreeNext]_treeVars
  PROVE  Ownership'
  <1>1. mode' = mode
    BY ModeStays
  <1>2. CASE UNCHANGED treeVars
    BY <1>2 DEF treeVars, Ownership
  <1>3. CASE TreeNext /\ mode = "serial"
    <2>1. db'["globalState"] = db["globalState"]
      BY <1>3, SourceStays
    <2>2. QED
      BY <1>1, <1>3, <2>1 DEF Ownership
  <1>4. CASE TreeNext /\ mode = "library"
    <2>1. LibraryOwned
      BY <1>4 DEF Ownership, LibraryOwned
    <2>2. PhaseShapes
      BY DEF TreeIInv
    <2>3. ~Start /\ ~UpdateHashes /\ ~Crash
      BY <1>4, <2>2 DEF Start, UpdateHashes, Crash, PhaseShapes
    <2>4. ASSUME Finished PROVE LibraryOwned'
      BY <2>1, <2>4 DEF Finished, treeVars, LibraryOwned
    <2>5. ASSUME StartFlush \/ Join \/ resetTree PROVE LibraryOwned'
      BY <1>4, <2>1, <2>5, FlushOwned
    <2>6. ASSUME LibraryCall PROVE LibraryOwned'
      BY <1>4, <2>1, <2>6, LibraryCallOwned
    <2>7. ASSUME DfsCall \/ DfsReturn PROVE LibraryOwned'
      BY <1>4, <2>1, <2>7, DfsCallOwned, DfsReturnOwned
    <2>8. ASSUME \E t \in Threads : PutLeaf(t) \/ GetParent(t) \/ PutParent(t) PROVE LibraryOwned'
      BY <1>4, <2>1, <2>8, PutLeafOwned, GetParentOwned, PutParentOwned
    <2>9. LibraryOwned'
      BY <1>4, <2>3, <2>4, <2>5, <2>6, <2>7, <2>8 DEF TreeNext
    <2>10. QED
      BY <1>1, <1>4, <2>9 DEF Ownership, LibraryOwned
  <1>5. CASE mode \notin {"serial", "library"}
    BY <1>1, <1>5 DEF Ownership
  <1>6. QED
    BY <1>2, <1>3, <1>4, <1>5

-----------------------------------------------------------------------------
\* The inductive invariant of the tree.
THEOREM TreeInvariant == TreeSpec => [](TreeIInv /\ Ownership)
  <1>1. TreeInit => TreeIInv /\ Ownership
    BY TreeInitInv, OwnershipInit
  <1>2. TreeIInv /\ Ownership /\ [TreeNext]_treeVars => (TreeIInv /\ Ownership)'
    BY TreeStep, OwnershipStep
  <1>3. QED
    BY <1>1, <1>2, PTL DEF TreeSpec

\* getValue returns the value last written, in every mode (globalState.h getValue).
THEOREM ReadersSeeWrites == TreeSpec => []ValuesKept
  <1>1. TreeIInv => ValuesKept
    <2>1. SUFFICES ASSUME TreeIInv, NEW s \in Stores, NEW k \in DOMAIN written[s]
                   PROVE  getValue(db[s], k) = written[s][k]
      BY DEF ValuesKept
    <2>2. IsTree(db[s]) /\ PathOf[k] \in DOMAIN db[s] /\ db[s][PathOf[k]].value = written[s][k]
      BY <2>1 DEF TreeIInv, TreeShapes, Stored
    <2>3. QED
      BY <2>2, ReadNode DEF getValue
  <1>2. QED
    BY <1>1, TreeInvariant, PTL

\* Types; an inserted key is linked from the root, and only a race for a node or a copy over
\* an older copy undoes a link (insert and addChild of globalState.h).
THEOREM LinksSurvive == TreeSpec => []LinksInv
  <1>1. TreeIInv => LinksInv
    <2>1. SUFFICES ASSUME TreeIInv PROVE LinksInv
      OBVIOUS
    <2>2. TreeShapes /\ ThreadShapes /\ Walking /\ LinkInv
      BY <2>1 DEF TreeIInv
    <2>3. InsertLinks
      BY <2>2 DEF LinkInv
    <2>4. LostOnlyByRace
      BY <2>2, StoreIs DEF LinkInv, LossReasons, Alone, LostOnlyByRace
    <2>5. TreeTypeOK
      <3>1. \A s \in Stores : \A x \in DOMAIN db[s] : DOMAIN db[s][x] = {"hash", "value", "children"}
        <4>1. \A s \in Stores : \A x \in DOMAIN db[s] : IsNode(db[s][x])
          BY <2>2 DEF TreeShapes, IsTree
        <4>2. ASSUME NEW n, IsNode(n) PROVE DOMAIN n = {"hash", "value", "children"}
          <5>1. n = [hash |-> n.hash, value |-> n.value, children |-> n.children]
            BY <4>2 DEF IsNode, Node
          <5>2. QED
            BY <5>1
        <4>3. QED
          BY <4>1, <4>2
      <3>2. ASSUME NEW t \in Threads
            PROVE  Range(th[t].keys) \subseteq DOMAIN pending /\ th[t].level \in 0 .. PathLen - 1
        <4>1. th[t].keys \in Seq(DOMAIN pending) /\ th[t].level \in 0 .. PathLen - 1
          BY <2>2 DEF ThreadShapes, IsThread
        <4>2. QED
          BY <4>1 DEF Range
      <3>3. \A i \in DOMAIN stack : /\ stack[i].key \in visited
                                    /\ stack[i].next \in 1 .. Len(stack[i].node.children) + 1
        BY <2>2 DEF Walking, IsFrame
      <3>4. QED
        BY <2>2, <3>1, <3>2, <3>3 DEF TreeTypeOK, TreeShapes, ThreadShapes
    <2>6. QED
      BY <2>3, <2>4, <2>5 DEF LinksInv
  <1>2. QED
    BY <1>1, TreeInvariant, PTL

-----------------------------------------------------------------------------
(***************************************************************************)
(* The hashes.                                                             *)
(***************************************************************************)
\* A child list without the root.
RootFree(n) == Root \notin Range(n.children)

\* The root is its own child in no store, in no thread's hand.
RootApart ==
  /\ Root \in DOMAIN db["globalState"]
  /\ \A s \in Stores : RootFree(getNode(db[s], Root))
  /\ \A t \in Threads : th[t].pc = "put" /\ th[t].level = 0 => RootFree(th[t].snap)

\* dfs began at the root; the children it is done with are not entered again, so
\* the hashes it has of them are those stored.
RootWalk ==
  phase = "dfs" =>
    /\ stack[1].key = Root
    /\ \A j \in 1 .. stack[1].next - 1 :
         /\ stack[1].node.children[j] \in visited
         /\ \A i \in DOMAIN stack : stack[i].key # stack[1].node.children[j]
         /\ stack[1].hashes[j] = getNode(db["globalState"], stack[1].node.children[j]).hash

\* When the root is up to date.
RootHashed ==
  /\ phase \in {"insert", "hash"} => ~clean
  /\ clean /\ phase = "idle" => Exact(db["globalState"], Root)
  /\ mode = "serialTree" /\ phase = "insert" /\ th[0] = Idle => Exact(db["globalState"], Root)

\* The serial node never writes the store in question.
RootInv == mode # "serial" => RootApart /\ RootWalk /\ RootHashed

\* Names of three kinds: of the root, of digests, and those made of characters.
LEMMA NamesApart ==
  /\ Root \notin Seq(Chars) /\ \A z : Sha(z) \notin Seq(Chars) /\ Root # Sha(z) /\ Sha(z) # Empty
  /\ Root # Empty
  <1>1. Len(Root) = 1 /\ Root[1] = <<"rootNode">> /\ Root # <<>>
    BY DEF Root
  <1>2. \A z : Len(Sha(z)) = 1 /\ Sha(z)[1] = <<"sha", z>> /\ Sha(z) # <<>>
    BY DEF Sha
  <1>3. \A z : Len(<<"sha", z>>) = 2
    OBVIOUS
  <1>4. Len(<<"rootNode">>) = 1
    OBVIOUS
  <1>5. \A z : <<"sha", z>> \notin Chars /\ <<"sha", z>> # <<"rootNode">>
    BY <1>3, <1>4, CharsAssumption
  <1>6. <<"rootNode">> \notin Chars
    BY CharsAssumption
  <1>7. \A s \in Seq(Chars) : Len(s) = 1 => s[1] \in Chars
    OBVIOUS
  <1>8. QED
    BY <1>1, <1>2, <1>5, <1>6, <1>7 DEF Empty

\* A node with another hash.
LEMMA NewHash ==
  ASSUME NEW n, IsNode(n), NEW h
  PROVE  \E m : /\ m = [n EXCEPT !.hash = h]
                /\ IsNode(m) /\ m.hash = h /\ m.value = n.value /\ m.children = n.children
  <1>1. PICK m : m = Node(h, n.value, n.children)
    OBVIOUS
  <1>2. m = [n EXCEPT !.hash = h]
    BY <1>1, NodeChanged
  <1>3. IsSeq(n.children)
    BY DEF IsNode
  <1>4. IsNode(m)
    BY <1>1, <1>3, NodeIs
  <1>5. m.hash = h /\ m.value = n.value /\ m.children = n.children
    BY <1>1, NodeFields
  <1>6. QED
    BY <1>2, <1>4, <1>5

\* Rehash writes back the node with the digest of its children's hashes.
LEMMA RehashIs ==
  ASSUME NEW d, IsTree(d), NEW x
  PROVE  \E m : /\ Rehash(d, x) = Put(d, x, m) /\ IsNode(m)
                /\ m.hash = Sha(ConcatHashes(d, getNode(d, x)) \o getNode(d, x).value)
                /\ m.value = getNode(d, x).value /\ m.children = getNode(d, x).children
  <1>1. PICK n, h : n = getNode(d, x) /\ h = Sha(ConcatHashes(d, n) \o n.value)
    OBVIOUS
  <1>2. IsNode(n)
    BY <1>1, ReadNode
  <1>3. PICK m : /\ m = [n EXCEPT !.hash = h]
                 /\ IsNode(m) /\ m.hash = h /\ m.value = n.value /\ m.children = n.children
    BY <1>2, NewHash
  <1>4. Rehash(d, x) = Put(d, x, [n EXCEPT !.hash = h])
    BY <1>1 DEF Rehash
  <1>5. Rehash(d, x) = Put(d, x, m)
    BY <1>3, <1>4
  <1>6. QED
    BY <1>1, <1>3, <1>5

\* An exact hash, written out.
LEMMA ExactIs ==
  ASSUME NEW d, IsTree(d), NEW x
  PROVE  Exact(d, x) <=> d[x].hash = Sha(ConcatHashes(d, getNode(d, x)) \o getNode(d, x).value)
  <1>1. PICK h : h = Sha(ConcatHashes(d, getNode(d, x)) \o getNode(d, x).value)
    OBVIOUS
  <1>2. PICK m : Rehash(d, x) = Put(d, x, m) /\ m.hash = h
    BY <1>1, RehashIs
  <1>3. Put(d, x, m)[x] = m
    BY DEF Put
  <1>4. QED
    BY <1>1, <1>2, <1>3 DEF Exact

\* The digest of a child list depends on the hashes of the children alone.
LEMMA SameHashes ==
  ASSUME NEW d, NEW e, NEW n, \A c \in Range(n.children) : getNode(e, c).hash = getNode(d, c).hash
  PROVE  ConcatHashes(e, n) = ConcatHashes(d, n)
  <1>1. \A i \in DOMAIN n.children : n.children[i] \in Range(n.children)
    BY DEF Range
  <1>2. Hashes(e, n) = Hashes(d, n)
    BY <1>1 DEF Hashes
  <1>3. QED
    BY <1>2 DEF ConcatHashes

\* A node stays exact while it and its children's hashes stay.
LEMMA ExactStays ==
  ASSUME NEW d, IsTree(d), NEW e, IsTree(e), NEW x, x \in DOMAIN d, x \in DOMAIN e,
         getNode(e, x) = getNode(d, x), Exact(d, x),
         \A c \in Range(getNode(d, x).children) : getNode(e, c).hash = getNode(d, c).hash
  PROVE  Exact(e, x)
  <1>1. PICK n : n = getNode(d, x)
    OBVIOUS
  <1>2. d[x].hash = n.hash /\ e[x].hash = n.hash
    BY <1>1, ReadNode
  <1>3. ConcatHashes(e, n) = ConcatHashes(d, n)
    BY <1>1, SameHashes
  <1>4. d[x].hash = Sha(ConcatHashes(d, n) \o n.value)
    BY <1>1, ExactIs
  <1>5. e[x].hash = Sha(ConcatHashes(e, n) \o n.value)
    BY <1>2, <1>3, <1>4
  <1>6. getNode(e, x) = n
    BY <1>1
  <1>7. QED
    BY <1>5, <1>6, ExactIs

\* A node that is written with a new hash: the others stay, and it keeps its children
\* if it was there.
LEMMA HashWritten ==
  ASSUME NEW d, IsTree(d), NEW x, NEW m, IsNode(m), m.value = getNode(d, x).value,
         m.children = getNode(d, x).children, NEW e, e = Put(d, x, m)
  PROVE  /\ IsTree(e) /\ DOMAIN e = DOMAIN d \cup {x} /\ e[x] = m /\ getNode(e, x).hash = m.hash
         /\ \A y : y # x => getNode(e, y) = getNode(d, y)
         /\ \A y \in DOMAIN d : y # x => e[y] = d[y]
         /\ getNode(e, x).value = getNode(d, x).value
         /\ x \in DOMAIN d => getNode(e, x).children = getNode(d, x).children
  <1>1. PICK n : n = getNode(d, x)
    OBVIOUS
  <1>2. IsNode(n) /\ (x \in DOMAIN d => n.children # <<>>)
    BY <1>1, ReadNode
  <1>3. m.value = n.value /\ m.children = n.children
    BY <1>1
  <1>4. e = Put(d, x, m)
    OBVIOUS
  <1>5. IsTree(e)
    BY <1>3, <1>4, PutTree
  <1>6. DOMAIN e = DOMAIN d \cup {x} /\ e[x] = m /\ \A y \in DOMAIN d : y # x => e[y] = d[y]
    BY <1>4 DEF Put
  <1>7. \A y : y # x => getNode(e, y) = getNode(d, y)
    BY <1>4, ReadOther
  <1>8. getNode(e, x) = deserializeNode(m)
    BY <1>4, ReadPut
  <1>9. /\ getNode(e, x).hash = m.hash /\ getNode(e, x).value = n.value
        /\ x \in DOMAIN d => getNode(e, x).children = n.children
    BY <1>2, <1>3, <1>8, ReadBack
  <1>10. QED
    BY <1>1, <1>3, <1>5, <1>6, <1>7, <1>9

LEMMA Rehashed ==
  ASSUME NEW d, IsTree(d), NEW x, NEW e, e = Rehash(d, x)
  PROVE  /\ IsTree(e) /\ DOMAIN e = DOMAIN d \cup {x}
         /\ \A y : y # x => getNode(e, y) = getNode(d, y)
         /\ \A y \in DOMAIN d : y # x => e[y] = d[y]
         /\ getNode(e, x).value = getNode(d, x).value
         /\ x \in DOMAIN d => getNode(e, x).children = getNode(d, x).children
         /\ x \in DOMAIN d /\ x \notin Range(getNode(d, x).children) => Exact(e, x)
  <1>1. PICK n : n = getNode(d, x)
    OBVIOUS
  <1>2. PICK h : h = Sha(ConcatHashes(d, n) \o n.value)
    OBVIOUS
  <1>3. PICK m : /\ e = Put(d, x, m) /\ IsNode(m) /\ m.hash = h
                 /\ m.value = getNode(d, x).value /\ m.children = getNode(d, x).children
    BY <1>1, <1>2, RehashIs
  <1>4. /\ IsTree(e) /\ DOMAIN e = DOMAIN d \cup {x} /\ e[x].hash = h
        /\ \A y : y # x => getNode(e, y) = getNode(d, y)
        /\ \A y \in DOMAIN d : y # x => e[y] = d[y]
        /\ getNode(e, x).value = n.value /\ getNode(e, x).hash = h
        /\ x \in DOMAIN d => getNode(e, x).children = n.children
    BY <1>1, <1>3, HashWritten
  <1>5. ASSUME x \in DOMAIN d, x \notin Range(n.children) PROVE Exact(e, x)
    <2>1. PICK q : q = getNode(e, x)
      OBVIOUS
    <2>2. q.children = n.children /\ q.value = n.value
      BY <1>4, <1>5, <2>1
    <2>3. \A c \in Range(n.children) : getNode(e, c).hash = getNode(d, c).hash
      BY <1>4, <1>5
    <2>4. ConcatHashes(e, n) = ConcatHashes(d, n)
      BY <2>3, SameHashes
    <2>5. ConcatHashes(e, q) = ConcatHashes(e, n)
      BY <2>2 DEF ConcatHashes, Hashes
    <2>6. e[x].hash = Sha(ConcatHashes(e, q) \o q.value)
      BY <1>2, <1>4, <2>2, <2>4, <2>5
    <2>7. QED
      BY <1>4, <2>1, <2>6, ExactIs
  <1>6. QED
    BY <1>1, <1>4, <1>5

LEMMA RehashTree ==
  ASSUME NEW d, IsTree(d), NEW x, NEW y, y \in DOMAIN d
  PROVE  /\ IsTree(Rehash(d, x)) /\ y \in DOMAIN Rehash(d, x)
         /\ getNode(Rehash(d, x), y).children = getNode(d, y).children
         /\ y # x => Rehash(d, x)[y] = d[y]
  <1>1. PICK e : e = Rehash(d, x)
    OBVIOUS
  <1>2. /\ IsTree(e) /\ DOMAIN e = DOMAIN d \cup {x}
        /\ (y # x => getNode(e, y) = getNode(d, y) /\ e[y] = d[y])
        /\ (x \in DOMAIN d => getNode(e, x).children = getNode(d, x).children)
    BY <1>1, Rehashed
  <1>3. QED
    BY <1>1, <1>2

LEMMA RehashExact ==
  ASSUME NEW d, IsTree(d), NEW x, x \in DOMAIN d, x \notin Range(getNode(d, x).children)
  PROVE  Exact(Rehash(d, x), x)
  <1>1. PICK e : e = Rehash(d, x)
    OBVIOUS
  <1>2. Exact(e, x)
    BY <1>1, Rehashed
  <1>3. QED
    BY <1>1, <1>2

\* updateParentHashes ends at the root.
LEMMA ParentsRoot ==
  ASSUME NEW d, IsTree(d), Root \in DOMAIN d, RootFree(getNode(d, Root)),
         NEW s, Len(s) \in Nat \ {0}, NEW e, e = updateParentHashes(d, s)
  PROVE  IsTree(e) /\ Root \in DOMAIN e /\ RootFree(getNode(e, Root)) /\ Exact(e, Root)
  <1>1. PICK f : GoesUp(f, d, s)
    BY ParentRun
  <1> DEFINE N == Len(s)
             T == {i \in 0 .. N : IsTree(f[i]) /\ Root \in DOMAIN f[i] /\ RootFree(getNode(f[i], Root))}
  <1>2. 0 \in T
    BY <1>1 DEF GoesUp
  <1>3. ASSUME NEW i \in 0 .. N - 1, i \in T PROVE i + 1 \in T
    <2>1. i + 1 \in 1 .. N /\ i + 1 - 1 = i /\ i + 1 \in 0 .. N
      OBVIOUS
    <2>2. PICK x : x = PrefixAt(s, i + 1)
      OBVIOUS
    <2>3. f[i + 1] = Rehash(f[i], x)
      BY <1>1, <2>1, <2>2 DEF GoesUp
    <2>4. IsTree(f[i]) /\ Root \in DOMAIN f[i] /\ RootFree(getNode(f[i], Root))
      BY <1>3
    <2>5. /\ IsTree(f[i + 1]) /\ Root \in DOMAIN f[i + 1]
          /\ getNode(f[i + 1], Root).children = getNode(f[i], Root).children
      BY <2>3, <2>4, RehashTree
    <2>6. QED
      BY <2>1, <2>4, <2>5 DEF RootFree
  <1>4. \A i \in 0 .. N : i \in T
    <2>1. \A i \in 0 .. N - 1 : i \in T => i + 1 \in T
      BY <1>3
    <2>2. N \in Nat
      OBVIOUS
    <2> HIDE DEF T, N
    <2>3. QED
      BY <1>2, <2>1, <2>2, UpTo
  <1>5. N - 1 \in 0 .. N /\ N \in 1 .. N /\ N \in 0 .. N
    OBVIOUS
  <1>6. f[N] = Rehash(f[N - 1], Root)
    BY <1>1, <1>5 DEF GoesUp, PrefixAt
  <1>7. PICK g : g = f[N - 1]
    OBVIOUS
  <1>8. IsTree(g) /\ Root \in DOMAIN g /\ RootFree(getNode(g, Root))
    BY <1>4, <1>5, <1>7
  <1>9. f[N] = e
    BY <1>1 DEF GoesUp
  <1>10. Exact(e, Root)
    BY <1>6, <1>7, <1>8, <1>9, RehashExact DEF RootFree
  <1>11. QED
    BY <1>4, <1>5, <1>9, <1>10

\* The nodes updateTree looks at, and the hash it computes.
OnPath(keys) == {SubSeq(PathOf[k], 1, i) : k \in keys, i \in 1 .. PathLen}
Digest(d, x) == Sha(ConcatHashes(d, getNode(d, x)) \o getNode(d, x).value)

\* All hashes are computed from the store as it was before the call.
LEMMA NodesUpdated ==
  ASSUME NEW d, IsTree(d), NEW keys, NEW e, e = UpdateTreeNodes(d, keys)
  PROVE  /\ IsTree(e) /\ DOMAIN d \subseteq DOMAIN e /\ DOMAIN e \subseteq DOMAIN d \cup OnPath(keys)
         /\ \A x : x \notin OnPath(keys) => getNode(e, x) = getNode(d, x)
         /\ \A x \in DOMAIN d : x \notin OnPath(keys) => e[x] = d[x]
         /\ \A x \in DOMAIN d :
              /\ getNode(e, x).children = getNode(d, x).children
              /\ getNode(e, x).value = getNode(d, x).value
              /\ x \in OnPath(keys) => e[x].hash = Digest(d, x)
              /\ d[x].hash = Digest(d, x) => e[x] = d[x]
  <1>1. IsTree(e) /\ DOMAIN d \subseteq DOMAIN e
    BY KeepsNodes DEF Keeps
  <1> DEFINE new(x) == [getNode(d, x) EXCEPT !.hash = Digest(d, x)]
             put == {x \in OnPath(keys) : new(x) # getNode(d, x)}
  <1>2. e = [x \in DOMAIN d \cup put |-> IF x \in put THEN new(x) ELSE d[x]]
    BY DEF UpdateTreeNodes, OnPath, Digest
  <1>3. DOMAIN e = DOMAIN d \cup put /\ put \subseteq OnPath(keys)
    BY <1>2
  <1>4. ASSUME NEW x, x \notin put PROVE getNode(e, x) = getNode(d, x) /\ (x \in DOMAIN d => e[x] = d[x])
    <2>1. x \in DOMAIN e <=> x \in DOMAIN d
      BY <1>3, <1>4
    <2>2. x \in DOMAIN d => e[x] = d[x]
      BY <1>2, <1>4
    <2>3. QED
      BY <2>1, <2>2 DEF getNode
  <1>5. ASSUME NEW x \in DOMAIN d
        PROVE  /\ getNode(e, x).children = getNode(d, x).children
               /\ getNode(e, x).value = getNode(d, x).value
               /\ x \in OnPath(keys) => e[x].hash = Digest(d, x)
               /\ d[x].hash = Digest(d, x) => e[x] = d[x]
    <2>1. PICK n, h : n = getNode(d, x) /\ h = Digest(d, x)
      OBVIOUS
    <2>2. IsNode(n) /\ n.children # <<>> /\ n.hash = d[x].hash
      BY <2>1, ReadNode
    <2>3. PICK m : /\ m = [n EXCEPT !.hash = h]
                   /\ IsNode(m) /\ m.hash = h /\ m.value = n.value /\ m.children = n.children
      BY <2>2, NewHash
    <2>4. new(x) = m
      BY <2>1, <2>3
    <2>5. CASE x \in put
      <3>1. e[x] = m /\ x \in DOMAIN e
        BY <1>2, <1>3, <2>4, <2>5
      <3>2. getNode(e, x) = deserializeNode(m)
        BY <3>1 DEF getNode
      <3>3. deserializeNode(m) = m
        BY <2>2, <2>3, ReadBack
      <3>4. m # n
        BY <2>1, <2>4, <2>5
      <3>5. n.hash # h
        <4>1. SUFFICES ASSUME n.hash = h PROVE m = n
          BY <3>4
        <4>2. n = Node(n.hash, n.value, n.children) /\ m = Node(m.hash, m.value, m.children)
          BY <2>2, <2>3 DEF IsNode
        <4>3. QED
          BY <2>3, <4>1, <4>2
      <3>6. QED
        BY <2>1, <2>2, <2>3, <3>1, <3>2, <3>3, <3>5
    <2>6. CASE x \notin put
      <3>1. getNode(e, x) = n /\ e[x] = d[x]
        BY <1>4, <2>1, <2>6
      <3>2. x \in OnPath(keys) => m = n
        BY <2>1, <2>4, <2>6
      <3>3. x \in OnPath(keys) => n.hash = h
        BY <2>3, <3>2
      <3>4. QED
        BY <2>1, <2>2, <3>1, <3>3
    <2>7. QED
      BY <2>5, <2>6
  <1>6. QED
    BY <1>1, <1>3, <1>4, <1>5

\* The paths leave the root out; it is written last.
LEMMA PathsApart ==
  ASSUME NEW keys \in SUBSET Keys, NEW x \in OnPath(keys)
  PROVE  x \in Seq(Chars) /\ x # Root /\ x # Empty /\ Len(x) \in 1 .. PathLen
  <1>1. PICK k \in keys, i \in 1 .. PathLen : x = SubSeq(PathOf[k], 1, i)
    BY DEF OnPath
  <1>2. PathOf[k] \in Seq(Chars) /\ Len(PathOf[k]) = PathLen
    BY KeysAssumption
  <1>3. i \in 1 .. 3
    BY DEF PathLen
  <1>4. x \in Seq(Chars) /\ Len(x) = i
    <2>1. PICK s \in Seq(Chars) : s = PathOf[k] /\ Len(s) = 3
      BY <1>2 DEF PathLen
    <2>2. \A j \in 1 .. i : s[j] \in Chars
      BY <1>3, <2>1
    <2>3. SubSeq(s, 1, i) \in Seq(Chars) /\ Len(SubSeq(s, 1, i)) = i
      BY <1>3, <2>2, <2>1, SubSeqProperties
    <2>4. QED
      BY <1>1, <2>1, <2>3
  <1>5. x # Empty
    BY <1>3, <1>4 DEF Empty
  <1>6. QED
    BY <1>4, <1>5, NamesApart

LEMMA TreeRoot ==
  ASSUME NEW d, IsTree(d), Root \in DOMAIN d, RootFree(getNode(d, Root)),
         NEW keys \in SUBSET Keys, NEW e, e = updateTree(d, keys)
  PROVE  IsTree(e) /\ Root \in DOMAIN e /\ RootFree(getNode(e, Root)) /\ Exact(e, Root)
  <1>1. PICK g : g = UpdateTreeNodes(d, keys)
    OBVIOUS
  <1>2. IsTree(g) /\ Root \in DOMAIN g /\ getNode(g, Root).children = getNode(d, Root).children
    BY <1>1, NodesUpdated
  <1>3. Root \notin Range(getNode(g, Root).children)
    BY <1>2 DEF RootFree
  <1>4. e = Rehash(g, Root)
    BY <1>1 DEF updateTree
  <1>5. QED
    BY <1>2, <1>3, <1>4, RehashTree, RehashExact DEF RootFree

\* One or two empty strings one after the other.
LEMMA FlattenBlank ==
  ASSUME NEW s, NEW n \in {1, 2}, Len(s) = n, \A i \in 1 .. n : s[i] = Empty
  PROVE  FlattenSeq(s) = Empty
  <1> DEFINE Fl(f) == f = [i \in 1 .. Len(s) |-> IF i = 1 THEN s[i] ELSE f[i - 1] \o s[i]]
  <1>1. Empty \o Empty = Empty
    BY DEF Empty
  <1>2. PICK g : g = [i \in 1 .. n |-> Empty]
    OBVIOUS
  <1>3. \A i \in 1 .. n : g[i] = IF i = 1 THEN s[i] ELSE g[i - 1] \o s[i]
    BY <1>1, <1>2
  <1>4. Fl(g)
    BY <1>2, <1>3
  <1>5. PICK f : f = CHOOSE h : Fl(h)
    OBVIOUS
  <1>6. Fl(f)
    <2> HIDE DEF Fl
    <2> QED
      BY <1>4, <1>5
  <1>7. f[1] = Empty
    BY <1>6
  <1>8. n = 2 => f[2] = f[1] \o s[2]
    BY <1>6
  <1>9. f[n] = Empty
    BY <1>1, <1>7, <1>8
  <1>10. FlattenSeq(s) = f[Len(s)]
    BY <1>5 DEF FlattenSeq
  <1>11. QED
    BY <1>9, <1>10

\* A node without children is exact if what it is read with for children is not there.
LEMMA BareDigest ==
  ASSUME NEW d, IsTree(d), NEW x \in DOMAIN d, NEW v, d[x] = Node(Sha(v), v, <<>>), v \in Seq(Chars),
         Sha(v) \notin DOMAIN d, v = Empty \/ v \notin DOMAIN d
  PROVE  Digest(d, x) = Sha(v) /\ d[x].hash = Sha(v)
  <1>1. PICK n, m : n = d[x] /\ m = getNode(d, x)
    OBVIOUS
  <1>2. n.hash = Sha(v) /\ n.value = v /\ n.children = <<>> /\ IsNode(n)
    BY <1>1, NodeFields DEF IsTree
  <1>3. m = deserializeNode(n)
    BY <1>1 DEF getNode
  <1>4. m.value = v /\ m.children = (IF v = Empty THEN <<Sha(v)>> ELSE <<Sha(v), v>>)
    BY <1>2, <1>3, ReadBack
  <1>5. getNode(d, Sha(v)).hash = Empty /\ (v # Empty => getNode(d, v).hash = Empty)
    BY ReadNode, NoNodeIs
  <1>6. PICK c : c = m.children
    OBVIOUS
  <1>7. PICK s : s = [i \in DOMAIN c |-> getNode(d, c[i]).hash]
    OBVIOUS
  <1>8. ConcatHashes(d, m) = FlattenSeq(s)
    BY <1>6, <1>7 DEF ConcatHashes, Hashes
  <1>9. FlattenSeq(s) = Empty
    <2>1. CASE v = Empty
      <3>1. DOMAIN c = 1 .. 1 /\ c[1] = Sha(v)
        BY <1>4, <1>6, <2>1
      <3>2. s \in [1 .. 1 -> {Empty}]
        BY <1>5, <1>7, <3>1
      <3>3. Len(s) = 1 /\ \A i \in 1 .. 1 : s[i] = Empty
        BY <3>2
      <3>4. QED
        BY <3>3, FlattenBlank
    <2>2. CASE v # Empty
      <3>1. DOMAIN c = 1 .. 2 /\ c[1] = Sha(v) /\ c[2] = v
        BY <1>4, <1>6, <2>2
      <3>2. \A i \in 1 .. 2 : getNode(d, c[i]).hash = Empty
        BY <1>5, <2>2, <3>1
      <3>3. s \in [1 .. 2 -> {Empty}]
        BY <1>7, <3>1, <3>2
      <3>4. Len(s) = 2 /\ \A i \in 1 .. 2 : s[i] = Empty
        BY <3>3
      <3>5. QED
        BY <3>4, FlattenBlank
    <2>3. QED
      BY <2>1, <2>2
  <1>10. Empty \o v = v
    BY DEF Empty
  <1>11. QED
    BY <1>1, <1>2, <1>4, <1>8, <1>9, <1>10 DEF Digest

\* A new store has an exact root.
LEMMA FreshRoot ==
  /\ Exact(GlobalState(EmptyStore), Root) /\ RootFree(getNode(GlobalState(EmptyStore), Root))
  /\ RootFree(getNode(EmptyStore, Root)) /\ getNode(GlobalState(EmptyStore), Root).children = <<Sha(Empty)>>
  <1>1. PICK d : d = GlobalState(EmptyStore)
    OBVIOUS
  <1>2. IsTree(d) /\ DOMAIN d = {Root} /\ d[Root] = Node(Sha(Empty), Empty, <<>>)
    BY <1>1, FreshTree
  <1>3. Sha(Empty) \notin DOMAIN d /\ Empty \notin DOMAIN d /\ Empty \in Seq(Chars)
    BY <1>2, NamesApart DEF Empty
  <1>4. Digest(d, Root) = d[Root].hash
    BY <1>2, <1>3, BareDigest
  <1>5. Exact(d, Root)
    BY <1>2, <1>4, ExactIs DEF Digest
  <1>6. getNode(d, Root) = deserializeNode(d[Root])
    BY <1>2 DEF getNode
  <1>7. getNode(d, Root).children = <<Sha(Empty)>>
    <2>1. PICK n : n = d[Root]
      OBVIOUS
    <2>2. n.hash = Sha(Empty) /\ n.value = Empty /\ n.children = <<>>
      BY <1>2, <2>1, NodeFields
    <2>3. IsNode(n)
      BY <1>2, <2>1 DEF IsTree
    <2>4. QED
      BY <1>6, <2>1, <2>2, <2>3, ReadBack
  <1>8. RootFree(getNode(d, Root))
    BY <1>7, SeqShort, NamesApart DEF RootFree
  <1>9. RootFree(getNode(EmptyStore, Root))
    <2>1. getNode(EmptyStore, Root) = NoNode
      BY FreshTree, ReadNode
    <2>2. QED
      BY <2>1, NoNodeIs, SeqEmpty DEF RootFree
  <1>10. QED
    BY <1>1, <1>5, <1>7, <1>8, <1>9

LEMMA RootInit == TreeInit => RootInv
  <1>1. SUFFICES ASSUME TreeInit PROVE RootApart /\ (mode # "serial" => RootWalk /\ RootHashed)
    BY DEF RootInv
  <1>2. /\ db["globalState"] = GlobalState(EmptyStore) /\ db["globalState_tmp"] = EmptyStore
        /\ th = [t \in Threads |-> Idle] /\ (mode # "serial" => phase = "idle")
    BY <1>1 DEF TreeInit, Stores
  <1>3. RootApart
    <2>1. \A t \in Threads : th[t].pc = "idle"
      BY <1>2, IdleIs
    <2>2. Root \in DOMAIN db["globalState"]
      BY <1>2, FreshTree
    <2>3. \A s \in Stores : RootFree(getNode(db[s], Root))
      BY <1>2, FreshRoot DEF Stores
    <2>4. QED
      BY <2>1, <2>2, <2>3 DEF RootApart
  <1>4. mode # "serial" => RootWalk /\ RootHashed
    BY <1>2, FreshRoot DEF RootWalk, RootHashed
  <1>5. QED
    BY <1>3, <1>4

\* What is left to show of a step after which all threads rest.
LEMMA RootQuiet ==
  ASSUME th' = [t \in Threads |-> Idle], phase' # "dfs", phase' # "insert",
         Root \in DOMAIN db'["globalState"], \A s \in Stores : RootFree(getNode(db'[s], Root)),
         phase' = "hash" => ~clean', clean' /\ phase' = "idle" => Exact(db'["globalState"], Root)
  PROVE  RootInv'
  <1>1. \A t \in Threads : th'[t].pc = "idle"
    BY IdleIs
  <1>2. RootApart'
    BY <1>1 DEF RootApart
  <1>3. RootWalk' /\ RootHashed'
    BY DEF RootWalk, RootHashed
  <1>4. QED
    BY <1>2, <1>3 DEF RootInv

\* The steps of a thread, as far as the hashes are concerned.
Resting(t) ==
  /\ \A u \in Threads \ {t} : th'[u] = th[u]
  /\ db'["globalState_tmp"] = db["globalState_tmp"] /\ phase = "insert"
  /\ UNCHANGED <<mode, phase, pending, order, clean, torn>>

LEMMA PutLeafDoes ==
  ASSUME TreeIInv, mode # "serial", NEW t \in Threads, PutLeaf(t)
  PROVE  \E k \in DOMAIN pending, v \in Values :
           /\ Resting(t) /\ k = Head(th[t].keys) /\ k \in Keys /\ th[t].pc = "leaf"
           /\ db'["globalState"] = Put(db["globalState"], PathOf[k], Node(Sha(v), v, <<>>))
           /\ th'[t].pc = "get" /\ th'[t].keys = th[t].keys /\ th'[t].level = 0
           /\ linked' = linked
  <1>1. PICK g, k : g = "globalState" /\ k = Head(th[t].keys)
    OBVIOUS
  <1>2. PICK v : v = pending[k]
    OBVIOUS
  <1>3. PICK d : d = Put(db[g], PathOf[k], Node(Sha(v), v, <<>>))
    OBVIOUS
  <1>4. g \in Stores /\ Store = g /\ "globalState_tmp" \in Stores \ {g}
    BY <1>1, StoreIs
  <1>5. /\ th[t].pc = "leaf" /\ Write(g, d) /\ th' = [th EXCEPT ![t].pc = "get", ![t].level = 0]
        /\ UNCHANGED <<mode, phase, pending, order, linked, clean, torn>>
    BY <1>1, <1>2, <1>3, <1>4 DEF PutLeaf
  <1>6. TreeShapes /\ ThreadShapes
    BY DEF TreeIInv
  <1>7. /\ k \in Keys /\ k \in DOMAIN pending /\ phase = "insert"
        /\ th[t] = [pc |-> th[t].pc, keys |-> th[t].keys, level |-> th[t].level, snap |-> th[t].snap]
    BY <1>1, <1>5, AtWork
  <1>8. v \in Values
    BY <1>2, <1>6, <1>7 DEF TreeShapes
  <1>9. db'[g] = d /\ \A r \in Stores \ {g} : db'[r] = db[r]
    BY <1>4, <1>5, <1>6, Wrote
  <1>10. th = [u \in Threads |-> th[u]]
    BY <1>6 DEF ThreadShapes
  <1>11. \A u \in Threads \ {t} : th'[u] = th[u]
    BY <1>5, <1>10
  <1>12. th'[t].pc = "get" /\ th'[t].keys = th[t].keys /\ th'[t].level = 0
    <2>1. PICK a : a = th[t]
      OBVIOUS
    <2>2. [a EXCEPT !.pc = "get", !.level = 0] = [pc |-> "get", keys |-> a.keys, level |-> 0, snap |-> a.snap]
      BY <1>7, <2>1, ThreadRecord
    <2>3. th'[t] = [a EXCEPT !.pc = "get", !.level = 0]
      BY <1>5, <1>10, <2>1
    <2>4. QED
      BY <2>1, <2>2, <2>3
  <1>13. Resting(t)
    BY <1>4, <1>5, <1>7, <1>9, <1>11 DEF Resting
  <1>14. QED
    BY <1>1, <1>3, <1>5, <1>7, <1>8, <1>9, <1>12, <1>13

LEMMA GetParentDoes ==
  ASSUME TreeIInv, mode # "serial", NEW t \in Threads, GetParent(t)
  PROVE  \E k \in DOMAIN pending, i \in 0 .. PathLen - 1 :
           /\ Resting(t) /\ k = Head(th[t].keys) /\ i = th[t].level /\ k \in Keys /\ th[t].pc = "get"
           /\ db' = db /\ linked' = linked /\ th'[t].pc = "put"
           /\ th'[t].keys = th[t].keys /\ th'[t].level = i
           /\ th'[t].snap = getNode(db["globalState"], ParentAt(k, i))
  <1>1. PICK k, i : k = Head(th[t].keys) /\ i = th[t].level
    OBVIOUS
  <1>2. PICK n : n = getNode(db["globalState"], ParentAt(k, i))
    OBVIOUS
  <1>3. Store = "globalState"
    BY StoreIs
  <1>4. /\ th[t].pc = "get" /\ th' = [th EXCEPT ![t].pc = "put", ![t].snap = n]
        /\ UNCHANGED <<mode, db, phase, pending, order, linked, clean, torn>>
    BY <1>1, <1>2, <1>3 DEF GetParent
  <1>5. /\ k \in Keys /\ k \in DOMAIN pending /\ phase = "insert" /\ i \in 0 .. PathLen - 1
        /\ th[t] = [pc |-> th[t].pc, keys |-> th[t].keys, level |-> th[t].level, snap |-> th[t].snap]
    BY <1>1, <1>4, AtWork
  <1>6. th = [u \in Threads |-> th[u]]
    BY DEF TreeIInv, ThreadShapes
  <1>7. \A u \in Threads \ {t} : th'[u] = th[u]
    BY <1>4, <1>6
  <1>8. th'[t].pc = "put" /\ th'[t].keys = th[t].keys /\ th'[t].level = i /\ th'[t].snap = n
    <2>1. PICK a : a = th[t]
      OBVIOUS
    <2>2. th'[t] = [a EXCEPT !.pc = "put", !.snap = n]
      BY <1>4, <1>6, <2>1
    <2>3. PICK b : b = [a EXCEPT !.pc = "put"]
      OBVIOUS
    <2>4. b = [pc |-> "put", keys |-> a.keys, level |-> a.level, snap |-> a.snap]
      BY <1>5, <2>1, <2>3
    <2>5. [b EXCEPT !.snap = n] = [pc |-> "put", keys |-> a.keys, level |-> a.level, snap |-> n]
      BY <2>4
    <2>6. th'[t] = [pc |-> "put", keys |-> a.keys, level |-> a.level, snap |-> n]
      BY <2>2, <2>3, <2>5
    <2>7. QED
      BY <1>1, <2>1, <2>6
  <1>9. Resting(t)
    BY <1>4, <1>5, <1>7 DEF Resting
  <1>10. QED
    BY <1>1, <1>2, <1>4, <1>5, <1>8, <1>9

\* The store PutParent leaves: the link is there, and in serialMerkleTree the hashes
\* are updated after the last one.
Inserted(d, k, i, n) ==
  IF i = PathLen - 1 /\ mode = "serialTree"
  THEN updateParentHashes(Linking(d, ParentAt(k, i), n, ChildAt(k, i)), PathOf[k])
  ELSE Linking(d, ParentAt(k, i), n, ChildAt(k, i))

LEMMA PutParentDoes ==
  ASSUME TreeIInv, mode # "serial", NEW t \in Threads, PutParent(t)
  PROVE  \E k \in DOMAIN pending, i \in 0 .. PathLen - 1 :
           /\ Resting(t) /\ k = Head(th[t].keys) /\ i = th[t].level
           /\ k \in Keys /\ IsNode(th[t].snap) /\ th[t].pc = "put"
           /\ db'["globalState"] = Inserted(db["globalState"], k, i, th[t].snap)
           /\ IF i = PathLen - 1
              THEN /\ linked'["globalState"] = linked["globalState"] \cup {k}
                   /\ th'[t] = Work(Tail(th[t].keys)) /\ Tail(th[t].keys) \in Seq(DOMAIN pending)
              ELSE /\ linked' = linked /\ th'[t].pc = "get" /\ th'[t].keys = th[t].keys
                   /\ th'[t].level = i + 1
  <1>1. PICK k, i, n : k = Head(th[t].keys) /\ i = th[t].level /\ n = th[t].snap
    OBVIOUS
  <1>2. PICK g, e, w :
          /\ g = "globalState" /\ e = Inserted(db[g], k, i, n)
          /\ w = IF i + 1 = PathLen THEN Work(Tail(th[t].keys))
                 ELSE [th[t] EXCEPT !.pc = "get", !.level = i + 1, !.snap = NoNode]
    OBVIOUS
  <1>3. g \in Stores /\ Store = g /\ "globalState_tmp" \in Stores \ {g}
    BY <1>2, StoreIs
  <1>4. th[t].pc = "put"
    BY DEF PutParent
  <1>5. /\ k \in Keys /\ k \in DOMAIN pending /\ phase = "insert" /\ i \in 0 .. PathLen - 1 /\ IsNode(n)
        /\ th[t] = [pc |-> th[t].pc, keys |-> th[t].keys, level |-> th[t].level, snap |-> th[t].snap]
        /\ Tail(th[t].keys) \in Seq(DOMAIN pending)
    BY <1>1, <1>4, AtWork
  <1>6. i + 1 = PathLen <=> i = PathLen - 1
    BY <1>5 DEF PathLen
  <1>7. /\ Write(g, e)
        /\ linked' = IF i + 1 = PathLen THEN [linked EXCEPT ![g] = @ \cup {k}] ELSE linked
        /\ th' = [th EXCEPT ![t] = w]
        /\ UNCHANGED <<mode, phase, pending, order, clean, torn>>
    BY <1>1, <1>2, <1>3, <1>6 DEF PutParent, Linking, Inserted
  <1>8. TreeShapes /\ ThreadShapes
    BY DEF TreeIInv
  <1>9. db'[g] = e /\ \A r \in Stores \ {g} : db'[r] = db[r]
    BY <1>3, <1>7, <1>8, Wrote
  <1>10. th = [u \in Threads |-> th[u]] /\ linked = [s \in Stores |-> linked[s]]
    BY <1>8 DEF ThreadShapes, TreeShapes
  <1>11. (\A u \in Threads \ {t} : th'[u] = th[u]) /\ th'[t] = w
    BY <1>7, <1>10
  <1>12. Resting(t)
    BY <1>3, <1>5, <1>7, <1>9, <1>11 DEF Resting
  <1>13. CASE i = PathLen - 1
    <2>1. linked'["globalState"] = linked["globalState"] \cup {k} /\ th'[t] = Work(Tail(th[t].keys))
      BY <1>2, <1>3, <1>6, <1>7, <1>10, <1>11, <1>13
    <2>2. QED
      BY <1>1, <1>2, <1>4, <1>5, <1>9, <1>12, <1>13, <2>1
  <1>14. CASE i # PathLen - 1
    <2>1. linked' = linked
      BY <1>6, <1>7, <1>14
    <2>2. w = [pc |-> "get", keys |-> th[t].keys, level |-> i + 1, snap |-> NoNode]
      BY <1>2, <1>5, <1>6, <1>14, ThreadRecord
    <2>3. th'[t].pc = "get" /\ th'[t].keys = th[t].keys /\ th'[t].level = i + 1
      BY <1>11, <2>2
    <2>4. QED
      BY <1>1, <1>2, <1>4, <1>5, <1>9, <1>12, <1>14, <2>1, <2>3
  <1>15. QED
    BY <1>13, <1>14

\* Linking touches one node.
LinkedTo(f, d, p, n, c) ==
  /\ IsTree(f) /\ DOMAIN d \subseteq DOMAIN f /\ DOMAIN f \subseteq DOMAIN d \cup {p}
  /\ \A x : x # p => getNode(f, x) = getNode(d, x)
  /\ \A x \in DOMAIN d : x # p => f[x] = d[x]
  /\ c \in Range(n.children) => f = d
  /\ c \notin Range(n.children) =>
       p \in DOMAIN f /\ Range(getNode(f, p).children) = Range(n.children) \cup {c}

LEMMA LinkingAt ==
  ASSUME NEW d, IsTree(d), NEW p, NEW n, IsNode(n), NEW c
  PROVE  LinkedTo(Linking(d, p, n, c), d, p, n, c)
  <1>1. PICK f : f = Linking(d, p, n, c)
    OBVIOUS
  <1>2. CASE c \in Range(n.children)
    BY <1>2 DEF Linking, LinkedTo
  <1>3. CASE c \notin Range(n.children)
    <2>1. PICK m : m = AddChild(n, c)
      OBVIOUS
    <2>2. f = Put(d, p, m)
      BY <1>1, <1>3, <2>1 DEF Linking
    <2>3. IsTree(f) /\ getNode(f, p) = m /\ Range(m.children) = Range(n.children) \cup {c}
      <3>1. /\ IsTree(Put(d, p, AddChild(n, c))) /\ getNode(Put(d, p, AddChild(n, c)), p) = AddChild(n, c)
            /\ Range(AddChild(n, c).children) = Range(n.children) \cup {c}
        BY ChildAdded
      <3>2. QED
        BY <2>1, <2>2, <3>1
    <2>4. DOMAIN f = DOMAIN d \cup {p} /\ \A x \in DOMAIN d : x # p => f[x] = d[x]
      BY <2>2 DEF Put
    <2>5. \A x : x # p => getNode(f, x) = getNode(d, x)
      BY <2>2, ReadOther
    <2>6. QED
      BY <1>1, <1>3, <2>3, <2>4, <2>5 DEF LinkedTo
  <1>4. QED
    BY <1>2, <1>3

\* A thread's step: the root stays apart, and nobody else is at work in serialMerkleTree.
LEMMA RootThread ==
  ASSUME TreeIInv, mode # "serial", RootInv, NEW t \in Threads, Resting(t), th[t].pc # "idle",
         Root \in DOMAIN db'["globalState"], RootFree(getNode(db'["globalState"], Root)),
         th'[t].pc = "put" /\ th'[t].level = 0 => RootFree(th'[t].snap),
         mode = "serialTree" /\ th'[t] = Idle => Exact(db'["globalState"], Root)
  PROVE  RootInv'
  <1>1. RootApart /\ RootHashed
    BY DEF RootInv
  <1>2. RootApart'
    BY <1>1 DEF RootApart, Resting, Stores
  <1>3. phase = "insert" /\ UNCHANGED <<mode, phase, clean>>
    BY DEF Resting
  <1>4. mode = "serialTree" => t = 0
    BY AtWork DEF OneThread
  <1>5. RootWalk' /\ RootHashed'
    BY <1>1, <1>3, <1>4 DEF RootWalk, RootHashed
  <1>6. QED
    BY <1>2, <1>5 DEF RootInv

LEMMA PutLeafRoot ==
  ASSUME TreeIInv, mode # "serial", RootInv, NEW t \in Threads, PutLeaf(t)
  PROVE  RootInv'
  <1>1. PICK k \in DOMAIN pending, v \in Values :
           /\ Resting(t) /\ k = Head(th[t].keys) /\ k \in Keys /\ th[t].pc = "leaf"
           /\ db'["globalState"] = Put(db["globalState"], PathOf[k], Node(Sha(v), v, <<>>))
           /\ th'[t].pc = "get" /\ th'[t].keys = th[t].keys /\ th'[t].level = 0
    BY PutLeafDoes
  <1>2. PICK d, n : d = db["globalState"] /\ n = Node(Sha(v), v, <<>>)
    OBVIOUS
  <1>3. PICK e : e = Put(d, PathOf[k], n)
    OBVIOUS
  <1>4. PathOf[k] # Root
    BY <1>1, PathApart
  <1>5. getNode(e, Root) = getNode(d, Root)
    BY <1>3, <1>4, ReadOther
  <1>6. DOMAIN e = DOMAIN d \cup {PathOf[k]}
    BY <1>3 DEF Put
  <1>7. Root \in DOMAIN d /\ RootFree(getNode(d, Root))
    BY <1>2, StoreIs DEF RootInv, RootApart
  <1>8. db'["globalState"] = e
    BY <1>1, <1>2, <1>3
  <1>9. th'[t] # Idle /\ th'[t].pc # "put"
    BY <1>1, IdleIs
  <1>10. QED
    BY <1>1, <1>5, <1>6, <1>7, <1>8, <1>9, RootThread

LEMMA GetParentRoot ==
  ASSUME TreeIInv, mode # "serial", RootInv, NEW t \in Threads, GetParent(t)
  PROVE  RootInv'
  <1>1. PICK k \in DOMAIN pending, i \in 0 .. PathLen - 1 :
           /\ Resting(t) /\ k \in Keys /\ th[t].pc = "get"
           /\ db' = db /\ th'[t].pc = "put" /\ th'[t].level = i
           /\ th'[t].snap = getNode(db["globalState"], ParentAt(k, i))
    BY GetParentDoes
  <1>2. Root \in DOMAIN db["globalState"] /\ RootFree(getNode(db["globalState"], Root))
    BY StoreIs DEF RootInv, RootApart
  <1>3. i = 0 => ParentAt(k, i) = Root
    BY DEF ParentAt
  <1>4. th'[t] # Idle
    BY <1>1, IdleIs
  <1>5. QED
    BY <1>1, <1>2, <1>3, <1>4, RootThread

LEMMA PutParentRoot ==
  ASSUME TreeIInv, mode # "serial", RootInv, NEW t \in Threads, PutParent(t)
  PROVE  RootInv'
  <1> DEFINE n == th[t].snap
  <1>1. PICK k \in DOMAIN pending, i \in 0 .. PathLen - 1 :
           /\ Resting(t) /\ k = Head(th[t].keys) /\ i = th[t].level
           /\ k \in Keys /\ IsNode(n) /\ th[t].pc = "put"
           /\ db'["globalState"] = Inserted(db["globalState"], k, i, n)
           /\ IF i = PathLen - 1 THEN th'[t] = Work(Tail(th[t].keys)) /\ Tail(th[t].keys) \in Seq(DOMAIN pending)
              ELSE th'[t].pc = "get"
    BY PutParentDoes
  <1>2. PICK d, p, c, f : /\ d = db["globalState"] /\ p = ParentAt(k, i) /\ c = ChildAt(k, i)
                          /\ f = Linking(d, p, n, c)
    OBVIOUS
  <1>3. Root \in DOMAIN d /\ RootFree(getNode(d, Root)) /\ (i = 0 => RootFree(n))
    BY <1>1, <1>2, StoreIs DEF RootInv, RootApart
  <1>4. IsTree(d)
    BY <1>2, StoreIs DEF TreeIInv, TreeShapes
  <1>5. /\ IsTree(f) /\ DOMAIN d \subseteq DOMAIN f /\ (Root # p => getNode(f, Root) = getNode(d, Root))
        /\ (c \in Range(n.children) => f = d)
        /\ (c \notin Range(n.children) => Range(getNode(f, p).children) = Range(n.children) \cup {c})
    <2>1. IsNode(n)
      BY <1>1
    <2>2. f = Linking(d, p, n, c)
      BY <1>2
    <2>3. /\ IsTree(f) /\ DOMAIN d \subseteq DOMAIN f /\ \A x : x # p => getNode(f, x) = getNode(d, x)
          /\ c \in Range(n.children) => f = d
          /\ c \notin Range(n.children) => Range(getNode(f, p).children) = Range(n.children) \cup {c}
      <3>1. LinkedTo(f, d, p, n, c)
        BY <1>4, <2>1, <2>2, LinkingAt
      <3>2. QED
        BY <3>1 DEF LinkedTo
    <2>4. QED
      BY <2>3
  <1>6. IsTree(f) /\ Root \in DOMAIN f /\ RootFree(getNode(f, Root))
    <2>1. c # Root
      BY <1>1, <1>2, PathFacts, NamesApart
    <2>2. (i = 0 => p = Root) /\ (i # 0 => p # Root)
      BY <1>1, <1>2, PathFacts, NamesApart
    <2>3. CASE c \in Range(n.children)
      BY <1>3, <1>5, <2>3
    <2>4. CASE c \notin Range(n.children) /\ i = 0
      <3>1. Root \notin Range(n.children) \cup {c}
        BY <1>3, <2>1, <2>4 DEF RootFree
      <3>2. QED
        BY <1>3, <1>5, <2>2, <2>4, <3>1 DEF RootFree
    <2>5. CASE i # 0
      BY <1>3, <1>5, <2>2, <2>5
    <2>6. QED
      BY <2>3, <2>4, <2>5
  <1>7. PICK e : e = db'["globalState"]
    OBVIOUS
  <1>8. e = IF i = PathLen - 1 /\ mode = "serialTree" THEN updateParentHashes(f, PathOf[k]) ELSE f
    BY <1>1, <1>2, <1>7 DEF Inserted
  <1>9. Len(PathOf[k]) \in Nat \ {0}
    <2>1. k \in Keys
      BY <1>1
    <2>2. Len(PathOf[k]) = 3
      BY <2>1, KeysAssumption DEF PathLen
    <2>3. QED
      BY <2>2
  <1>10. /\ Root \in DOMAIN e /\ RootFree(getNode(e, Root))
         /\ i = PathLen - 1 /\ mode = "serialTree" => Exact(e, Root)
    <2>1. CASE i = PathLen - 1 /\ mode = "serialTree"
      <3>1. e = updateParentHashes(f, PathOf[k])
        BY <1>8, <2>1
      <3>2. QED
        BY <1>9, <1>6, <3>1, ParentsRoot
    <2>2. CASE ~(i = PathLen - 1 /\ mode = "serialTree")
      BY <1>8, <1>6, <2>2
    <2>3. QED
      BY <2>1, <2>2
  <1>11. th'[t].pc # "put" /\ (i # PathLen - 1 => th'[t] # Idle)
    <2>1. CASE i = PathLen - 1
      BY <1>1, <2>1, WorkIs
    <2>2. CASE i # PathLen - 1
      BY <1>1, <2>2, IdleIs
    <2>3. QED
      BY <2>1, <2>2
  <1>12. Resting(t) /\ th[t].pc # "idle"
    BY <1>1
  <1>13. mode = "serialTree" /\ th'[t] = Idle => Exact(db'["globalState"], Root)
    BY <1>7, <1>10, <1>11
  <1>14. QED
    BY <1>7, <1>10, <1>11, <1>12, <1>13, RootThread

\* The map's order names every key of the block.
LEMMA MapOrderAll ==
  ASSUME NEW ks \in SUBSET Keys, NEW q \in InMapOrder(ks)
  PROVE  Range(q) = ks
  <1>1. IsFiniteSet(ks) /\ Cardinality(ks) \in Nat
    BY KeysAssumption, FS_Subset, FS_CardinalityType
  <1>2. PICK n \in Nat : n = Cardinality(ks)
    BY <1>1
  <1>3. q \in [1 .. n -> ks] /\ \A i, j \in 1 .. n : i < j => Place(q[i]) < Place(q[j])
    BY <1>2 DEF InMapOrder
  <1>4. \A k \in Keys : Place(k) \in Nat
    <2>1. TAKE k \in Keys
    <2>2. Order \in Seq(Keys) /\ Range(Order) = Keys
      BY KeysAssumption
    <2>3. \E i \in DOMAIN Order : Order[i] = k
      BY <2>2 DEF Range
    <2>4. Place(k) \in DOMAIN Order
      BY <2>3 DEF Place
    <2>5. DOMAIN Order \subseteq Nat
      BY <2>2
    <2>6. QED
      BY <2>4, <2>5
  <1>5. \A i, j \in 1 .. n : q[i] = q[j] => i = j
    <2>1. SUFFICES ASSUME NEW i \in 1 .. n, NEW j \in 1 .. n, q[i] = q[j], i < j PROVE FALSE
      OBVIOUS
    <2>2. Place(q[i]) < Place(q[j]) /\ Place(q[i]) = Place(q[j])
      BY <1>3, <2>1
    <2>3. Place(q[i]) \in Nat
      BY <1>3, <1>4
    <2>4. QED
      BY <2>2, <2>3
  <1>6. IsFiniteSet(1 .. n) /\ Cardinality(1 .. n) = n
    BY FS_Interval
  <1>7. q \in Injection(1 .. n, ks)
    BY <1>3, <1>5 DEF Injection, IsInjective
  <1>8. q \in Surjection(1 .. n, ks)
    BY <1>1, <1>2, <1>6, <1>7, FS_Injection
  <1>9. QED
    BY <1>3, <1>8 DEF Surjection, Range

\* A flush begins: the threads have their keys, and nothing is written yet.
LEMMA StartFlushDoes ==
  ASSUME TreeIInv, StartFlush
  PROVE  /\ phase = "idle" /\ phase' = "insert" /\ ~clean' /\ UNCHANGED <<mode, db, linked, torn>>
         /\ \A t \in Threads : th'[t].pc \in {"idle", "leaf"}
         /\ mode = "serialTree" => th'[0].pc = "leaf"
         /\ mode = "leader" => /\ Range(order') = DOMAIN pending'
                               /\ \A k \in DOMAIN pending' : \E t \in Threads : k \in Range(th'[t].keys)
  <1>1. TreeShapes /\ ThreadShapes
    BY DEF TreeIInv
  <1>2. PICK ks \in SUBSET Keys : \E vs \in [ks -> Values], seq \in InMapOrder(ks) :
          /\ mode # "leader" => ks # {}
          /\ pending' = vs /\ order' = seq /\ Flush(ks, seq)
    BY DEF StartFlush
  <1>3. PICK seq \in InMapOrder(ks) :
          /\ mode # "leader" => ks # {}
          /\ DOMAIN pending' = ks /\ order' = seq /\ Flush(ks, seq)
    BY <1>2
  <1>4. phase = "idle" /\ phase' = "insert" /\ ~clean' /\ UNCHANGED <<mode, db, linked, torn>>
    BY DEF StartFlush
  <1>5. th = [t \in Threads |-> Idle]
    BY <1>1, <1>4, RestIs
  <1>6. \A t \in Threads : th'[t].pc \in {"idle", "leaf"}
    <2>1. TAKE t \in Threads
    <2>2. PICK q \in Seq(ks) : th'[t] = Work(q)
      BY <1>3, <1>5, FlushThreads
    <2>3. QED
      BY <2>2, WorkIs
  <1>7. ASSUME mode = "serialTree" PROVE th'[0].pc = "leaf"
    <2>1. th' = [th EXCEPT ![0] = Work(seq)] /\ 0 \in Threads
      BY <1>3, <1>7, BoundsAssumption DEF Flush, flushMapToStateS, Threads
    <2>2. th'[0] = Work(seq)
      BY <1>5, <2>1
    <2>3. seq # <<>>
      BY <1>3, <1>7, MapOrder
    <2>4. QED
      BY <2>2, <2>3 DEF Work
  <1>8. ASSUME mode = "leader"
        PROVE  /\ Range(order') = DOMAIN pending'
               /\ \A k \in DOMAIN pending' : \E t \in Threads : k \in Range(th'[t].keys)
    <2>1. Range(order') = DOMAIN pending'
      BY <1>3, MapOrderAll
    <2>2. saveData(ks)
      BY <1>3, <1>8 DEF Flush
    <2>3. PICK part \in [Threads -> UNION {InMapOrder(x) : x \in SUBSET ks}] :
            /\ \A k \in ks : \E t \in Threads : k \in Range(part[t])
            /\ th' = [t \in Threads |-> Work(part[t])]
      BY <2>2 DEF saveData
    <2>4. \A t \in Threads : th'[t].keys = part[t]
      <3>1. TAKE t \in Threads
      <3>2. PICK x \in SUBSET ks : part[t] \in InMapOrder(x)
        BY <2>3
      <3>3. part[t] \in Seq(x)
        BY <3>2, MapOrder
      <3>4. Work(part[t]).keys = part[t]
        BY <3>3, WorkIs
      <3>5. QED
        BY <2>3, <3>4
    <2>5. QED
      BY <1>3, <2>1, <2>3, <2>4
  <1>9. QED
    BY <1>4, <1>6, <1>7, <1>8

LEMMA StartFlushRoot ==
  ASSUME TreeIInv, mode # "serial", RootInv, StartFlush
  PROVE  RootInv'
  <1>1. /\ phase' = "insert" /\ ~clean' /\ UNCHANGED <<mode, db>>
        /\ \A t \in Threads : th'[t].pc \in {"idle", "leaf"}
        /\ mode = "serialTree" => th'[0].pc = "leaf"
    BY StartFlushDoes
  <1>2. RootApart
    BY DEF RootInv
  <1>3. RootApart'
    BY <1>1, <1>2 DEF RootApart
  <1>4. mode = "serialTree" => th'[0] # Idle
    BY <1>1, IdleIs
  <1>5. RootWalk' /\ RootHashed'
    BY <1>1, <1>4 DEF RootWalk, RootHashed
  <1>6. QED
    BY <1>3, <1>5 DEF RootInv

LEMMA JoinRoot ==
  ASSUME TreeIInv, mode # "serial", RootInv, Join
  PROVE  RootInv'
  <1>1. /\ phase = "insert" /\ (\A t \in Threads : th[t] = Idle) /\ UNCHANGED <<mode, db, th>>
        /\ IF mode \in {"serialTree", "library"} THEN phase' = "idle" /\ clean' = (mode # "library")
           ELSE phase' = "hash" /\ clean' = clean
    BY DEF Join, EndFlush
  <1>2. RootApart /\ RootHashed
    BY DEF RootInv
  <1>3. th' = [t \in Threads |-> Idle]
    BY <1>1 DEF TreeIInv, ThreadShapes
  <1>4. Root \in DOMAIN db'["globalState"] /\ \A s \in Stores : RootFree(getNode(db'[s], Root))
    BY <1>1, <1>2 DEF RootApart
  <1>5. 0 \in Threads
    BY BoundsAssumption DEF Threads
  <1>6. clean' /\ phase' = "idle" => Exact(db'["globalState"], Root)
    BY <1>1, <1>2, <1>5 DEF RootHashed
  <1>7. phase' = "hash" => ~clean'
    BY <1>1, <1>2 DEF RootHashed
  <1>8. phase' # "dfs" /\ phase' # "insert"
    BY <1>1
  <1>9. QED
    BY <1>3, <1>4, <1>6, <1>7, <1>8, RootQuiet

LEMMA UpdateHashesRoot ==
  ASSUME TreeIInv, mode # "serial", RootInv, UpdateHashes
  PROVE  RootInv'
  <1>1. TreeShapes /\ ThreadShapes /\ PhaseShapes /\ RootApart /\ RootHashed
    BY DEF TreeIInv, RootInv
  <1>2. PICK g \in Stores : g = "globalState" /\ Store = g
    BY StoreIs
  <1>3. phase = "hash" /\ UNCHANGED <<mode, th>>
    BY DEF UpdateHashes
  <1>4. PICK d : d = db[g]
    OBVIOUS
  <1>5. IsTree(d) /\ Root \in DOMAIN d /\ RootFree(getNode(d, Root))
    BY <1>1, <1>2, <1>4 DEF TreeShapes, RootApart
  <1>6. PICK e : Write(g, e) /\ IsTree(e) /\ Root \in DOMAIN e /\ RootFree(getNode(e, Root)) /\ Exact(e, Root)
    <2>1. CASE mode = "leader"
      <3>1. PICK e : e = updateTree(d, Range(order))
        OBVIOUS
      <3>2. Write(g, e)
        BY <1>2, <1>4, <2>1, <3>1 DEF UpdateHashes
      <3>3. Range(order) \in SUBSET Keys
        BY <1>1 DEF TreeShapes, Range
      <3>4. QED
        BY <1>5, <3>1, <3>2, <3>3, TreeRoot
    <2>2. CASE mode # "leader"
      <3>1. PICK s : s = NameOf[Head(order)]
        OBVIOUS
      <3>2. PICK e : e = updateParentHashes(d, s)
        OBVIOUS
      <3>3. Write(g, e)
        BY <1>2, <1>4, <2>2, <3>1, <3>2 DEF UpdateHashes
      <3>4. order # <<>> /\ order \in Seq(Keys)
        BY <1>1, <1>3, <2>2 DEF PhaseShapes, TreeShapes
      <3>5. Head(order) \in Keys
        BY <3>4, HeadTailProperties
      <3>6. Len(s) \in Nat \ {0}
        BY <3>1, <3>5, NameFacts
      <3>7. QED
        BY <1>5, <3>2, <3>3, <3>6, ParentsRoot
    <2>3. QED
      BY <2>1, <2>2
  <1>7. db'[g] = e /\ \A r \in Stores \ {g} : db'[r] = db[r]
    BY <1>1, <1>6, Wrote
  <1>8. th' = [t \in Threads |-> Idle]
    BY <1>1, <1>3, RestIs
  <1>9. Root \in DOMAIN db'["globalState"] /\ \A s \in Stores : RootFree(getNode(db'[s], Root))
    BY <1>1, <1>2, <1>6, <1>7 DEF RootApart
  <1>10. phase' = "idle" \/ (phase' = phase /\ clean' = clean)
    BY DEF UpdateHashes, EndFlush
  <1>11. Exact(db'["globalState"], Root)
    BY <1>2, <1>6, <1>7
  <1>12. phase' # "dfs" /\ phase' # "insert" /\ (phase' = "hash" => ~clean')
    BY <1>1, <1>3, <1>10 DEF RootHashed
  <1>13. QED
    BY <1>8, <1>9, <1>11, <1>12, RootQuiet

LEMMA resetTreeRoot ==
  ASSUME TreeIInv, mode # "serial", RootInv, resetTree
  PROVE  RootInv'
  <1>1. TreeShapes /\ ThreadShapes /\ RootApart
    BY DEF TreeIInv, RootInv
  <1>2. /\ phase = "idle" /\ UNCHANGED <<mode, phase, th>>
        /\ db' = [db EXCEPT !["globalState"] = GlobalState(EmptyStore)]
    BY DEF resetTree
  <1>3. th' = [t \in Threads |-> Idle]
    BY <1>1, <1>2, RestIs
  <1>4. db = [s \in Stores |-> db[s]]
    BY <1>1 DEF TreeShapes
  <1>5. db'["globalState"] = GlobalState(EmptyStore) /\ db'["globalState_tmp"] = db["globalState_tmp"]
    BY <1>2, <1>4, StoreIs
  <1>6. Root \in DOMAIN db'["globalState"] /\ Exact(db'["globalState"], Root)
    BY <1>5, FreshRoot, FreshTree
  <1>7. \A s \in Stores : RootFree(getNode(db'[s], Root))
    BY <1>1, <1>5, FreshRoot DEF RootApart, Stores
  <1>8. phase' # "dfs" /\ phase' # "insert" /\ phase' # "hash"
    BY <1>2
  <1>9. QED
    BY <1>3, <1>6, <1>7, <1>8, RootQuiet

LEMMA CrashRoot ==
  ASSUME TreeIInv, mode # "serial", RootInv, Crash
  PROVE  RootInv'
  <1>1. PhaseShapes /\ TreeShapes /\ RootApart /\ RootHashed
    BY DEF TreeIInv, RootInv
  <1>2. /\ mode # "library" /\ phase' = "idle" /\ th' = [t \in Threads |-> Idle] /\ UNCHANGED <<db, clean>>
        /\ phase # "start"
    BY DEF Crash
  <1>3. phase \in {"idle", "insert", "hash"}
    BY <1>1, <1>2 DEF PhaseShapes, TreeShapes
  <1>4. Root \in DOMAIN db'["globalState"] /\ \A s \in Stores : RootFree(getNode(db'[s], Root))
    BY <1>1, <1>2 DEF RootApart
  <1>5. clean' /\ phase' = "idle" => Exact(db'["globalState"], Root)
    BY <1>1, <1>2, <1>3 DEF RootHashed
  <1>6. phase' # "dfs" /\ phase' # "insert" /\ phase' # "hash"
    BY <1>2
  <1>7. QED
    BY <1>2, <1>4, <1>5, <1>6, RootQuiet

LEMMA LibraryCallRoot ==
  ASSUME TreeIInv, Ownership, mode # "serial", RootInv, LibraryCall
  PROVE  RootInv'
  <1>1. TreeShapes /\ ThreadShapes /\ Walking /\ RootApart /\ RootHashed
    BY DEF TreeIInv, RootInv
  <1>2. mode = "library" /\ phase = "idle" /\ UNCHANGED <<mode, th, raced>>
    BY DEF LibraryCall
  <1>3. th' = [t \in Threads |-> Idle]
    BY <1>1, <1>2, RestIs
  <1>4. PICK g, u : g = "globalState" /\ u = "globalState_tmp"
    OBVIOUS
  <1>5. g \in Stores /\ u \in Stores /\ Stores = {g, u} /\ g # u
    BY <1>4 DEF Stores
  <1>6. /\ IsTree(db[g]) /\ IsTree(db[u]) /\ Root \in DOMAIN db[g]
        /\ RootFree(getNode(db[g], Root)) /\ RootFree(getNode(db[u], Root))
    BY <1>1, <1>4, <1>5 DEF TreeShapes, RootApart
  <1>7. CASE updateAllNonLeafHashes /\ UNCHANGED <<db, written, linked, lost, overlaid, clean>>
    <2>1. PICK f : f = Frame(db["globalState"], Root)
      OBVIOUS
    <2>2. stack' = <<f>> /\ phase' = "dfs" /\ UNCHANGED <<db, clean>>
      BY <1>7, <2>1 DEF updateAllNonLeafHashes
    <2>3. f.key = Root /\ f.next = 1
      BY <1>4, <1>6, <2>1, FrameIs
    <2>4. stack'[1] = f
      <3>1. PICK st : st = <<f>>
        OBVIOUS
      <3>2. st[1] = f
        BY <3>1
      <3>3. QED
        BY <2>2, <3>1, <3>2
    <2>5. RootWalk'
      BY <2>3, <2>4 DEF RootWalk
    <2>6. \A t \in Threads : th'[t].pc = "idle"
      BY <1>3, IdleIs
    <2>7. RootApart'
      BY <1>1, <2>2, <2>6 DEF RootApart
    <2>8. RootHashed'
      BY <2>2 DEF RootHashed
    <2>9. QED
      BY <2>5, <2>7, <2>8 DEF RootInv
  <1>8. CASE duplicateState /\ UNCHANGED <<phase, walk, clean>>
    <2>1. phase' = "idle" /\ clean' = clean
      BY <1>2, <1>8
    <2>2. db'[g] = db[g] /\ db'[u] = Over(db[g], db[u])
      BY <1>2, <1>4, <1>8, Duplicated
    <2>3. RootFree(getNode(db'[u], Root))
      <3>1. PICK o : o = Over(db[g], db[u])
        OBVIOUS
      <3>2. Root \in DOMAIN o /\ o[Root] = db[g][Root]
        BY <1>6, <3>1 DEF Over
      <3>3. getNode(o, Root) = getNode(db[g], Root)
        BY <1>6, <3>2 DEF getNode
      <3>4. QED
        BY <1>6, <2>2, <3>1, <3>3
    <2>4. \A s \in Stores : RootFree(getNode(db'[s], Root))
      BY <1>5, <1>6, <2>2, <2>3
    <2>5. Root \in DOMAIN db'["globalState"] /\ (clean' => Exact(db'["globalState"], Root))
      BY <1>1, <1>2, <1>4, <1>6, <2>1, <2>2 DEF RootHashed
    <2>6. phase' # "dfs" /\ phase' # "insert" /\ phase' # "hash"
      BY <2>1
    <2>7. QED
      BY <1>3, <2>4, <2>5, <2>6, RootQuiet
  <1>9. CASE replaceWith /\ clean' = FALSE /\ UNCHANGED <<phase, walk, overlaid>>
    <2>1. phase' = "idle" /\ clean' = FALSE /\ overlaid' = overlaid
      BY <1>2, <1>9
    <2>2. db'[g] = GlobalState(db[u]) /\ db'[u] = EmptyStore
      BY <1>2, <1>4, <1>9, <2>1, Replaced
    <2>3. Root \in DOMAIN db'[g]
      BY <1>6, <2>2, Opened
    <2>4. RootFree(getNode(db'[g], Root))
      <3>1. CASE Root \in DOMAIN db[u]
        BY <1>6, <2>2, <3>1 DEF GlobalState
      <3>2. CASE Root \notin DOMAIN db[u]
        <4>1. PICK n : n = Node(Sha(Empty), Empty, <<>>)
          OBVIOUS
        <4>2. db'[g] = Put(db[u], Root, n)
          BY <2>2, <3>2, <4>1 DEF GlobalState
        <4>3. getNode(db'[g], Root) = deserializeNode(n)
          BY <4>2, ReadPut
        <4>4. IsNode(n) /\ n.children = <<>> /\ n.value = Empty /\ n.hash = Sha(Empty)
          BY <4>1, NodeIs, NodeFields, SeqEmpty
        <4>5. deserializeNode(n).children = <<Sha(Empty)>>
          BY <4>4, ReadBack
        <4>6. QED
          BY <4>3, <4>5, SeqShort, NamesApart DEF RootFree
      <3>3. QED
        BY <3>1, <3>2
    <2>5. \A s \in Stores : RootFree(getNode(db'[s], Root))
      BY <1>5, <2>2, <2>4, FreshRoot
    <2>6. phase' # "dfs" /\ phase' # "insert" /\ phase' # "hash" /\ ~clean'
      BY <2>1
    <2>7. QED
      BY <1>3, <1>4, <2>3, <2>5, <2>6, RootQuiet
  <1>10. QED
    BY <1>7, <1>8, <1>9 DEF LibraryCall

\* The bottom call of dfs is the root's.
LEMMA BottomCall ==
  ASSUME TreeIInv, RootApart, RootWalk, phase = "dfs"
  PROVE  /\ 1 \in DOMAIN stack /\ stack[1].key = Root /\ IsFrame(stack[1])
         /\ stack[1].node = getNode(db["globalState"], Root) /\ RootFree(stack[1].node)
         /\ stack[1].next \in Nat \ {0} /\ Len(stack[1].node.children) \in Nat
         /\ DOMAIN stack[1].node.children = 1 .. Len(stack[1].node.children)
         /\ \A j \in DOMAIN stack[1].node.children : stack[1].node.children[j] # Root
  <1>1. 1 \in DOMAIN stack
    BY OnStack
  <1>2. stack[1].key = Root
    BY DEF RootWalk
  <1>3. /\ IsFrame(stack[1]) /\ stack[1].node = getNode(db["globalState"], Root)
        /\ stack[1].next \in Nat \ {0} /\ Len(stack[1].node.children) \in Nat
        /\ DOMAIN stack[1].node.children = 1 .. Len(stack[1].node.children)
    BY <1>1, <1>2, OnStack
  <1>4. RootFree(stack[1].node)
    BY <1>3 DEF RootApart, Stores
  <1>5. \A j \in DOMAIN stack[1].node.children : stack[1].node.children[j] # Root
    BY <1>4 DEF RootFree, Range
  <1>6. QED
    BY <1>1, <1>2, <1>3, <1>4, <1>5

\* What is left to show of a step within dfs.
LEMMA RootWalks ==
  ASSUME mode # "serial", RootApart, phase' = "dfs", th' = [t \in Threads |-> Idle],
         Root \in DOMAIN db'["globalState"], \A s \in Stores : RootFree(getNode(db'[s], Root)), RootWalk'
  PROVE  RootInv'
  <1>1. \A t \in Threads : th'[t].pc = "idle"
    BY IdleIs
  <1>2. RootApart'
    BY <1>1 DEF RootApart
  <1>3. RootHashed'
    BY DEF RootHashed
  <1>4. QED
    BY <1>2, <1>3 DEF RootInv

LEMMA DfsCallRoot ==
  ASSUME TreeIInv, mode # "serial", RootInv, DfsCall
  PROVE  RootInv'
  <1>1. TreeShapes /\ ThreadShapes /\ Walking /\ RootApart /\ RootWalk
    BY DEF TreeIInv, RootInv
  <1>2. PICK d, n, f : d = db["globalState"] /\ n = Len(stack) /\ f = stack[n]
    OBVIOUS
  <1>3. PICK c : c = f.node.children[f.next]
    OBVIOUS
  <1>4. /\ phase = "dfs" /\ phase' = "dfs" /\ f.next <= Len(f.node.children)
        /\ \/ c \in visited /\ visited' = visited /\ stack' = [stack EXCEPT ![n] = Returned(f, getNode(d, c).hash)]
           \/ c \notin visited /\ visited' = visited \cup {c} /\ stack' = Append(stack, Frame(d, c))
        /\ UNCHANGED <<mode, db, th>>
    BY <1>2, <1>3 DEF DfsCall
  <1>5. /\ IsTree(d) /\ n \in Nat \ {0} /\ DOMAIN stack = 1 .. n /\ n \in DOMAIN stack /\ IsFrame(f)
    BY <1>2, <1>4, OnStack
  <1>6. PICK b : b = stack[1]
    OBVIOUS
  <1>7. /\ b.key = Root /\ b.next \in Nat \ {0} /\ Len(b.node.children) \in Nat
        /\ DOMAIN b.node.children = 1 .. Len(b.node.children) /\ IsFrame(b)
        /\ \A j \in DOMAIN b.node.children : b.node.children[j] # Root
    BY <1>1, <1>4, <1>6, BottomCall
  <1>8. \A j \in 1 .. b.next - 1 :
          /\ b.node.children[j] \in visited /\ \A i \in 1 .. n : stack[i].key # b.node.children[j]
          /\ b.hashes[j] = getNode(d, b.node.children[j]).hash
    BY <1>1, <1>2, <1>4, <1>5, <1>6 DEF RootWalk
  <1>9. th' = [t \in Threads |-> Idle]
    BY <1>1, <1>4, RestIs
  <1>10. RootWalk'
    <2>1. CASE c \in visited
      <3>1. PICK h : h = getNode(d, c).hash
        OBVIOUS
      <3>2. PICK g : g = Returned(f, h)
        OBVIOUS
      <3>3. g.key = f.key /\ g.node = f.node /\ g.next = f.next + 1 /\ g.hashes = Append(f.hashes, h)
        BY <1>4, <1>5, <3>2, ReturnedIs
      <3>4. stack' = [stack EXCEPT ![n] = g] /\ visited' = visited
        BY <1>4, <2>1, <3>1, <3>2
      <3>5. DOMAIN stack' = 1 .. n /\ \A i \in 1 .. n : stack'[i] = IF i = n THEN g ELSE stack[i]
        BY <1>5, <3>4
      <3>6. \A i \in 1 .. n : stack'[i].key = stack[i].key
        BY <1>2, <3>3, <3>5
      <3>7. CASE n # 1
        <4>1. stack'[1] = b
          BY <1>5, <1>6, <3>5, <3>7
        <4>2. QED
          BY <1>2, <1>4, <1>7, <1>8, <3>4, <3>5, <3>6, <4>1 DEF RootWalk
      <3>8. CASE n = 1
        <4>1. stack'[1] = g /\ f = b /\ DOMAIN stack' = 1 .. 1 /\ stack'[1].key = Root
          BY <1>2, <1>6, <1>7, <3>3, <3>5, <3>8
        <4>2. IsSeq(b.hashes) /\ Len(b.hashes) = b.next - 1
          BY <1>7 DEF IsFrame
        <4>3. g.hashes[b.next] = h /\ \A j \in 1 .. b.next - 1 : g.hashes[j] = b.hashes[j]
          BY <1>7, <3>3, <4>1, <4>2, SeqAppend
        <4>4. b.next \in DOMAIN b.node.children
          BY <1>4, <1>7, <4>1
        <4>5. c = b.node.children[b.next] /\ c # Root
          BY <1>3, <1>7, <4>1, <4>4
        <4>6. \A j \in 1 .. g.next - 1 : j \in 1 .. b.next - 1 \/ j = b.next
          BY <1>7, <3>3, <4>1
        <4>7. \A j \in 1 .. g.next - 1 : b.node.children[j] \in visited /\ b.node.children[j] # Root
          BY <1>5, <1>7, <1>8, <1>6, <2>1, <3>8, <4>5, <4>6
        <4>8. \A j \in 1 .. g.next - 1 : g.hashes[j] = getNode(d, b.node.children[j]).hash
          BY <1>8, <3>1, <4>3, <4>5, <4>6
        <4>9. g.node = b.node /\ db'["globalState"] = d /\ visited' = visited
          BY <1>2, <1>4, <3>3, <3>4, <4>1
        <4>10. QED
          BY <4>1, <4>7, <4>8, <4>9 DEF RootWalk
      <3>9. QED
        BY <3>7, <3>8
    <2>2. CASE c \notin visited
      <3>1. PICK g : g = Frame(d, c)
        OBVIOUS
      <3>2. g.key = c
        BY <1>5, <3>1, FrameIs
      <3>3. IsSeq(stack) /\ stack' = Append(stack, g) /\ visited' = visited \cup {c}
        BY <1>1, <1>4, <2>2, <3>1 DEF Walking
      <3>4. /\ DOMAIN stack' = 1 .. n + 1 /\ stack'[n + 1] = g
            /\ \A i \in 1 .. n : stack'[i] = stack[i]
        BY <1>2, <3>3, SeqAppend
      <3>5. \A i \in 1 .. n + 1 : i = n + 1 \/ i \in 1 .. n
        BY <1>5
      <3>6. stack'[1] = b
        BY <1>5, <1>6, <3>4
      <3>7. \A j \in 1 .. b.next - 1 : \A i \in 1 .. n + 1 : stack'[i].key # b.node.children[j]
        BY <1>8, <2>2, <3>2, <3>4, <3>5
      <3>8. db'["globalState"] = d
        BY <1>2, <1>4
      <3>9. QED
        BY <1>7, <1>8, <3>3, <3>4, <3>6, <3>7, <3>8 DEF RootWalk
    <2>3. QED
      BY <2>1, <2>2
  <1>11. Root \in DOMAIN db'["globalState"] /\ \A s \in Stores : RootFree(getNode(db'[s], Root))
    BY <1>1, <1>4 DEF RootApart
  <1>12. QED
    BY <1>1, <1>4, <1>9, <1>10, <1>11, RootWalks

LEMMA DfsReturnRoot ==
  ASSUME TreeIInv, mode # "serial", RootInv, DfsReturn
  PROVE  RootInv'
  <1>1. TreeShapes /\ ThreadShapes /\ Walking /\ RootApart /\ RootWalk
    BY DEF TreeIInv, RootInv
  <1>2. PICK g, n, f, h : /\ g = "globalState" /\ n = Len(stack) /\ f = stack[n]
                          /\ h = Sha(FlattenSeq(f.hashes) \o f.node.value)
    OBVIOUS
  <1>3. g \in Stores
    BY <1>2, StoreIs
  <1>4. phase = "dfs" /\ f.next > Len(f.node.children)
    BY <1>2 DEF DfsReturn
  <1>5. /\ IsTree(db[g]) /\ n \in Nat \ {0} /\ DOMAIN stack = 1 .. n /\ n \in DOMAIN stack
        /\ IsFrame(f) /\ f.node = getNode(db[g], f.key)
    BY <1>2, <1>4, OnStack
  <1>6. PICK m : /\ m = [f.node EXCEPT !.hash = h]
                 /\ IsNode(m) /\ m.hash = h /\ m.value = f.node.value /\ m.children = f.node.children
    BY <1>5, NewHash DEF IsFrame
  <1>7. PICK e : e = Put(db[g], f.key, m)
    OBVIOUS
  <1>8. /\ Write(g, e) /\ UNCHANGED <<mode, th>>
        /\ \/ n = 1 /\ stack' = <<>> /\ phase' = "idle"
           \/ /\ n > 1 /\ UNCHANGED <<visited, phase>>
              /\ stack' = [i \in 1 .. n - 1 |-> IF i < n - 1 THEN stack[i] ELSE Returned(stack[i], h)]
    BY <1>2, <1>6, <1>7 DEF DfsReturn
  <1>9. db'[g] = e /\ \A r \in Stores \ {g} : db'[r] = db[r]
    BY <1>1, <1>3, <1>8, Wrote
  <1>10. /\ IsTree(e) /\ DOMAIN e = DOMAIN db[g] \cup {f.key} /\ e[f.key] = m /\ getNode(e, f.key).hash = h
         /\ \A y : y # f.key => getNode(e, y) = getNode(db[g], y)
         /\ getNode(e, f.key).value = f.node.value
         /\ f.key \in DOMAIN db[g] => getNode(e, f.key).children = f.node.children
    <2>1. PICK d, x : d = db[g] /\ x = f.key
      OBVIOUS
    <2>2. /\ IsTree(d) /\ IsNode(m) /\ m.value = getNode(d, x).value
          /\ m.children = getNode(d, x).children /\ e = Put(d, x, m)
      BY <1>5, <1>6, <1>7, <2>1
    <2>3. IsTree(e) /\ getNode(e, x) = deserializeNode(m) /\ \A y : y # x => getNode(e, y) = getNode(d, y)
      BY <2>2, PutTree, ReadPut, ReadOther
    <2>4. DOMAIN e = DOMAIN d \cup {x} /\ e[x] = m
      BY <2>2 DEF Put
    <2>5. x \in DOMAIN d => m.children # <<>>
      BY <2>2, ReadNode
    <2>6. /\ getNode(e, x).hash = m.hash /\ getNode(e, x).value = m.value
          /\ x \in DOMAIN d => getNode(e, x).children = m.children
      BY <2>2, <2>3, <2>5, ReadBack
    <2>7. QED
      BY <1>6, <2>1, <2>3, <2>4, <2>6
  <1>11. PICK b : b = stack[1]
    OBVIOUS
  <1>12. /\ b.key = Root /\ b.next \in Nat \ {0} /\ Len(b.node.children) \in Nat
         /\ DOMAIN b.node.children = 1 .. Len(b.node.children) /\ IsFrame(b)
         /\ \A j \in DOMAIN b.node.children : b.node.children[j] # Root
         /\ b.node = getNode(db[g], Root)
    BY <1>1, <1>2, <1>4, <1>11, BottomCall
  <1>13. \A j \in 1 .. b.next - 1 :
          /\ b.node.children[j] \in visited /\ \A i \in 1 .. n : stack[i].key # b.node.children[j]
          /\ b.hashes[j] = getNode(db[g], b.node.children[j]).hash
    BY <1>1, <1>2, <1>4, <1>5, <1>11 DEF RootWalk
  <1>14. Root \in DOMAIN db[g] /\ \A s \in Stores : RootFree(getNode(db[s], Root))
    BY <1>1, <1>2 DEF RootApart
  <1>15. getNode(e, Root).children = getNode(db[g], Root).children
    BY <1>5, <1>10, <1>14
  <1>16. Root \in DOMAIN db'["globalState"] /\ \A s \in Stores : RootFree(getNode(db'[s], Root))
    <2>1. RootFree(getNode(e, Root))
      BY <1>3, <1>14, <1>15 DEF RootFree
    <2>2. Root \in DOMAIN e
      BY <1>10, <1>14
    <2>3. QED
      BY <1>2, <1>9, <1>14, <2>1, <2>2
  <1>17. th' = [t \in Threads |-> Idle]
    BY <1>1, <1>4, <1>8, RestIs
  <1>18. CASE n = 1
    <2>1. phase' = "idle"
      BY <1>8, <1>18
    <2>2. f = b /\ f.key = Root
      BY <1>2, <1>11, <1>12, <1>18
    <2>3. Exact(e, Root)
      <3>1. PICK q : q = getNode(e, Root)
        OBVIOUS
      <3>2. q.children = f.node.children /\ q.value = f.node.value /\ e[Root].hash = h
        BY <1>6, <1>10, <1>14, <2>2, <3>1
      <3>3. IsSeq(f.hashes) /\ Len(f.hashes) = f.next - 1 /\ f.next <= Len(f.node.children) + 1
        BY <1>5, <2>2, <1>12 DEF IsFrame
      <3>4. f.next - 1 = Len(f.node.children)
        BY <1>4, <1>12, <2>2, <3>3
      <3>5. DOMAIN f.hashes = DOMAIN f.node.children /\ f.hashes = [i \in DOMAIN f.hashes |-> f.hashes[i]]
        BY <1>12, <2>2, <3>3, <3>4 DEF IsSeq
      <3>6. \A i \in DOMAIN f.node.children : getNode(e, f.node.children[i]).hash = f.hashes[i]
        <4>1. TAKE i \in DOMAIN f.node.children
        <4>2. i \in 1 .. b.next - 1
          BY <1>12, <2>2, <3>4
        <4>3. f.node.children[i] # f.key
          BY <1>12, <2>2
        <4>4. getNode(e, f.node.children[i]) = getNode(db[g], f.node.children[i])
          BY <1>10, <4>3
        <4>5. f.hashes[i] = getNode(db[g], f.node.children[i]).hash
          BY <1>13, <2>2, <4>2
        <4>6. QED
          BY <4>4, <4>5
      <3>7. Hashes(e, q) = f.hashes
        BY <3>2, <3>5, <3>6 DEF Hashes
      <3>8. e[Root].hash = Sha(ConcatHashes(e, q) \o q.value)
        BY <1>2, <3>2, <3>7 DEF ConcatHashes
      <3>9. QED
        BY <1>10, <3>1, <3>8, ExactIs
    <2>4. db'["globalState"] = e
      BY <1>2, <1>9
    <2>5. phase' # "dfs" /\ phase' # "insert" /\ phase' # "hash"
      BY <2>1
    <2>6. QED
      BY <1>16, <1>17, <2>3, <2>4, <2>5, RootQuiet
  <1>19. CASE n # 1
    <2>1. /\ visited' = visited /\ phase' = "dfs"
          /\ stack' = [i \in 1 .. n - 1 |-> IF i < n - 1 THEN stack[i] ELSE Returned(stack[i], h)]
      BY <1>4, <1>8, <1>19
    <2>2. n - 1 \in 1 .. n /\ n - 1 + 1 = n /\ n - 1 \in Nat \ {0} /\ 1 \in 1 .. n - 1
      BY <1>5, <1>19
    <2>3. PICK p, top : p = stack[n - 1] /\ top = Returned(p, h)
      OBVIOUS
    <2>4. IsFrame(p) /\ p.next \in DOMAIN p.node.children /\ f.key = p.node.children[p.next]
      BY <1>1, <1>2, <1>5, <2>2, <2>3 DEF Walking
    <2>5. p.next <= Len(p.node.children)
      <3>1. Len(p.node.children) \in Nat /\ DOMAIN p.node.children = 1 .. Len(p.node.children)
        BY <2>4 DEF IsFrame, IsNode, IsSeq
      <3>2. QED
        BY <2>4, <3>1
    <2>6. top.key = p.key /\ top.node = p.node /\ top.next = p.next + 1 /\ top.hashes = Append(p.hashes, h)
      BY <2>3, <2>4, <2>5, ReturnedIs
    <2>7. DOMAIN stack' = 1 .. n - 1 /\ \A i \in 1 .. n - 1 : stack'[i] = IF i < n - 1 THEN stack[i] ELSE Returned(stack[i], h)
      BY <2>1
    <2>8. \A i \in 1 .. n - 1 : i \in 1 .. n /\ (i < n - 1 \/ i = n - 1)
      BY <1>5
    <2>9. \A i \in 1 .. n - 1 : stack'[i].key = stack[i].key
      BY <2>3, <2>6, <2>7, <2>8
    <2>10. \A j \in 1 .. b.next - 1 :
             /\ b.hashes[j] = getNode(e, b.node.children[j]).hash
             /\ \A i \in 1 .. n - 1 : stack'[i].key # b.node.children[j]
      <3>1. TAKE j \in 1 .. b.next - 1
      <3>2. f.key # b.node.children[j] /\ \A i \in 1 .. n - 1 : stack[i].key # b.node.children[j]
        BY <1>2, <1>5, <1>13, <2>8
      <3>3. QED
        BY <1>10, <1>13, <2>9, <3>2
    <2>11. db'["globalState"] = e
      BY <1>2, <1>9
    <2>12. RootWalk'
      <3>1. CASE n # 2
        <4>1. stack'[1] = b
          BY <1>5, <1>11, <2>2, <2>7, <3>1
        <4>2. \A j \in 1 .. b.next - 1 : b.node.children[j] \in visited'
          BY <1>13, <2>1
        <4>3. QED
          BY <1>12, <2>1, <2>7, <2>10, <2>11, <4>1, <4>2 DEF RootWalk
      <3>2. CASE n = 2
        <4>1. stack'[1] = top /\ p = b /\ DOMAIN stack' = 1 .. 1 /\ stack'[1].key = Root
          BY <1>11, <1>12, <2>3, <2>6, <2>7, <3>2
        <4>2. IsSeq(b.hashes) /\ Len(b.hashes) = b.next - 1
          BY <1>12 DEF IsFrame
        <4>3. top.hashes[b.next] = h /\ \A j \in 1 .. b.next - 1 : top.hashes[j] = b.hashes[j]
          BY <1>12, <2>6, <4>1, <4>2, SeqAppend
        <4>4. \A j \in 1 .. top.next - 1 : j \in 1 .. b.next - 1 \/ j = b.next
          BY <1>12, <2>6, <4>1
        <4>5. f.key = b.node.children[b.next] /\ f.key # Root /\ f.key \in visited
          <5>1. f.key \in visited
            BY <1>1, <1>2, <1>5 DEF Walking
          <5>2. QED
            BY <1>12, <2>4, <4>1, <5>1
        <4>6. \A j \in 1 .. b.next - 1 : b.node.children[j] # Root
          <5>1. 1 \in 1 .. n /\ stack[1].key = Root
            BY <1>11, <1>12, <3>2
          <5>2. QED
            BY <1>13, <5>1
        <4>7. \A j \in 1 .. top.next - 1 : b.node.children[j] \in visited /\ b.node.children[j] # Root
          BY <1>13, <4>4, <4>5, <4>6
        <4>8. \A j \in 1 .. top.next - 1 : top.hashes[j] = getNode(e, b.node.children[j]).hash
          BY <1>10, <2>10, <4>3, <4>4, <4>5
        <4>9. top.node = b.node /\ visited' = visited
          BY <2>1, <2>6, <4>1
        <4>10. QED
          BY <2>11, <4>1, <4>7, <4>8, <4>9 DEF RootWalk
      <3>3. QED
        BY <3>1, <3>2
    <2>13. QED
      BY <1>1, <1>16, <1>17, <2>1, <2>12, RootWalks
  <1>20. QED
    BY <1>18, <1>19

LEMMA RootStep ==
  ASSUME TreeIInv, Ownership, RootInv, [TreeNext]_treeVars
  PROVE  RootInv'
  <1>1. mode' = mode
    BY ModeStays
  <1>2. CASE mode = "serial"
    BY <1>1, <1>2 DEF RootInv
  <1>3. CASE UNCHANGED treeVars
    BY <1>3 DEF treeVars, RootInv, RootApart, RootWalk, RootHashed
  <1>4. CASE mode # "serial" /\ TreeNext
    <2>1. ~Start
      BY <1>4 DEF TreeIInv, PhaseShapes, Start
    <2>2. ASSUME Finished PROVE RootInv'
      BY <1>3, <2>2 DEF Finished
    <2>3. ASSUME StartFlush \/ Join \/ UpdateHashes \/ resetTree \/ Crash PROVE RootInv'
      BY <1>4, <2>3, StartFlushRoot, JoinRoot, UpdateHashesRoot, resetTreeRoot, CrashRoot
    <2>4. ASSUME LibraryCall \/ DfsCall \/ DfsReturn PROVE RootInv'
      BY <1>4, <2>4, LibraryCallRoot, DfsCallRoot, DfsReturnRoot
    <2>5. ASSUME \E t \in Threads : PutLeaf(t) \/ GetParent(t) \/ PutParent(t) PROVE RootInv'
      BY <1>4, <2>5, PutLeafRoot, GetParentRoot, PutParentRoot
    <2>6. QED
      BY <1>4, <2>1, <2>2, <2>3, <2>4, <2>5 DEF TreeNext
  <1>5. QED
    BY <1>2, <1>3, <1>4

\* The root's hash is the digest of its children's hashes after every flush and every
\* update of the hashes, in every mode (updateParentHashes, updateTree and dfs all end
\* at the root).
THEOREM RootIsExact == TreeSpec => []RootExact
  <1>1. TreeInit => RootInv
    BY RootInit
  <1>2. TreeIInv /\ Ownership /\ RootInv /\ [TreeNext]_treeVars => RootInv'
    BY RootStep
  <1>3. RootInv /\ Ownership => RootExact
    BY FreshRoot DEF RootInv, RootHashed, Ownership, RootExact
  <1>4. QED
    BY <1>1, <1>2, <1>3, TreeInvariant, PTL DEF TreeSpec

-----------------------------------------------------------------------------
(***************************************************************************)
(* The inner nodes, in the two variants that update them along the path of *)
(* a key: serialMerkleTree and the leader.                                 *)
(***************************************************************************)
\* The inner nodes by name, and those above the leaf of a key.
Ends     == {Root} \cup {ParentAt(k, i) : k \in Keys, i \in 0 .. PathLen - 1}
Above(k) == {ParentAt(k, i) : i \in 0 .. PathLen - 1}
Leafs    == {PathOf[k] : k \in Keys}

\* A child a node may have in a store with the names D: one that insert links, a leaf
\* only once it is there, and what the text form makes of the new root.
Fits(x, c, D) == \/ <<x, c>> \in Links /\ (c \in Leafs => c \in D)
                 \/ x = Root /\ c = Sha(Empty)
Proper(n, x, D) == \A c \in Range(n.children) : Fits(x, c, D)
Regular(d) ==
  /\ Root \in DOMAIN d /\ DOMAIN d \subseteq Ends \cup Leafs
  /\ \A x \in Ends : Proper(getNode(d, x), x, DOMAIN d)

\* Prefixes: where they begin and what they have in common.
LEMMA PathsMeet ==
  ASSUME NEW k \in Keys, NEW j \in Keys, NEW i \in 0 .. PathLen - 1, NEW l \in 0 .. PathLen - 1
  PROVE  /\ ParentAt(k, i) = ParentAt(j, l) => i = l
         /\ ChildAt(k, i) = ChildAt(j, l) => i = l /\ ParentAt(k, i) = ParentAt(j, l)
         /\ i < PathLen - 1 => ChildAt(k, i) = ParentAt(k, i + 1)
         /\ ChildAt(k, PathLen - 1) = PathOf[k]
         /\ ParentAt(k, i) # PathOf[j] /\ ChildAt(k, i) # Root
  <1>1. PICK s \in Seq(Chars), r \in Seq(Chars) : s = PathOf[k] /\ r = PathOf[j] /\ Len(s) = 3 /\ Len(r) = 3
    BY KeysAssumption DEF PathLen
  <1>2. i \in 0 .. 2 /\ l \in 0 .. 2 /\ PathLen - 1 = 2
    BY DEF PathLen
  <1>3. ASSUME NEW q \in Seq(Chars), Len(q) = 3, NEW n \in 1 .. 3
        PROVE  /\ SubSeq(q, 1, n) \in Seq(Chars) /\ Len(SubSeq(q, 1, n)) = n
               /\ \A m \in 1 .. n : SubSeq(q, 1, n)[m] = q[m]
    <2>1. \A m \in 1 .. n : q[m] \in Chars
      <3>1. \A m \in 1 .. 3 : q[m] \in Chars
        BY <1>3, ElementOfSeq
      <3>2. \A m \in 1 .. n : m \in 1 .. 3
        OBVIOUS
      <3>3. QED
        BY <3>1, <3>2
    <2>2. 1 \in Int /\ n \in Int /\ n - 1 + 1 = n /\ 1 <= n
      BY <1>3
    <2>3. /\ SubSeq(q, 1, n) \in Seq(Chars) /\ Len(SubSeq(q, 1, n)) = n - 1 + 1
          /\ \A m \in 1 .. n - 1 + 1 : SubSeq(q, 1, n)[m] = q[1 + m - 1]
      BY <2>1, <2>2, SubSeqProperties
    <2>4. \A m \in 1 .. n : 1 + m - 1 = m
      OBVIOUS
    <2>5. QED
      BY <2>2, <2>3, <2>4
  <1>4. ParentAt(k, i) = ParentAt(j, l) => i = l
    <2>1. i # 0 => ParentAt(k, i) \in Seq(Chars) /\ Len(ParentAt(k, i)) = i
      BY PathFacts
    <2>2. l # 0 => ParentAt(j, l) \in Seq(Chars) /\ Len(ParentAt(j, l)) = l
      BY PathFacts
    <2>3. (i = 0 => ParentAt(k, i) = Root) /\ (l = 0 => ParentAt(j, l) = Root)
      BY DEF ParentAt
    <2>4. QED
      BY <2>1, <2>2, <2>3, NamesApart
  <1>5. ChildAt(k, i) = SubSeq(s, 1, i + 1) /\ ChildAt(j, l) = SubSeq(r, 1, l + 1)
    BY <1>1 DEF ChildAt
  <1>6. ASSUME ChildAt(k, i) = ChildAt(j, l) PROVE i = l /\ ParentAt(k, i) = ParentAt(j, l)
    <2>1. i + 1 \in 1 .. 3 /\ l + 1 \in 1 .. 3
      BY <1>2
    <2>2. Len(SubSeq(s, 1, i + 1)) = i + 1 /\ Len(SubSeq(r, 1, l + 1)) = l + 1
      BY <1>1, <1>3, <2>1
    <2>3. i = l
      BY <1>2, <1>5, <1>6, <2>2
    <2>4. \A m \in 1 .. i + 1 : SubSeq(s, 1, i + 1)[m] = s[m] /\ SubSeq(r, 1, i + 1)[m] = r[m]
      BY <1>1, <1>3, <2>1
    <2>5. \A m \in 1 .. i + 1 : s[m] = r[m]
      BY <1>5, <1>6, <2>3, <2>4
    <2>6. CASE i = 0
      BY <2>3, <2>6 DEF ParentAt
    <2>7. CASE i # 0
      <3>1. i \in 1 .. 3 /\ \A m \in 1 .. i : m \in 1 .. i + 1
        BY <1>2, <2>7
      <3>2. /\ SubSeq(s, 1, i) \in Seq(Chars) /\ SubSeq(r, 1, i) \in Seq(Chars)
            /\ Len(SubSeq(s, 1, i)) = i /\ Len(SubSeq(r, 1, i)) = i
            /\ \A m \in 1 .. i : SubSeq(s, 1, i)[m] = s[m] /\ SubSeq(r, 1, i)[m] = r[m]
        BY <1>1, <1>3, <3>1
      <3>3. \A m \in 1 .. i : SubSeq(s, 1, i)[m] = SubSeq(r, 1, i)[m]
        BY <2>5, <3>1, <3>2
      <3>4. SubSeq(s, 1, i) = SubSeq(r, 1, i)
        BY <3>2, <3>3, SeqEqual
      <3>5. QED
        BY <1>1, <2>3, <2>7, <3>4 DEF ParentAt
    <2>8. QED
      BY <2>3, <2>6, <2>7
  <1>7. i < 2 => ChildAt(k, i) = ParentAt(k, i + 1)
    BY <1>2 DEF ChildAt, ParentAt
  <1>8. ChildAt(k, 2) = PathOf[k]
    <2>1. SubSeq(s, 1, 3) \in Seq(Chars) /\ Len(SubSeq(s, 1, 3)) = 3 /\ \A m \in 1 .. 3 : SubSeq(s, 1, 3)[m] = s[m]
      BY <1>1, <1>3
    <2>2. SubSeq(s, 1, 3) = s
      BY <1>1, <2>1, SeqEqual
    <2>3. QED
      BY <1>1, <2>2 DEF ChildAt
  <1>9. ParentAt(k, i) # PathOf[j] /\ ChildAt(k, i) # Root
    BY PathFacts, NamesApart
  <1>10. QED
    BY <1>2, <1>4, <1>6, <1>7, <1>8, <1>9

\* Where a child and the path of a key meet, the parent is on it too, one level up.
LEMMA ChildFits ==
  ASSUME NEW x, NEW c, NEW D, Fits(x, c, D), NEW k \in Keys
  PROVE  /\ c # Root /\ (c \in Above(k) \/ c = PathOf[k] => x \in Above(k))
         /\ \A i \in 0 .. PathLen - 1, l \in 0 .. PathLen - 1 :
              x = ParentAt(k, i) /\ l <= i => c # ParentAt(k, l)
         /\ x = ParentAt(k, PathLen - 1) =>
              \E j \in Keys : c = PathOf[j] /\ c \in D /\ ParentAt(j, PathLen - 1) = x
  <1>1. PathLen - 1 = 2 /\ 2 \in 0 .. PathLen - 1 /\ 0 .. PathLen - 1 = {0, 1, 2}
    BY DEF PathLen
  <1>2. CASE x = Root /\ c = Sha(Empty)
    <2>1. c # Root /\ c # PathOf[k]
      BY <1>2, NamesApart, PathApart
    <2>2. \A l \in 0 .. PathLen - 1 : c # ParentAt(k, l)
      <3>1. TAKE l \in 0 .. PathLen - 1
      <3>2. l = 0 => ParentAt(k, l) = Root
        BY PathFacts
      <3>3. l # 0 => ParentAt(k, l) \in Seq(Chars)
        BY PathFacts
      <3>4. c \notin Seq(Chars)
        BY <1>2, NamesApart
      <3>5. QED
        BY <2>1, <3>2, <3>3, <3>4
    <2>3. x # ParentAt(k, 2)
      <3>1. ParentAt(k, 2) \in Seq(Chars)
        BY <1>1, PathFacts
      <3>2. QED
        BY <1>2, <3>1, NamesApart
    <2>4. QED
      BY <1>1, <2>1, <2>2, <2>3 DEF Above
  <1>3. CASE <<x, c>> \in Links /\ (c \in Leafs => c \in D)
    <2>1. PICK j \in Keys, m \in 0 .. PathLen - 1 : x = ParentAt(j, m) /\ c = ChildAt(j, m)
      BY <1>3 DEF Links
    <2>2. c # Root
      BY <2>1, PathsMeet
    <2>3. ASSUME NEW l \in 0 .. PathLen - 1, c = ParentAt(k, l)
          PROVE  l = m + 1 /\ x = ParentAt(k, m)
      <3>1. l # 0
        BY <2>2, <2>3, PathFacts
      <3>2. PICK n \in 0 .. PathLen - 1 : n = l - 1 /\ n + 1 = l /\ n < PathLen - 1
        BY <1>1, <3>1
      <3>3. ChildAt(k, n) = ParentAt(k, n + 1)
        BY <3>2, PathsMeet
      <3>4. ChildAt(j, m) = ChildAt(k, n)
        BY <2>1, <2>3, <3>2, <3>3
      <3>5. m = n /\ ParentAt(j, m) = ParentAt(k, n)
        BY <3>4, PathsMeet
      <3>6. QED
        BY <2>1, <3>2, <3>5
    <2>4. c = PathOf[k] => x = ParentAt(k, m)
      <3>1. ChildAt(k, 2) = PathOf[k]
        BY <1>1, PathsMeet
      <3>2. ChildAt(j, m) = ChildAt(k, 2) => m = 2 /\ ParentAt(j, m) = ParentAt(k, 2)
        BY <1>1, PathsMeet
      <3>3. QED
        BY <2>1, <3>1, <3>2
    <2>5. c \in Above(k) \/ c = PathOf[k] => x \in Above(k)
      BY <2>3, <2>4 DEF Above
    <2>6. ASSUME NEW i \in 0 .. PathLen - 1, NEW l \in 0 .. PathLen - 1, x = ParentAt(k, i), l <= i
          PROVE  c # ParentAt(k, l)
      <3>1. i = m
        <4>1. ParentAt(k, i) = ParentAt(j, m)
          BY <2>1, <2>6
        <4>2. ParentAt(k, i) = ParentAt(j, m) => i = m
          BY PathsMeet
        <4>3. QED
          BY <4>1, <4>2
      <3>2. SUFFICES ASSUME c = ParentAt(k, l) PROVE FALSE
        OBVIOUS
      <3>3. l = m + 1
        BY <2>3, <3>2
      <3>4. QED
        BY <1>1, <2>6, <3>1, <3>3
    <2>7. ASSUME x = ParentAt(k, 2)
          PROVE  c = PathOf[j] /\ c \in D /\ ParentAt(j, 2) = x
      <3>1. m = 2
        <4>1. ParentAt(k, 2) = ParentAt(j, m) => 2 = m
          BY <1>1, PathsMeet
        <4>2. QED
          BY <2>1, <2>7, <4>1
      <3>2. c = PathOf[j]
        BY <1>1, <2>1, <3>1, PathsMeet
      <3>3. QED
        BY <1>3, <2>1, <3>1, <3>2 DEF Leafs
    <2>8. QED
      BY <1>1, <2>2, <2>5, <2>6, <2>7
  <1>4. QED
    BY <1>2, <1>3 DEF Fits

\* More names: what fits goes on fitting.
LEMMA ProperStays ==
  ASSUME NEW n, NEW x, NEW D, NEW E, D \subseteq E, Proper(n, x, D)
  PROVE  Proper(n, x, E)
  BY DEF Proper, Fits

\* A store with the same child lists.
LEMMA RegularStays ==
  ASSUME NEW d, NEW e, Regular(d), DOMAIN d \subseteq DOMAIN e, DOMAIN e \subseteq Ends \cup Leafs,
         \A x \in Ends : getNode(e, x).children = getNode(d, x).children
  PROVE  Regular(e)
  <1>1. ASSUME NEW x \in Ends PROVE Proper(getNode(e, x), x, DOMAIN e)
    <2>1. Proper(getNode(d, x), x, DOMAIN e)
      BY ProperStays DEF Regular
    <2>2. QED
      BY <2>1 DEF Proper
  <1>2. QED
    BY <1>1 DEF Regular

\* A leaf is put.
LEMMA LeafRegular ==
  ASSUME NEW d, Regular(d), NEW k \in Keys, NEW n
  PROVE  /\ Regular(Put(d, PathOf[k], n)) /\ DOMAIN Put(d, PathOf[k], n) = DOMAIN d \cup {PathOf[k]}
         /\ \A x \in Ends : getNode(Put(d, PathOf[k], n), x) = getNode(d, x)
  <1>1. PICK e : e = Put(d, PathOf[k], n)
    OBVIOUS
  <1>2. DOMAIN e = DOMAIN d \cup {PathOf[k]}
    BY <1>1 DEF Put
  <1>3. \A x \in Ends : x # PathOf[k]
    BY PathFacts, PathApart DEF Ends
  <1>4. \A x \in Ends : getNode(e, x) = getNode(d, x)
    BY <1>1, <1>3, ReadOther
  <1>5. DOMAIN e \subseteq Ends \cup Leafs
    BY <1>2 DEF Regular, Leafs
  <1>6. Regular(e)
    BY <1>2, <1>4, <1>5, RegularStays
  <1>7. QED
    BY <1>1, <1>2, <1>4, <1>6

\* A child is linked.
LEMMA LinkRegular ==
  ASSUME NEW d, IsTree(d), Regular(d), NEW k \in Keys, NEW i \in 0 .. PathLen - 1, PathOf[k] \in DOMAIN d,
         NEW n, IsNode(n), Proper(n, ParentAt(k, i), DOMAIN d),
         n.children # <<>> => ParentAt(k, i) \in DOMAIN d,
         NEW f, LinkedTo(f, d, ParentAt(k, i), n, ChildAt(k, i))
  PROVE  Regular(f) /\ ParentAt(k, i) \in DOMAIN f
  <1>1. PICK p, c : p = ParentAt(k, i) /\ c = ChildAt(k, i)
    OBVIOUS
  <1>2. LinkedTo(f, d, p, n, c) /\ Proper(n, p, DOMAIN d) /\ (n.children # <<>> => p \in DOMAIN d)
    BY <1>1
  <1>3. CASE c \in Range(n.children)
    <2>1. f = d
      BY <1>2, <1>3 DEF LinkedTo
    <2>2. n.children # <<>>
      BY <1>3, SeqEmpty
    <2>3. QED
      BY <1>1, <1>2, <2>1, <2>2
  <1>4. CASE c \notin Range(n.children)
    <2>1. /\ DOMAIN d \subseteq DOMAIN f /\ DOMAIN f \subseteq DOMAIN d \cup {p} /\ p \in DOMAIN f
          /\ \A x : x # p => getNode(f, x) = getNode(d, x)
          /\ Range(getNode(f, p).children) = Range(n.children) \cup {c}
      BY <1>2, <1>4 DEF LinkedTo
    <2>2. p \in Ends /\ <<p, c>> \in Links
      BY <1>1 DEF Ends, Links
    <2>3. Fits(p, c, DOMAIN f)
      <3>1. ASSUME NEW j \in Keys, c = PathOf[j] PROVE c \in DOMAIN d
        <4>1. PathLen - 1 = 2 /\ 2 \in 0 .. PathLen - 1
          BY DEF PathLen
        <4>2. ChildAt(j, 2) = PathOf[j] /\ ChildAt(k, 2) = PathOf[k]
          BY <4>1, PathsMeet
        <4>3. ChildAt(k, i) = ChildAt(j, 2) => i = 2
          BY <4>1, PathsMeet
        <4>4. QED
          BY <1>1, <3>1, <4>2, <4>3
      <3>2. QED
        BY <2>1, <2>2, <3>1 DEF Fits, Leafs
    <2>4. Proper(getNode(f, p), p, DOMAIN f)
      <3>1. Proper(n, p, DOMAIN f)
        BY <1>2, <2>1, ProperStays
      <3>2. QED
        BY <2>1, <2>3, <3>1 DEF Proper
    <2>5. ASSUME NEW x \in Ends, x # p PROVE Proper(getNode(f, x), x, DOMAIN f)
      <3>1. Proper(getNode(d, x), x, DOMAIN f)
        BY <2>1, ProperStays DEF Regular
      <3>2. QED
        BY <2>1, <2>5, <3>1
    <2>6. Root \in DOMAIN f /\ DOMAIN f \subseteq Ends \cup Leafs
      BY <2>1, <2>2 DEF Regular
    <2>7. QED
      BY <1>1, <2>1, <2>4, <2>5, <2>6 DEF Regular
  <1>5. QED
    BY <1>3, <1>4

\* The hash of a node that is there.
LEMMA RehashThere ==
  ASSUME NEW d, IsTree(d), NEW x \in DOMAIN d
  PROVE  /\ IsTree(Rehash(d, x)) /\ DOMAIN Rehash(d, x) = DOMAIN d
         /\ \A y : /\ getNode(Rehash(d, x), y).children = getNode(d, y).children
                   /\ getNode(Rehash(d, x), y).value = getNode(d, y).value
         /\ \A y : y # x => getNode(Rehash(d, x), y) = getNode(d, y)
         /\ \A y \in DOMAIN d : y # x => Rehash(d, x)[y] = d[y]
  <1>1. PICK e : e = Rehash(d, x)
    OBVIOUS
  <1>2. /\ IsTree(e) /\ DOMAIN e = DOMAIN d \cup {x}
        /\ \A y : y # x => getNode(e, y) = getNode(d, y)
        /\ \A y \in DOMAIN d : y # x => e[y] = d[y]
        /\ getNode(e, x).value = getNode(d, x).value
        /\ getNode(e, x).children = getNode(d, x).children
    <2>1. PICK m : /\ e = Put(d, x, m) /\ IsNode(m)
                   /\ m.value = getNode(d, x).value /\ m.children = getNode(d, x).children
      BY <1>1, RehashIs
    <2>2. QED
      BY <2>1, HashWritten
  <1>3. \A y : getNode(e, y).children = getNode(d, y).children /\ getNode(e, y).value = getNode(d, y).value
    BY <1>2
  <1>4. QED
    BY <1>1, <1>2, <1>3

LEMMA RehashOther ==
  ASSUME NEW d, IsTree(d), NEW x \in DOMAIN d, NEW y \in DOMAIN d, y # x,
         x \notin Range(getNode(d, y).children), Exact(d, y)
  PROVE  Exact(Rehash(d, x), y)
  <1>1. PICK e : e = Rehash(d, x)
    OBVIOUS
  <1>2. IsTree(e) /\ DOMAIN e = DOMAIN d /\ \A z : z # x => getNode(e, z) = getNode(d, z)
    BY <1>1, RehashThere
  <1>3. getNode(e, y) = getNode(d, y) /\ \A c \in Range(getNode(d, y).children) : getNode(e, c).hash = getNode(d, c).hash
    BY <1>2
  <1>4. Exact(e, y)
    BY <1>2, <1>3, ExactStays
  <1>5. QED
    BY <1>1, <1>4

\* updateParentHashes of a digest writes the nodes above the leaf, lowest first.
LEMMA ThreeParents ==
  ASSUME NEW d, NEW k \in Keys
  PROVE  updateParentHashes(d, PathOf[k]) =
           Rehash(Rehash(Rehash(d, ParentAt(k, 2)), ParentAt(k, 1)), Root)
  <1>1. PICK s : s = PathOf[k] /\ Len(s) = 3
    BY KeysAssumption DEF PathLen
  <1>2. PICK f : GoesUp(f, d, s)
    BY <1>1, ParentRun
  <1>3. f[0] = d /\ (\A i \in 1 .. 3 : f[i] = Rehash(f[i - 1], PrefixAt(s, i))) /\ updateParentHashes(d, s) = f[3]
    BY <1>1, <1>2 DEF GoesUp
  <1>4. PrefixAt(s, 3) = Root /\ PrefixAt(s, 2) = ParentAt(k, 1) /\ PrefixAt(s, 1) = ParentAt(k, 2)
    BY <1>1 DEF PrefixAt, ParentAt
  <1>5. f[1] = Rehash(f[0], PrefixAt(s, 1)) /\ f[2] = Rehash(f[1], PrefixAt(s, 2)) /\ f[3] = Rehash(f[2], PrefixAt(s, 3))
    BY <1>3
  <1>6. QED
    BY <1>1, <1>3, <1>4, <1>5

\* The store after the hashes above a leaf were updated.
Along(e, d, k) ==
  /\ IsTree(e) /\ DOMAIN e = DOMAIN d
  /\ \A x : getNode(e, x).children = getNode(d, x).children /\ getNode(e, x).value = getNode(d, x).value
  /\ \A x : x \notin Above(k) => getNode(e, x) = getNode(d, x)

LEMMA PathUpdated ==
  ASSUME NEW d, IsTree(d), NEW k \in Keys, Above(k) \subseteq DOMAIN d
  PROVE  /\ Along(updateParentHashes(d, PathOf[k]), d, k)
         /\ Regular(d) => \A x \in Above(k) : Exact(updateParentHashes(d, PathOf[k]), x)
  <1>1. PICK p, q : p = ParentAt(k, 1) /\ q = ParentAt(k, 2)
    OBVIOUS
  <1>2. PICK a : a = Rehash(d, q)
    OBVIOUS
  <1>3. PICK b : b = Rehash(a, p)
    OBVIOUS
  <1>4. PICK e : e = Rehash(b, Root)
    OBVIOUS
  <1>5. updateParentHashes(d, PathOf[k]) = e
    BY <1>1, <1>2, <1>3, <1>4, ThreeParents
  <1>6. 0 .. PathLen - 1 = {0, 1, 2} /\ PathLen - 1 = 2
    BY DEF PathLen
  <1>7. ParentAt(k, 0) = Root
    BY DEF ParentAt
  <1>8. Above(k) = {Root, p, q}
    BY <1>1, <1>6, <1>7 DEF Above
  <1>9. p # q /\ p # Root /\ q # Root
    <2>1. /\ ParentAt(k, 1) = ParentAt(k, 2) => 1 = 2
          /\ ParentAt(k, 0) = ParentAt(k, 1) => 0 = 1
          /\ ParentAt(k, 0) = ParentAt(k, 2) => 0 = 2
      BY <1>6, PathsMeet
    <2>2. QED
      BY <1>1, <1>7, <2>1
  <1>10. /\ IsTree(a) /\ DOMAIN a = DOMAIN d
         /\ \A x : getNode(a, x).children = getNode(d, x).children /\ getNode(a, x).value = getNode(d, x).value
         /\ \A x : x # q => getNode(a, x) = getNode(d, x)
    BY <1>2, <1>8, RehashThere
  <1>11. /\ IsTree(b) /\ DOMAIN b = DOMAIN d
         /\ \A x : getNode(b, x).children = getNode(d, x).children /\ getNode(b, x).value = getNode(d, x).value
         /\ \A x : x # p => getNode(b, x) = getNode(a, x)
    <2>1. IsTree(a) /\ p \in DOMAIN a
      BY <1>8, <1>10
    <2>2. /\ IsTree(Rehash(a, p)) /\ DOMAIN Rehash(a, p) = DOMAIN a
          /\ \A x : /\ getNode(Rehash(a, p), x).children = getNode(a, x).children
                    /\ getNode(Rehash(a, p), x).value = getNode(a, x).value
          /\ \A x : x # p => getNode(Rehash(a, p), x) = getNode(a, x)
      BY <2>1, RehashThere
    <2>3. QED
      BY <1>3, <1>10, <2>2
  <1>12. /\ IsTree(e) /\ DOMAIN e = DOMAIN d
         /\ \A x : getNode(e, x).children = getNode(d, x).children /\ getNode(e, x).value = getNode(d, x).value
         /\ \A x : x # Root => getNode(e, x) = getNode(b, x)
    <2>1. IsTree(b) /\ Root \in DOMAIN b
      BY <1>8, <1>11
    <2>2. /\ IsTree(Rehash(b, Root)) /\ DOMAIN Rehash(b, Root) = DOMAIN b
          /\ \A x : /\ getNode(Rehash(b, Root), x).children = getNode(b, x).children
                    /\ getNode(Rehash(b, Root), x).value = getNode(b, x).value
          /\ \A x : x # Root => getNode(Rehash(b, Root), x) = getNode(b, x)
      BY <2>1, RehashThere
    <2>3. QED
      BY <1>4, <1>11, <2>2
  <1>13. Along(e, d, k)
    BY <1>8, <1>10, <1>11, <1>12 DEF Along
  <1>14. ASSUME Regular(d) PROVE \A x \in Above(k) : Exact(e, x)
    <2>1. \A i \in 0 .. PathLen - 1 : Proper(getNode(d, ParentAt(k, i)), ParentAt(k, i), DOMAIN d)
      BY <1>14 DEF Regular, Ends
    <2>2. ASSUME NEW i \in 0 .. PathLen - 1, NEW l \in 0 .. PathLen - 1, l <= i
          PROVE  ParentAt(k, l) \notin Range(getNode(d, ParentAt(k, i)).children)
      <3>1. SUFFICES ASSUME NEW c, c \in Range(getNode(d, ParentAt(k, i)).children), c = ParentAt(k, l) PROVE FALSE
        OBVIOUS
      <3>2. Fits(ParentAt(k, i), c, DOMAIN d)
        BY <2>1, <3>1 DEF Proper
      <3>3. QED
        BY <2>2, <3>1, <3>2, ChildFits
    <2>3. /\ q \notin Range(getNode(d, q).children) /\ p \notin Range(getNode(d, q).children)
          /\ p \notin Range(getNode(d, p).children) /\ Root \notin Range(getNode(d, q).children)
          /\ Root \notin Range(getNode(d, p).children) /\ Root \notin Range(getNode(d, Root).children)
      BY <1>1, <1>6, <1>7, <2>2
    <2>4. Exact(a, q)
      BY <1>2, <1>8, <2>3, RehashExact
    <2>5. Exact(b, q)
      BY <1>3, <1>8, <1>9, <1>10, <2>3, <2>4, RehashOther
    <2>6. Exact(b, p)
      BY <1>3, <1>8, <1>10, <2>3, RehashExact
    <2>7. Exact(e, q) /\ Exact(e, p)
      BY <1>4, <1>8, <1>9, <1>11, <2>3, <2>5, <2>6, RehashOther
    <2>8. Exact(e, Root)
      BY <1>4, <1>8, <1>11, <2>3, RehashExact
    <2>9. QED
      BY <1>8, <2>7, <2>8
  <1>15. QED
    BY <1>5, <1>13, <1>14

\* All the nodes above a key's leaf are there, and the leaf.
Whole(k, D) == PathOf[k] \in D /\ Above(k) \subseteq D

\* What a thread has in hand fits, and what it is done with is there.
Grown(w, D) ==
  LET k == Head(w.keys) IN
  /\ w.pc \in {"get", "put"} => PathOf[k] \in D /\ \A i \in 0 .. w.level - 1 : ParentAt(k, i) \in D
  /\ w.pc = "put" => /\ Proper(w.snap, ParentAt(k, w.level), D)
                     /\ w.snap.children # <<>> => ParentAt(k, w.level) \in D

\* A leaf as insert wrote it: updateTree hashes it anew only if its value is taken for
\* a child that exists.
Leaves(d) ==
  \A k \in Keys : PathOf[k] \in DOMAIN d =>
     LET n == d[PathOf[k]] IN
     n.value \in Values /\ (n.value \notin DOMAIN d => n = Node(Sha(n.value), n.value, <<>>))

\* The leader: every key of the block is linked or in a thread's hands, and the parent
\* of a linked leaf is up to date unless a key of the block hangs below it.
ByDigest(d, p) ==
  (\A c \in Range(getNode(d, p).children) : getNode(d, c).value \notin DOMAIN d) => Exact(d, p)
Dealt ==
  /\ phase = "idle" => DOMAIN pending = {}
  /\ phase # "idle" =>
       /\ Range(order) = DOMAIN pending
       /\ \A k \in DOMAIN pending : k \in linked["globalState"] \/ \E t \in Threads : k \in Range(th[t].keys)
Settled ==
  \A k \in linked["globalState"] :
     \/ torn \/ ByDigest(db["globalState"], ParentAt(k, PathLen - 1))
     \/ \E j \in DOMAIN pending : ParentAt(j, PathLen - 1) = ParentAt(k, PathLen - 1)

\* serialMerkleTree: the inner nodes are up to date but for those above the key that is
\* being inserted.
AllButOne ==
  torn \/ \A x \in Inner(db["globalState"]) :
     Exact(db["globalState"], x) \/ (th[0].pc \in {"get", "put"} /\ x \in Above(Head(th[0].keys)))

Growth ==
  /\ Regular(db["globalState"]) /\ \A t \in Threads : Grown(th[t], DOMAIN db["globalState"])
  /\ \A k \in linked["globalState"] : Whole(k, DOMAIN db["globalState"])
PathInv ==
  /\ mode \in {"leader", "serialTree"} => Growth
  /\ mode = "leader" => Dealt /\ Leaves(db["globalState"]) /\ Settled
  /\ mode = "serialTree" => AllButOne

\* A store that was changed on the path of one key alone.
OffPath(e, d, k) ==
  /\ IsTree(e) /\ DOMAIN d \subseteq DOMAIN e
  /\ \A x : x \notin Above(k) /\ x # PathOf[k] =>
        getNode(e, x) = getNode(d, x) /\ (x \in DOMAIN e => x \in DOMAIN d)

\* The inner nodes by name.
LEMMA InnerIs ==
  ASSUME NEW d
  PROVE  Inner(d) = DOMAIN d \cap Ends
  <1>1. 0 .. PathLen - 1 = {0, 1, 2} /\ 1 .. PathLen - 1 = {1, 2}
    BY DEF PathLen
  <1>2. ASSUME NEW x PROVE (x = Root \/ \E k \in Keys, i \in 1 .. PathLen - 1 : x = SubSeq(PathOf[k], 1, i)) <=> x \in Ends
    <2>1. ASSUME NEW k \in Keys, NEW i \in 1 .. PathLen - 1, x = SubSeq(PathOf[k], 1, i) PROVE x \in Ends
      <3>1. i \in 0 .. PathLen - 1 /\ i # 0
        BY <1>1
      <3>2. x = ParentAt(k, i)
        BY <2>1, <3>1 DEF ParentAt
      <3>3. QED
        BY <3>1, <3>2 DEF Ends
    <2>2. ASSUME NEW k \in Keys, NEW i \in 0 .. PathLen - 1, x = ParentAt(k, i), x # Root
          PROVE  \E j \in Keys, l \in 1 .. PathLen - 1 : x = SubSeq(PathOf[j], 1, l)
      <3>1. i # 0
        BY <2>2 DEF ParentAt
      <3>2. i \in 1 .. PathLen - 1 /\ x = SubSeq(PathOf[k], 1, i)
        BY <1>1, <2>2, <3>1 DEF ParentAt
      <3>3. QED
        BY <3>2
    <2>3. QED
      BY <2>1, <2>2 DEF Ends
  <1>3. QED
    BY <1>2 DEF Inner

\* Off the path the hashes stay exact.
LEMMA OffPathNode ==
  ASSUME NEW d, Regular(d), NEW k \in Keys, NEW e, OffPath(e, d, k), NEW x \in Ends, x \notin Above(k)
  PROVE  /\ getNode(e, x) = getNode(d, x)
         /\ \A c \in Range(getNode(d, x).children) : getNode(e, c) = getNode(d, c)
  <1>1. x # PathOf[k]
    BY PathFacts, PathApart DEF Ends
  <1>2. getNode(e, x) = getNode(d, x)
    BY <1>1 DEF OffPath
  <1>3. ASSUME NEW c \in Range(getNode(d, x).children) PROVE getNode(e, c) = getNode(d, c)
    <2>1. Fits(x, c, DOMAIN d)
      BY DEF Regular, Proper
    <2>2. c \notin Above(k) /\ c # PathOf[k]
      BY <2>1, ChildFits
    <2>3. QED
      BY <2>2 DEF OffPath
  <1>4. QED
    BY <1>2, <1>3

LEMMA OffPathExact ==
  ASSUME NEW d, IsTree(d), Regular(d), NEW k \in Keys, NEW e, OffPath(e, d, k),
         NEW x \in DOMAIN d, x \in Ends, x \notin Above(k), Exact(d, x)
  PROVE  Exact(e, x)
  <1>1. IsTree(e) /\ x \in DOMAIN e
    BY DEF OffPath
  <1>2. getNode(e, x) = getNode(d, x) /\ \A c \in Range(getNode(d, x).children) : getNode(e, c) = getNode(d, c)
    BY OffPathNode
  <1>3. QED
    BY <1>1, <1>2, ExactStays

LEMMA OffPathDigest ==
  ASSUME NEW d, IsTree(d), Regular(d), NEW k \in Keys, NEW e, OffPath(e, d, k),
         NEW x \in DOMAIN d, x \in Ends, x \notin Above(k), ByDigest(d, x)
  PROVE  ByDigest(e, x)
  <1>1. getNode(e, x) = getNode(d, x) /\ \A c \in Range(getNode(d, x).children) : getNode(e, c) = getNode(d, c)
    BY OffPathNode
  <1>2. SUFFICES ASSUME \A c \in Range(getNode(e, x).children) : getNode(e, c).value \notin DOMAIN e
                 PROVE  Exact(e, x)
    BY DEF ByDigest
  <1>3. DOMAIN d \subseteq DOMAIN e
    BY DEF OffPath
  <1>4. \A c \in Range(getNode(d, x).children) : getNode(d, c).value \notin DOMAIN d
    BY <1>1, <1>2, <1>3
  <1>5. Exact(d, x)
    BY <1>4 DEF ByDigest
  <1>6. QED
    BY <1>5, OffPathExact

\* Leaves that are kept, and new ones.
LEMMA LeavesStay ==
  ASSUME NEW d, Leaves(d), NEW e, DOMAIN d \subseteq DOMAIN e,
         \A k \in Keys : PathOf[k] \in DOMAIN e =>
            \/ PathOf[k] \in DOMAIN d /\ e[PathOf[k]] = d[PathOf[k]]
            \/ \E v \in Values : e[PathOf[k]] = Node(Sha(v), v, <<>>)
  PROVE  Leaves(e)
  <1>1. SUFFICES ASSUME NEW k \in Keys, PathOf[k] \in DOMAIN e, NEW n, n = e[PathOf[k]]
                 PROVE  n.value \in Values /\ (n.value \notin DOMAIN e => n = Node(Sha(n.value), n.value, <<>>))
    BY DEF Leaves
  <1>2. CASE PathOf[k] \in DOMAIN d /\ n = d[PathOf[k]]
    BY <1>2 DEF Leaves
  <1>3. CASE \E v \in Values : n = Node(Sha(v), v, <<>>)
    BY <1>3, NodeFields
  <1>4. QED
    BY <1>1, <1>2, <1>3

\* A thread's hand in a store that has grown.
LEMMA GrownStays ==
  ASSUME NEW w, NEW D, NEW E, D \subseteq E, Grown(w, D)
  PROVE  Grown(w, E)
  <1>1. PICK k : k = Head(w.keys)
    OBVIOUS
  <1>2. /\ w.pc \in {"get", "put"} => PathOf[k] \in D /\ \A i \in 0 .. w.level - 1 : ParentAt(k, i) \in D
        /\ w.pc = "put" => /\ Proper(w.snap, ParentAt(k, w.level), D)
                           /\ w.snap.children # <<>> => ParentAt(k, w.level) \in D
    BY <1>1 DEF Grown
  <1>3. w.pc = "put" => Proper(w.snap, ParentAt(k, w.level), E)
    BY <1>2, ProperStays
  <1>4. QED
    BY <1>1, <1>2, <1>3 DEF Grown

\* What is left to show of a thread's step.
LEMMA ThreadPath ==
  ASSUME TreeIInv, mode \in {"leader", "serialTree"}, PathInv, NEW t \in Threads, Resting(t), th[t].pc # "idle",
         NEW k \in Keys, k = Head(th[t].keys), k \in DOMAIN pending,
         OffPath(db'["globalState"], db["globalState"], k), Regular(db'["globalState"]),
         Grown(th'[t], DOMAIN db'["globalState"]),
         \/ linked'["globalState"] = linked["globalState"]
         \/ linked'["globalState"] = linked["globalState"] \cup {k} /\ Whole(k, DOMAIN db'["globalState"]),
         mode = "leader" =>
           /\ Leaves(db'["globalState"])
           /\ \A j \in Range(th[t].keys) : j \in linked'["globalState"] \/ j \in Range(th'[t].keys),
         mode = "serialTree" =>
           \/ th'[t].pc \in {"get", "put"} /\ Head(th'[t].keys) = k
           \/ \A x \in Above(k) : Exact(db'["globalState"], x)
  PROVE  PathInv'
  <1>1. PICK d, e, l, m : /\ d = db["globalState"] /\ e = db'["globalState"]
                          /\ l = linked["globalState"] /\ m = linked'["globalState"]
    OBVIOUS
  <1>2. /\ phase = "insert" /\ UNCHANGED <<mode, phase, pending, order, torn>>
        /\ \A u \in Threads \ {t} : th'[u] = th[u]
    BY DEF Resting
  <1>3. IsTree(d) /\ Regular(d) /\ OffPath(e, d, k) /\ DOMAIN d \subseteq DOMAIN e /\ l \subseteq Keys
    BY <1>1, StoreIs DEF TreeIInv, TreeShapes, PathInv, Growth, OffPath
  <1>4. l \subseteq m /\ \A j \in m : j \in l \/ (j = k /\ Whole(k, DOMAIN e))
    BY <1>1
  <1>5. Growth'
    <2>1. \A u \in Threads \ {t} : Grown(th'[u], DOMAIN e)
      BY <1>1, <1>2, <1>3, GrownStays DEF PathInv, Growth
    <2>2. \A u \in Threads : Grown(th'[u], DOMAIN e)
      BY <1>1, <2>1
    <2>3. \A j \in l : Whole(j, DOMAIN e)
      BY <1>1, <1>3 DEF PathInv, Growth, Whole
    <2>4. QED
      BY <1>1, <1>4, <2>2, <2>3 DEF Growth
  <1>6. ASSUME mode = "leader" PROVE Dealt' /\ Settled'
    <2>1. Dealt /\ Settled
      BY <1>6 DEF PathInv
    <2>2. ASSUME NEW j \in DOMAIN pending
          PROVE  j \in m \/ \E u \in Threads : j \in Range(th'[u].keys)
      <3>1. CASE j \in l
        BY <1>4, <3>1
      <3>2. CASE j \in Range(th[t].keys)
        BY <1>1, <1>6, <3>2
      <3>3. CASE \E u \in Threads \ {t} : j \in Range(th[u].keys)
        BY <1>2, <3>3
      <3>4. QED
        BY <1>1, <1>2, <2>1, <3>1, <3>2, <3>3 DEF Dealt
    <2>3. Dealt'
      BY <1>1, <1>2, <2>1, <2>2 DEF Dealt
    <2>4. ASSUME NEW j \in m, ~torn, \A i \in DOMAIN pending : ParentAt(i, PathLen - 1) # ParentAt(j, PathLen - 1)
          PROVE  ByDigest(e, ParentAt(j, PathLen - 1))
      <3>1. PICK p : p = ParentAt(j, PathLen - 1)
        OBVIOUS
      <3>2. j # k /\ j \in l /\ p # ParentAt(k, PathLen - 1)
        BY <1>4, <2>4, <3>1
      <3>3. ByDigest(d, p)
        BY <1>1, <2>1, <2>4, <3>1, <3>2 DEF Settled
      <3>4. PathLen - 1 \in 0 .. PathLen - 1 /\ j \in Keys
        BY <1>3, <3>2 DEF PathLen
      <3>5. p \in Ends /\ p \in DOMAIN d
        <4>1. Whole(j, DOMAIN d)
          BY <1>1, <3>2 DEF PathInv, Growth
        <4>2. QED
          BY <3>1, <3>4, <4>1 DEF Ends, Whole, Above
      <3>6. p \notin Above(k)
        <4>1. ASSUME NEW i \in 0 .. PathLen - 1, p = ParentAt(k, i) PROVE FALSE
          <5>1. ParentAt(j, PathLen - 1) = ParentAt(k, i) => PathLen - 1 = i
            BY <3>4, PathsMeet
          <5>2. QED
            BY <3>1, <3>2, <4>1, <5>1
        <4>2. QED
          BY <4>1 DEF Above
      <3>7. QED
        BY <1>3, <3>1, <3>3, <3>5, <3>6, OffPathDigest
    <2>5. Settled'
      BY <1>1, <1>2, <2>4 DEF Settled
    <2>6. QED
      BY <2>3, <2>5
  <1>7. ASSUME mode = "serialTree" PROVE AllButOne'
    <2>1. t = 0
      BY <1>7, AtWork DEF OneThread
    <2>2. ASSUME ~torn, NEW x \in Inner(e)
          PROVE  Exact(e, x) \/ (th'[0].pc \in {"get", "put"} /\ x \in Above(Head(th'[0].keys)))
      <3>1. x \in DOMAIN e /\ x \in Ends
        BY <2>2, InnerIs
      <3>2. CASE x \in Above(k)
        BY <1>1, <1>7, <2>1, <3>2
      <3>3. CASE x \notin Above(k)
        <4>1. x # PathOf[k]
          BY <3>1, PathFacts, PathApart DEF Ends
        <4>2. x \in DOMAIN d
          BY <1>3, <3>1, <3>3, <4>1 DEF OffPath
        <4>3. x \in Inner(d)
          BY <3>1, <4>2, InnerIs
        <4>4. Exact(d, x)
          BY <1>1, <1>7, <2>1, <2>2, <3>3, <4>3 DEF PathInv, AllButOne
        <4>5. QED
          BY <1>3, <3>1, <3>3, <4>2, <4>4, OffPathExact
      <3>4. QED
        BY <3>2, <3>3
    <2>3. QED
      BY <1>1, <1>2, <2>2 DEF AllButOne
  <1>8. mode = "leader" => Leaves(e)
    BY <1>1
  <1>9. QED
    BY <1>1, <1>2, <1>5, <1>6, <1>7, <1>8 DEF PathInv

LEMMA PutLeafPath ==
  ASSUME TreeIInv, mode \in {"leader", "serialTree"}, PathInv, NEW t \in Threads, PutLeaf(t)
  PROVE  PathInv'
  <1>1. PICK k \in DOMAIN pending, v \in Values :
           /\ Resting(t) /\ k = Head(th[t].keys) /\ k \in Keys /\ th[t].pc = "leaf"
           /\ db'["globalState"] = Put(db["globalState"], PathOf[k], Node(Sha(v), v, <<>>))
           /\ th'[t].pc = "get" /\ th'[t].keys = th[t].keys /\ th'[t].level = 0
           /\ linked' = linked
    BY PutLeafDoes
  <1>2. PICK d, e, n : d = db["globalState"] /\ e = db'["globalState"] /\ n = Node(Sha(v), v, <<>>)
    OBVIOUS
  <1>3. IsTree(d) /\ Regular(d) /\ (mode = "leader" => Leaves(d))
    BY <1>2, StoreIs DEF TreeIInv, TreeShapes, PathInv, Growth
  <1>4. e = Put(d, PathOf[k], n) /\ k \in Keys
    BY <1>1, <1>2
  <1>5. Regular(e)
    BY <1>3, <1>4, LeafRegular
  <1>6. DOMAIN e = DOMAIN d \cup {PathOf[k]} /\ e[PathOf[k]] = n /\ \A x \in DOMAIN d : x # PathOf[k] => e[x] = d[x]
    BY <1>4 DEF Put
  <1>7. OffPath(e, d, k)
    <2>1. IsTree(e)
      BY <1>2, <1>3, <1>4, PutTree, NodeIs, SeqEmpty
    <2>2. \A x : x # PathOf[k] => getNode(e, x) = getNode(d, x)
      BY <1>4, ReadOther
    <2>3. QED
      BY <1>6, <2>1, <2>2 DEF OffPath
  <1>8. Grown(th'[t], DOMAIN e)
    BY <1>1, <1>6 DEF Grown
  <1>9. mode = "leader" => Leaves(e)
    <2>1. \A j \in Keys : PathOf[j] \in DOMAIN e =>
            \/ PathOf[j] \in DOMAIN d /\ e[PathOf[j]] = d[PathOf[j]]
            \/ \E z \in Values : e[PathOf[j]] = Node(Sha(z), z, <<>>)
      BY <1>2, <1>6
    <2>2. QED
      BY <1>3, <1>6, <2>1, LeavesStay
  <1>10. Resting(t) /\ th[t].pc # "idle" /\ linked'["globalState"] = linked["globalState"]
    BY <1>1
  <1>11. th'[t].pc \in {"get", "put"} /\ Head(th'[t].keys) = k /\ th'[t].keys = th[t].keys
    BY <1>1
  <1>12. k = Head(th[t].keys) /\ k \in DOMAIN pending /\ k \in Keys
    BY <1>1
  <1>13. QED
    BY <1>2, <1>5, <1>7, <1>8, <1>9, <1>10, <1>11, <1>12, ThreadPath

LEMMA GetParentPath ==
  ASSUME TreeIInv, mode \in {"leader", "serialTree"}, PathInv, NEW t \in Threads, GetParent(t)
  PROVE  PathInv'
  <1>1. PICK k \in DOMAIN pending, i \in 0 .. PathLen - 1 :
           /\ Resting(t) /\ k = Head(th[t].keys) /\ i = th[t].level /\ k \in Keys /\ th[t].pc = "get"
           /\ db' = db /\ linked' = linked /\ th'[t].pc = "put"
           /\ th'[t].keys = th[t].keys /\ th'[t].level = i
           /\ th'[t].snap = getNode(db["globalState"], ParentAt(k, i))
    BY GetParentDoes
  <1>2. PICK d, n : d = db["globalState"] /\ n = th'[t].snap
    OBVIOUS
  <1>3. IsTree(d) /\ Regular(d) /\ (mode = "leader" => Leaves(d)) /\ Grown(th[t], DOMAIN d)
    BY <1>2, StoreIs DEF TreeIInv, TreeShapes, PathInv, Growth
  <1>4. OffPath(d, d, k)
    BY <1>3 DEF OffPath
  <1>5. n = getNode(d, ParentAt(k, i))
    BY <1>1, <1>2
  <1>6. Proper(n, ParentAt(k, i), DOMAIN d)
    BY <1>1, <1>3, <1>5 DEF Regular, Ends
  <1>7. n.children # <<>> => ParentAt(k, i) \in DOMAIN d
    BY <1>3, <1>5, ReadNode, NoNodeIs
  <1>8. PathOf[k] \in DOMAIN d /\ \A l \in 0 .. i - 1 : ParentAt(k, l) \in DOMAIN d
    BY <1>1, <1>3 DEF Grown
  <1>9. Grown(th'[t], DOMAIN d)
    BY <1>1, <1>2, <1>6, <1>7, <1>8 DEF Grown
  <1>10. Resting(t) /\ th[t].pc # "idle" /\ linked'["globalState"] = linked["globalState"]
    BY <1>1
  <1>11. th'[t].pc \in {"get", "put"} /\ Head(th'[t].keys) = k /\ th'[t].keys = th[t].keys
    BY <1>1
  <1>12. k = Head(th[t].keys) /\ k \in DOMAIN pending /\ k \in Keys /\ db'["globalState"] = d
    BY <1>1, <1>2
  <1>13. QED
    BY <1>2, <1>3, <1>4, <1>9, <1>10, <1>11, <1>12, ThreadPath

LEMMA PutParentPath ==
  ASSUME TreeIInv, mode \in {"leader", "serialTree"}, PathInv, NEW t \in Threads, PutParent(t)
  PROVE  PathInv'
  <1>1. PICK k \in DOMAIN pending, i \in 0 .. PathLen - 1 :
           /\ Resting(t) /\ k = Head(th[t].keys) /\ i = th[t].level
           /\ k \in Keys /\ IsNode(th[t].snap) /\ th[t].pc = "put"
           /\ db'["globalState"] = Inserted(db["globalState"], k, i, th[t].snap)
           /\ IF i = PathLen - 1
              THEN /\ linked'["globalState"] = linked["globalState"] \cup {k}
                   /\ th'[t] = Work(Tail(th[t].keys)) /\ Tail(th[t].keys) \in Seq(DOMAIN pending)
              ELSE /\ linked' = linked /\ th'[t].pc = "get" /\ th'[t].keys = th[t].keys
                   /\ th'[t].level = i + 1
    BY PutParentDoes
  <1>2. PICK d, n, p, c : d = db["globalState"] /\ n = th[t].snap /\ p = ParentAt(k, i) /\ c = ChildAt(k, i)
    OBVIOUS
  <1>3. PICK f : f = Linking(d, p, n, c)
    OBVIOUS
  <1>4. PICK e : e = db'["globalState"]
    OBVIOUS
  <1>5. IsTree(d) /\ Regular(d) /\ (mode = "leader" => Leaves(d)) /\ Grown(th[t], DOMAIN d)
    BY <1>2, StoreIs DEF TreeIInv, TreeShapes, PathInv, Growth
  <1>6. /\ PathOf[k] \in DOMAIN d /\ (\A l \in 0 .. i - 1 : ParentAt(k, l) \in DOMAIN d)
        /\ Proper(n, p, DOMAIN d) /\ (n.children # <<>> => p \in DOMAIN d)
    BY <1>1, <1>2, <1>5 DEF Grown
  <1>7. LinkedTo(f, d, p, n, c) /\ IsNode(n)
    BY <1>1, <1>2, <1>3, <1>5, LinkingAt
  <1>8. Regular(f) /\ p \in DOMAIN f
    <2>1. LinkedTo(f, d, ParentAt(k, i), n, ChildAt(k, i)) /\ k \in Keys
      BY <1>1, <1>2, <1>7
    <2>2. Proper(n, ParentAt(k, i), DOMAIN d) /\ (n.children # <<>> => ParentAt(k, i) \in DOMAIN d)
      BY <1>2, <1>6
    <2>3. Regular(f) /\ ParentAt(k, i) \in DOMAIN f
      BY <1>5, <1>6, <1>7, <2>1, <2>2, LinkRegular
    <2>4. QED
      BY <1>2, <2>3
  <1>9. /\ IsTree(f) /\ DOMAIN d \subseteq DOMAIN f /\ DOMAIN f \subseteq DOMAIN d \cup {p}
        /\ \A x : x # p => getNode(f, x) = getNode(d, x)
        /\ \A x \in DOMAIN d : x # p => f[x] = d[x]
    BY <1>7 DEF LinkedTo
  <1>10. p \in Above(k) /\ \A l \in 0 .. i : ParentAt(k, l) \in DOMAIN f
    <2>1. p \in Above(k)
      BY <1>2 DEF Above
    <2>2. \A l \in 0 .. i : l \in 0 .. i - 1 \/ l = i
      OBVIOUS
    <2>3. QED
      BY <1>2, <1>6, <1>8, <1>9, <2>1, <2>2
  <1>11. OffPath(f, d, k)
    BY <1>9, <1>10 DEF OffPath
  <1>12. i = PathLen - 1 => Whole(k, DOMAIN f)
    BY <1>6, <1>9, <1>10 DEF Whole, Above
  <1>13. e = IF i = PathLen - 1 /\ mode = "serialTree" THEN updateParentHashes(f, PathOf[k]) ELSE f
    BY <1>1, <1>2, <1>3, <1>4 DEF Inserted
  <1>14. /\ OffPath(e, d, k) /\ Regular(e) /\ DOMAIN e = DOMAIN f
         /\ i = PathLen - 1 /\ mode = "serialTree" => \A x \in Above(k) : Exact(e, x)
    <2>1. CASE i = PathLen - 1 /\ mode = "serialTree"
      <3>1. Above(k) \subseteq DOMAIN f /\ k \in Keys
        BY <1>1, <1>12, <2>1 DEF Whole
      <3>2. Along(updateParentHashes(f, PathOf[k]), f, k) /\ \A x \in Above(k) : Exact(updateParentHashes(f, PathOf[k]), x)
        BY <1>8, <1>9, <3>1, PathUpdated
      <3>3. Along(e, f, k) /\ \A x \in Above(k) : Exact(e, x)
        BY <1>13, <2>1, <3>2
      <3>4. /\ IsTree(e) /\ DOMAIN e = DOMAIN f
            /\ \A x : getNode(e, x).children = getNode(f, x).children
            /\ \A x : x \notin Above(k) => getNode(e, x) = getNode(f, x)
        BY <3>3 DEF Along
      <3>5. Regular(e)
        BY <1>8, <3>4, RegularStays DEF Regular
      <3>6. OffPath(e, d, k)
        BY <1>11, <3>4 DEF OffPath
      <3>7. QED
        BY <3>3, <3>4, <3>5, <3>6
    <2>2. CASE ~(i = PathLen - 1 /\ mode = "serialTree")
      BY <1>8, <1>11, <1>13, <2>2
    <2>3. QED
      BY <2>1, <2>2
  <1>15. ASSUME mode = "leader" PROVE Leaves(e)
    <2>1. e = f /\ Leaves(d)
      BY <1>5, <1>13, <1>15
    <2>2. \A j \in Keys : PathOf[j] # p
      BY <1>1, <1>2, PathFacts
    <2>3. \A j \in Keys : PathOf[j] \in DOMAIN e => PathOf[j] \in DOMAIN d /\ e[PathOf[j]] = d[PathOf[j]]
      BY <1>9, <2>1, <2>2
    <2>4. QED
      BY <1>9, <2>1, <2>3, LeavesStay
  <1>16. Grown(th'[t], DOMAIN e)
    <2>1. CASE i = PathLen - 1
      <3>1. th'[t].pc \in {"idle", "leaf"}
        BY <1>1, <2>1, WorkIs
      <3>2. QED
        BY <3>1 DEF Grown
    <2>2. CASE i # PathLen - 1
      <3>1. th'[t].pc = "get" /\ Head(th'[t].keys) = k /\ th'[t].level = i + 1
        BY <1>1, <2>2
      <3>2. \A l \in 0 .. i + 1 - 1 : l \in 0 .. i
        OBVIOUS
      <3>3. PathOf[k] \in DOMAIN e /\ \A l \in 0 .. i + 1 - 1 : ParentAt(k, l) \in DOMAIN e
        BY <1>6, <1>9, <1>10, <1>14, <3>2
      <3>4. QED
        BY <3>1, <3>3 DEF Grown
    <2>3. QED
      BY <2>1, <2>2
  <1>17. \A j \in Range(th[t].keys) : j \in linked'["globalState"] \/ j \in Range(th'[t].keys)
    <2>1. CASE i = PathLen - 1
      <3>1. PICK s, r : s = th[t].keys /\ r = Tail(s)
        OBVIOUS
      <3>2. s \in Seq(DOMAIN pending) /\ s # <<>>
        BY <1>1, <3>1, AtWork
      <3>3. th'[t].keys = r
        BY <1>1, <2>1, <3>1, WorkIs
      <3>4. \A j \in Range(s) : j = k \/ j \in Range(r)
        <4>1. k = s[1] /\ Len(s) \in Nat /\ Len(r) = Len(s) - 1 /\ DOMAIN s = 1 .. Len(s) /\ DOMAIN r = 1 .. Len(r)
          BY <1>1, <3>1, <3>2
        <4>2. \A m \in 1 .. Len(r) : r[m] = s[m + 1]
          BY <3>1, <3>2, HeadTailProperties
        <4>3. ASSUME NEW m \in 1 .. Len(s), m # 1 PROVE s[m] \in Range(r)
          <5>1. m - 1 \in 1 .. Len(r) /\ m - 1 + 1 = m
            BY <4>1, <4>3
          <5>2. r[m - 1] = s[m]
            BY <4>2, <5>1
          <5>3. QED
            BY <4>1, <5>1, <5>2 DEF Range
        <4>4. QED
          BY <4>1, <4>3 DEF Range
      <3>5. QED
        BY <1>1, <2>1, <3>1, <3>3, <3>4
    <2>2. CASE i # PathLen - 1
      BY <1>1, <2>2
    <2>3. QED
      BY <2>1, <2>2
  <1>18. \/ linked'["globalState"] = linked["globalState"]
         \/ linked'["globalState"] = linked["globalState"] \cup {k} /\ Whole(k, DOMAIN e)
    BY <1>1, <1>12, <1>14
  <1>19. mode = "serialTree" =>
           \/ th'[t].pc \in {"get", "put"} /\ Head(th'[t].keys) = k
           \/ \A x \in Above(k) : Exact(e, x)
    BY <1>1, <1>14
  <1>20. Resting(t) /\ th[t].pc # "idle" /\ k = Head(th[t].keys) /\ k \in DOMAIN pending /\ k \in Keys
    BY <1>1
  <1>21. QED
    BY <1>2, <1>4, <1>14, <1>15, <1>16, <1>17, <1>18, <1>19, <1>20, ThreadPath

\* The nodes updateTree looks at are there once the keys are linked.
LEMMA PathsThere ==
  ASSUME NEW D, NEW keys \in SUBSET Keys, \A k \in keys : Whole(k, D)
  PROVE  /\ OnPath(keys) \subseteq D
         /\ \A k \in keys : ParentAt(k, PathLen - 1) \in OnPath(keys)
  <1>1. 1 .. PathLen = {1, 2, 3} /\ 0 .. PathLen - 1 = {0, 1, 2} /\ PathLen - 1 = 2
    BY DEF PathLen
  <1>2. ASSUME NEW k \in keys, NEW i \in 1 .. PathLen PROVE SubSeq(PathOf[k], 1, i) \in D
    <2>1. CASE i = 3
      <3>1. ChildAt(k, 2) = PathOf[k]
        BY <1>1, PathsMeet
      <3>2. SubSeq(PathOf[k], 1, 3) = PathOf[k]
        BY <3>1 DEF ChildAt
      <3>3. QED
        BY <2>1, <3>2 DEF Whole
    <2>2. CASE i # 3
      <3>1. i \in 0 .. PathLen - 1 /\ i # 0
        BY <1>1, <2>2
      <3>2. ParentAt(k, i) = SubSeq(PathOf[k], 1, i)
        BY <3>1 DEF ParentAt
      <3>3. QED
        BY <3>1, <3>2 DEF Whole, Above
    <2>3. QED
      BY <2>1, <2>2
  <1>3. ASSUME NEW k \in keys PROVE ParentAt(k, 2) \in OnPath(keys)
    <2>1. ParentAt(k, 2) = SubSeq(PathOf[k], 1, 2)
      BY DEF ParentAt
    <2>2. 2 \in 1 .. PathLen
      BY <1>1
    <2>3. \E j \in keys, i \in 1 .. PathLen : ParentAt(k, 2) = SubSeq(PathOf[j], 1, i)
      BY <2>1, <2>2
    <2>4. QED
      BY <2>3 DEF OnPath
  <1>4. ASSUME NEW x \in OnPath(keys) PROVE x \in D
    <2>1. PICK k \in keys, i \in 1 .. PathLen : x = SubSeq(PathOf[k], 1, i)
      BY <1>4 DEF OnPath
    <2>2. QED
      BY <1>2, <2>1
  <1>5. ASSUME NEW k \in keys PROVE ParentAt(k, PathLen - 1) \in OnPath(keys)
    <2>1. ParentAt(k, 2) \in OnPath(keys)
      BY <1>3
    <2>2. QED
      BY <1>1, <2>1
  <1>6. QED
    BY <1>4, <1>5

\* updateTree leaves a leaf as it was, unless its value names a node.
LEMMA BareLeaf ==
  ASSUME NEW d, IsTree(d), Regular(d), Leaves(d), NEW keys, NEW g, g = UpdateTreeNodes(d, keys),
         NEW k \in Keys, PathOf[k] \in DOMAIN d, d[PathOf[k]].value \notin DOMAIN d
  PROVE  g[PathOf[k]] = d[PathOf[k]]
  <1>1. PICK x, v : x = PathOf[k] /\ v = d[x].value
    OBVIOUS
  <1>2. v \in Values /\ d[x] = Node(Sha(v), v, <<>>) /\ x \in DOMAIN d /\ v \notin DOMAIN d
    BY <1>1 DEF Leaves
  <1>3. v \in Seq(Chars)
    BY <1>2, KeysAssumption
  <1>4. Sha(v) \notin DOMAIN d
    <2>1. Sha(v) \notin Seq(Chars) /\ Sha(v) # Root
      BY NamesApart
    <2>2. \A j \in Keys : PathOf[j] \in Seq(Chars)
      BY KeysAssumption
    <2>3. \A j \in Keys, i \in 0 .. PathLen - 1 : ParentAt(j, i) = Root \/ ParentAt(j, i) \in Seq(Chars)
      BY PathFacts
    <2>4. QED
      BY <2>1, <2>2, <2>3 DEF Regular, Ends, Leafs
  <1>5. d[x].hash = Digest(d, x)
    BY <1>2, <1>3, <1>4, BareDigest
  <1>6. d[x].hash = Digest(d, x) => g[x] = d[x]
    BY <1>2, NodesUpdated
  <1>7. QED
    BY <1>1, <1>5, <1>6

\* The nodes on the paths alone, before the root.
LEMMA NodesPath ==
  ASSUME NEW d, IsTree(d), Regular(d), Leaves(d), NEW keys \in SUBSET Keys, \A k \in keys : Whole(k, DOMAIN d),
         NEW g, g = UpdateTreeNodes(d, keys)
  PROVE  /\ IsTree(g) /\ DOMAIN g = DOMAIN d
         /\ \A x : getNode(g, x).children = getNode(d, x).children /\ getNode(g, x).value = getNode(d, x).value
         /\ \A x : x \notin OnPath(keys) => getNode(g, x) = getNode(d, x)
         /\ \A x \in OnPath(keys) : x \in DOMAIN d /\ g[x].hash = Digest(d, x)
         /\ Leaves(g) /\ Regular(g)
  <1>1. /\ IsTree(g) /\ DOMAIN d \subseteq DOMAIN g /\ DOMAIN g \subseteq DOMAIN d \cup OnPath(keys)
        /\ \A x : x \notin OnPath(keys) => getNode(g, x) = getNode(d, x)
        /\ \A x \in DOMAIN d :
             /\ getNode(g, x).children = getNode(d, x).children
             /\ getNode(g, x).value = getNode(d, x).value
             /\ x \in OnPath(keys) => g[x].hash = Digest(d, x)
    BY NodesUpdated
  <1>2. OnPath(keys) \subseteq DOMAIN d
    BY PathsThere
  <1>3. DOMAIN g = DOMAIN d
    BY <1>1, <1>2
  <1>4. \A x : x \notin DOMAIN d => getNode(g, x) = getNode(d, x)
    BY <1>1, <1>2
  <1>5. \A x : getNode(g, x).children = getNode(d, x).children /\ getNode(g, x).value = getNode(d, x).value
    BY <1>1, <1>4
  <1>6. Regular(g)
    BY <1>3, <1>5, RegularStays DEF Regular
  <1>7. Leaves(g)
    <2>1. SUFFICES ASSUME NEW k \in Keys, PathOf[k] \in DOMAIN g, NEW n, n = g[PathOf[k]]
                   PROVE  n.value \in Values /\ (n.value \notin DOMAIN g => n = Node(Sha(n.value), n.value, <<>>))
      BY DEF Leaves
    <2>2. PICK x, m : x = PathOf[k] /\ m = d[x]
      OBVIOUS
    <2>3. x \in DOMAIN d /\ m.value \in Values /\ (m.value \notin DOMAIN d => m = Node(Sha(m.value), m.value, <<>>))
      BY <1>3, <2>1, <2>2 DEF Leaves
    <2>4. n.value = m.value
      <3>1. getNode(g, x).value = g[x].value /\ getNode(d, x).value = d[x].value
        BY <1>1, <1>3, <2>3, ReadNode
      <3>2. QED
        BY <1>5, <2>1, <2>2, <3>1
    <2>5. m.value \notin DOMAIN d => n = m
      BY <2>1, <2>2, <2>3, BareLeaf
    <2>6. QED
      BY <1>3, <2>3, <2>4, <2>5
  <1>8. QED
    BY <1>1, <1>2, <1>3, <1>5, <1>6, <1>7

\* The parents of leaves after updateTree.
LEMMA ParentsUpdated ==
  ASSUME NEW d, IsTree(d), Regular(d), Leaves(d), NEW keys \in SUBSET Keys, \A k \in keys : Whole(k, DOMAIN d),
         NEW g, g = UpdateTreeNodes(d, keys), NEW k \in Keys, NEW p, p = ParentAt(k, PathLen - 1), p \in DOMAIN d,
         p \in OnPath(keys) \/ ByDigest(d, p)
  PROVE  ByDigest(g, p)
  <1>1. /\ IsTree(g) /\ DOMAIN g = DOMAIN d
        /\ \A x : getNode(g, x).children = getNode(d, x).children /\ getNode(g, x).value = getNode(d, x).value
        /\ \A x : x \notin OnPath(keys) => getNode(g, x) = getNode(d, x)
        /\ \A x \in OnPath(keys) : x \in DOMAIN d /\ g[x].hash = Digest(d, x)
    BY NodesPath
  <1>2. SUFFICES ASSUME \A c \in Range(getNode(g, p).children) : getNode(g, c).value \notin DOMAIN g
                 PROVE  Exact(g, p)
    BY DEF ByDigest
  <1>3. PICK n : n = getNode(d, p)
    OBVIOUS
  <1>4. \A c \in Range(n.children) : getNode(d, c).value \notin DOMAIN d
    BY <1>1, <1>2, <1>3
  <1>5. ASSUME NEW c \in Range(n.children) PROVE getNode(g, c).hash = getNode(d, c).hash
    <2>1. p \in Ends
      <3>1. PathLen - 1 \in 0 .. PathLen - 1
        BY DEF PathLen
      <3>2. QED
        BY <3>1 DEF Ends
    <2>2. Fits(p, c, DOMAIN d)
      BY <1>3, <1>5, <2>1 DEF Regular, Proper
    <2>3. PICK j \in Keys : c = PathOf[j] /\ c \in DOMAIN d
      BY <2>2, ChildFits
    <2>4. getNode(d, c).value = d[c].value /\ getNode(d, c).hash = d[c].hash /\ getNode(g, c).hash = g[c].hash
      BY <1>1, <2>3, ReadNode
    <2>5. d[c].value \notin DOMAIN d
      BY <1>4, <1>5, <2>4
    <2>6. g[c] = d[c]
      BY <2>3, <2>5, BareLeaf
    <2>7. QED
      BY <2>4, <2>6
  <1>6. ConcatHashes(g, n) = ConcatHashes(d, n)
    BY <1>5, SameHashes
  <1>7. CASE p \in OnPath(keys)
    <2>1. g[p].hash = Sha(ConcatHashes(d, n) \o n.value)
      BY <1>1, <1>3, <1>7 DEF Digest
    <2>2. PICK m : m = getNode(g, p)
      OBVIOUS
    <2>3. m.children = n.children /\ m.value = n.value
      BY <1>1, <1>3, <2>2
    <2>4. ConcatHashes(g, m) = ConcatHashes(g, n)
      BY <2>3 DEF ConcatHashes, Hashes
    <2>5. g[p].hash = Sha(ConcatHashes(g, m) \o m.value)
      BY <1>6, <2>1, <2>3, <2>4
    <2>6. QED
      BY <1>1, <2>2, <2>5, ExactIs
  <1>8. CASE p \notin OnPath(keys)
    <2>1. Exact(d, p)
      BY <1>3, <1>4, <1>8 DEF ByDigest
    <2>2. getNode(g, p) = getNode(d, p) /\ p \in DOMAIN g
      BY <1>1, <1>8
    <2>3. QED
      BY <1>1, <1>3, <1>5, <2>1, <2>2, ExactStays
  <1>9. QED
    BY <1>7, <1>8

\* The root's hash is no child's of these.
LEMMA RootApartFromParents ==
  ASSUME NEW g, IsTree(g), Regular(g), NEW k \in Keys, NEW p, p = ParentAt(k, PathLen - 1), p \in DOMAIN g,
         ByDigest(g, p)
  PROVE  ByDigest(Rehash(g, Root), p)
  <1>1. PICK e : e = Rehash(g, Root)
    OBVIOUS
  <1>2. Root \in DOMAIN g
    BY DEF Regular
  <1>3. /\ IsTree(e) /\ DOMAIN e = DOMAIN g
        /\ \A y : getNode(e, y).children = getNode(g, y).children /\ getNode(e, y).value = getNode(g, y).value
    BY <1>1, <1>2, RehashThere
  <1>4. PathLen - 1 \in 0 .. PathLen - 1 /\ PathLen - 1 # 0
    BY DEF PathLen
  <1>5. p \in Ends /\ p # Root
    <2>1. p \in Ends
      BY <1>4 DEF Ends
    <2>2. p \in Seq(Chars)
      BY <1>4, PathFacts
    <2>3. QED
      BY <2>1, <2>2, NamesApart
  <1>6. Root \notin Range(getNode(g, p).children)
    <2>1. \A c \in Range(getNode(g, p).children) : Fits(p, c, DOMAIN g)
      BY <1>5 DEF Regular, Proper
    <2>2. QED
      BY <2>1, ChildFits
  <1>7. Exact(g, p) => Exact(e, p)
    BY <1>1, <1>2, <1>5, <1>6, RehashOther
  <1>8. ByDigest(e, p)
    BY <1>3, <1>7 DEF ByDigest
  <1>9. QED
    BY <1>1, <1>8

\* updateTree, the root included.
LEMMA TreeUpdated ==
  ASSUME NEW d, IsTree(d), Regular(d), Leaves(d), NEW keys \in SUBSET Keys, \A k \in keys : Whole(k, DOMAIN d),
         NEW e, e = updateTree(d, keys)
  PROVE  /\ DOMAIN e = DOMAIN d /\ Regular(e) /\ Leaves(e)
         /\ \A k \in Keys : ParentAt(k, PathLen - 1) \in DOMAIN d
               /\ (\/ ByDigest(d, ParentAt(k, PathLen - 1))
                   \/ \E j \in keys : ParentAt(j, PathLen - 1) = ParentAt(k, PathLen - 1))
               => ByDigest(e, ParentAt(k, PathLen - 1))
  <1>1. PICK g : g = UpdateTreeNodes(d, keys)
    OBVIOUS
  <1>2. e = Rehash(g, Root)
    BY <1>1 DEF updateTree
  <1>3. IsTree(g) /\ DOMAIN g = DOMAIN d /\ Leaves(g) /\ Regular(g)
    BY <1>1, NodesPath
  <1>4. Root \in DOMAIN g
    BY <1>3 DEF Regular
  <1>5. /\ DOMAIN e = DOMAIN g
        /\ \A y : getNode(e, y).children = getNode(g, y).children
        /\ \A y \in DOMAIN g : y # Root => e[y] = g[y]
    BY <1>2, <1>3, <1>4, RehashThere
  <1>6. Regular(e)
    BY <1>3, <1>5, RegularStays DEF Regular
  <1>7. Leaves(e)
    <2>1. \A k \in Keys : PathOf[k] # Root
      BY KeysAssumption, NamesApart
    <2>2. \A k \in Keys : PathOf[k] \in DOMAIN e => PathOf[k] \in DOMAIN g /\ e[PathOf[k]] = g[PathOf[k]]
      BY <1>5, <2>1
    <2>3. QED
      BY <1>3, <1>5, <2>2, LeavesStay
  <1>8. ASSUME NEW k \in Keys, NEW p, p = ParentAt(k, PathLen - 1), p \in DOMAIN d,
               ByDigest(d, p) \/ \E j \in keys : ParentAt(j, PathLen - 1) = p
        PROVE  ByDigest(e, p)
    <2>1. \A j \in keys : ParentAt(j, PathLen - 1) \in OnPath(keys)
      BY PathsThere
    <2>2. p \in OnPath(keys) \/ ByDigest(d, p)
      BY <1>8, <2>1
    <2>3. ByDigest(g, p)
      BY <1>1, <1>8, <2>2, ParentsUpdated
    <2>4. p \in DOMAIN g
      BY <1>3, <1>8
    <2>5. ByDigest(Rehash(g, Root), p)
      BY <1>3, <1>8, <2>3, <2>4, RootApartFromParents
    <2>6. QED
      BY <1>2, <2>5
  <1>9. QED
    BY <1>3, <1>5, <1>6, <1>7, <1>8

\* What is left to show of a step after which all threads rest.
LEMMA QuietPath ==
  ASSUME th' = [t \in Threads |-> Idle], mode' = mode, Regular(db'["globalState"]),
         \A k \in linked'["globalState"] : Whole(k, DOMAIN db'["globalState"]),
         mode = "leader" => Dealt' /\ Leaves(db'["globalState"]) /\ Settled',
         mode = "serialTree" => torn' \/ \A x \in Inner(db'["globalState"]) : Exact(db'["globalState"], x)
  PROVE  PathInv'
  <1>1. \A t \in Threads : th'[t].pc = "idle"
    BY IdleIs
  <1>2. \A t \in Threads : Grown(th'[t], DOMAIN db'["globalState"])
    BY <1>1 DEF Grown
  <1>3. Growth'
    BY <1>2 DEF Growth
  <1>4. mode = "serialTree" => AllButOne'
    BY DEF AllButOne
  <1>5. QED
    BY <1>3, <1>4 DEF PathInv

LEMMA UpdateHashesPath ==
  ASSUME TreeIInv, mode \in {"leader", "serialTree"}, PathInv, UpdateHashes
  PROVE  PathInv'
  <1>1. TreeShapes /\ ThreadShapes /\ PhaseShapes
    BY DEF TreeIInv
  <1>2. phase = "hash" /\ mode = "leader" /\ UNCHANGED <<mode, th, linked, torn>>
    BY <1>1 DEF UpdateHashes, PhaseShapes
  <1>3. Growth /\ Dealt /\ Leaves(db["globalState"]) /\ Settled
    BY <1>2 DEF PathInv
  <1>4. PICK d, e, l : d = db["globalState"] /\ e = updateTree(d, Range(order)) /\ l = linked["globalState"]
    OBVIOUS
  <1>5. Store = "globalState" /\ "globalState" \in Stores
    BY <1>2, StoreIs
  <1>6. Write("globalState", e) /\ phase' = "idle" /\ DOMAIN pending' = {}
    BY <1>2, <1>4, <1>5 DEF UpdateHashes, EndFlush
  <1>7. db'["globalState"] = e
    BY <1>1, <1>5, <1>6, Wrote
  <1>8. th = [t \in Threads |-> Idle]
    BY <1>1, <1>2, RestIs
  <1>9. IsTree(d) /\ Regular(d) /\ Leaves(d) /\ l \subseteq Keys /\ \A k \in l : Whole(k, DOMAIN d)
    BY <1>1, <1>3, <1>4, <1>5 DEF TreeShapes, Growth
  <1>10. Range(order) = DOMAIN pending /\ DOMAIN pending \subseteq l
    <2>1. \A t \in Threads : Range(th[t].keys) = {}
      BY <1>8, IdleIs, SeqEmpty
    <2>2. QED
      BY <1>2, <1>3, <1>4, <2>1 DEF Dealt
  <1>11. Range(order) \in SUBSET Keys /\ \A k \in Range(order) : Whole(k, DOMAIN d)
    BY <1>9, <1>10
  <1>12. /\ DOMAIN e = DOMAIN d /\ Regular(e) /\ Leaves(e)
         /\ \A k \in Keys : ParentAt(k, PathLen - 1) \in DOMAIN d
               /\ (\/ ByDigest(d, ParentAt(k, PathLen - 1))
                   \/ \E j \in Range(order) : ParentAt(j, PathLen - 1) = ParentAt(k, PathLen - 1))
               => ByDigest(e, ParentAt(k, PathLen - 1))
    BY <1>4, <1>9, <1>11, TreeUpdated
  <1>13. Dealt'
    BY <1>6 DEF Dealt
  <1>14. Settled'
    <2>1. ASSUME NEW k \in l, ~torn PROVE ByDigest(e, ParentAt(k, PathLen - 1))
      <3>1. PathLen - 1 \in 0 .. PathLen - 1
        BY DEF PathLen
      <3>2. k \in Keys /\ ParentAt(k, PathLen - 1) \in DOMAIN d
        BY <1>9, <3>1 DEF Whole, Above
      <3>3. ByDigest(d, ParentAt(k, PathLen - 1)) \/ \E j \in Range(order) : ParentAt(j, PathLen - 1) = ParentAt(k, PathLen - 1)
        BY <1>3, <1>4, <1>10, <2>1 DEF Settled
      <3>4. QED
        BY <1>12, <3>2, <3>3
    <2>2. QED
      BY <1>2, <1>4, <1>7, <2>1 DEF Settled
  <1>15. th' = [t \in Threads |-> Idle] /\ \A k \in linked'["globalState"] : Whole(k, DOMAIN e)
    BY <1>2, <1>4, <1>8, <1>9, <1>12
  <1>16. QED
    BY <1>2, <1>7, <1>12, <1>13, <1>14, <1>15, QuietPath

LEMMA JoinPath ==
  ASSUME TreeIInv, mode \in {"leader", "serialTree"}, PathInv, Join
  PROVE  PathInv'
  <1>1. /\ phase = "insert" /\ (\A t \in Threads : th[t] = Idle) /\ UNCHANGED <<mode, db, th, linked, torn>>
        /\ mode = "leader" => phase' = "hash" /\ UNCHANGED <<pending, order>>
    BY DEF Join
  <1>2. Growth
    BY DEF PathInv
  <1>3. th' = [t \in Threads |-> Idle]
    BY <1>1 DEF TreeIInv, ThreadShapes
  <1>4. Regular(db'["globalState"]) /\ \A k \in linked'["globalState"] : Whole(k, DOMAIN db'["globalState"])
    BY <1>1, <1>2 DEF Growth
  <1>5. ASSUME mode = "leader" PROVE Dealt' /\ Leaves(db'["globalState"]) /\ Settled'
    BY <1>1, <1>5 DEF PathInv, Dealt, Settled
  <1>6. ASSUME mode = "serialTree" PROVE torn' \/ \A x \in Inner(db'["globalState"]) : Exact(db'["globalState"], x)
    <2>1. 0 \in Threads
      BY BoundsAssumption DEF Threads
    <2>2. th[0].pc = "idle"
      BY <1>1, <2>1, IdleIs
    <2>3. QED
      BY <1>1, <1>6, <2>2 DEF PathInv, AllButOne
  <1>7. QED
    BY <1>1, <1>3, <1>4, <1>5, <1>6, QuietPath

LEMMA CrashPath ==
  ASSUME TreeIInv, mode \in {"leader", "serialTree"}, PathInv, Crash
  PROVE  PathInv'
  <1>1. /\ phase' = "idle" /\ th' = [t \in Threads |-> Idle] /\ UNCHANGED <<mode, db, linked>>
        /\ torn' = (torn \/ phase # "idle") /\ DOMAIN pending' = {}
    BY DEF Crash
  <1>2. Growth
    BY DEF PathInv
  <1>3. Regular(db'["globalState"]) /\ \A k \in linked'["globalState"] : Whole(k, DOMAIN db'["globalState"])
    BY <1>1, <1>2 DEF Growth
  <1>4. ASSUME mode = "leader" PROVE Dealt' /\ Leaves(db'["globalState"]) /\ Settled'
    <2>1. Dealt /\ Leaves(db["globalState"]) /\ Settled
      BY <1>4 DEF PathInv
    <2>2. Dealt'
      BY <1>1 DEF Dealt
    <2>3. ~torn' => DOMAIN pending = {} /\ ~torn
      BY <1>1, <2>1 DEF Dealt
    <2>4. Settled'
      BY <1>1, <2>1, <2>3 DEF Settled
    <2>5. QED
      BY <1>1, <2>1, <2>2, <2>4
  <1>5. ASSUME mode = "serialTree", ~torn' PROVE \A x \in Inner(db'["globalState"]) : Exact(db'["globalState"], x)
    <2>1. phase = "idle" /\ ~torn
      BY <1>1, <1>5
    <2>2. 0 \in Threads
      BY BoundsAssumption DEF Threads
    <2>3. th[0].pc = "idle"
      BY <2>1, <2>2, IdleIs DEF TreeIInv, ThreadShapes
    <2>4. QED
      BY <1>1, <1>5, <2>1, <2>3 DEF PathInv, AllButOne
  <1>6. QED
    BY <1>1, <1>3, <1>4, <1>5, QuietPath

\* The new store.
LEMMA FreshPath ==
  /\ Regular(GlobalState(EmptyStore)) /\ Leaves(GlobalState(EmptyStore))
  /\ \A x \in Inner(GlobalState(EmptyStore)) : Exact(GlobalState(EmptyStore), x)
  <1>1. PICK d : d = GlobalState(EmptyStore)
    OBVIOUS
  <1>2. /\ IsTree(d) /\ DOMAIN d = {Root} /\ getNode(d, Root).children = <<Sha(Empty)>>
        /\ Exact(d, Root)
    BY <1>1, FreshTree, FreshRoot
  <1>3. Regular(d)
    <2>1. Root \in DOMAIN d /\ DOMAIN d \subseteq Ends \cup Leafs
      BY <1>2 DEF Ends
    <2>2. Proper(getNode(d, Root), Root, DOMAIN d)
      <3>1. Range(<<Sha(Empty)>>) = {Sha(Empty)}
        BY SeqShort
      <3>2. QED
        BY <1>2, <3>1 DEF Proper, Fits
    <2>3. ASSUME NEW x, x # Root PROVE Proper(getNode(d, x), x, DOMAIN d)
      <3>1. getNode(d, x) = NoNode
        BY <1>2, <2>3, ReadNode
      <3>2. QED
        BY <3>1, NoNodeIs, SeqEmpty DEF Proper
    <2>4. QED
      BY <2>1, <2>2, <2>3 DEF Regular
  <1>4. Leaves(d)
    <2>1. \A k \in Keys : PathOf[k] # Root
      BY KeysAssumption, NamesApart
    <2>2. QED
      BY <1>2, <2>1 DEF Leaves
  <1>5. \A x \in Inner(d) : Exact(d, x)
    BY <1>2 DEF Inner
  <1>6. QED
    BY <1>1, <1>3, <1>4, <1>5

LEMMA resetTreePath ==
  ASSUME TreeIInv, mode \in {"leader", "serialTree"}, PathInv, resetTree
  PROVE  PathInv'
  <1>1. TreeShapes /\ ThreadShapes
    BY DEF TreeIInv
  <1>2. /\ phase = "idle" /\ UNCHANGED <<mode, phase, pending, order, th>>
        /\ db' = [db EXCEPT !["globalState"] = GlobalState(EmptyStore)]
        /\ linked' = [linked EXCEPT !["globalState"] = {}]
    BY DEF resetTree
  <1>3. th' = [t \in Threads |-> Idle]
    BY <1>1, <1>2, RestIs
  <1>4. db = [s \in Stores |-> db[s]] /\ linked = [s \in Stores |-> linked[s]]
    BY <1>1 DEF TreeShapes
  <1>5. db'["globalState"] = GlobalState(EmptyStore) /\ linked'["globalState"] = {}
    BY <1>2, <1>4, StoreIs
  <1>6. mode = "leader" => Dealt' /\ Settled'
    BY <1>2, <1>5 DEF PathInv, Dealt, Settled
  <1>7. QED
    BY <1>2, <1>3, <1>5, <1>6, FreshPath, QuietPath

LEMMA StartFlushPath ==
  ASSUME TreeIInv, mode \in {"leader", "serialTree"}, PathInv, StartFlush
  PROVE  PathInv'
  <1>1. /\ phase = "idle" /\ phase' = "insert" /\ UNCHANGED <<mode, db, linked, torn>>
        /\ \A t \in Threads : th'[t].pc \in {"idle", "leaf"}
        /\ mode = "leader" => /\ Range(order') = DOMAIN pending'
                              /\ \A k \in DOMAIN pending' : \E t \in Threads : k \in Range(th'[t].keys)
    BY StartFlushDoes
  <1>2. Growth
    BY DEF PathInv
  <1>3. \A t \in Threads : Grown(th'[t], DOMAIN db'["globalState"])
    BY <1>1 DEF Grown
  <1>4. Growth'
    BY <1>1, <1>2, <1>3 DEF Growth
  <1>5. ASSUME mode = "leader" PROVE Dealt' /\ Leaves(db'["globalState"]) /\ Settled'
    <2>1. Dealt /\ Leaves(db["globalState"]) /\ Settled
      BY <1>5 DEF PathInv
    <2>2. Dealt'
      BY <1>1, <1>5 DEF Dealt
    <2>3. DOMAIN pending = {}
      BY <1>1, <2>1 DEF Dealt
    <2>4. Settled'
      BY <1>1, <2>1, <2>3 DEF Settled
    <2>5. QED
      BY <1>1, <2>1, <2>2, <2>4
  <1>6. ASSUME mode = "serialTree" PROVE AllButOne'
    <2>1. 0 \in Threads
      BY BoundsAssumption DEF Threads
    <2>2. th[0].pc = "idle"
      BY <1>1, <2>1, IdleIs DEF TreeIInv, ThreadShapes
    <2>3. QED
      BY <1>1, <1>6, <2>2 DEF PathInv, AllButOne
  <1>7. QED
    BY <1>1, <1>4, <1>5, <1>6 DEF PathInv

LEMMA PathInit == TreeInit => PathInv
  <1>1. SUFFICES ASSUME TreeInit PROVE PathInv
    OBVIOUS
  <1>2. /\ db["globalState"] = GlobalState(EmptyStore) /\ linked["globalState"] = {} /\ DOMAIN pending = {}
        /\ th = [t \in Threads |-> Idle] /\ (mode # "serial" => phase = "idle")
    BY <1>1 DEF TreeInit, Stores
  <1>3. \A t \in Threads : th[t].pc = "idle"
    BY <1>2, IdleIs
  <1>4. \A t \in Threads : Grown(th[t], DOMAIN db["globalState"])
    BY <1>3 DEF Grown
  <1>5. Growth
    BY <1>2, <1>4, FreshPath DEF Growth
  <1>6. mode = "leader" => Dealt /\ Settled /\ Leaves(db["globalState"])
    BY <1>2, FreshPath DEF Dealt, Settled
  <1>7. AllButOne
    BY <1>2, FreshPath DEF AllButOne
  <1>8. QED
    BY <1>5, <1>6, <1>7 DEF PathInv

LEMMA PathStep ==
  ASSUME TreeIInv, PathInv, [TreeNext]_treeVars
  PROVE  PathInv'
  <1>1. mode' = mode
    BY ModeStays
  <1>2. CASE mode \notin {"leader", "serialTree"}
    BY <1>1, <1>2 DEF PathInv
  <1>3. CASE UNCHANGED treeVars
    BY <1>3 DEF treeVars, PathInv, Growth, Dealt, Settled, AllButOne
  <1>4. CASE mode \in {"leader", "serialTree"} /\ TreeNext
    <2>1. ~Start /\ ~LibraryCall
      BY <1>4 DEF TreeIInv, PhaseShapes, Start, LibraryCall
    <2>2. ~DfsCall /\ ~DfsReturn
      BY <1>4 DEF TreeIInv, PhaseShapes, DfsCall, DfsReturn
    <2>3. ASSUME Finished PROVE PathInv'
      BY <1>3, <2>3 DEF Finished
    <2>4. ASSUME StartFlush \/ Join \/ UpdateHashes \/ resetTree \/ Crash PROVE PathInv'
      BY <1>4, <2>4, StartFlushPath, JoinPath, UpdateHashesPath, resetTreePath, CrashPath
    <2>5. ASSUME \E t \in Threads : PutLeaf(t) \/ GetParent(t) \/ PutParent(t) PROVE PathInv'
      BY <1>4, <2>5, PutLeafPath, GetParentPath, PutParentPath
    <2>6. QED
      BY <1>4, <2>1, <2>2, <2>3, <2>4, <2>5 DEF TreeNext
  <1>5. QED
    BY <1>2, <1>3, <1>4

LEMMA PathExact ==
  ASSUME TreeIInv, PathInv
  PROVE  SerialTreeExact /\ LeafParentsExact
  <1>1. ASSUME mode = "serialTree", phase = "idle", ~torn, NEW x \in Inner(db["globalState"])
        PROVE  Exact(db["globalState"], x)
    <2>1. 0 \in Threads
      BY BoundsAssumption DEF Threads
    <2>2. th[0].pc = "idle"
      BY <1>1, <2>1, IdleIs DEF TreeIInv, ThreadShapes
    <2>3. QED
      BY <1>1, <2>2 DEF PathInv, AllButOne
  <1>2. ASSUME mode = "leader", phase = "idle", ~torn, NEW k \in linked["globalState"]
        PROVE  ByDigest(db["globalState"], ParentAt(k, PathLen - 1))
    BY <1>2 DEF PathInv, Dealt, Settled
  <1>3. LeafParentsExact
    BY <1>2 DEF LeafParentsExact, ByDigest
  <1>4. QED
    BY <1>1, <1>3 DEF SerialTreeExact

\* The hashes a finished flush leaves behind: the root is exact in every mode; in
\* serialMerkleTree every inner node is, unless a crash cut an insert off; after the
\* leader's saveData the parents of the leaves are.
THEOREM HashesAreExact == TreeSpec => []HashesExact
  <1>1. TreeInit => PathInv
    BY PathInit
  <1>2. TreeIInv /\ PathInv /\ [TreeNext]_treeVars => PathInv'
    BY PathStep
  <1>3. TreeIInv /\ PathInv /\ RootExact => HashesExact
    BY PathExact DEF HashesExact
  <1>4. QED
    BY <1>1, <1>2, <1>3, TreeInvariant, RootIsExact, PTL DEF TreeSpec

=============================================================================
