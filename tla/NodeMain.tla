------------------------------ MODULE NodeMain ------------------------------
(***************************************************************************)
(* The main loop of every machine of the cluster (leader/node.cpp): it asks*)
(* etcd who leads, runs leaderProtocol or a follower's block, and beside it*)
(* run the lease thread leaderTTL, the two health monitors and the watchers*)
(* a follower sets on the key CurrentLeader.  BlockProtocol looks inside   *)
(* one term; here raft terms change, leases run out and processes die.     *)
(*                                                                         *)
(* Time passes in ticks of which a lease has TTL and the lease thread      *)
(* sleeps Nap (20 and 18 seconds in the code).                             *)
(***************************************************************************)
EXTENDS Integers, FiniteSets

CONSTANTS Nodes,
          TTL, Nap,
          MaxLag,      \* environment: ticks a renewal of the lease takes at most
          MaxTerm,     \* bound: raft terms
          NMembers,    \* etcd members
          Failures,    \* numbers of them that may be down at a time
          MaxFaults,   \* bound: times that number changes, redpanda fails or a
                       \* process is killed
          BlocksCount  \* config.json's blocks

ASSUME TimeAssumption == TTL \in Nat /\ Nap \in Nat /\ MaxLag \in Nat /\ Nap + MaxLag < TTL
ASSUME BoundAssumption ==
  /\ NMembers \in Nat /\ Failures \subseteq 0 .. NMembers
  /\ MaxTerm \in Nat \ {0} /\ MaxFaults \in Nat /\ BlocksCount \in Nat

None == "none"
ASSUME NodesAssumption == None \notin Nodes

VARIABLES
  leaderOf, term,        \* raft: the leader of every term so far, the term
  failed, redpandaUp,    \* etcd members down; whether redpanda is healthy
  faults, calm,          \* calm: history, etcd never failed
  CurrentLeader, ttl,    \* the etcd key and what is left of its lease
  holder,                \* history: the last node that put it
  pc, raftTerm, count,   \* main, its globals
  LLease, etcdHealth, redpandaHealth, etcdMonitor,
  lease, timer,          \* lease thread: where it is, ticks asleep or awake
  Leader,                \* the follower object's leader
  under,                 \* the term leaderProtocol writes its keys under
  mixed                  \* history: that term came from the lease thread's findLeader

raft     == <<leaderOf, term, failed, redpandaUp, faults, calm>>
key      == <<CurrentLeader, ttl, holder>>
health   == <<etcdHealth, redpandaHealth, etcdMonitor>>
thread   == <<lease, timer>>
history  == <<under, mixed>>
vars     == <<raft, key, pc, raftTerm, count, LLease, health, thread, Leader, history>>

InLoop(n) == pc[n] \in {"loop", "check", "call", "leading", "getLeader", "poll"}
Alive(n)  == pc[n] \notin {"aborted", "killed"}

etcdUp == 2 * failed < NMembers     \* a majority answers

\* isEtcdClusterHealthy: at most a third of the members is missing.
isEtcdClusterHealthy == failed <= NMembers \div 3

Init ==
  /\ leaderOf \in [1 .. 1 -> Nodes] /\ term = 1 /\ failed = 0 /\ redpandaUp = TRUE
  /\ faults = 0 /\ calm = TRUE
  /\ CurrentLeader = None /\ ttl = 0 /\ holder = None
  /\ pc = [n \in Nodes |-> "loop"] /\ raftTerm = [n \in Nodes |-> 0]
  /\ count = [n \in Nodes |-> 0] /\ LLease = [n \in Nodes |-> FALSE]
  /\ etcdHealth = [n \in Nodes |-> TRUE] /\ redpandaHealth = [n \in Nodes |-> TRUE]
  /\ etcdMonitor = [n \in Nodes |-> TRUE]
  /\ lease = [n \in Nodes |-> None] /\ timer = [n \in Nodes |-> 0]
  /\ Leader = [n \in Nodes |-> None]
  /\ under = [n \in Nodes |-> 0] /\ mixed = [n \in Nodes |-> FALSE]

-----------------------------------------------------------------------------
(***************************************************************************)
(* etcd.                                                                   *)
(***************************************************************************)
Elect ==
  /\ term < MaxTerm /\ etcdUp
  /\ \E n \in Nodes : leaderOf' = [t \in 1 .. term + 1 |-> IF t <= term THEN leaderOf[t] ELSE n]
  /\ term' = term + 1
  /\ UNCHANGED <<failed, redpandaUp, faults, calm, key, pc, raftTerm, count, LLease, health, thread, Leader, history>>

Outage ==
  /\ faults < MaxFaults /\ faults' = faults + 1
  /\ \/ failed' \in Failures /\ calm' = FALSE /\ UNCHANGED redpandaUp
     \/ redpandaUp' = FALSE /\ UNCHANGED <<failed, calm>>
  /\ UNCHANGED <<leaderOf, term, key, pc, raftTerm, count, LLease, health, thread, Leader, history>>

\* A tick: leases run down, threads sleep on; an awake lease thread answers in time.
Tick ==
  /\ \/ ttl > 0
     \/ \E n \in Nodes : lease[n] = "sleep"
  /\ \A n \in Nodes : /\ lease[n] \in {"check", "put"} => timer[n] < MaxLag
                      /\ lease[n] = "sleep" => timer[n] > 0
  /\ timer' = [n \in Nodes |-> CASE lease[n] = "sleep" -> timer[n] - 1
                                 [] lease[n] \in {"check", "put"} -> timer[n] + 1
                                 [] OTHER -> timer[n]]
  /\ ttl' = IF ttl > 0 THEN ttl - 1 ELSE 0
  /\ CurrentLeader' = IF ttl = 1 THEN None ELSE CurrentLeader
  /\ UNCHANGED <<raft, holder, pc, raftTerm, count, LLease, health, lease, Leader, history>>

-----------------------------------------------------------------------------
(***************************************************************************)
(* The lease thread.                                                       *)
(***************************************************************************)
\* What findLeader leaves behind in the globals, and what it returns.
findLeader(n) ==
  /\ etcdHealth' = [etcdHealth EXCEPT ![n] = etcdUp]
  /\ raftTerm' = IF etcdUp THEN [raftTerm EXCEPT ![n] = term] ELSE raftTerm
IsLeader(n) == etcdUp /\ leaderOf[term] = n

LeaseStart(n) ==
  /\ lease[n] = "start"
  /\ lease' = [lease EXCEPT ![n] = "check"] /\ LLease' = [LLease EXCEPT ![n] = TRUE]
  /\ timer' = [timer EXCEPT ![n] = 0]
  /\ UNCHANGED <<raft, key, pc, raftTerm, count, health, Leader, history>>

\* Mutant: a deposed leader goes on.
LeaseCheckAlways(n) ==
  LET goOn == etcdHealth[n] /\ etcdUp IN
  /\ lease[n] = "check"
  /\ IF etcdHealth[n] THEN findLeader(n) ELSE UNCHANGED <<etcdHealth, raftTerm>>
  /\ lease' = [lease EXCEPT ![n] = IF goOn THEN "put" ELSE "done"]
  /\ LLease' = [LLease EXCEPT ![n] = goOn]
  /\ mixed' = [mixed EXCEPT ![n] = @ \/ (pc[n] \in {"check", "call"} /\ raftTerm'[n] # raftTerm[n])]
  /\ UNCHANGED <<raft, key, pc, count, redpandaHealth, etcdMonitor, timer, Leader, under>>

\* The loop condition.  findLeader also stores the term main is about to use.
LeaseCheck(n) ==
  LET goOn == etcdHealth[n] /\ IsLeader(n) IN
  /\ lease[n] = "check"
  /\ IF etcdHealth[n] THEN findLeader(n) ELSE UNCHANGED <<etcdHealth, raftTerm>>
  /\ lease' = [lease EXCEPT ![n] = IF goOn THEN "put" ELSE "done"]
  /\ LLease' = [LLease EXCEPT ![n] = goOn]
  /\ mixed' = [mixed EXCEPT ![n] = @ \/ (pc[n] \in {"check", "call"} /\ raftTerm'[n] # raftTerm[n])]
  /\ UNCHANGED <<raft, key, pc, count, redpandaHealth, etcdMonitor, timer, Leader, under>>

\* Mutant: the thread sleeps as long as the lease.
LeasePutLate(n) ==
  /\ lease[n] = "put"
  /\ IF etcdUp
     THEN CurrentLeader' = n /\ holder' = n /\ ttl' = TTL
     ELSE UNCHANGED key
  /\ lease' = [lease EXCEPT ![n] = "sleep"] /\ timer' = [timer EXCEPT ![n] = TTL]
  /\ UNCHANGED <<raft, pc, raftTerm, count, LLease, health, Leader, history>>

\* leasegrant and put.  The leadership found in LeaseCheck may be gone by now.
LeasePut(n) ==
  /\ lease[n] = "put"
  /\ IF etcdUp
     THEN CurrentLeader' = n /\ holder' = n /\ ttl' = TTL
     ELSE UNCHANGED key
  /\ lease' = [lease EXCEPT ![n] = "sleep"] /\ timer' = [timer EXCEPT ![n] = Nap]
  /\ UNCHANGED <<raft, pc, raftTerm, count, LLease, health, Leader, history>>

LeaseWake(n) ==
  /\ lease[n] = "sleep" /\ timer[n] = 0
  /\ lease' = [lease EXCEPT ![n] = "check"]
  /\ UNCHANGED <<raft, key, pc, raftTerm, count, LLease, health, timer, Leader, history>>

leaderTTL(n) == LeaseStart(n) \/ LeaseCheck(n) \/ LeasePut(n) \/ LeaseWake(n)

-----------------------------------------------------------------------------
(***************************************************************************)
(* The monitors.                                                           *)
(***************************************************************************)
\* The thread ends with the first bad answer; findLeader may store TRUE again.
etcdMonitorFunc(n) ==
  /\ Alive(n) /\ etcdMonitor[n] /\ ~isEtcdClusterHealthy
  /\ etcdHealth' = [etcdHealth EXCEPT ![n] = FALSE]
  /\ etcdMonitor' = [etcdMonitor EXCEPT ![n] = FALSE]
  /\ UNCHANGED <<raft, key, pc, raftTerm, count, LLease, redpandaHealth, thread, Leader, history>>

redpandaMonitorFunc(n) ==
  /\ Alive(n) /\ ~redpandaUp /\ redpandaHealth[n]
  /\ redpandaHealth' = [redpandaHealth EXCEPT ![n] = FALSE]
  /\ UNCHANGED <<raft, key, pc, raftTerm, count, LLease, etcdHealth, etcdMonitor, thread, Leader, history>>

-----------------------------------------------------------------------------
(***************************************************************************)
(* main.                                                                   *)
(***************************************************************************)
local == <<raftTerm, count, LLease, health, thread, Leader, history>>

\* The process is gone, with everything in its memory.
Dies(n, how) ==
  /\ pc' = [pc EXCEPT ![n] = how]
  /\ raftTerm' = [raftTerm EXCEPT ![n] = 0] /\ count' = [count EXCEPT ![n] = 0]
  /\ LLease' = [LLease EXCEPT ![n] = FALSE] /\ etcdHealth' = [etcdHealth EXCEPT ![n] = TRUE]
  /\ redpandaHealth' = [redpandaHealth EXCEPT ![n] = TRUE]
  /\ etcdMonitor' = [etcdMonitor EXCEPT ![n] = TRUE]
  /\ lease' = [lease EXCEPT ![n] = None] /\ timer' = [timer EXCEPT ![n] = 0]
  /\ Leader' = [Leader EXCEPT ![n] = None]
  /\ under' = [under EXCEPT ![n] = 0] /\ mixed' = [mixed EXCEPT ![n] = FALSE]

\* The loop condition, nodeDetails (which fails while etcd is down) and findLeader.
LoopHead(n) ==
  /\ pc[n] = "loop"
  /\ IF etcdHealth[n] /\ redpandaHealth[n] /\ count[n] < BlocksCount
     THEN /\ findLeader(n)
          /\ pc' = [pc EXCEPT ![n] = IF IsLeader(n) THEN "check" ELSE "getLeader"]
     ELSE pc' = [pc EXCEPT ![n] = "end"] /\ UNCHANGED <<etcdHealth, raftTerm>>
  /\ UNCHANGED <<raft, key, count, LLease, redpandaHealth, etcdMonitor, thread, Leader, history>>

\* leaderLease = thread(&leaderTTL): assigning to a thread object that was never
\* joined ends the process.
StartLease(n) ==
  /\ pc[n] = "check"
  /\ IF LLease[n]
     THEN pc' = [pc EXCEPT ![n] = "call"] /\ UNCHANGED local
     ELSE IF lease[n] = None
     THEN /\ lease' = [lease EXCEPT ![n] = "start"] /\ pc' = [pc EXCEPT ![n] = "call"]
          /\ UNCHANGED <<raftTerm, count, LLease, health, timer, Leader, history>>
     ELSE Dies(n, "aborted")
  /\ UNCHANGED <<raft, key>>

\* Mutant: the term is the one etcd has by now.
CallNewTerm(n) ==
  /\ pc[n] = "call"
  /\ under' = [under EXCEPT ![n] = term]
  /\ pc' = [pc EXCEPT ![n] = "leading"]
  /\ UNCHANGED <<raft, key, raftTerm, count, LLease, health, thread, Leader, mixed>>

\* leaderProtocol takes raftTerm by value and writes its keys under it.
Call(n) ==
  /\ pc[n] = "call"
  /\ under' = [under EXCEPT ![n] = raftTerm[n]]
  /\ pc' = [pc EXCEPT ![n] = "leading"]
  /\ UNCHANGED <<raft, key, raftTerm, count, LLease, health, thread, Leader, mixed>>

\* It returns false for an empty block.
Return(n) ==
  /\ pc[n] = "leading"
  /\ count' \in {count, [count EXCEPT ![n] = @ + 1]}
  /\ pc' = [pc EXCEPT ![n] = "loop"]
  /\ under' = [under EXCEPT ![n] = 0] /\ mixed' = [mixed EXCEPT ![n] = FALSE]
  /\ UNCHANGED <<raft, key, raftTerm, LLease, health, thread, Leader>>

\* A new follower object asks for the leader's name.
getLeaderID(n) ==
  /\ pc[n] = "getLeader"
  /\ Leader' = [Leader EXCEPT ![n] = IF etcdUp THEN CurrentLeader ELSE None]
  /\ pc' = [pc EXCEPT ![n] = IF Leader'[n] = None THEN "loop" ELSE "poll"]
  /\ UNCHANGED <<raft, key, raftTerm, count, LLease, health, thread, history>>

\* getNamespaces, getLargestBlockNumber and the run key, under that leader and the
\* node's own term: startBlock, when there is a block to start, and back to the loop.
Poll(n) ==
  /\ pc[n] = "poll"
  /\ pc' = [pc EXCEPT ![n] = "loop"] /\ Leader' = [Leader EXCEPT ![n] = None]
  /\ UNCHANGED <<raft, key, raftTerm, count, LLease, health, thread, history>>

\* After the loop main waits for the monitors; redpandaMonitorFunc never returns.
JoinMonitor(n) ==
  /\ pc[n] = "end" /\ ~etcdMonitor[n]
  /\ pc' = [pc EXCEPT ![n] = "hang"]
  /\ UNCHANGED <<raft, key, raftTerm, count, LLease, health, thread, Leader, history>>

main(n) ==
  \/ LoopHead(n) \/ StartLease(n) \/ Call(n) \/ Return(n) \/ getLeaderID(n)
  \/ Poll(n) \/ JoinMonitor(n)

Kill(n) ==
  /\ Alive(n) /\ faults < MaxFaults /\ faults' = faults + 1
  /\ Dies(n, "killed")
  /\ UNCHANGED <<leaderOf, term, failed, redpandaUp, calm, key>>

-----------------------------------------------------------------------------
Next ==
  \/ Elect \/ Outage \/ Tick
  \/ \E n \in Nodes : \/ main(n) \/ leaderTTL(n) \/ etcdMonitorFunc(n) \/ redpandaMonitorFunc(n) \/ Kill(n)

\* Every thread of a live process is scheduled and leaderProtocol and startBlock
\* return (BlockProtocol and FollowerScheduler say when); time passes.
Spec ==
  /\ Init /\ [][Next]_vars
  /\ WF_vars(Tick)
  /\ \A n \in Nodes : WF_vars(main(n)) /\ WF_vars(leaderTTL(n))

-----------------------------------------------------------------------------
(***************************************************************************)
(* Properties.                                                             *)
(***************************************************************************)
Locations == {"loop", "check", "call", "leading", "getLeader", "poll", "end", "hang",
              "aborted", "killed"}

\* What each variable may hold; no leader counts more blocks than main is told to.
TypeOK ==
  /\ term \in 1 .. MaxTerm /\ leaderOf \in [1 .. term -> Nodes]
  /\ failed \in 0 .. NMembers /\ redpandaUp \in BOOLEAN
  /\ faults \in 0 .. MaxFaults /\ calm \in BOOLEAN
  /\ CurrentLeader \in Nodes \cup {None} /\ holder \in Nodes \cup {None}
  /\ ttl \in 0 .. TTL
  /\ pc \in [Nodes -> Locations]
  /\ raftTerm \in [Nodes -> 0 .. term] /\ under \in [Nodes -> 0 .. term]
  /\ count \in [Nodes -> 0 .. BlocksCount]
  /\ LLease \in [Nodes -> BOOLEAN] /\ mixed \in [Nodes -> BOOLEAN]
  /\ etcdHealth \in [Nodes -> BOOLEAN] /\ redpandaHealth \in [Nodes -> BOOLEAN]
  /\ etcdMonitor \in [Nodes -> BOOLEAN]
  /\ lease \in [Nodes -> {None, "start", "check", "put", "sleep", "done"}]
  /\ timer \in [Nodes -> 0 .. TTL]
  /\ Leader \in [Nodes -> Nodes \cup {None}]

\* The lease outlives the nap: while renewals take no longer than MaxLag and etcd
\* answers, the key a running lease thread was the last to put does not vanish.
LeaseHeld ==
  calm => \A n \in Nodes : holder = n /\ lease[n] \in {"sleep", "check", "put"} => CurrentLeader = n

\* A block's keys are written under a term its node was elected for, except where
\* the lease thread's findLeader changed raftTerm between main's own call and
\* leaderProtocol: then a deposed leader leads in its successor's term.
LedInOwnTerm == \A n \in Nodes : under[n] # 0 => leaderOf[under[n]] = n \/ mixed[n]

\* If one node leads for good and stays in its loop, with a healthy cluster, then
\* CurrentLeader names it for good, whatever the deposed leaders' lease threads
\* still put.
LeaderKnown ==
  \A n \in Nodes :
    <>[](leaderOf[term] = n /\ isEtcdClusterHealthy /\ InLoop(n)) => <>[](CurrentLeader = n)

\* Types, and the lease that outlives the nap.
LeaseInv == TypeOK /\ LeaseHeld

-----------------------------------------------------------------------------
(***************************************************************************)
(* The inductive invariant of NodeProofs, in parts.                        *)
(***************************************************************************)
\* main is past its loop condition.
Counted ==
  \A n \in Nodes : pc[n] \in {"check", "call", "leading", "getLeader", "poll"}
                    => count[n] < BlocksCount

\* A lease thread lives and dies with its process and is started once; the last
\* to put the key has run since, and while its renewals come in time what is left
\* of the lease covers the rest of the nap and the slowest renewal.
Renewal ==
  /\ calm => failed = 0
  /\ \A n \in Nodes :
       /\ ~Alive(n) => lease[n] = None
       /\ holder = n /\ lease[n] \in {None, "start"} => ~Alive(n)
       /\ lease[n] = "put" => NMembers > 0
       /\ lease[n] \in {"check", "put"} => timer[n] <= MaxLag
       /\ calm /\ holder = n /\ lease[n] = "sleep"
            => CurrentLeader = n /\ ttl > timer[n] + MaxLag
       /\ calm /\ holder = n /\ lease[n] \in {"check", "put"}
            => CurrentLeader = n /\ ttl + timer[n] > MaxLag

\* Between main's findLeader and leaderProtocol the term is the node's own.
OwnTerm ==
  \A n \in Nodes : pc[n] \in {"check", "call"} /\ ~mixed[n]
                    => raftTerm[n] # 0 /\ leaderOf[raftTerm[n]] = n

IInv == TypeOK /\ Counted /\ Renewal /\ OwnTerm /\ LedInOwnTerm

=============================================================================
