--------------------------- MODULE BlockProtocol ---------------------------
(***************************************************************************)
(* The protocol between the leader and the followers of one node cluster,  *)
(* carried by etcd keys: leaderProtocol, assignFollowers, checkComponents  *)
(* and monitorComponents of leader/leader.h, the follower branch of        *)
(* leader/node.cpp and startBlock of follower/follower.h.                  *)
(*                                                                         *)
(* One raft term with one raft leader.  Every etcd request is a step.  A   *)
(* follower executes its components in one step here; FollowerScheduler    *)
(* models what happens inside it.  A block tells the component of each of  *)
(* its transactions.  Machines crash and come back with nothing but their disk,  *)
(* a minority at a time, so etcd itself keeps answering; the leader's      *)
(* process may restart under the same term.                                *)
(***************************************************************************)
EXTENDS Integers, FiniteSets, Sequences, Functions

CONSTANTS NMembers,        \* clusterSize: members s0 .. s(NMembers-1)
          LeaderId,        \* the member etcd elected
          Blocks,          \* possible blocks: the component of every transaction, and
                           \* the components with a contract that fails
          Orders,          \* orders in which list_member may list the members
          Modes,           \* config.json's mode
          NBlocks,         \* bound: blocks the leader produces
          MaxCrashes       \* bound: crashes of followers' machines and of the
                           \* leader's process together

Members == 0 .. NMembers - 1

ASSUME MembersAssumption == NMembers \in Nat /\ NMembers >= 2 /\ LeaderId \in Members
ASSUME BlocksAssumption ==
  \A B \in Blocks : B.comp \in Seq(Nat \ {0}) /\ B.bad \subseteq Range(B.comp)
ASSUME OrdersAssumption ==
  \A o \in Orders : o \in [Members -> Members] /\ {o[k] : k \in Members} = Members
ASSUME ModesAssumption == Modes \subseteq {"production", "validation"}
ASSUME BoundsAssumption ==
  NBlocks \in Nat /\ MaxCrashes \in Nat

Followers == Members \ {LeaderId}
Nums == 1 .. NBlocks

\* Components of a block, and how many transactions some of them hold.
Comps(B) == Range(B.comp)
Size(B, S) == Cardinality({x \in DOMAIN B.comp : B.comp[x] \in S})

None == -1       \* no value under a key; no status yet
NoTable == <<>>  \* no table under a components key

VARIABLES
  memberOrder, mode,     \* list_member's order; config.json
  content,               \* the block each attempt of the leader produced
  block, run, commit, components, status, data,  \* etcd, per block number
  lpc, num, attempt,     \* leader: where it is, block number, attempt
  healthy, ids, active,  \* memberList's flags, healthyMemberIds, activeFollowers
  table, serialized,     \* componentsTable; what assignFollowers serialized
  poll, completed,       \* checkComponents' loop
  mon, monTable,         \* monitorComponents; what it serialized
  LatestBlock,           \* leader's blocksDB
  fpc, fnum, fattempt, fcomps,   \* followers
  fstored,               \* followers' blocksDB
  decision,              \* history: what a follower did to its global state
  tables,                \* history: tables stored under a components key
  crashes, restarts

etcd == <<block, run, commit, components, status, data>>
leaderVars == <<content, lpc, num, attempt, healthy, ids, active, table, serialized,
                poll, completed, LatestBlock>>
monitorVars == <<mon, monTable>>
followerVars == <<fpc, fnum, fattempt, fcomps, fstored, decision>>
envVars == <<memberOrder, mode, crashes, restarts>>

vars == <<envVars, etcd, leaderVars, monitorVars, followerVars, tables>>

Alive(f) == fpc[f] # "down"
Up == {f \in Followers : Alive(f)}

Tables == {NoTable} \cup UNION {[Comps(B) -> Members] : B \in Blocks}
CompIds == UNION {Comps(B) : B \in Blocks}

TypeOK ==
  /\ memberOrder \in Orders /\ mode \in Modes
  /\ content \in Seq(Blocks)
  /\ Len(content) = attempt /\ attempt \in 0 .. NBlocks + MaxCrashes
  /\ block \in [Nums -> 0 .. attempt]
  /\ run \in [Nums -> {"", "wait", "start", "finish"}]
  /\ commit \in [Nums -> {"", "0", "1"}]
  /\ components \in [Nums -> Tables]
  /\ status \in [Nums -> [Followers -> Nat \cup {None}]]
  /\ data \in [Nums -> [Followers -> [attempt : 0 .. attempt, done : SUBSET CompIds]]]
  /\ \A b \in Nums, f \in Followers : data[b][f].attempt # 0 =>
       data[b][f].done \subseteq Comps(content[data[b][f].attempt])
  /\ lpc \in {"idle", "block", "wait", "commit0", "assign", "components", "start",
              "poll", "finish", "commit1", "store", "join", "down"}
  /\ num \in 0 .. NBlocks /\ LatestBlock \in 0 .. NBlocks
  /\ healthy \subseteq Members /\ ids \in Seq(Members) /\ active \in 0 .. NMembers
  /\ table \in Tables /\ serialized \in Tables /\ monTable \in Tables
  /\ poll \in 0 .. NMembers /\ completed \in Nat
  /\ mon \in {"off", "loop", "put"}
  /\ fpc \in [Followers -> {"idle", "run", "block", "components", "execute", "data",
                            "status", "finish", "commit", "store", "down"}]
  /\ fnum \in [Followers -> 0 .. NBlocks]
  /\ fattempt \in [Followers -> 0 .. attempt]
  /\ fcomps \in [Followers -> SUBSET CompIds]
  /\ fstored \in [Followers -> SUBSET Nums]
  /\ decision \in [Nums -> [Followers -> {"", "save", "reset"}]]
  /\ tables \in [Nums -> SUBSET Tables]
  /\ crashes \in Nat /\ restarts \in Nat /\ crashes + restarts <= MaxCrashes

-----------------------------------------------------------------------------
Init ==
  /\ memberOrder \in Orders /\ mode \in Modes
  /\ content = <<>>
  /\ block = [b \in Nums |-> 0]
  /\ run = [b \in Nums |-> ""]
  /\ commit = [b \in Nums |-> ""]
  /\ components = [b \in Nums |-> NoTable]
  /\ status = [b \in Nums |-> [f \in Followers |-> None]]
  /\ data = [b \in Nums |-> [f \in Followers |-> [attempt |-> 0, done |-> {}]]]
  /\ lpc = "idle" /\ num = 0 /\ attempt = 0
  /\ healthy = {} /\ ids = <<>> /\ active = 0
  /\ table = NoTable /\ serialized = NoTable
  /\ poll = 0 /\ completed = 0
  /\ mon = "off" /\ monTable = NoTable
  /\ LatestBlock = 0
  /\ fpc = [f \in Followers |-> "idle"]
  /\ fnum = [f \in Followers |-> 0]
  /\ fattempt = [f \in Followers |-> 0]
  /\ fcomps = [f \in Followers |-> {}]
  /\ fstored = [f \in Followers |-> {}]
  /\ decision = [b \in Nums |-> [f \in Followers |-> ""]]
  /\ tables = [b \in Nums |-> {}]
  /\ crashes = 0 /\ restarts = 0

-----------------------------------------------------------------------------
\* Leader

\* Sets of followers getActiveFollowers may report healthy.  A line of an
\* unhealthy follower followed by the leader's own line leaves nextIsIP set, and
\* the leader's "healthy:" is taken for the follower's.
HealthReports == {Up} \cup {Up \cup {d} : d \in Followers \ Up}

\* produce, create and connectedComponents; getEtcdMembers, getActiveFollowers.
Produce ==
  /\ lpc = "idle"
  /\ LatestBlock < NBlocks
  /\ num' = LatestBlock + 1
  /\ attempt' = attempt + 1
  /\ \E B \in Blocks :
       /\ content' = Append(content, B)
       /\ table' = [c \in Comps(B) |-> 0]
  /\ \E report \in HealthReports : healthy' = report
  /\ lpc' = "block"
  /\ UNCHANGED <<envVars, etcd, ids, active, serialized, poll, completed, LatestBlock,
                 monitorVars, followerVars, tables>>

\* A put of the leader, then the next one.
LeaderPut(from, to) ==
  /\ lpc = from
  /\ lpc' = to
  /\ UNCHANGED <<envVars, content, num, attempt, healthy, ids, active, table,
                 serialized, poll, completed, LatestBlock, monitorVars, followerVars>>

PutBlock ==
  /\ LeaderPut("block", "wait")
  /\ block' = [block EXCEPT ![num] = attempt]
  /\ UNCHANGED <<run, commit, components, status, data, tables>>

PutRunWait ==
  /\ LeaderPut("wait", "commit0")
  /\ run' = [run EXCEPT ![num] = "wait"]
  /\ UNCHANGED <<block, commit, components, status, data, tables>>

\* commit = "1" in validation mode, "0" otherwise; componentsMonitor starts.
PutCommitInitial ==
  /\ lpc = "commit0"
  /\ lpc' = "assign"
  /\ mon' = "loop"
  /\ commit' = [commit EXCEPT ![num] = IF mode = "validation" THEN "1" ELSE "0"]
  /\ UNCHANGED <<envVars, block, run, components, status, data, content, num, attempt,
                 healthy, ids, active, table, serialized, poll, completed, LatestBlock,
                 monTable, followerVars, tables>>

\* A member's entry in memberList.
Place(m) == CHOOSE k \in Members : memberOrder[k] = m

\* assignFollowers up to SerializeToString: healthyMemberIds are the healthy ones in
\* memberList's order.  A majority of the members is up, so there is one
\* (ConnectedComponents has the other case).
AssignFollowers ==
  /\ lpc = "assign"
  /\ \E hm \in [1 .. Cardinality(healthy) -> healthy] :
       /\ \A j, k \in DOMAIN hm : j < k => Place(hm[j]) < Place(hm[k])
       /\ ids' = hm
       /\ active' = Len(hm)
       /\ table' = [c \in DOMAIN table |-> hm[((c - 1) % Len(hm)) + 1]]
  /\ serialized' = table'
  /\ lpc' = "components"
  /\ UNCHANGED <<envVars, etcd, content, num, attempt, healthy, poll, completed,
                 LatestBlock, monitorVars, followerVars, tables>>

PutComponents ==
  /\ LeaderPut("components", "start")
  /\ components' = [components EXCEPT ![num] = serialized]
  /\ tables' = [tables EXCEPT ![num] = @ \cup {serialized}]
  /\ UNCHANGED <<block, run, commit, status, data>>

PutRunStart ==
  /\ LeaderPut("start", "poll")
  /\ run' = [run EXCEPT ![num] = "start"]
  /\ UNCHANGED <<block, commit, components, status, data, tables>>

\* checkComponents: the next member's status is read, absent ones are skipped.
PollMember ==
  /\ lpc = "poll"
  /\ poll < NMembers
  /\ poll' = poll + 1
  /\ completed' = IF poll \in Followers /\ status[num][poll] # None
                    THEN completed + status[num][poll] ELSE completed
  /\ UNCHANGED <<envVars, etcd, content, lpc, num, attempt, healthy, ids, active, table,
                 serialized, LatestBlock, monitorVars, followerVars, tables>>

\* Mutant: the comparison lets one transaction be missing.
PollEndShort ==
  /\ lpc = "poll"
  /\ poll = NMembers
  /\ poll' = 0
  /\ completed' = 0
  /\ lpc' = IF completed >= Size(content[attempt], Comps(content[attempt])) - 1
              THEN "finish" ELSE "poll"
  /\ UNCHANGED <<envVars, etcd, content, num, attempt, healthy, ids, active, table,
                 serialized, LatestBlock, monitorVars, followerVars, tables>>

\* Mutant: completed is declared outside the loop and never reset.
PollEndAccumulates ==
  /\ lpc = "poll"
  /\ poll = NMembers
  /\ poll' = 0
  /\ completed <= 2 * Size(content[attempt], Comps(content[attempt]))
  /\ lpc' = IF completed = Size(content[attempt], Comps(content[attempt]))
              THEN "finish" ELSE "poll"
  /\ UNCHANGED <<envVars, etcd, content, num, attempt, healthy, ids, active, table,
                 serialized, completed, LatestBlock, monitorVars, followerVars, tables>>

\* if (txnCount == completed), after a whole pass.
PollEnd ==
  /\ lpc = "poll"
  /\ poll = NMembers
  /\ poll' = 0
  /\ completed' = 0
  /\ lpc' = IF completed = Size(content[attempt], Comps(content[attempt]))
              THEN "finish" ELSE "poll"
  /\ UNCHANGED <<envVars, etcd, content, num, attempt, healthy, ids, active, table,
                 serialized, LatestBlock, monitorVars, followerVars, tables>>

PutRunFinish ==
  /\ LeaderPut("finish", "commit1")
  /\ run' = [run EXCEPT ![num] = "finish"]
  /\ UNCHANGED <<block, commit, components, status, data, tables>>

PutCommit ==
  /\ LeaderPut("commit1", "store")
  /\ commit' = [commit EXCEPT ![num] = "1"]
  /\ UNCHANGED <<block, run, components, status, data, tables>>

\* saveData, storeBlock
StoreBlock ==
  /\ lpc = "store"
  /\ LatestBlock' = num
  /\ lpc' = "join"
  /\ UNCHANGED <<envVars, etcd, content, num, attempt, healthy, ids, active, table,
                 serialized, poll, completed, monitorVars, followerVars, tables>>

\* componentsMonitor.join() and the cleaning up; activeFollowers keeps its value.
JoinMonitor ==
  /\ lpc = "join"
  /\ mon = "off"
  /\ lpc' = "idle"
  /\ healthy' = {} /\ ids' = <<>> /\ table' = NoTable
  /\ UNCHANGED <<envVars, etcd, content, num, attempt, active, serialized, poll,
                 completed, LatestBlock, monitorVars, followerVars, tables>>

-----------------------------------------------------------------------------
\* monitorComponents

\* stopMonitor is set when checkComponents is through.
Stopped == lpc \in {"finish", "commit1", "store", "join"}

\* The table after a scan that found count followers: memberList is indexed with
\* the number of the follower.  Before assignFollowers has filled
\* healthyMemberIds the ids are whatever its buffer still holds.
Reassigned(report, t) ==
  LET count == Cardinality(report) IN
  /\ DOMAIN t = DOMAIN table
  /\ \A c \in DOMAIN t :
       IF memberOrder[table[c]] \in healthy \cup report THEN t[c] = table[c]
       ELSE IF ids # <<>> THEN t[c] = ids[((c - 1) % count) + 1]
       ELSE t[c] \in Followers

\* One pass of the loop: fewer followers than before are found.  flag is never
\* initialized, so an unchanged table may be stored too.
MonitorScan ==
  /\ mon = "loop" /\ ~Stopped
  /\ \E report \in HealthReports :
       /\ Cardinality(report) < active /\ Cardinality(report) > 0
       /\ healthy' = healthy \cup report
       /\ active' = Cardinality(report)
       /\ \E t \in [DOMAIN table -> Members] :
            /\ Reassigned(report, t)
            /\ table' = t
            /\ \/ mon' = "put" /\ monTable' = t
               \/ t = table /\ UNCHANGED <<mon, monTable>>
  /\ UNCHANGED <<envVars, etcd, content, lpc, num, attempt, ids, serialized, poll,
                 completed, LatestBlock, followerVars, tables>>

\* A pass that finds no fewer; getActiveFollowers still sets flags.
MonitorIdle ==
  /\ mon = "loop" /\ ~Stopped
  /\ \E report \in HealthReports :
       /\ Cardinality(report) >= active
       /\ healthy' = healthy \cup report
  /\ UNCHANGED <<envVars, etcd, content, lpc, num, attempt, ids, active, table,
                 serialized, poll, completed, LatestBlock, monitorVars, followerVars,
                 tables>>

MonitorPut ==
  /\ mon = "put"
  /\ mon' = "loop"
  /\ components' = [components EXCEPT ![num] = monTable]
  /\ tables' = [tables EXCEPT ![num] = @ \cup {monTable}]
  /\ UNCHANGED <<envVars, block, run, commit, status, data, leaderVars, monTable,
                 followerVars>>

MonitorStop ==
  /\ mon = "loop" /\ Stopped
  /\ mon' = "off"
  /\ UNCHANGED <<envVars, etcd, leaderVars, monTable, followerVars, tables>>

-----------------------------------------------------------------------------
\* Followers

\* A step of follower f that only moves it on.
Move(f, from, to) ==
  /\ fpc[f] = from
  /\ fpc' = [fpc EXCEPT ![f] = to]
  /\ UNCHANGED <<envVars, etcd, leaderVars, monitorVars, fattempt, fcomps, fstored,
                 decision, tables>>

Present == {b \in Nums : block[b] # 0}

\* getNamespaces and getLargestBlockNumber.
FindBlock(f) ==
  /\ Present # {}
  /\ Move(f, "idle", "run")
  /\ fnum' = [fnum EXCEPT ![f] = CHOOSE b \in Present : \A d \in Present : d <= b]

\* The run key: startBlock is called when it says "start".
ReadRun(f) ==
  /\ Move(f, "run", IF run[fnum[f]] = "start" THEN "block" ELSE "idle")
  /\ UNCHANGED fnum

ReadBlock(f) ==
  /\ fpc[f] = "block"
  /\ fattempt' = [fattempt EXCEPT ![f] = block[fnum[f]]]
  /\ fpc' = [fpc EXCEPT ![f] = "components"]
  /\ UNCHANGED <<envVars, etcd, leaderVars, monitorVars, fnum, fcomps, fstored,
                 decision, tables>>

\* Mutant: assignedfollower is not compared with this node's number.
GetComponentsAll(f) ==
  /\ fpc[f] = "components"
  /\ fcomps' = [fcomps EXCEPT ![f] = Comps(content[fattempt[f]])]
  /\ fpc' = [fpc EXCEPT ![f] = "execute"]
  /\ UNCHANGED <<envVars, etcd, leaderVars, monitorVars, fnum, fattempt, fstored,
                 decision, tables>>

\* getComponents, ExtractComponents: the components that carry this node's number.
GetComponents(f) ==
  LET t == components[fnum[f]] IN
  /\ fpc[f] = "components"
  /\ fcomps' = [fcomps EXCEPT ![f] =
                  {c \in Comps(content[fattempt[f]]) \cap DOMAIN t : t[c] = f}]
  /\ fpc' = [fpc EXCEPT ![f] = "execute"]
  /\ UNCHANGED <<envVars, etcd, leaderVars, monitorVars, fnum, fattempt, fstored,
                 decision, tables>>

Bad(f) == fcomps[f] \cap content[fattempt[f]].bad

\* The workers get through this follower's components.  A contract that fails
\* is overlooked when another one succeeds after it (flag.store(true)).
Execute(f) ==
  /\ fpc[f] = "execute"
  /\ Bad(f) = {} \/ Size(content[fattempt[f]], fcomps[f]) > Cardinality(Bad(f))
  /\ Move(f, "execute", "data")
  /\ UNCHANGED fnum

\* A contract fails and every worker leaves: "Execution failed".
ExecuteFail(f) ==
  /\ fpc[f] = "execute"
  /\ Bad(f) # {}
  /\ Move(f, "execute", "store")
  /\ UNCHANGED fnum

PutData(f) ==
  /\ fpc[f] = "data"
  /\ data' = [data EXCEPT ![fnum[f]][f] = [attempt |-> fattempt[f], done |-> fcomps[f]]]
  /\ fpc' = [fpc EXCEPT ![f] = "status"]
  /\ UNCHANGED <<envVars, block, run, commit, components, status, leaderVars, monitorVars,
                 fnum, fattempt, fcomps, fstored, decision, tables>>

PutStatus(f) ==
  /\ fpc[f] = "status"
  /\ status' = [status EXCEPT ![fnum[f]][f] = Size(content[fattempt[f]], fcomps[f])]
  /\ fpc' = [fpc EXCEPT ![f] = "finish"]
  /\ UNCHANGED <<envVars, block, run, commit, components, data, leaderVars, monitorVars,
                 fnum, fattempt, fcomps, fstored, decision, tables>>

\* Mutant: whatever the key holds, the block is taken to be committed early.
SeeFinishEarly(f) ==
  /\ fpc[f] \in {"execute", "finish"}
  /\ run[fnum[f]] \in {"start", "finish"}
  /\ Move(f, "execute", "commit") \/ Move(f, "finish", "commit")
  /\ UNCHANGED fnum

\* monitorFunc reads "finish"; workers that have not begun do not begin.
SeeFinish(f) ==
  /\ fpc[f] \in {"execute", "finish"}
  /\ run[fnum[f]] = "finish"
  /\ Move(f, "execute", "commit") \/ Move(f, "finish", "commit")
  /\ UNCHANGED fnum

\* The commit key decides between saveData and state.resetTree.
ReadCommit(f) ==
  /\ fpc[f] = "commit"
  /\ decision' = [decision EXCEPT ![fnum[f]][f] =
                    IF commit[fnum[f]] = "1" THEN "save" ELSE "reset"]
  /\ fpc' = [fpc EXCEPT ![f] = "store"]
  /\ UNCHANGED <<envVars, etcd, leaderVars, monitorVars, fnum, fattempt, fcomps, fstored,
                 tables>>

\* main stores the block in validation mode, whatever startBlock came to.
FollowerStore(f) ==
  /\ fpc[f] = "store"
  /\ fstored' = IF mode = "validation"
                  THEN [fstored EXCEPT ![f] = @ \cup {fnum[f]}] ELSE fstored
  /\ fpc' = [fpc EXCEPT ![f] = "idle"]
  /\ UNCHANGED <<envVars, etcd, leaderVars, monitorVars, fnum, fattempt, fcomps, decision,
                 tables>>

\* The CurrentLeader watch fires while the leader is down: startBlock gives up
\* and main goes round its loop.
FollowerStop(f) ==
  /\ lpc = "down"
  /\ \E l \in {"execute", "finish", "store"} : Move(f, l, "idle")
  /\ UNCHANGED fnum

-----------------------------------------------------------------------------
\* Crashes

\* A follower's machine goes down while a majority of the cluster stays.
Crash(f) ==
  /\ Alive(f)
  /\ crashes + restarts < MaxCrashes
  /\ 2 * Cardinality(Up) > NMembers
  /\ crashes' = crashes + 1
  /\ fpc' = [fpc EXCEPT ![f] = "down"]
  /\ UNCHANGED <<memberOrder, mode, restarts, etcd, leaderVars, monitorVars, fnum,
                 fattempt, fcomps, fstored, decision, tables>>

\* It comes back; only its databases and etcd's keys are left.
Recover(f) == Move(f, "down", "idle") /\ UNCHANGED fnum

\* The leader's process dies, its etcd member stays leader ...
LeaderCrash ==
  /\ lpc # "down"
  /\ crashes + restarts < MaxCrashes
  /\ restarts' = restarts + 1
  /\ lpc' = "down"
  /\ mon' = "off"
  /\ UNCHANGED <<memberOrder, mode, crashes, etcd, content, num, attempt, healthy, ids,
                 active, table, serialized, poll, completed, LatestBlock, monTable,
                 followerVars, tables>>

\* ... and is started again.  main no longer clears the keys of the last run.
LeaderRestart ==
  /\ lpc = "down"
  /\ lpc' = "idle"
  /\ healthy' = {} /\ ids' = <<>> /\ active' = 0
  /\ table' = NoTable /\ serialized' = NoTable
  /\ poll' = 0 /\ completed' = 0
  /\ UNCHANGED <<envVars, etcd, content, num, attempt, LatestBlock, monitorVars,
                 followerVars, tables>>

-----------------------------------------------------------------------------
Leader ==
  \/ Produce \/ PutBlock \/ PutRunWait \/ PutCommitInitial \/ AssignFollowers
  \/ PutComponents \/ PutRunStart \/ PollMember \/ PollEnd \/ PutRunFinish \/ PutCommit
  \/ StoreBlock \/ JoinMonitor

Monitor == MonitorScan \/ MonitorIdle \/ MonitorPut \/ MonitorStop

Follower(f) ==
  \/ FindBlock(f) \/ ReadRun(f) \/ ReadBlock(f) \/ GetComponents(f)
  \/ Execute(f) \/ ExecuteFail(f) \/ PutData(f) \/ PutStatus(f)
  \/ SeeFinish(f) \/ ReadCommit(f) \/ FollowerStore(f)

Next ==
  \/ Leader \/ Monitor \/ LeaderCrash \/ LeaderRestart
  \/ \E f \in Followers : Follower(f) \/ FollowerStop(f) \/ Crash(f) \/ Recover(f)

Spec == Init /\ [][Next]_vars

\* Processes that run keep running and etcd answers them; no machine is obliged
\* to come back.
FairSpec ==
  /\ Spec
  /\ WF_vars(Leader) /\ WF_vars(Monitor)
  /\ \A f \in Followers : WF_vars(Follower(f))

-----------------------------------------------------------------------------
\* "All components are done." (leader.h, checkComponents): when checkComponents
\* returns, every component of the block the leader produced has been executed
\* and its writes are under a data key.
AllComponentsDone ==
  Stopped =>
    \A c \in Comps(content[attempt]) : \E f \in Followers :
      data[num][f].attempt = attempt /\ c \in data[num][f].done

\* That holds while the leader's process lives and one table is stored for each
\* block: the sum of the counts then cannot hide a missing component.
DoneUnlessReassigned ==
  restarts = 0 /\ num # 0 /\ Cardinality(tables[num]) <= 1 => AllComponentsDone

\* Under the same conditions no two followers write for the same component, even
\* when one of them crashes, comes back and executes the block again.
OneWriter ==
  \A b \in Nums : Cardinality(tables[b]) <= 1 =>
    \A f, g \in Followers :
      data[b][f].attempt = data[b][g].attempt /\ data[b][f].done \cap data[b][g].done # {}
        => f = g

\* A follower touches its global state only for a block the leader called
\* finished, and in validation mode it never throws the state away.
DecisionSound ==
  \A b \in Nums, f \in Followers :
    /\ decision[b][f] # "" /\ restarts = 0 => run[b] = "finish"
    /\ decision[b][f] = "reset" => mode = "production"

\* With contracts that succeed and followers that always come back, the leader
\* stores all its blocks, whichever steps the crashes fall between.
BlocksStored ==
  /\ \A f \in Followers : []<>Alive(f)
  /\ [](lpc # "down")
  /\ [](\A a \in DOMAIN content : content[a].bad = {})
  => <>(LatestBlock = NBlocks)

\* Types, and what a follower may decide about a block.
DecisionInv == TypeOK /\ DecisionSound

-----------------------------------------------------------------------------
(***************************************************************************)
(* The inductive invariant of BlockProtocolProofs, in parts.               *)
(***************************************************************************)
\* The leader has produced a block it has not stored.
Producing == lpc \in {"block", "wait", "commit0", "assign", "components", "start", "poll",
                      "finish", "commit1", "store"}
Unstored == IF Producing THEN 1 ELSE 0

\* Where the leader is: its number, attempts and tables are those of one block.
LeaderAt ==
  LET Full == [Comps(content[attempt]) -> Members] IN
  /\ Up # {}
  /\ Producing => num = LatestBlock + 1 /\ healthy # {}
  /\ lpc = "join" => num = LatestBlock /\ num # 0
  /\ Producing \/ lpc = "join" => attempt # 0 /\ table \in Full
  /\ attempt <= LatestBlock + restarts + Unstored
  /\ restarts = 0 => lpc # "down" /\ attempt = LatestBlock + Unstored
  /\ lpc \notin {"poll", "down"} => poll = 0 /\ completed = 0
  /\ lpc = "components" => serialized \in Full
  /\ mon = "put" => monTable \in Full
  /\ mon # "off" => lpc \in {"assign", "components", "start", "poll"} \/ Stopped

\* Where a follower is: it works on an attempt it has read.
FollowerAt ==
  \A f \in Followers :
    /\ fpc[f] \notin {"idle", "down"} => fnum[f] \in Nums /\ block[fnum[f]] # 0
    /\ fpc[f] \in {"components", "execute", "data", "status"} => fattempt[f] # 0
    /\ fpc[f] \in {"execute", "data", "status"} =>
         fcomps[f] \subseteq Comps(content[fattempt[f]])

\* Component c of block b was given to f by some table.
GivenTo(b, c, f) == \E t \in tables[b] : c \in DOMAIN t /\ t[c] = f

\* Followers execute and write only what a table gave them.
Given ==
  /\ \A b \in Nums : /\ IsFiniteSet(tables[b])
                     /\ components[b] # NoTable => components[b] \in tables[b]
  /\ \A f \in Followers : fpc[f] \in {"execute", "data"} =>
       \A c \in fcomps[f] : GivenTo(fnum[f], c, f)
  /\ \A b \in Nums, f \in Followers : \A c \in data[b][f].done : GivenTo(b, c, f)

\* What the run and commit keys of a block may hold when followers act on them.
Decided ==
  /\ \A b \in Nums : run[b] = "finish" =>
       /\ commit[b] # ""
       /\ restarts = 0 => b <= LatestBlock \/ (b = num /\ lpc \in {"commit1", "store"})
  /\ Producing /\ lpc \notin {"block", "wait", "commit0"} => commit[num] # ""
  /\ mode = "validation" => \A b \in Nums : commit[b] # "0"
  /\ \A f \in Followers : fpc[f] = "commit" =>
       /\ commit[fnum[f]] # ""
       /\ restarts = 0 => run[fnum[f]] = "finish"

\* The components a table gives to a follower.
Assigned(t, f) == {c \in DOMAIN t : t[c] = f}

\* While the leader's process lives a block has one attempt, its number, and what
\* followers execute, write and count are the components of a whole table.
Counted == restarts = 0 =>
  /\ \A b \in Nums :
       /\ block[b] \in {0, b}
       /\ \A t \in tables[b] : b <= attempt /\ DOMAIN t = Comps(content[b])
       /\ run[b] \in {"start", "finish"} => components[b] \in tables[b]
  /\ lpc \in {"start", "poll"} \/ Stopped => components[num] \in tables[num]
  /\ \A f \in Followers :
       /\ fpc[f] \in {"block", "components"} => components[fnum[f]] \in tables[fnum[f]]
       /\ fpc[f] \in {"components", "execute", "data", "status"} => fattempt[f] = fnum[f]
       /\ fpc[f] \in {"execute", "data", "status"} =>
            \E t \in tables[fnum[f]] : fcomps[f] = Assigned(t, f)
       /\ fpc[f] = "status" => data[fnum[f]][f].attempt = fnum[f]
  /\ \A b \in Nums, f \in Followers :
       /\ data[b][f].attempt # 0 =>
            data[b][f].attempt = b /\ \E t \in tables[b] : data[b][f].done = Assigned(t, f)
       /\ status[b][f] # None =>
            /\ data[b][f].attempt = b
            /\ \E t \in tables[b] : status[b][f] = Size(content[b], Assigned(t, f))

\* checkComponents' sum counts every component of the followers it read once; when
\* it returns, every component is that of a follower that has put its status.
Polled == restarts = 0 /\ num # 0 /\ Cardinality(tables[num]) <= 1 =>
  \A t \in tables[num] :
    /\ lpc = "poll" => \E Q \in SUBSET Followers :
         /\ \A g \in Q : g < poll /\ status[num][g] # None
         /\ completed = Size(content[num], {c \in DOMAIN t : t[c] \in Q})
    /\ Stopped => \A c \in DOMAIN t : t[c] \in Followers /\ status[num][t[c]] # None

IInv == TypeOK /\ LeaderAt /\ FollowerAt /\ Given /\ Decided /\ DecisionSound /\ Counted
        /\ Polled

=============================================================================
