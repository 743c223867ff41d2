----------------------------- MODULE LedgerNode -----------------------------
(***************************************************************************)
(* A node that turns commands into blocks and executes them: main of       *)
(* singleNode-parallel and singleNode-serial (node.cpp with                *)
(* TestBlockProducer and the scheduler) and, for one block at a time, a    *)
(* follower of the distributed node.  It composes the clients, which       *)
(* declare what the dependency matrix is made of, with the processors,     *)
(* which access the shared map one accessor at a time while other          *)
(* transactions run (module Contracts).  Which thread picks which ready    *)
(* transaction is the subject of ParallelScheduler and FollowerScheduler;  *)
(* how the write set reaches the tree is that of StateTree.                *)
(***************************************************************************)
EXTENDS Contracts

CONSTANTS
  SetupBlocks,   \* sequences of commands: setup.txt, read for even counts
  TestBlocks,    \* testFile.txt, read for odd counts
  NThreads,      \* config.json's threadCount
  NBlocks        \* config.json's blocks

\* The producer makes a transaction only of a line that names one of the clients.
Families == {"wallet", "voting", "nft", "eComm"}

ASSUME BlocksAssumption ==
  \A blk \in SetupBlocks \cup TestBlocks :
    blk \in Seq(ToSet(blk)) /\ \A i \in DOMAIN blk : blk[i].family \in Families

ASSUME NumbersAssumption == NThreads \in Nat /\ NBlocks \in Nat

VARIABLES
  variant,   \* which of the three programs this is
  state,     \* GlobalState: what getValue returns, key by key
  myMap,     \* the scheduler's write set
  commands,  \* the commands of the block
  headers,   \* their declared headers
  calls,     \* per transaction: its call of ProcessTxn, "waiting", "running" or "done"
  results,   \* what ProcessTxn returned
  flag,      \* the scheduler's flag
  phase,     \* "produce", "run" or, after a break, "stopped"
  blockCount, \* main's count of blocks so far
  latest,    \* the number of the block stored last
  entry,     \* myMap when the block was started (for checking only)
  ledger     \* the commands of every block that was flushed (for checking only)

ledgerVars == <<variant, state, myMap, commands, headers, calls, results, flag,
                phase, blockCount, latest, entry, ledger>>

Txns == DOMAIN commands
Empty == [k \in {} |-> 0]

LedgerInit ==
  /\ variant \in Programs
  /\ state = Empty /\ myMap = Empty /\ entry = Empty
  /\ commands = <<>> /\ headers = <<>> /\ calls = <<>> /\ results = <<>>
  /\ flag = TRUE
  /\ phase = "produce"
  /\ blockCount = 0 /\ latest = 0
  /\ ledger = <<>>

-----------------------------------------------------------------------------
\* TestBlockProducer::produce with the clients of the program, extractBlock and
\* dag.create.  The distributed node's followers build a new scheduler for every
\* block, and so does the parallel node; the serial one keeps its map.
Produce(blk) ==
  /\ phase = "produce" /\ blockCount < NBlocks
  /\ commands' = blk
  /\ headers' = [i \in DOMAIN blk |-> processCommand(variant, blk[i], Stored(Cart(blk[i].a), state))]
  /\ calls' = [i \in DOMAIN blk |-> Call("waiting")]
  /\ results' = [i \in DOMAIN blk |-> TRUE]
  /\ myMap' = IF variant = "serial" THEN myMap ELSE Empty
  /\ entry' = myMap'
  /\ flag' = TRUE
  /\ phase' = "run"
  /\ UNCHANGED <<variant, state, blockCount, latest, ledger>>

\* An entry of the matrix (DagCreation shows that the code computes this).
Dependent(i, j) ==
  /\ i < j
  /\ \/ headers[i].inputs \cap headers[j].outputs # {}
     \/ headers[i].outputs \cap headers[j].inputs # {}
     \/ headers[i].outputs \cap headers[j].outputs # {}

Running == {i \in Txns : calls[i].at = "running"}
Ready(i) == calls[i].at = "waiting" /\ \A h \in Txns : Dependent(h, i) => calls[h].at = "done"

\* A thread of the pool of workers takes a ready transaction.
SelectTxn(i) ==
  /\ phase = "run" /\ flag /\ variant # "serial"
  /\ Cardinality(Running) < NThreads
  /\ Ready(i)
  /\ calls' = [calls EXCEPT ![i] = Call("running")]
  /\ UNCHANGED <<variant, state, myMap, commands, headers, results, flag, phase,
                 blockCount, latest, entry, ledger>>

\* The serial scheduler's only thread takes the first ready one.
SelectFirstTxn(i) ==
  /\ phase = "run" /\ flag /\ variant = "serial"
  /\ Running = {}
  /\ Ready(i) /\ \A h \in 1 .. i - 1 : ~Ready(h)
  /\ calls' = [calls EXCEPT ![i] = Call("running")]
  /\ UNCHANGED <<variant, state, myMap, commands, headers, results, flag, phase,
                 blockCount, latest, entry, ledger>>

Ops(i) == ProcessTxn(variant, commands[i]).ops

\* The keys whose accessors a running call keeps.
Held(i) == {Ops(i)[n].key : n \in {m \in 1 .. calls[i].pc - 1 : Ops(i)[m].hold}}

\* The accessor the call asks for next is taken, by this call or by another.  A put
\* writes through the accessor the call holds already, if it does.
WaitsFor(i, h) ==
  LET o == Ops(i)[calls[i].pc] IN
  /\ o.key \in Held(h)
  /\ h = i => o.op # "put"

\* ProcessTxn makes its next access to the map.
AccessMap(i) ==
  /\ phase = "run" /\ i \in Running
  /\ ~Returned(variant, commands[i], calls[i])
  /\ \A h \in Running : ~WaitsFor(i, h)
  /\ LET after == Access(variant, commands[i], calls[i], myMap, state)
     IN /\ calls' = [calls EXCEPT ![i] = after.call]
        /\ myMap' = after.map
  /\ UNCHANGED <<variant, state, commands, headers, results, flag, phase, blockCount,
                 latest, entry, ledger>>

\* ProcessTxn returns and dag.complete is called.  The parallel node only ever
\* clears the flag, the others store the result.
CompleteTxn(i) ==
  /\ phase = "run" /\ i \in Running
  /\ Returned(variant, commands[i], calls[i])
  /\ results' = [results EXCEPT ![i] = calls[i].ok]
  /\ flag' = IF variant = "parallel" THEN flag /\ calls[i].ok ELSE calls[i].ok
  /\ calls' = [calls EXCEPT ![i] = Call("done")]
  /\ UNCHANGED <<variant, state, myMap, commands, headers, phase, blockCount, latest,
                 entry, ledger>>

AllDone == \A i \in Txns : calls[i].at = "done"

\* The write set over the state.
Merged(st, m) == [k \in DOMAIN st \cup DOMAIN m |-> IF k \in DOMAIN m THEN m[k] ELSE st[k]]

\* Mutant: the write set is flushed when some transaction failed.
FlushMapToStateAnyway ==
  /\ variant # "distributed"
  /\ phase = "run" /\ Running = {} /\ (AllDone \/ ~flag)
  /\ state' = Merged(state, myMap)
  /\ ledger' = ledger \o commands
  /\ latest' = latest + 1
  /\ blockCount' = blockCount + 1
  /\ phase' = "produce"
  /\ UNCHANGED <<variant, myMap, commands, headers, calls, results, flag, entry>>

\* schedulTxns after the join: flushMapToState; main stores the block.
FlushMapToState ==
  /\ variant # "distributed"
  /\ phase = "run" /\ Running = {} /\ AllDone /\ flag
  /\ state' = Merged(state, myMap)
  /\ ledger' = ledger \o commands
  /\ latest' = latest + 1
  /\ blockCount' = blockCount + 1
  /\ phase' = "produce"
  /\ UNCHANGED <<variant, myMap, commands, headers, calls, results, flag, entry>>

\* "Parallel execution failed.": main leaves its loop, the map is forgotten.
Stop ==
  /\ variant # "distributed"
  /\ phase = "run" /\ Running = {} /\ ~flag
  /\ phase' = "stopped"
  /\ UNCHANGED <<variant, state, myMap, commands, headers, calls, results, flag,
                 blockCount, latest, entry, ledger>>

\* The follower's data has been published (FollowerScheduler, BlockProtocol) or
\* its execution failed.  saveData reads key=value text where dataStore wrote a
\* protobuf, so nothing of it reaches the state the next block reads.
EndBlock ==
  /\ variant = "distributed"
  /\ phase = "run" /\ Running = {} /\ (AllDone \/ ~flag)
  /\ blockCount' = blockCount + 1
  /\ phase' = "produce"
  /\ UNCHANGED <<variant, state, myMap, commands, headers, calls, results, flag,
                 latest, entry, ledger>>

LedgerNext ==
  \/ \E b \in (IF blockCount % 2 = 0 THEN SetupBlocks ELSE TestBlocks) : Produce(b)
  \/ \E i \in Txns : SelectTxn(i) \/ SelectFirstTxn(i) \/ AccessMap(i) \/ CompleteTxn(i)
  \/ FlushMapToState \/ Stop \/ EndBlock

LedgerSpec == LedgerInit /\ [][LedgerNext]_ledgerVars

-----------------------------------------------------------------------------
\* What each variable may hold.
LedgerTypeOK ==
  /\ variant \in Programs
  /\ phase \in {"produce", "run", "stopped"}
  /\ flag \in BOOLEAN
  /\ blockCount \in 0 .. NBlocks /\ latest \in 0 .. blockCount
  /\ DOMAIN headers = Txns /\ DOMAIN calls = Txns
  /\ results \in [Txns -> BOOLEAN]
  /\ \A i \in Running : calls[i].pc \in 1 .. Len(Ops(i)) + 1
  /\ DOMAIN entry \subseteq DOMAIN myMap \/ phase = "produce"

\* A call with nothing in between, from its begin: no call makes more than four accesses.
Step(p, c, s, st) == IF Returned(p, c, s.call) THEN s ELSE Access(p, c, s.call, s.map, st)
Begun(m) == [call |-> Call("running"), map |-> m]
Whole(p, c, m, st) == Step(p, c, Step(p, c, Step(p, c, Step(p, c, Begun(m), st), st), st), st)

\* The maps that the first 0, 1, 2 ... commands leave, run one after the other from m.
InBlockOrder(p, cs, m, st) ==
  LET run[n \in 0 .. Len(cs)] == IF n = 0 THEN m ELSE Whole(p, cs[n], run[n - 1], st).map
  IN run

\* The declared headers order everything that must be ordered: whatever the
\* threads' interleaving, a block whose transactions have all run leaves the map
\* that running them one by one in block order leaves, in all three programs
\* (scheduler::executeTxns with any of the processors and clients).
SerialEquivalence ==
  (phase = "run" /\ AllDone) => myMap = InBlockOrder(variant, commands, entry, state)[Len(commands)]

\* No two transactions that run at the same time use the same key of the map, so
\* that finding, loading and inserting a key in three calls (getOrLoad...) is safe
\* although another thread could come in between.
Isolated ==
  \A i \in Running : \A h \in Running \ {i} :
    {Ops(i)[n].key : n \in DOMAIN Ops(i)} \cap {Ops(h)[n].key : n \in DOMAIN Ops(h)} \subseteq {<<>>}

\* The only call that can get stuck is transferNFT of the distributed node with
\* the old owner as the new one: it asks for the accessor it holds
\* (nftProcessor.h).  No other call ever waits, for itself or for another one.
NeverBlocked ==
  \A i \in Running, h \in Running :
    (~Returned(variant, commands[i], calls[i]) /\ WaitsFor(i, h)) =>
      i = h /\ variant = "distributed" /\ commands[i].verb = "transfer" /\ commands[i].a = commands[i].b

\* The write set reaches the state whole or not at all: only when every
\* transaction of the block has run and returned true (schedulTxns).
WholeBlocks ==
  [][state' # state => AllDone /\ \A i \in Txns : results[i]]_ledgerVars

Total(keys) == FoldSet(LAMBDA k, sum : sum + state[k], 0, keys)
Sum(cs, amount(_)) == FoldLeft(LAMBDA sum, c : sum + amount(c), 0, cs)
KeysOf(kinds) == {k \in DOMAIN state : k[1] \in kinds}

\* Money is neither made nor lost between the accounts of the state.  transfer
\* reads both balances before it writes, so a transfer to oneself makes money;
\* nothing else does (walletProcessor.h).
MoneyConserved ==
  LET made(c) == CASE c.family # "wallet" -> 0
                   [] c.verb = "deposit" -> c.v
                   [] c.verb = "withdraw" -> -c.v
                   [] OTHER -> IF c.a = c.b THEN c.v ELSE 0
  IN Total(KeysOf({"wallet"})) = Sum(ledger, made)

\* Every vote, cast or not, goes back to a registration: a voter registered again
\* in a later block gets new tokens, but no other path makes votes
\* (votingProcessor.h).  A transfer of votes to oneself makes them as money.
VotesBacked ==
  LET tokens(c) == CASE c.verb = "registerVoter" -> 1
                     [] c.verb = "transferVote" /\ c.a = c.b -> c.v
                     [] OTHER -> 0
  IN Total(KeysOf({"voter", "candidate"})) <= Sum(ledger, tokens)

\* A transfer moves an image: the copies of it in all lists are at most as many as
\* there were creations, and at least one once it was created (nftProcessor.h).
ImagesKept ==
  \A x \in {ledger[n].x : n \in {m \in DOMAIN ledger : ledger[m].verb = "create"}} :
    LET copies == FoldSet(LAMBDA k, sum : sum + Len(SelectSeq(state[k], LAMBDA y : y = x)),
                          0, KeysOf({"owner"}))
        created(c) == IF c.verb = "create" /\ c.x = x THEN 1 ELSE 0
    IN copies \in 1 .. Sum(ledger, created)

\* Types, and what the contracts conserve: money, votes and images.
LedgerInv == LedgerTypeOK /\ MoneyConserved /\ VotesBacked /\ ImagesKept

=============================================================================
