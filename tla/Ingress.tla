------------------------------ MODULE Ingress ------------------------------
(***************************************************************************)
(* How transactions become stored blocks: the command-line clients post to *)
(* the REST server (RestAPI.cpp), which forwards them to the topic         *)
(* "transaction_pool" of a Kafka broker; blockProducer consumes the topic  *)
(* and numbers and chains the blocks; main executes a block and stores it  *)
(* in the block database.  The same main may read its commands from a file *)
(* instead (TestBlockProducer).  The process may crash between any two     *)
(* steps and be started again.  While it is down, the peer-to-peer sender  *)
(* (p2pBlockSender.cpp) may open the database and queue pending blocks.    *)
(***************************************************************************)
EXTENDS Contracts, BlocksDB

CONSTANTS
  Commands,       \* what users type: the commands of the first, second... request
  Carts,          \* what a client may find in a cart
  MaxTxns,        \* config.json's txnCount, and the constant 5 of other producers
  MaxBlocks,      \* config.json's blocks
  MaxCrashes,     \* bound on crashes
  MaxSends        \* bound on calls of blockSender, for each producer

ASSUME CommandsAssumption == Len(Commands) \in Nat /\ DOMAIN Commands = 1 .. Len(Commands)
ASSUME BoundsAssumption == MaxTxns \in Nat /\ MaxBlocks \in Nat /\ MaxCrashes \in Nat

Producers == {"blockProducer.h", "blockProducer.cpp", "TestBlockProducer"}

VARIABLES
  program,     \* which of the three programs this is
  producer,    \* which block producer main calls
  requests,    \* requests posted to the server: [cmd, at, answer]
  topic,       \* the pool: headers of transactions, or what does not parse
  offset,      \* the consumer group's committed offset
  position,    \* the consumer's position
  pc,          \* where main is
  polls,       \* blockProducer's loop counter
  fetched,     \* positions of pendingTransactions in the topic
  newBlock,    \* the block being stored
  db,          \* the block database
  blockQueue,  \* the sender's queue of block numbers
  generated,   \* the number of the block the sender is about to offer, 0 if none
  crashes, sends, count,
  commitLost,  \* a commit has failed (for checking only)
  lost,        \* positions that died with the process (for checking only)
  torn,        \* numbers whose storeBlock was cut in two (for checking only)
  fed          \* positions in every block ever stored, block by block

vars == <<program, producer, requests, topic, offset, position, pc, polls, fetched,
          newBlock, db, blockQueue, generated, crashes, sends, count, commitLost, lost, torn, fed>>

server == <<requests, topic>>
sender == <<blockQueue, generated, sends>>
history == <<commitLost, lost, torn, fed>>
fixed == <<program, producer>>

\* What reaches the server or the pool without a client.
NoCommand == [family |-> "none", verb |-> "none", a |-> "-", b |-> "-", x |-> "-", v |-> 0]

NoBlock == [num |-> -1, txns |-> <<>>, hash |-> <<>>]

\* Bound on requests.  Nobody consumes the pool of a node that reads files.
MaxRequests == IF producer = "TestBlockProducer" THEN 0 ELSE Len(Commands)

Init ==
  /\ program \in Programs
  /\ producer \in IF program = "distributed" THEN Producers ELSE Producers \ {"blockProducer.cpp"}
  /\ requests = <<>> /\ topic = <<>>
  /\ offset = 0 /\ position = 0
  /\ pc = "idle" /\ polls = 0 /\ fetched = <<>>
  /\ newBlock = NoBlock
  /\ db = EmptyDB
  /\ blockQueue = <<>> /\ generated = 0
  /\ crashes = 0 /\ sends = 0 /\ count = 0
  /\ commitLost = FALSE /\ lost = {} /\ torn = {} /\ fed = <<>>

-----------------------------------------------------------------------------
(***************************************************************************)
(* Clients and server.                                                     *)
(***************************************************************************)
\* What a client does with a command line: post a transaction with this header
\* or answer on the spot ("local").
Posts(h) == [to |-> "server", header |-> h]
Local == [to |-> "local", header |-> Header({}, {})]

\* balance reads the state; an unknown command is an error.
RestWallet(c) ==
  IF c.verb \in {"deposit", "withdraw", "transfer"} THEN Posts(WalletHeader(c)) ELSE Local
RestVoting(c) ==
  IF c.verb \in {"registerVoter", "registerCandidate", "transferVote", "castVote"}
  THEN Posts(VotingHeader(c)) ELSE Local
RestNft(c) == IF c.verb \in {"create", "transfer"} THEN Posts(NftHeader(c)) ELSE Local
\* checkout of an empty cart is not sent.
RestEComm(c, cart, words) ==
  IF \/ c.verb \in {"addToCart", "removeFromCart", "refillItem"}
     \/ c.verb = "checkout" /\ cart # <<>>
  THEN Posts(ECommHeader(c, words)) ELSE Local

walletRestClientD(c) == RestWallet(c)
walletRestClientP(c) == RestWallet(c)
walletRestClientS(c) == RestWallet(c)
votingRestClientD(c) == RestVoting(c)
nftRestClientD(c) == RestNft(c)
nftRestClientP(c) == RestNft(c)
nftRestClientS(c) == RestNft(c)
\* The words splitString finds in the cart are declared.  In the single-node programs
\* it returns a pointer to a local array, so the words may be anything.
eCommRestClientD(c, cart, words) == RestEComm(c, cart, cart)
eCommRestClientP(c, cart, words) == RestEComm(c, cart, words)
eCommRestClientS(c, cart, words) == RestEComm(c, cart, words)

\* Only the distributed node has a REST client for voting.
restClient(p, c, cart, words) ==
  LET client == <<p, c.family>> IN
  CASE client = <<"distributed", "wallet">> -> walletRestClientD(c)
    [] client = <<"distributed", "voting">> -> votingRestClientD(c)
    [] client = <<"distributed", "nft">>    -> nftRestClientD(c)
    [] client = <<"distributed", "eComm">>  -> eCommRestClientD(c, cart, words)
    [] client = <<"parallel", "wallet">>    -> walletRestClientP(c)
    [] client = <<"parallel", "nft">>       -> nftRestClientP(c)
    [] client = <<"parallel", "eComm">>     -> eCommRestClientP(c, cart, words)
    [] client = <<"serial", "wallet">>      -> walletRestClientS(c)
    [] client = <<"serial", "nft">>         -> nftRestClientS(c)
    [] client = <<"serial", "eComm">>       -> eCommRestClientS(c, cart, words)
    [] OTHER                                -> Local

Request(kind, c, h) == [kind |-> kind, cmd |-> c, header |-> h, at |-> "posted", answer |-> 0]

\* A user runs a client; the cart it reads may be any state of the cart.
RunClient(c, cart, words) ==
  /\ Len(requests) < MaxRequests
  /\ LET client == restClient(program, c, cart, words)
     IN /\ client.to = "server"
        /\ requests' = Append(requests, Request("transaction", c, client.header))
  /\ UNCHANGED <<fixed, topic, offset, position, pc, polls, fetched, newBlock, db, sender,
                 crashes, count, history>>

\* Something else reaches the server: a body that is no transaction, or a
\* transaction of the family "read-only".
PostOther(kind) ==
  /\ Len(requests) < MaxRequests
  /\ requests' = Append(requests, Request(kind, NoCommand, Header({}, {})))
  /\ UNCHANGED <<fixed, topic, offset, position, pc, polls, fetched, newBlock, db, sender,
                 crashes, count, history>>

Answered(q, code) == [q EXCEPT !.at = "answered", !.answer = code]

\* 400 for what does not parse, 200 with canned data for read-only.
AnswerAtOnce(r) ==
  /\ requests[r].at = "posted" /\ requests[r].kind # "transaction"
  /\ requests' = [requests EXCEPT ![r] = Answered(@, IF @.kind = "malformed" THEN 400 ELSE 200)]
  /\ UNCHANGED <<fixed, topic, offset, position, pc, polls, fetched, newBlock, db, sender,
                 crashes, count, history>>

\* submitTransactionToRedPanda: the message reaches the broker, or the producer
\* cannot be created, the produce fails or the flush times out.  The handler waits
\* for it (the future's destructor) and answers 200 in either case.
Submit(r, delivered) ==
  /\ requests[r].at = "posted" /\ requests[r].kind = "transaction"
  /\ topic' = IF delivered
              THEN Append(topic, [parses |-> TRUE, cmd |-> requests[r].cmd, header |-> requests[r].header])
              ELSE topic
  /\ requests' = [requests EXCEPT ![r] = Answered(@, 200)]
  /\ UNCHANGED <<fixed, offset, position, pc, polls, fetched, newBlock, db, sender,
                 crashes, count, history>>

\* Another producer's message that is no transaction.
OtherMessage ==
  /\ Len(topic) < MaxRequests /\ \A n \in DOMAIN topic : topic[n].parses
  /\ topic' = Append(topic, [parses |-> FALSE, cmd |-> NoCommand, header |-> Header({}, {})])
  /\ UNCHANGED <<fixed, requests, offset, position, pc, polls, fetched, newBlock, db, sender,
                 crashes, count, history>>

-----------------------------------------------------------------------------
(***************************************************************************)
(* blockProducer(): a new consumer, at most txnCount polls, a commit.      *)
(***************************************************************************)
Pool == producer # "TestBlockProducer"

\* main begins the next block; a new consumer starts at the committed offset.
Subscribe ==
  /\ pc = "idle" /\ Pool /\ count < MaxBlocks
  /\ pc' = "poll"
  /\ position' = offset /\ polls' = 0 /\ fetched' = <<>>
  /\ UNCHANGED <<fixed, server, offset, newBlock, db, sender, crashes, count, history>>

\* Mutant: the last message is taken off the topic but not kept.
PollMessageDropsLast ==
  /\ pc = "poll" /\ polls < MaxTxns /\ position < Len(topic)
  /\ position' = position + 1
  /\ polls' = polls + 1
  /\ fetched' = IF polls + 1 < MaxTxns THEN Append(fetched, position + 1) ELSE fetched
  /\ UNCHANGED <<fixed, server, offset, pc, newBlock, db, sender, crashes, count, history>>

\* The message is kept if it parses; it counts as a poll in any case.
PollMessage ==
  /\ pc = "poll" /\ polls < MaxTxns /\ position < Len(topic)
  /\ position' = position + 1
  /\ polls' = polls + 1
  /\ fetched' = IF topic[position + 1].parses THEN Append(fetched, position + 1) ELSE fetched
  /\ UNCHANGED <<fixed, server, offset, pc, newBlock, db, sender, crashes, count, history>>

\* An error event instead of a message.
PollError ==
  /\ pc = "poll" /\ polls < MaxTxns
  /\ polls' = polls + 1
  /\ UNCHANGED <<fixed, server, offset, position, pc, fetched, newBlock, db, sender, crashes,
                 count, history>>

\* No message for a second, or the loop is over.
PollEnd ==
  /\ pc = "poll"
  /\ pc' = "commit"
  /\ UNCHANGED <<fixed, server, offset, position, polls, fetched, newBlock, db, sender, crashes,
                 count, history>>

\* enable.auto.commit: the library commits the position now and then.
AutoCommit ==
  /\ pc = "poll" /\ offset # position
  /\ offset' = position
  /\ UNCHANGED <<fixed, server, position, pc, polls, fetched, newBlock, db, sender, crashes,
                 count, history>>

\* Mutant: nothing is committed before the block is stored.
CommitLater(ok) ==
  /\ pc = "commit" /\ ok
  /\ pc' = "build"
  /\ UNCHANGED <<fixed, server, offset, position, polls, fetched, newBlock, db, sender,
                 crashes, count, history>>

\* rd_kafka_commit and rd_kafka_consumer_close; their results are ignored.
Commit(ok) ==
  /\ pc = "commit"
  /\ ok \/ ~commitLost
  /\ offset' = IF ok THEN position ELSE offset
  /\ commitLost' = (commitLost \/ (~ok /\ offset # position))
  /\ pc' = "build"
  /\ UNCHANGED <<fixed, server, position, polls, fetched, newBlock, db, sender, crashes,
                 count, lost, torn, fed>>

-----------------------------------------------------------------------------
(***************************************************************************)
(* Blocks: numbers and hashes.  A hash is an injective image of what it is *)
(* computed from.                                                          *)
(***************************************************************************)
Sha(b) == <<b.num, b.txns, b.hash>>

\* The hash of the previous block.  A missing one is never noticed: getBlock's error
\* text is hashed in its place.
PreviousHash(n) == IF n > 0 THEN Sha(getBlock(db, n)) ELSE <<"0">>

\* Mutant: the number of the latest block is never understood.
NextNumReset == 1

NextNum == LatestBlockNum(db) + 1

\* The block of the pool's transactions, in the three copies of blockProducer.h.
blockProducerD(txns) == [num |-> NextNum, txns |-> txns, hash |-> PreviousHash(NextNum - 1)]
blockProducerP(txns) == [num |-> NextNum, txns |-> txns, hash |-> PreviousHash(NextNum - 1)]
blockProducerS(txns) == [num |-> NextNum, txns |-> txns, hash |-> PreviousHash(NextNum - 1)]
blockProducer(txns) == CASE program = "distributed" -> blockProducerD(txns)
                         [] program = "parallel"    -> blockProducerP(txns)
                         [] program = "serial"      -> blockProducerS(txns)

\* TestBlockProducer::produce hashes the block itself; a file that cannot be opened
\* or has no commands makes a default block, whose number is 0.
TestBlock(txns) == IF txns = <<>> THEN [num |-> 0, txns |-> <<>>, hash |-> <<>>]
                   ELSE [num |-> NextNum, txns |-> txns, hash |-> <<NextNum, txns>>]
produceD(txns) == TestBlock(txns)
produceP(txns) == TestBlock(txns)
produceS(txns) == TestBlock(txns)
produce(txns) == CASE program = "distributed" -> produceD(txns)
                   [] program = "parallel"    -> produceP(txns)
                   [] program = "serial"      -> produceS(txns)

Build ==
  /\ pc = "build" /\ producer = "blockProducer.h"
  /\ newBlock' = blockProducer(fetched)
  /\ pc' = "execute"
  /\ UNCHANGED <<fixed, server, offset, position, polls, fetched, db, sender, crashes,
                 count, history>>

\* The program of blockProducer.cpp prints its block and ends; the transactions
\* are gone from the pool.  Without transactions it throws.
PrintBlock ==
  /\ pc = "build" /\ producer = "blockProducer.cpp"
  /\ lost' = lost \cup ToSet(fetched)
  /\ fetched' = <<>>
  /\ count' = count + 1
  /\ pc' = "idle"
  /\ UNCHANGED <<fixed, server, offset, position, polls, newBlock, db, sender, crashes,
                 commitLost, torn, fed>>

\* n commands of setup.txt or testFile.txt.  leaderProtocol of the distributed node
\* returns at once when there are none.
ProduceFromFile(n) ==
  /\ pc = "idle" /\ ~Pool /\ count < MaxBlocks
  /\ program = "distributed" => n > 0
  /\ newBlock' = produce([i \in 1 .. n |-> i])
  /\ pc' = "execute"
  /\ UNCHANGED <<fixed, server, offset, position, polls, fetched, db, sender, crashes,
                 count, history>>

-----------------------------------------------------------------------------
(***************************************************************************)
(* main after the block has been made.                                     *)
(***************************************************************************)
\* destroyDB at the end of main, which the parallel node does not call.
AtExit == IF program = "parallel" THEN db ELSE EmptyDB

\* The scheduler succeeds (ParallelScheduler, LedgerNode), or main leaves its loop.
Execute(ok) ==
  /\ pc = "execute"
  /\ ok \/ program # "distributed"
  /\ pc' = IF ok THEN "store" ELSE "ended"
  /\ lost' = IF ok THEN lost ELSE lost \cup ToSet(fetched)
  /\ db' = IF ok THEN db ELSE AtExit
  /\ fetched' = IF ok THEN fetched ELSE <<>>
  /\ UNCHANGED <<fixed, server, offset, position, polls, newBlock, sender, crashes, count,
                 commitLost, torn, fed>>

\* storeBlock, first write
StoreLatest ==
  /\ pc = "store"
  /\ db' = PutLatest(db, newBlock.num)
  /\ pc' = "stored"
  /\ UNCHANGED <<fixed, server, offset, position, polls, fetched, newBlock, sender, crashes,
                 count, history>>

\* Mutant: the block is stored under the next number.
StoreBlockShifted ==
  /\ pc = "stored"
  /\ db' = PutBlock(db, newBlock.num + 1, newBlock)
  /\ fed' = Append(fed, fetched)
  /\ fetched' = <<>>
  /\ newBlock' = NoBlock
  /\ count' = count + 1
  /\ pc' = "idle"
  /\ UNCHANGED <<fixed, server, offset, position, polls, sender, crashes, commitLost, lost, torn>>

\* storeBlock, second write; main goes on to the next block.
StoreBlock ==
  /\ pc = "stored"
  /\ db' = PutBlock(db, newBlock.num, newBlock)
  /\ fed' = Append(fed, fetched)
  /\ fetched' = <<>>
  /\ newBlock' = NoBlock
  /\ count' = count + 1
  /\ pc' = "idle"
  /\ UNCHANGED <<fixed, server, offset, position, polls, sender, crashes, commitLost, lost, torn>>

\* All blocks are done.
Finish ==
  /\ pc = "idle" /\ count = MaxBlocks
  /\ db' = AtExit
  /\ pc' = "ended"
  /\ UNCHANGED <<fixed, server, offset, position, polls, fetched, newBlock, sender, crashes,
                 count, history>>

Crash ==
  /\ pc \notin {"down", "ended"} /\ crashes < MaxCrashes
  /\ crashes' = crashes + 1
  /\ lost' = lost \cup {n \in ToSet(fetched) : n <= offset}
  /\ torn' = IF pc = "stored" THEN torn \cup {newBlock.num} ELSE torn
  /\ fetched' = <<>> /\ newBlock' = NoBlock
  /\ pc' = "down"
  /\ UNCHANGED <<fixed, server, offset, position, polls, db, sender, count, commitLost, fed>>

\* main is started again and counts its blocks from 0.
Restart ==
  /\ pc = "down"
  /\ pc' = "idle" /\ count' = 0
  /\ UNCHANGED <<fixed, server, offset, position, polls, fetched, newBlock, db, sender,
                 crashes, history>>

-----------------------------------------------------------------------------
(***************************************************************************)
(* p2pBlockSender.cpp.  RocksDB lets one process open the database at a    *)
(* time, so the sender gets its turns while the node is down.              *)
(***************************************************************************)
Unlocked == pc \in {"down", "ended"}

\* p2pBlockGenerator's blockProducer reads up to five transactions from a file and
\* closes the database again.
Generate ==
  /\ Unlocked /\ generated = 0 /\ sends < MaxSends[producer]
  /\ generated' = NextNum
  /\ sends' = sends + 1
  /\ UNCHANGED <<fixed, server, offset, position, pc, polls, fetched, newBlock, db, blockQueue,
                 crashes, count, history>>

\* Mutant: a block is queued whether or not the one before it is.
AcceptableAny == generated > LatestBlockNum(db)

\* Not outdated; the first one follows the latest block, any other one a queued one.
Acceptable ==
  /\ generated > LatestBlockNum(db)
  /\ IF blockQueue = <<>> THEN generated = LatestBlockNum(db) + 1
     ELSE generated - 1 \in ToSet(blockQueue)

\* blockSender opens the database again.
blockSender ==
  /\ Unlocked /\ generated # 0
  /\ blockQueue' = IF Acceptable THEN Append(blockQueue, generated) ELSE blockQueue
  /\ db' = IF Acceptable THEN storePendingBlock(db, generated) ELSE db
  /\ generated' = 0
  /\ UNCHANGED <<fixed, server, offset, position, pc, polls, fetched, newBlock, sends, crashes,
                 count, history>>

-----------------------------------------------------------------------------
Next ==
  \/ \E cart \in Carts, words \in Carts :
       \E c \in UNION {Commands[n] : n \in DOMAIN Commands \cap {Len(requests) + 1}} :
         RunClient(c, cart, words)
  \/ \E k \in {"malformed", "read-only"} : PostOther(k)
  \/ \E r \in DOMAIN requests : AnswerAtOnce(r) \/ \E d \in BOOLEAN : Submit(r, d)
  \/ OtherMessage
  \/ Subscribe \/ PollMessage \/ PollError \/ PollEnd \/ AutoCommit
  \/ \E ok \in BOOLEAN : Commit(ok)
  \/ Build \/ PrintBlock
  \/ \E n \in 0 .. MaxTxns : ProduceFromFile(n)
  \/ \E ok \in BOOLEAN : Execute(ok)
  \/ StoreLatest \/ StoreBlock \/ Finish \/ Crash \/ Restart
  \/ Generate \/ blockSender

Spec == Init /\ [][Next]_vars

-----------------------------------------------------------------------------
Lines == {NoCommand} \cup UNION {Commands[n] : n \in DOMAIN Commands}
Headers == {Header({}, {})} \cup
           {restClient(p, c, cart, words).header :
              p \in Programs, c \in Lines, cart \in Carts, words \in Carts}
Requests == [kind : {"transaction", "malformed", "read-only"}, cmd : Lines, header : Headers,
             at : {"posted", "answered"}, answer : {0, 200, 400}]
Messages == [parses : BOOLEAN, cmd : Lines, header : Headers]

\* What each variable may hold.
TypeOK ==
  /\ program \in Programs /\ producer \in Producers
  /\ requests \in Seq(Requests) /\ Len(requests) <= MaxRequests
  /\ topic \in Seq(Messages)
  /\ offset \in 0 .. Len(topic) /\ position \in 0 .. Len(topic)
  /\ pc \in {"idle", "poll", "commit", "build", "execute", "store", "stored", "down", "ended"}
  /\ polls \in 0 .. MaxTxns /\ fetched \in Seq(Nat) /\ Len(fetched) <= polls
  /\ newBlock.num \in Nat \cup {-1}
  /\ db = [latest |-> db.latest, blocks |-> db.blocks, pending |-> db.pending]
  /\ db.latest \in Nat \cup {-1} /\ DOMAIN db.blocks \subseteq Nat
  /\ db.blocks = [n \in DOMAIN db.blocks |-> db.blocks[n]]
  /\ count \in 0 .. MaxBlocks /\ (pc \notin {"idle", "down", "ended"} => count < MaxBlocks)
  /\ generated \in Nat /\ blockQueue \in Seq(Nat \ {0})
  /\ lost \subseteq DOMAIN topic /\ torn \subseteq Nat /\ fed \in Seq(Seq(Nat))
  /\ commitLost \in BOOLEAN

InBlocks == UNION {ToSet(fed[n]) : n \in DOMAIN fed}

\* No transaction of the pool gets into two blocks, crashes and restarts included:
\* blockProducer commits its position before it returns the block.  A commit that
\* failed, which it does not notice, is the only way to it.
OneBlockEach ==
  ~commitLost =>
    /\ \A m, n \in DOMAIN fed : m # n => ToSet(fed[m]) \cap ToSet(fed[n]) = {}
    /\ ToSet(fetched) \cap InBlocks = {}

\* The committed offset never runs ahead of the blocks: what lies below it is in a
\* stored block, in the block being made, no transaction at all, or died with the
\* process (or with the block that failed or was only printed).
NothingSkipped ==
  \A n \in 1 .. offset : ~topic[n].parses \/ n \in InBlocks \cup ToSet(fetched) \cup lost

\* Every number up to LatestBlock has its block, except those whose storeBlock a
\* crash cut in two: LatestBlock is written first (blocksDB.h).
GapsTorn ==
  \A n \in 1 .. db.latest :
    n \in DOMAIN db.blocks \cup torn \/ (pc = "stored" /\ n = newBlock.num)

\* Each block of the pool carries the hash of the one stored before it; only where
\* a crash tore a block out does a link point to nothing (and it does so silently,
\* with the hash of getBlock's error text).
ChainLinked ==
  producer = "blockProducer.h" =>
    \A n \in DOMAIN db.blocks \ {1} :
      \/ n - 1 \in DOMAIN db.blocks /\ db.blocks[n].hash = Sha(db.blocks[n - 1])
      \/ n - 1 \in torn

\* A stored block is never overwritten while the process lives, is killed or is
\* started again, unless an empty file made main store a block 0, after which the
\* numbers begin again (TestBlockProducer::produce, node.cpp).
BlocksKept ==
  [][(pc' # "ended" /\ 0 \notin DOMAIN db.blocks \cup torn) =>
       \A n \in DOMAIN db.blocks : n \in DOMAIN db'.blocks /\ db'.blocks[n] = db.blocks[n]]_vars

\* Whatever the node stores between two calls of the sender: every number queued
\* after the first follows one queued before it, and while the database is there
\* each has its pending block (p2pBlockSender.cpp).
QueueConnected ==
  /\ \A i \in 2 .. Len(blockQueue) : \E j \in 1 .. i - 1 : blockQueue[j] = blockQueue[i] - 1
  /\ pc # "ended" => ToSet(blockQueue) \subseteq db.pending

\* The header declares every key the contract will access.
Declared(c, header) ==
  \A o \in ToSet(ProcessTxn(program, c).ops) :
    LET key == IF o.key # <<>> /\ o.key[1] = "owner" THEN Nft(o.key[2]) ELSE o.key
    IN o.op = "fail" \/ key \in header.inputs \cap header.outputs

\* Whatever reaches the pool declares every key its contract will write to the
\* map, in each program and for whatever cart the client found.
PoolDeclared ==
  \A n \in DOMAIN topic : topic[n].parses => Declared(topic[n].cmd, topic[n].header)

\* Types, and the chain of stored blocks: no gap but a torn block, no broken link
\* but the one behind it.
ChainInv == TypeOK /\ GapsTorn /\ ChainLinked

-----------------------------------------------------------------------------
(***************************************************************************)
(* The inductive invariant of ContractProofs, in parts.                    *)
(***************************************************************************)
\* main holds a block.
Making == pc \in {"execute", "store", "stored"}

\* The consumer: what it fetched lies before its position, what is in blocks
\* before the committed offset.
Consumed ==
  /\ ToSet(fetched) \subseteq 1 .. position
  /\ pc \in {"poll", "commit"} => offset <= position
  /\ pc \in {"idle", "down"} => fetched = <<>>
  /\ ~commitLost => InBlocks \subseteq 1 .. offset
  /\ ~commitLost /\ (pc = "build" \/ Making) => ToSet(fetched) \subseteq 1 .. offset

\* While it polls nothing it has passed is forgotten, committed or not.
Passed ==
  pc \in {"poll", "commit"} =>
    \A n \in 1 .. position : ~topic[n].parses \/ n \in InBlocks \cup ToSet(fetched) \cup lost

\* The number and the hash of the block main holds.
Numbered ==
  /\ Making => newBlock.num >= 0
  /\ pc \in {"execute", "store"} => newBlock.num \in {0, NextNum}
  /\ pc = "stored" => newBlock.num = db.latest
  /\ producer = "blockProducer.h" =>
       /\ 0 \notin DOMAIN db.blocks \cup torn
       /\ Making => newBlock.num # 0 /\ newBlock.hash = PreviousHash(newBlock.num - 1)

\* Without a block 0 the blocks are those up to LatestBlock, but for the one that is
\* half stored.
Fresh ==
  0 \notin DOMAIN db.blocks \cup torn /\ ~(pc = "stored" /\ newBlock.num = 0) =>
    \A n \in DOMAIN db.blocks : n <= db.latest /\ (pc = "stored" => n # db.latest)

\* Every request on its way to the pool declares its keys.
RequestsDeclared ==
  \A r \in DOMAIN requests : requests[r].kind = "transaction" =>
    Declared(requests[r].cmd, requests[r].header)

IInv == /\ TypeOK /\ OneBlockEach /\ NothingSkipped /\ GapsTorn /\ ChainLinked
        /\ QueueConnected /\ PoolDeclared
        /\ Consumed /\ Passed /\ Numbered /\ Fresh /\ RequestsDeclared

=============================================================================
