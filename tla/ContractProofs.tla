--------------------------- MODULE ContractProofs ---------------------------
(***************************************************************************)
(* Proofs about the two modules built on Contracts.  Ingress: the path of  *)
(* a transaction from a client into a stored block, for any commands, block*)
(* size and number of crashes.  LedgerNode: the execution of blocks by the *)
(* three programs, for any blocks of commands and any number of threads.   *)
(***************************************************************************)
EXTENDS Ingress, LedgerNode, FiniteSetTheorems, WellFoundedInduction, TLAPS

\* The parts of IInv: about the consumer, the stored blocks, the pool's headers.
ConsumerInv == OneBlockEach /\ NothingSkipped /\ Consumed /\ Passed
BlockInv == GapsTorn /\ ChainLinked /\ Numbered /\ Fresh
HeaderInv == PoolDeclared /\ RequestsDeclared

\* The elements of a longer sequence.
LEMMA AppendSet ==
  ASSUME NEW S, NEW s \in Seq(S), NEW x \in S
  PROVE  /\ ToSet(Append(s, x)) = ToSet(s) \cup {x}
         /\ Append(s, x) \in Seq(S) /\ Len(Append(s, x)) = Len(s) + 1
         /\ Append(s, x)[Len(s) + 1] = x
         /\ \A n \in 1 .. Len(s) : Append(s, x)[n] = s[n]
  <1>1. /\ Append(s, x) \in Seq(S) /\ Len(s) \in Nat /\ Len(Append(s, x)) = Len(s) + 1
        /\ DOMAIN s = 1 .. Len(s) /\ DOMAIN Append(s, x) = 1 .. Len(s) + 1
        /\ Append(s, x)[Len(s) + 1] = x /\ \A n \in 1 .. Len(s) : Append(s, x)[n] = s[n]
    OBVIOUS
  <1>2. ToSet(Append(s, x)) \subseteq ToSet(s) \cup {x}
    BY <1>1 DEF ToSet
  <1>3. ToSet(s) \subseteq ToSet(Append(s, x))
    <2>1. ASSUME NEW n \in 1 .. Len(s) PROVE s[n] \in ToSet(Append(s, x))
      <3>1. n \in 1 .. Len(s) + 1
        BY <1>1
      <3>2. QED
        BY <1>1, <3>1 DEF ToSet
    <2>2. QED
      BY <1>1, <2>1 DEF ToSet
  <1>4. x \in ToSet(Append(s, x))
    <2>1. Len(s) + 1 \in 1 .. Len(s) + 1
      BY <1>1
    <2>2. QED
      BY <1>1, <2>1 DEF ToSet
  <1>5. QED
    BY <1>1, <1>2, <1>3, <1>4

\* The elements of the empty sequence.
LEMMA NoElements == ToSet(<<>>) = {}
  BY DEF ToSet

\* Storing one more block.
LEMMA MoreBlocks ==
  ASSUME fed \in Seq(Seq(Nat)), fetched \in Seq(Nat), fed' = Append(fed, fetched)
  PROVE  /\ InBlocks' = InBlocks \cup ToSet(fetched)
         /\ DOMAIN fed' = DOMAIN fed \cup {Len(fed) + 1} /\ Len(fed) + 1 \notin DOMAIN fed
         /\ fed'[Len(fed) + 1] = fetched /\ \A n \in DOMAIN fed : fed'[n] = fed[n]
  <1>1. /\ Len(fed) \in Nat /\ DOMAIN fed = 1 .. Len(fed) /\ DOMAIN fed' = 1 .. Len(fed) + 1
        /\ fed'[Len(fed) + 1] = fetched /\ \A n \in 1 .. Len(fed) : fed'[n] = fed[n]
    OBVIOUS
  <1>2. DOMAIN fed' = DOMAIN fed \cup {Len(fed) + 1} /\ Len(fed) + 1 \notin DOMAIN fed
    BY <1>1
  <1>3. InBlocks' = InBlocks \cup ToSet(fetched)
    <2>1. ASSUME NEW x PROVE x \in InBlocks' <=> x \in InBlocks \cup ToSet(fetched)
      BY <1>1, <1>2 DEF InBlocks
    <2>2. QED
      BY <2>1
  <1>4. QED
    BY <1>1, <1>2, <1>3

\* What the numbers are.
LEMMA Numbers ==
  ASSUME TypeOK
  PROVE  /\ offset \in Nat /\ position \in Nat /\ Len(topic) \in Nat /\ offset <= Len(topic)
         /\ position <= Len(topic) /\ topic \in Seq(Messages) /\ DOMAIN topic = 1 .. Len(topic)
         /\ fetched \in Seq(Nat) /\ fed \in Seq(Seq(Nat))
  <1>1. /\ offset \in 0 .. Len(topic) /\ position \in 0 .. Len(topic) /\ topic \in Seq(Messages)
        /\ fetched \in Seq(Nat) /\ fed \in Seq(Seq(Nat))
    BY DEF TypeOK
  <1>2. Len(topic) \in Nat /\ DOMAIN topic = 1 .. Len(topic)
    BY <1>1
  <1>3. QED
    BY <1>1, <1>2

-----------------------------------------------------------------------------
\* The consumer's part, by a step that leaves it and the pool alone.
LEMMA KeepConsumer ==
  ASSUME ConsumerInv, UNCHANGED <<fetched, fed, commitLost, offset, position, topic, lost>>,
         pc' \in {"poll", "commit"} => pc \in {"poll", "commit"},
         pc' \in {"idle", "down"} => fetched = <<>>,
         pc' = "build" \/ Making' => pc = "build" \/ Making \/ fetched = <<>>
  PROVE  ConsumerInv'
  <1>1. OneBlockEach' /\ NothingSkipped'
    BY DEF ConsumerInv, OneBlockEach, NothingSkipped, InBlocks
  <1>2. Passed'
    BY DEF ConsumerInv, Passed, InBlocks
  <1>3. Consumed'
    <2>1. InBlocks' = InBlocks
      BY DEF InBlocks
    <2>2. Consumed
      BY DEF ConsumerInv
    <2>3. ~commitLost /\ fetched = <<>> => ToSet(fetched) \subseteq 1 .. offset
      BY NoElements
    <2>4. QED
      BY <2>1, <2>2, <2>3 DEF Consumed
  <1>4. QED
    BY <1>1, <1>2, <1>3 DEF ConsumerInv

\* The consumer's part when the pool grows.
LEMMA PoolGrows ==
  ASSUME TypeOK, ConsumerInv, UNCHANGED <<fetched, fed, commitLost, offset, position, lost, pc>>,
         NEW m \in Messages, topic' = Append(topic, m)
  PROVE  ConsumerInv'
  <1>1. \A n \in 1 .. offset : topic'[n] = topic[n]
    BY Numbers, AppendSet
  <1>2. \A n \in 1 .. position : topic'[n] = topic[n]
    BY Numbers, AppendSet
  <1>3. InBlocks' = InBlocks /\ (Making' <=> Making)
    BY DEF InBlocks, Making
  <1>4. OneBlockEach' /\ NothingSkipped'
    BY <1>1, <1>3 DEF ConsumerInv, OneBlockEach, NothingSkipped
  <1>5. Passed'
    BY <1>2, <1>3 DEF ConsumerInv, Passed
  <1>6. Consumed'
    BY <1>3 DEF ConsumerInv, Consumed
  <1>7. QED
    BY <1>4, <1>5, <1>6 DEF ConsumerInv

\* The blocks' part, by a step that stores none.
LEMMA KeepBlocks ==
  ASSUME BlockInv, UNCHANGED <<producer, torn>>,
         db'.latest = db.latest, db'.blocks = db.blocks,
         \/ pc' = pc /\ UNCHANGED newBlock
         \/ pc # "stored" /\ ~Making'
         \/ pc = "execute" /\ pc' = "store" /\ UNCHANGED newBlock
  PROVE  BlockInv'
  <1>0. GapsTorn /\ ChainLinked /\ Numbered /\ Fresh
    BY DEF BlockInv
  <1>1. GapsTorn'
    BY <1>0 DEF GapsTorn, Making
  <1>2. ChainLinked'
    BY <1>0 DEF ChainLinked
  <1>3. Numbered'
    <2>1. NextNum' = NextNum /\ \A n : PreviousHash(n)' = PreviousHash(n)
      BY DEF NextNum, LatestBlockNum, PreviousHash, getBlock
    <2>2. QED
      BY <1>0, <2>1 DEF Numbered, Making
  <1>4. Fresh'
    BY <1>0 DEF Fresh, Making
  <1>5. QED
    BY <1>1, <1>2, <1>3, <1>4 DEF BlockInv

\* The sender's part, by a step of the others.
LEMMA KeepQueue ==
  ASSUME QueueConnected, UNCHANGED blockQueue,
         pc' # "ended" => pc # "ended" /\ db'.pending = db.pending
  PROVE  QueueConnected'
  BY DEF QueueConnected

\* The headers, by a step that posts and submits nothing.
LEMMA KeepHeaders ==
  ASSUME HeaderInv, UNCHANGED <<program, requests, topic>>
  PROVE  HeaderInv'
  BY DEF HeaderInv, PoolDeclared, RequestsDeclared, Declared

\* The parts are the whole.
LEMMA Parts ==
  IInv <=> TypeOK /\ ConsumerInv /\ BlockInv /\ QueueConnected /\ HeaderInv
  BY DEF IInv, ConsumerInv, BlockInv, HeaderInv

-----------------------------------------------------------------------------
(***************************************************************************)
(* Clients and contracts.                                                  *)
(***************************************************************************)
\* A header declares the keys of a sequence of accesses.
Covers(h, ops) ==
  \A o \in ToSet(ops) :
    LET key == IF o.key # <<>> /\ o.key[1] = "owner" THEN Nft(o.key[2]) ELSE o.key
    IN o.op = "fail" \/ key \in h.inputs \cap h.outputs

\* A key that is not an owner's name is declared as it is.
LEMMA PlainKey ==
  ASSUME NEW h, NEW kind \in STRING, NEW name, NEW op, NEW hold, kind # "owner",
         <<kind, name>> \in h.inputs \cap h.outputs,
         NEW o, o = [op |-> op, key |-> <<kind, name>>, hold |-> hold]
  PROVE  LET key == IF o.key # <<>> /\ o.key[1] = "owner" THEN Nft(o.key[2]) ELSE o.key
         IN o.op = "fail" \/ key \in h.inputs \cap h.outputs
  <1>1. o.key = <<kind, name>> /\ o.key[1] = kind
    OBVIOUS
  <1>2. QED
    BY <1>1

\* The wallet's clients declare what its processors access.
LEMMA WalletCovered ==
  ASSUME NEW c, c.verb \in {"deposit", "withdraw", "transfer"}
  PROVE  Covers(WalletHeader(c), WalletOps(c))
  <1>1. CASE c.verb \in {"deposit", "withdraw"}
    <2>1. WalletOps(c) = <<Op("load", Account(c.a)), Op("put", Account(c.a))>>
      BY <1>1 DEF WalletOps
    <2>2. ToSet(WalletOps(c)) = {Op("load", Account(c.a)), Op("put", Account(c.a))}
      BY <2>1 DEF ToSet
    <2>3. Account(c.a) \in WalletHeader(c).inputs \cap WalletHeader(c).outputs
      BY <1>1 DEF WalletHeader, ReadWrite, Header
    <2>4. QED
      BY <2>2, <2>3, PlainKey DEF Covers, Op, Account
  <1>2. CASE c.verb = "transfer"
    <2>1. WalletOps(c) = <<Op("load", Account(c.a)), Op("load", Account(c.b)),
                           Op("put", Account(c.a)), Op("put", Account(c.b))>>
      BY <1>2 DEF WalletOps
    <2>2. ToSet(WalletOps(c)) = {Op("load", Account(c.a)), Op("load", Account(c.b)),
                                 Op("put", Account(c.a)), Op("put", Account(c.b))}
      BY <2>1 DEF ToSet
    <2>3. \A k \in {Account(c.a), Account(c.b)} :
            k \in WalletHeader(c).inputs \cap WalletHeader(c).outputs
      BY <1>2 DEF WalletHeader, ReadWrite, Header
    <2>4. QED
      BY <2>2, <2>3, PlainKey DEF Covers, Op, Account
  <1>3. QED
    BY <1>1, <1>2

\* The voting client declares what its processors access.
LEMMA VotingCovered ==
  ASSUME NEW c,
         c.verb \in {"registerVoter", "registerCandidate", "transferVote", "castVote"}
  PROVE  Covers(VotingHeader(c), VotingOps(c))
  <1> DEFINE Both == VotingHeader(c).inputs \cap VotingHeader(c).outputs
  <1>1. CASE c.verb = "registerVoter"
    <2>1. ToSet(VotingOps(c)) = {Op("enter", Voter(c.a))} /\ Voter(c.a) \in Both
      BY <1>1 DEF VotingOps, VotingHeader, ReadWrite, Header, ToSet
    <2>2. QED
      BY <2>1, PlainKey DEF Covers, Op, Voter
  <1>2. CASE c.verb = "registerCandidate"
    <2>1. ToSet(VotingOps(c)) = {Op("enter", Candidate(c.a))} /\ Candidate(c.a) \in Both
      BY <1>2 DEF VotingOps, VotingHeader, ReadWrite, Header, ToSet
    <2>2. QED
      BY <2>1, PlainKey DEF Covers, Op, Candidate
  <1>3. CASE c.verb = "transferVote"
    <2>1. VotingOps(c) = <<Op("load", Voter(c.a)), Op("load", Voter(c.b)),
                           Op("put", Voter(c.a)), Op("put", Voter(c.b))>>
      BY <1>3 DEF VotingOps
    <2>2. ToSet(VotingOps(c)) = {Op("load", Voter(c.a)), Op("load", Voter(c.b)),
                                 Op("put", Voter(c.a)), Op("put", Voter(c.b))}
      BY <2>1 DEF ToSet
    <2>3. Voter(c.a) \in Both /\ Voter(c.b) \in Both
      BY <1>3 DEF VotingHeader, ReadWrite, Header
    <2>4. QED
      BY <2>2, <2>3, PlainKey DEF Covers, Op, Voter
  <1>4. CASE c.verb = "castVote"
    <2>1. VotingOps(c) = <<Op("load", Voter(c.a)), Op("load", Candidate(c.b)),
                           Op("put", Voter(c.a)), Op("put", Candidate(c.b))>>
      BY <1>4 DEF VotingOps
    <2>2. ToSet(VotingOps(c)) = {Op("load", Voter(c.a)), Op("load", Candidate(c.b)),
                                 Op("put", Voter(c.a)), Op("put", Candidate(c.b))}
      BY <2>1 DEF ToSet
    <2>3. Voter(c.a) \in Both /\ Candidate(c.b) \in Both
      BY <1>4 DEF VotingHeader, ReadWrite, Header
    <2>4. QED
      BY <2>2, <2>3, PlainKey DEF Covers, Op, Voter, Candidate
  <1>5. QED
    BY <1>1, <1>2, <1>3, <1>4

\* An owner's list is declared under the owner's address.
LEMMA OwnerKey ==
  ASSUME NEW h, NEW name, NEW op, NEW hold, Nft(name) \in h.inputs \cap h.outputs,
         NEW o, o = [op |-> op, key |-> Owner(name), hold |-> hold]
  PROVE  LET key == IF o.key # <<>> /\ o.key[1] = "owner" THEN Nft(o.key[2]) ELSE o.key
         IN o.op = "fail" \/ key \in h.inputs \cap h.outputs
  <1>1. o.key = <<"owner", name>> /\ o.key[1] = "owner" /\ o.key[2] = name /\ o.key # <<>>
    BY DEF Owner
  <1>2. QED
    BY <1>1

\* The nft clients declare what the processors of all programs access.
LEMMA NftCovered ==
  ASSUME NEW c, c.verb \in {"create", "transfer"}
  PROVE  Covers(NftHeader(c), NftOpsHeld(c)) /\ Covers(NftHeader(c), NftOpsScoped(c))
  <1> DEFINE Both == NftHeader(c).inputs \cap NftHeader(c).outputs
  <1>1. CASE c.x = "missing"
    <2>1. NftOpsHeld(c) = Fail /\ NftOpsScoped(c) = Fail
      BY <1>1 DEF NftOpsHeld, NftOpsScoped
    <2>2. ToSet(Fail) = {Op("fail", <<>>)}
      BY DEF Fail, ToSet
    <2>3. QED
      BY <2>1, <2>2 DEF Covers, Op
  <1>2. CASE c.x # "missing" /\ c.verb = "create"
    <2>1. /\ NftOpsHeld(c) = <<Hold("load", Owner(c.a)), Op("put", Owner(c.a))>>
          /\ NftOpsScoped(c) = <<Hold("load", Owner(c.a)), Op("put", Owner(c.a))>>
      BY <1>2 DEF NftOpsHeld, NftOpsScoped
    <2>2. /\ ToSet(NftOpsHeld(c)) = {Hold("load", Owner(c.a)), Op("put", Owner(c.a))}
          /\ ToSet(NftOpsScoped(c)) = {Hold("load", Owner(c.a)), Op("put", Owner(c.a))}
      BY <2>1 DEF ToSet
    <2>3. Nft(c.a) \in Both
      BY <1>2 DEF NftHeader, Header
    <2>4. QED
      BY <2>2, <2>3, OwnerKey DEF Covers, Op, Hold
  <1>3. CASE c.x # "missing" /\ c.verb = "transfer"
    <2>1. /\ NftOpsHeld(c) = <<Hold("load", Owner(c.a)), Op("put", Owner(c.a)),
                               Hold("load", Owner(c.b)), Op("put", Owner(c.b))>>
          /\ NftOpsScoped(c) = <<Op("find", Owner(c.a)), Op("put", Owner(c.a)),
                                 Op("load", Owner(c.b)), Op("put", Owner(c.b))>>
      BY <1>3 DEF NftOpsHeld, NftOpsScoped
    <2>2. /\ ToSet(NftOpsHeld(c)) = {Hold("load", Owner(c.a)), Op("put", Owner(c.a)),
                                     Hold("load", Owner(c.b)), Op("put", Owner(c.b))}
          /\ ToSet(NftOpsScoped(c)) = {Op("find", Owner(c.a)), Op("put", Owner(c.a)),
                                       Op("load", Owner(c.b)), Op("put", Owner(c.b))}
      BY <2>1 DEF ToSet
    <2>3. Nft(c.a) \in Both /\ Nft(c.b) \in Both
      BY <1>3 DEF NftHeader, Header
    <2>4. QED
      BY <2>2, <2>3, OwnerKey DEF Covers, Op, Hold
  <1>4. QED
    BY <1>1, <1>2, <1>3

\* The shop's clients declare what its processors access, whatever cart they found.
LEMMA ECommCovered ==
  ASSUME NEW c, NEW cart, c.verb \in {"addToCart", "removeFromCart", "checkout", "refillItem"}
  PROVE  Covers(ECommHeader(c, cart), ECommOps(c))
  <1> DEFINE Both == ECommHeader(c, cart).inputs \cap ECommHeader(c, cart).outputs
  <1>1. CASE c.verb \in {"addToCart", "removeFromCart", "checkout"}
    <2>1. ECommOps(c) = <<Op("load", Cart(c.a)), Op("put", Cart(c.a))>>
      BY <1>1 DEF ECommOps
    <2>2. ToSet(ECommOps(c)) = {Op("load", Cart(c.a)), Op("put", Cart(c.a))}
      BY <2>1 DEF ToSet
    <2>3. Cart(c.a) \in Both
      <3>1. CASE c.verb = "checkout"
        <4>1. ECommHeader(c, cart) =
                ReadWrite({Cart(c.a)} \cup {Item(cart[i][1]) : i \in DOMAIN cart})
          BY <3>1 DEF ECommHeader
        <4>2. QED
          BY <4>1 DEF ReadWrite, Header
      <3>2. CASE c.verb # "checkout"
        <4>1. ECommHeader(c, cart) = ReadWrite({Cart(c.a), Item(c.x)})
          BY <1>1, <3>2 DEF ECommHeader
        <4>2. QED
          BY <4>1 DEF ReadWrite, Header
      <3>3. QED
        BY <3>1, <3>2
    <2>4. QED
      BY <2>2, <2>3, PlainKey DEF Covers, Op, Cart
  <1>2. CASE c.verb = "refillItem"
    <2>1. ECommOps(c) = <<Op("load", Item(c.x)), Op("put", Item(c.x))>>
      BY <1>2 DEF ECommOps
    <2>2. ToSet(ECommOps(c)) = {Op("load", Item(c.x)), Op("put", Item(c.x))}
      BY <2>1 DEF ToSet
    <2>3. ECommHeader(c, cart) = ReadWrite({Item(c.x)})
      BY <1>2 DEF ECommHeader
    <2>4. Item(c.x) \in Both
      BY <2>3 DEF ReadWrite, Header
    <2>5. QED
      BY <2>2, <2>4, PlainKey DEF Covers, Op, Item
  <1>3. QED
    BY <1>1, <1>2

\* What a REST client posts declares what the processor of the same program accesses.
LEMMA ClientDeclares ==
  ASSUME program \in Programs, NEW c, NEW cart, NEW words,
         restClient(program, c, cart, words).to = "server"
  PROVE  Declared(c, restClient(program, c, cart, words).header)
  <1> DEFINE client == restClient(program, c, cart, words)
  <1>0. Declared(c, client.header) <=> Covers(client.header, ProcessTxn(program, c).ops)
    BY DEF Declared, Covers
  <1>1. CASE c.family = "wallet"
    <2>1. client = RestWallet(c)
      BY <1>1 DEF restClient, walletRestClientD, walletRestClientP, walletRestClientS, Programs
    <2>2. ProcessTxn(program, c).ops = WalletOps(c)
      BY <1>1 DEF ProcessTxn, walletProcessorD, walletProcessorP, walletProcessorS, Processor,
                  Programs
    <2>3. c.verb \in {"deposit", "withdraw", "transfer"} /\ client.header = WalletHeader(c)
      BY <2>1 DEF RestWallet, Posts, Local
    <2>4. QED
      BY <1>0, <2>2, <2>3, WalletCovered
  <1>2. CASE c.family = "voting" /\ program = "distributed"
    <2>1. client = RestVoting(c)
      BY <1>2 DEF restClient, votingRestClientD
    <2>2. ProcessTxn(program, c).ops = VotingOps(c)
      BY <1>2 DEF ProcessTxn, votingProcessorD, Processor
    <2>3. /\ c.verb \in {"registerVoter", "registerCandidate", "transferVote", "castVote"}
          /\ client.header = VotingHeader(c)
      BY <2>1 DEF RestVoting, Posts, Local
    <2>4. QED
      BY <1>0, <2>2, <2>3, VotingCovered
  <1>3. CASE c.family = "nft"
    <2>1. client = RestNft(c)
      BY <1>3 DEF restClient, nftRestClientD, nftRestClientP, nftRestClientS, Programs
    <2>2. ProcessTxn(program, c).ops \in {NftOpsHeld(c), NftOpsScoped(c)}
      BY <1>3 DEF ProcessTxn, nftProcessorD, nftProcessorP, nftProcessorS, Processor, Programs
    <2>3. c.verb \in {"create", "transfer"} /\ client.header = NftHeader(c)
      BY <2>1 DEF RestNft, Posts, Local
    <2>4. QED
      BY <1>0, <2>2, <2>3, NftCovered
  <1>4. CASE c.family = "eComm"
    <2>1. \E w : client = RestEComm(c, cart, w)
      BY <1>4 DEF restClient, eCommRestClientD, eCommRestClientP, eCommRestClientS, Programs
    <2>2. ProcessTxn(program, c).ops = ECommOps(c)
      BY <1>4 DEF ProcessTxn, eCommProcessorD, eCommProcessorP, eCommProcessorS, Processor, Programs
    <2>3. PICK w : /\ c.verb \in {"addToCart", "removeFromCart", "checkout", "refillItem"}
                   /\ client.header = ECommHeader(c, w)
      BY <2>1 DEF RestEComm, Posts, Local
    <2>4. QED
      BY <1>0, <2>2, <2>3, ECommCovered
  <1>5. CASE /\ c.family \notin {"wallet", "nft", "eComm"}
             /\ ~(c.family = "voting" /\ program = "distributed")
    <2>1. client = Local
      BY <1>5 DEF restClient
    <2>2. QED
      BY <2>1 DEF Local
  <1>6. QED
    BY <1>1, <1>2, <1>3, <1>4, <1>5

-----------------------------------------------------------------------------
(***************************************************************************)
(* The types, in parts.                                                    *)
(***************************************************************************)
FixedTypes == program \in Programs /\ producer \in Producers
ServerTypes == requests \in Seq(Requests) /\ Len(requests) <= MaxRequests /\ topic \in Seq(Messages)
ConsumerTypes ==
  /\ offset \in 0 .. Len(topic) /\ position \in 0 .. Len(topic)
  /\ polls \in 0 .. MaxTxns /\ fetched \in Seq(Nat) /\ Len(fetched) <= polls
  /\ lost \subseteq DOMAIN topic /\ fed \in Seq(Seq(Nat)) /\ commitLost \in BOOLEAN
MainTypes ==
  /\ pc \in {"idle", "poll", "commit", "build", "execute", "store", "stored", "down", "ended"}
  /\ newBlock.num \in Nat \cup {-1} /\ count \in 0 .. MaxBlocks /\ torn \subseteq Nat
  /\ pc \notin {"idle", "down", "ended"} => count < MaxBlocks
DbTypes ==
  /\ db = [latest |-> db.latest, blocks |-> db.blocks, pending |-> db.pending]
  /\ db.latest \in Nat \cup {-1} /\ DOMAIN db.blocks \subseteq Nat
  /\ db.blocks = [n \in DOMAIN db.blocks |-> db.blocks[n]]
SenderTypes == generated \in Nat /\ blockQueue \in Seq(Nat \ {0})

\* The parts are the whole.
LEMMA TypeParts ==
  TypeOK <=> FixedTypes /\ ServerTypes /\ ConsumerTypes /\ MainTypes /\ DbTypes /\ SenderTypes
  BY DEF TypeOK, FixedTypes, ServerTypes, ConsumerTypes, MainTypes, DbTypes, SenderTypes

\* A part stays as it is when nobody touches it.
LEMMA KeepTypes ==
  /\ FixedTypes /\ UNCHANGED <<program, producer>> => FixedTypes'
  /\ ServerTypes /\ UNCHANGED <<requests, topic, producer>> => ServerTypes'
  /\ (ConsumerTypes /\ UNCHANGED <<topic, offset, position, polls, fetched, lost, fed, commitLost>>
        => ConsumerTypes')
  /\ MainTypes /\ UNCHANGED <<pc, newBlock, count, torn>> => MainTypes'
  /\ DbTypes /\ UNCHANGED db => DbTypes'
  /\ SenderTypes /\ UNCHANGED <<generated, blockQueue>> => SenderTypes'
  <1>1. ServerTypes /\ UNCHANGED <<requests, topic, producer>> => ServerTypes'
    BY DEF ServerTypes, MaxRequests
  <1>2. QED
    BY <1>1 DEF FixedTypes, ConsumerTypes, MainTypes, DbTypes, SenderTypes

-----------------------------------------------------------------------------
\* main starts with an empty pool and an empty database.
LEMMA InitIInv == Init => IInv
  <1> SUFFICES ASSUME Init PROVE IInv
    OBVIOUS
  <1>0. /\ program \in Programs /\ producer \in Producers /\ requests = <<>> /\ topic = <<>>
        /\ offset = 0 /\ position = 0 /\ pc = "idle" /\ polls = 0 /\ fetched = <<>>
        /\ newBlock = NoBlock /\ db = EmptyDB /\ blockQueue = <<>> /\ generated = 0 /\ count = 0
        /\ commitLost = FALSE /\ lost = {} /\ torn = {} /\ fed = <<>>
    BY DEF Init
  <1>1. TypeOK
    <2>1. FixedTypes /\ SenderTypes
      BY <1>0 DEF FixedTypes, SenderTypes
    <2>2. ServerTypes
      <3>1. MaxRequests \in Nat
        BY CommandsAssumption DEF MaxRequests
      <3>2. QED
        BY <1>0, <3>1 DEF ServerTypes
    <2>3. ConsumerTypes /\ MainTypes
      <3>1. newBlock.num = -1 /\ Len(topic) = 0 /\ Len(fetched) = 0 /\ commitLost \in BOOLEAN
        BY <1>0 DEF NoBlock
      <3>2. fetched \in Seq(Nat) /\ fed \in Seq(Seq(Nat))
        BY <1>0
      <3>3. polls \in 0 .. MaxTxns /\ count \in 0 .. MaxBlocks
        BY <1>0, BoundsAssumption
      <3>4. QED
        BY <1>0, <3>1, <3>2, <3>3 DEF ConsumerTypes, MainTypes
    <2>4. DbTypes
      <3>1. /\ db.latest = -1 /\ db.blocks = [n \in {} |-> 0] /\ db.pending = {}
            /\ db = [latest |-> -1, blocks |-> [n \in {} |-> 0], pending |-> {}]
        BY <1>0 DEF EmptyDB
      <3>2. db = [latest |-> db.latest, blocks |-> db.blocks, pending |-> db.pending]
        BY <3>1
      <3>3. DOMAIN db.blocks = {} /\ db.blocks = [n \in DOMAIN db.blocks |-> db.blocks[n]]
        BY <3>1
      <3>4. QED
        BY <3>1, <3>2, <3>3 DEF DbTypes
    <2>5. QED
      BY <2>1, <2>2, <2>3, <2>4, TypeParts
  <1>2. ConsumerInv
    <2>1. InBlocks = {} /\ ToSet(fetched) = {}
      BY <1>0, NoElements DEF InBlocks
    <2>2. OneBlockEach /\ NothingSkipped
      BY <1>0, <2>1 DEF OneBlockEach, NothingSkipped
    <2>3. Consumed /\ Passed
      BY <1>0, <2>1 DEF Consumed, Passed
    <2>4. QED
      BY <2>2, <2>3 DEF ConsumerInv
  <1>3. BlockInv
    <2>1. db.latest = -1 /\ DOMAIN db.blocks = {}
      BY <1>0 DEF EmptyDB
    <2>2. QED
      BY <1>0, <2>1 DEF BlockInv, GapsTorn, ChainLinked, Numbered, Fresh, Making
  <1>4. QueueConnected
    BY <1>0, NoElements DEF QueueConnected
  <1>5. HeaderInv
    BY <1>0 DEF HeaderInv, PoolDeclared, RequestsDeclared
  <1>6. QED
    BY <1>1, <1>2, <1>3, <1>4, <1>5, Parts

-----------------------------------------------------------------------------
(***************************************************************************)
(* Clients and server.                                                     *)
(***************************************************************************)
\* A step of the clients and the server leaves the node alone.
LEMMA ServerFrame ==
  ASSUME IInv,
         UNCHANGED <<program, producer, offset, position, pc, polls, fetched, newBlock, db>>,
         UNCHANGED <<blockQueue, generated, count, commitLost, lost, torn, fed>>,
         ServerTypes', HeaderInv',
         topic' = topic \/ \E m \in Messages : topic' = Append(topic, m)
  PROVE  IInv'
  <1>0. TypeOK /\ ConsumerInv /\ BlockInv /\ QueueConnected
    BY Parts
  <1>1. ConsumerTypes'
    <2>1. ConsumerTypes /\ topic \in Seq(Messages)
      BY <1>0, TypeParts DEF ServerTypes
    <2>2. Len(topic') \in Nat /\ Len(topic') >= Len(topic) /\ DOMAIN topic \subseteq DOMAIN topic'
      <3>1. CASE topic' = topic
        BY <2>1, <3>1
      <3>2. ASSUME NEW m \in Messages, topic' = Append(topic, m)
            PROVE  /\ Len(topic') \in Nat /\ Len(topic') >= Len(topic)
                   /\ DOMAIN topic \subseteq DOMAIN topic'
        BY <2>1, <3>2
      <3>3. QED
        BY <3>1, <3>2
    <2>3. Len(topic) \in Nat
      BY <2>1
    <2>4. /\ offset \in 0 .. Len(topic) /\ position \in 0 .. Len(topic) /\ lost \subseteq DOMAIN topic
          /\ polls \in 0 .. MaxTxns /\ fetched \in Seq(Nat) /\ Len(fetched) <= polls
          /\ fed \in Seq(Seq(Nat)) /\ commitLost \in BOOLEAN
      BY <2>1 DEF ConsumerTypes
    <2>5. offset \in 0 .. Len(topic') /\ position \in 0 .. Len(topic')
      BY <2>2, <2>3, <2>4
    <2>6. QED
      BY <2>2, <2>4, <2>5 DEF ConsumerTypes
  <1>2. TypeOK'
    BY <1>0, <1>1, TypeParts, KeepTypes DEF FixedTypes, MainTypes, DbTypes, SenderTypes, TypeOK,
       ServerTypes, ConsumerTypes
  <1>3. ConsumerInv'
    <2>1. CASE topic' = topic
      BY <1>0, <2>1, KeepConsumer DEF Making, ConsumerInv, Consumed
    <2>2. CASE \E m \in Messages : topic' = Append(topic, m)
      BY <1>0, <2>2, PoolGrows
    <2>3. QED
      BY <2>1, <2>2
  <1>4. BlockInv' /\ QueueConnected'
    BY <1>0, KeepBlocks, KeepQueue
  <1>5. QED
    BY <1>2, <1>3, <1>4, Parts DEF IInv, ConsumerInv, BlockInv, HeaderInv

\* A request that is added to the server's.
LEMMA PostFrame ==
  ASSUME IInv, NEW q \in Requests, q.kind = "transaction" => Declared(q.cmd, q.header),
         Len(requests) < MaxRequests, requests' = Append(requests, q),
         UNCHANGED <<program, producer, topic, offset, position, pc, polls, fetched, newBlock, db>>,
         UNCHANGED <<blockQueue, generated, count, commitLost, lost, torn, fed>>
  PROVE  IInv'
  <1>0. ServerTypes /\ HeaderInv /\ requests \in Seq(Requests)
    BY Parts, TypeParts DEF ServerTypes
  <1>1. /\ requests' \in Seq(Requests) /\ Len(requests') = Len(requests) + 1 /\ Len(requests) \in Nat
        /\ requests'[Len(requests) + 1] = q
        /\ \A n \in 1 .. Len(requests) : requests'[n] = requests[n]
        /\ DOMAIN requests' = 1 .. Len(requests) + 1 /\ DOMAIN requests = 1 .. Len(requests)
    BY <1>0
  <1>2. ServerTypes'
    <2>1. MaxRequests' = MaxRequests /\ MaxRequests \in Nat
      BY CommandsAssumption DEF MaxRequests
    <2>2. QED
      BY <1>0, <1>1, <2>1 DEF ServerTypes
  <1>3. HeaderInv'
    <2>1. \A c, h : Declared(c, h)' <=> Declared(c, h)
      BY DEF Declared
    <2>2. PoolDeclared'
      BY <1>0, <2>1 DEF HeaderInv, PoolDeclared
    <2>3. ASSUME NEW n \in DOMAIN requests', requests'[n].kind = "transaction"
          PROVE  Declared(requests'[n].cmd, requests'[n].header)
      <3>1. CASE n = Len(requests) + 1
        BY <1>1, <2>3, <3>1
      <3>2. CASE n \in 1 .. Len(requests)
        BY <1>0, <1>1, <2>3, <3>2 DEF HeaderInv, RequestsDeclared
      <3>3. QED
        BY <1>1, <2>3, <3>1, <3>2
    <2>4. RequestsDeclared'
      BY <2>1, <2>3 DEF RequestsDeclared
    <2>5. QED
      BY <2>2, <2>4 DEF HeaderInv
  <1>4. QED
    BY <1>2, <1>3, ServerFrame

\* A client posts its transaction.
LEMMA RunClientStep ==
  ASSUME IInv, NEW c \in Lines, NEW cart \in Carts, NEW words \in Carts, RunClient(c, cart, words)
  PROVE  IInv'
  <1>0. program \in Programs
    BY Parts, TypeParts DEF FixedTypes
  <1>1. PICK h : h = restClient(program, c, cart, words).header
    OBVIOUS
  <1>2. h \in Headers
    BY <1>0, <1>1 DEF Headers
  <1>3. PICK q \in Requests : q = Request("transaction", c, h) /\ q.cmd = c /\ q.header = h
    <2>1. Request("transaction", c, h) \in Requests
      BY <1>2 DEF Request, Requests
    <2>2. Request("transaction", c, h).cmd = c /\ Request("transaction", c, h).header = h
      BY DEF Request
    <2>3. QED
      BY <2>1, <2>2
  <1>4. Declared(c, h)
    BY <1>0, <1>1, ClientDeclares DEF RunClient
  <1>5. Len(requests) < MaxRequests /\ requests' = Append(requests, q)
    BY <1>1, <1>3 DEF RunClient
  <1>6. /\ UNCHANGED <<program, producer, topic, offset, position, pc, polls, fetched, newBlock, db>>
        /\ UNCHANGED <<blockQueue, generated, count, commitLost, lost, torn, fed>>
    BY DEF RunClient, fixed, sender, history
  <1>7. QED
    BY <1>3, <1>4, <1>5, <1>6, PostFrame

\* Something else is posted.
LEMMA PostOtherStep ==
  ASSUME IInv, NEW k \in {"malformed", "read-only"}, PostOther(k)
  PROVE  IInv'
  <1>1. NoCommand \in Lines /\ Header({}, {}) \in Headers
    BY DEF Lines, Headers
  <1>2. PICK q \in Requests : q = Request(k, NoCommand, Header({}, {})) /\ q.kind = k
    <2>1. Request(k, NoCommand, Header({}, {})) \in Requests
      BY <1>1 DEF Request, Requests
    <2>2. Request(k, NoCommand, Header({}, {})).kind = k
      BY DEF Request
    <2>3. QED
      BY <2>1, <2>2
  <1>3. Len(requests) < MaxRequests /\ requests' = Append(requests, q)
    BY <1>2 DEF PostOther
  <1>4. /\ UNCHANGED <<program, producer, topic, offset, position, pc, polls, fetched, newBlock, db>>
        /\ UNCHANGED <<blockQueue, generated, count, commitLost, lost, torn, fed>>
    BY DEF PostOther, fixed, sender, history
  <1>5. QED
    BY <1>2, <1>3, <1>4, PostFrame

\* Answering a request changes neither its kind nor its header.
LEMMA AnsweredIs ==
  ASSUME NEW o \in Requests, NEW a \in {200, 400}
  PROVE  /\ Answered(o, a) \in Requests /\ Answered(o, a).kind = o.kind
         /\ Answered(o, a).cmd = o.cmd /\ Answered(o, a).header = o.header
  BY DEF Answered, Requests

\* So the requests stay requests that declare their keys.
LEMMA AnswerFacts ==
  ASSUME IInv, NEW r \in DOMAIN requests, NEW q \in Requests, requests' = [requests EXCEPT ![r] = q],
         q.kind = requests[r].kind /\ q.cmd = requests[r].cmd /\ q.header = requests[r].header,
         program' = program, producer' = producer, topic' \in Seq(Messages)
  PROVE  ServerTypes' /\ RequestsDeclared'
  <1>0. ServerTypes /\ HeaderInv /\ requests \in Seq(Requests)
    BY Parts, TypeParts DEF ServerTypes
  <1>1. /\ requests' \in Seq(Requests) /\ Len(requests') = Len(requests)
        /\ DOMAIN requests' = DOMAIN requests
        /\ \A n \in DOMAIN requests : requests'[n] = IF n = r THEN q ELSE requests[n]
    BY <1>0
  <1>2. ServerTypes'
    BY <1>0, <1>1 DEF ServerTypes, MaxRequests
  <1>3. \A c, h : Declared(c, h)' <=> Declared(c, h)
    BY DEF Declared
  <1>4. RequestsDeclared'
    BY <1>0, <1>1, <1>3 DEF HeaderInv, RequestsDeclared
  <1>5. QED
    BY <1>2, <1>4

\* The server answers at once ...
LEMMA AnswerStep ==
  ASSUME IInv, NEW r \in DOMAIN requests, AnswerAtOnce(r)
  PROVE  IInv'
  <1>0. HeaderInv /\ topic \in Seq(Messages) /\ requests \in Seq(Requests)
    BY Parts, TypeParts DEF ServerTypes
  <1>1. PICK q \in Requests :
          /\ requests' = [requests EXCEPT ![r] = q] /\ q.kind = requests[r].kind
          /\ q.cmd = requests[r].cmd /\ q.header = requests[r].header
    <2>1. requests[r] \in Requests
      BY <1>0
    <2>2. CASE requests[r].kind = "malformed"
      <3>1. requests' = [requests EXCEPT ![r] = Answered(requests[r], 400)]
        BY <2>2 DEF AnswerAtOnce
      <3>2. PICK q \in Requests :
              /\ q = Answered(requests[r], 400) /\ q.kind = requests[r].kind
              /\ q.cmd = requests[r].cmd /\ q.header = requests[r].header
        BY <2>1, AnsweredIs
      <3>3. requests' = [requests EXCEPT ![r] = q]
        BY <3>1, <3>2
      <3>4. QED
        BY <3>2, <3>3
    <2>3. CASE requests[r].kind # "malformed"
      <3>1. requests' = [requests EXCEPT ![r] = Answered(requests[r], 200)]
        BY <2>3 DEF AnswerAtOnce
      <3>2. PICK q \in Requests :
              /\ q = Answered(requests[r], 200) /\ q.kind = requests[r].kind
              /\ q.cmd = requests[r].cmd /\ q.header = requests[r].header
        BY <2>1, AnsweredIs
      <3>3. requests' = [requests EXCEPT ![r] = q]
        BY <3>1, <3>2
      <3>4. QED
        BY <3>2, <3>3
    <2>4. QED
      BY <2>2, <2>3
  <1>2. /\ UNCHANGED <<program, producer, topic, offset, position, pc, polls, fetched, newBlock, db>>
        /\ UNCHANGED <<blockQueue, generated, count, commitLost, lost, torn, fed>>
    BY DEF AnswerAtOnce, fixed, sender, history
  <1>3. ServerTypes' /\ RequestsDeclared'
    BY <1>0, <1>1, <1>2, AnswerFacts
  <1>4. PoolDeclared'
    BY <1>0, <1>2 DEF HeaderInv, PoolDeclared, Declared
  <1>5. QED
    BY <1>2, <1>3, <1>4, ServerFrame DEF HeaderInv

\* The pool's headers when a message is added to it.
LEMMA MoreDeclared ==
  ASSUME PoolDeclared, topic \in Seq(Messages), UNCHANGED program, NEW m \in Messages,
         topic' = Append(topic, m), m.parses => Declared(m.cmd, m.header)
  PROVE  PoolDeclared'
  <1>1. /\ Len(topic) \in Nat /\ topic'[Len(topic) + 1] = m
        /\ \A n \in 1 .. Len(topic) : topic'[n] = topic[n]
        /\ DOMAIN topic' = 1 .. Len(topic) + 1 /\ DOMAIN topic = 1 .. Len(topic)
    OBVIOUS
  <1>2. \A c, h : Declared(c, h)' <=> Declared(c, h)
    BY DEF Declared
  <1>3. ASSUME NEW n \in DOMAIN topic', topic'[n].parses
        PROVE  Declared(topic'[n].cmd, topic'[n].header)
    <2>1. CASE n = Len(topic) + 1
      BY <1>1, <1>3, <2>1
    <2>2. CASE n \in 1 .. Len(topic)
      BY <1>1, <1>3, <2>2 DEF PoolDeclared
    <2>3. QED
      BY <1>1, <1>3, <2>1, <2>2
  <1>4. QED
    BY <1>2, <1>3 DEF PoolDeclared

\* ... or forwards the transaction, and answers whether or not it arrived.
LEMMA SubmitStep ==
  ASSUME IInv, NEW r \in DOMAIN requests, NEW d \in BOOLEAN, Submit(r, d)
  PROVE  IInv'
  <1>0. HeaderInv /\ topic \in Seq(Messages) /\ requests \in Seq(Requests)
    BY Parts, TypeParts DEF ServerTypes
  <1>1. PICK q \in Requests :
          /\ requests' = [requests EXCEPT ![r] = q] /\ q.kind = requests[r].kind
          /\ q.cmd = requests[r].cmd /\ q.header = requests[r].header
    <2>1. requests[r] \in Requests
      BY <1>0
    <2>2. requests' = [requests EXCEPT ![r] = Answered(requests[r], 200)]
      BY DEF Submit
    <2>3. PICK q \in Requests :
            /\ q = Answered(requests[r], 200) /\ q.kind = requests[r].kind
            /\ q.cmd = requests[r].cmd /\ q.header = requests[r].header
      BY <2>1, AnsweredIs
    <2>4. requests' = [requests EXCEPT ![r] = q]
      BY <2>2, <2>3
    <2>5. QED
      BY <2>3, <2>4
  <1>2. /\ UNCHANGED <<program, producer, offset, position, pc, polls, fetched, newBlock, db>>
        /\ UNCHANGED <<blockQueue, generated, count, commitLost, lost, torn, fed>>
    BY DEF Submit, fixed, sender, history
  <1>3. PICK m \in Messages :
          /\ m = [parses |-> TRUE, cmd |-> requests[r].cmd, header |-> requests[r].header]
          /\ m.cmd = requests[r].cmd /\ m.header = requests[r].header
    <2>1. requests[r] \in Requests
      BY <1>0
    <2>2. requests[r].cmd \in Lines /\ requests[r].header \in Headers
      BY <2>1 DEF Requests
    <2>3. [parses |-> TRUE, cmd |-> requests[r].cmd, header |-> requests[r].header] \in Messages
      BY <2>2 DEF Messages
    <2>4. QED
      BY <2>3
  <1>4. Declared(m.cmd, m.header)
    BY <1>0, <1>3 DEF Submit, HeaderInv, RequestsDeclared
  <1>5. topic' = topic \/ topic' = Append(topic, m)
    BY <1>3 DEF Submit
  <1>6. ServerTypes' /\ RequestsDeclared'
    <2>1. topic' \in Seq(Messages)
      BY <1>0, <1>5
    <2>2. QED
      BY <1>1, <1>2, <2>1, AnswerFacts
  <1>7. PoolDeclared'
    <2>1. CASE topic' = topic
      BY <1>0, <1>2, <2>1 DEF HeaderInv, PoolDeclared, Declared
    <2>2. CASE topic' = Append(topic, m)
      BY <1>0, <1>2, <1>4, <2>2, MoreDeclared DEF HeaderInv
    <2>3. QED
      BY <1>5, <2>1, <2>2
  <1>8. QED
    BY <1>2, <1>5, <1>6, <1>7, ServerFrame DEF HeaderInv

\* Another producer's message.
LEMMA OtherMessageStep ==
  ASSUME IInv, OtherMessage
  PROVE  IInv'
  <1>0. HeaderInv /\ ServerTypes /\ topic \in Seq(Messages)
    BY Parts, TypeParts DEF ServerTypes
  <1>1. PICK m \in Messages :
          /\ m = [parses |-> FALSE, cmd |-> NoCommand, header |-> Header({}, {})]
          /\ m.parses = FALSE
    <2>1. NoCommand \in Lines /\ Header({}, {}) \in Headers
      BY DEF Lines, Headers
    <2>2. [parses |-> FALSE, cmd |-> NoCommand, header |-> Header({}, {})] \in Messages
      BY <2>1 DEF Messages
    <2>3. QED
      BY <2>2
  <1>2. topic' = Append(topic, m) /\ UNCHANGED <<program, producer, requests>>
    BY <1>1 DEF OtherMessage, fixed
  <1>3. /\ UNCHANGED <<program, producer, offset, position, pc, polls, fetched, newBlock, db>>
        /\ UNCHANGED <<blockQueue, generated, count, commitLost, lost, torn, fed>>
    BY DEF OtherMessage, fixed, sender, history
  <1>4. ServerTypes'
    BY <1>0, <1>2 DEF ServerTypes, MaxRequests
  <1>5. PoolDeclared'
    BY <1>0, <1>1, <1>2, MoreDeclared DEF HeaderInv
  <1>6. RequestsDeclared'
    BY <1>0, <1>2 DEF HeaderInv, RequestsDeclared, Declared
  <1>7. QED
    BY <1>2, <1>3, <1>4, <1>5, <1>6, ServerFrame DEF HeaderInv

-----------------------------------------------------------------------------
(***************************************************************************)
(* The consumer.                                                           *)
(***************************************************************************)
\* A step of main leaves the server and the sender alone.
LEMMA NodeFrame ==
  ASSUME IInv, UNCHANGED <<program, producer, requests, topic, blockQueue, generated>>,
         ConsumerTypes', MainTypes', DbTypes', ConsumerInv', BlockInv',
         pc' # "ended" => pc # "ended" /\ db'.pending = db.pending
  PROVE  IInv'
  <1>0. TypeOK /\ QueueConnected /\ HeaderInv
    BY Parts
  <1>1. FixedTypes' /\ ServerTypes' /\ SenderTypes'
    BY <1>0, TypeParts, KeepTypes
  <1>2. TypeOK'
    BY <1>1, TypeParts DEF TypeOK, FixedTypes, ServerTypes, ConsumerTypes, MainTypes, DbTypes,
       SenderTypes
  <1>3. QueueConnected' /\ HeaderInv'
    BY <1>0, KeepQueue, KeepHeaders
  <1>4. QED
    BY <1>2, <1>3 DEF IInv, ConsumerInv, BlockInv, HeaderInv

\* A step of blockProducer leaves the blocks alone too.
LEMMA ConsumerFrame ==
  ASSUME IInv, UNCHANGED <<program, producer, requests, topic, newBlock, db, blockQueue, generated>>,
         UNCHANGED <<count, lost, torn, fed>>,
         pc \in {"idle", "poll", "commit"}, pc' \in {"poll", "commit", "build"}, count < MaxBlocks,
         ConsumerTypes', ConsumerInv'
  PROVE  IInv'
  <1>0. MainTypes /\ DbTypes /\ BlockInv
    BY Parts, TypeParts
  <1>1. MainTypes' /\ DbTypes'
    BY <1>0 DEF MainTypes, DbTypes
  <1>2. BlockInv'
    BY <1>0, KeepBlocks DEF Making
  <1>3. QED
    BY <1>1, <1>2, NodeFrame

\* The facts about the consumer that its steps use.
LEMMA ConsumerFacts ==
  ASSUME IInv
  PROVE  /\ offset \in Nat /\ position \in Nat /\ Len(topic) \in Nat /\ offset <= Len(topic)
         /\ position <= Len(topic) /\ topic \in Seq(Messages) /\ DOMAIN topic = 1 .. Len(topic)
         /\ fetched \in Seq(Nat) /\ Len(fetched) \in Nat /\ polls \in Nat /\ Len(fetched) <= polls
         /\ polls <= MaxTxns /\ MaxTxns \in Nat
         /\ lost \subseteq DOMAIN topic /\ fed \in Seq(Seq(Nat)) /\ commitLost \in BOOLEAN
         /\ count \in Nat /\ (pc \notin {"idle", "down", "ended"} => count < MaxBlocks)
         /\ OneBlockEach /\ NothingSkipped /\ Consumed /\ Passed
  <1>1. TypeOK /\ OneBlockEach /\ NothingSkipped /\ Consumed /\ Passed
    BY DEF IInv
  <1>2. /\ polls \in 0 .. MaxTxns /\ Len(fetched) <= polls /\ lost \subseteq DOMAIN topic
        /\ commitLost \in BOOLEAN /\ count \in 0 .. MaxBlocks
        /\ (pc \notin {"idle", "down", "ended"} => count < MaxBlocks)
    BY <1>1 DEF TypeOK
  <1>3. polls \in Nat /\ polls <= MaxTxns /\ count \in Nat
    BY <1>2, BoundsAssumption
  <1>4. fetched \in Seq(Nat) /\ Len(fetched) \in Nat
    BY <1>1, Numbers
  <1>5. QED
    BY <1>1, <1>2, <1>3, <1>4, Numbers, BoundsAssumption

\* main begins the next block.
LEMMA SubscribeStep ==
  ASSUME IInv, Subscribe
  PROVE  IInv'
  <1>0. /\ pc = "idle" /\ count < MaxBlocks /\ pc' = "poll" /\ position' = offset /\ polls' = 0
        /\ fetched' = <<>> /\ offset' = offset /\ commitLost' = commitLost
        /\ UNCHANGED <<program, producer, requests, topic, newBlock, db, blockQueue, generated>>
        /\ UNCHANGED <<count, lost, torn, fed>>
    BY DEF Subscribe, fixed, server, sender, history
  <1>1. ConsumerTypes'
    <2>1. fetched' \in Seq(Nat) /\ Len(fetched') = 0
      BY <1>0
    <2>2. polls' \in 0 .. MaxTxns /\ position' \in 0 .. Len(topic) /\ offset' \in 0 .. Len(topic)
      BY <1>0, ConsumerFacts
    <2>3. QED
      BY <1>0, <2>1, <2>2, ConsumerFacts DEF ConsumerTypes
  <1>2. ConsumerInv'
    <2>1. /\ fetched = <<>> /\ ToSet(fetched) = {} /\ ToSet(fetched') = {} /\ InBlocks' = InBlocks
          /\ ~Making'
      BY <1>0, ConsumerFacts, NoElements DEF Consumed, InBlocks, Making
    <2>2. OneBlockEach' /\ NothingSkipped'
      BY <1>0, <2>1, ConsumerFacts DEF OneBlockEach, NothingSkipped
    <2>3. Passed'
      BY <1>0, <2>1, ConsumerFacts DEF NothingSkipped, Passed
    <2>4. Consumed'
      BY <1>0, <2>1, ConsumerFacts DEF Consumed
    <2>5. QED
      BY <2>2, <2>3, <2>4 DEF ConsumerInv
  <1>3. QED
    BY <1>0, <1>1, <1>2, ConsumerFrame

\* A message: what the consumer has passed is kept unless it does not parse.
LEMMA PollMessageStep ==
  ASSUME IInv, PollMessage
  PROVE  IInv'
  <1>0. /\ pc = "poll" /\ polls < MaxTxns /\ position < Len(topic) /\ pc' = pc
        /\ position' = position + 1 /\ polls' = polls + 1 /\ offset' = offset
        /\ fetched' = (IF topic[position + 1].parses THEN Append(fetched, position + 1) ELSE fetched)
        /\ UNCHANGED <<program, producer, requests, topic, newBlock, db, blockQueue, generated>>
        /\ UNCHANGED <<count, lost, torn, fed, commitLost>>
    BY DEF PollMessage, fixed, server, sender, history
  <1>1. position + 1 \in Nat
    BY ConsumerFacts
  <1>2. /\ fetched' \in Seq(Nat) /\ Len(fetched') <= Len(fetched) + 1
        /\ ToSet(fetched) \subseteq ToSet(fetched')
        /\ ToSet(fetched') \subseteq ToSet(fetched) \cup {position + 1}
        /\ topic[position + 1].parses => position + 1 \in ToSet(fetched')
    <2>1. CASE topic[position + 1].parses
      <3>1. fetched' = Append(fetched, position + 1)
        BY <1>0, <2>1
      <3>2. fetched \in Seq(Nat) /\ Len(fetched) \in Nat
        BY ConsumerFacts
      <3>3. /\ ToSet(fetched') = ToSet(fetched) \cup {position + 1}
            /\ fetched' \in Seq(Nat) /\ Len(fetched') = Len(fetched) + 1
        BY <1>1, <3>1, <3>2, AppendSet
      <3>4. QED
        BY <3>2, <3>3
    <2>2. CASE ~topic[position + 1].parses
      BY <1>0, <2>2, ConsumerFacts
    <2>3. QED
      BY <2>1, <2>2
  <1>3. ConsumerTypes'
    <2>1. Len(fetched') \in Nat
      BY <1>2
    <2>a. /\ Len(fetched) <= polls /\ polls \in Nat /\ Len(fetched) \in Nat /\ MaxTxns \in Nat
          /\ position \in Nat /\ offset \in Nat /\ Len(topic) \in Nat /\ offset <= Len(topic)
      BY ConsumerFacts
    <2>2. /\ polls' \in 0 .. MaxTxns /\ position' \in 0 .. Len(topic) /\ offset' \in 0 .. Len(topic)
          /\ Len(fetched') <= polls'
      BY <1>0, <1>2, <2>1, <2>a
    <2>3. QED
      BY <1>0, <1>2, <2>2, ConsumerFacts DEF ConsumerTypes
  <1>4. ConsumerInv'
    <2>1. InBlocks' = InBlocks /\ ~Making'
      BY <1>0 DEF InBlocks, Making
    <2>2. ~commitLost => position + 1 \notin InBlocks
      BY <1>0, ConsumerFacts DEF Consumed
    <2>3. OneBlockEach'
      BY <1>0, <1>2, <2>1, <2>2, ConsumerFacts DEF OneBlockEach
    <2>4. NothingSkipped'
      BY <1>0, <1>2, <2>1, ConsumerFacts DEF NothingSkipped
    <2>5. Passed'
      <3>1. ASSUME NEW n \in 1 .. position + 1
            PROVE  ~topic[n].parses \/ n \in InBlocks \cup ToSet(fetched') \cup lost
        <4>1. CASE n = position + 1
          BY <1>2, <4>1
        <4>2. CASE n # position + 1
          <5>1. n \in 1 .. position
            <6>1. position \in Nat
              BY ConsumerFacts
            <6>2. QED
              BY <4>2, <6>1
          <5>2. QED
            BY <1>0, <1>2, <5>1, ConsumerFacts DEF Passed
        <4>3. QED
          BY <4>1, <4>2
      <3>2. QED
        BY <1>0, <2>1, <3>1 DEF Passed
    <2>6. Consumed'
      <3>1. ToSet(fetched') \subseteq 1 .. position'
        BY <1>0, <1>2, ConsumerFacts DEF Consumed
      <3>2. offset' <= position'
        BY <1>0, ConsumerFacts DEF Consumed
      <3>3. QED
        BY <1>0, <2>1, <3>1, <3>2, ConsumerFacts DEF Consumed
    <2>7. QED
      BY <2>3, <2>4, <2>5, <2>6 DEF ConsumerInv
  <1>5. QED
    BY <1>0, <1>3, <1>4, ConsumerFacts, ConsumerFrame

\* An error event counts as a poll.
LEMMA PollErrorStep ==
  ASSUME IInv, PollError
  PROVE  IInv'
  <1>0. /\ pc = "poll" /\ polls < MaxTxns /\ polls' = polls + 1 /\ pc' = pc
        /\ UNCHANGED <<program, producer, requests, topic, newBlock, db, blockQueue, generated>>
        /\ UNCHANGED <<count, lost, torn, fed, commitLost, offset, position, fetched>>
    BY DEF PollError, fixed, server, sender, history
  <1>1. ConsumerTypes'
    <2>1. polls \in Nat /\ MaxTxns \in Nat /\ Len(fetched) <= polls /\ Len(fetched) \in Nat
      BY ConsumerFacts
    <2>2. polls' \in 0 .. MaxTxns /\ Len(fetched') <= polls'
      BY <1>0, <2>1
    <2>3. ConsumerTypes
      BY Parts, TypeParts
    <2>4. QED
      BY <1>0, <2>2, <2>3 DEF ConsumerTypes
  <1>2. ConsumerInv'
    BY <1>0, Parts, KeepConsumer DEF Making
  <1>3. QED
    BY <1>0, <1>1, <1>2, ConsumerFacts, ConsumerFrame

\* The loop is over.
LEMMA PollEndStep ==
  ASSUME IInv, PollEnd
  PROVE  IInv'
  <1>0. /\ pc = "poll" /\ pc' = "commit" /\ polls' = polls
        /\ UNCHANGED <<program, producer, requests, topic, newBlock, db, blockQueue, generated>>
        /\ UNCHANGED <<count, lost, torn, fed, commitLost, offset, position, fetched>>
    BY DEF PollEnd, fixed, server, sender, history
  <1>1. ConsumerTypes'
    BY <1>0, Parts, TypeParts, KeepTypes
  <1>2. ConsumerInv'
    BY <1>0, Parts, KeepConsumer DEF Making
  <1>3. QED
    BY <1>0, <1>1, <1>2, ConsumerFacts, ConsumerFrame

\* The offset catches up with the position: what lies below it has been passed.
LEMMA CatchUp ==
  ASSUME IInv, UNCHANGED <<topic, polls, fetched, lost, fed, position>>,
         pc \in {"poll", "commit"}, offset' = position,
         pc' \in {"poll", "build"}, commitLost' = commitLost
  PROVE  ConsumerTypes' /\ ConsumerInv'
  <1>1. ConsumerTypes'
    <2>1. ConsumerTypes
      BY Parts, TypeParts
    <2>2. QED
      BY <2>1 DEF ConsumerTypes
  <1>2. InBlocks' = InBlocks /\ ~Making'
    BY DEF InBlocks, Making
  <1>3. OneBlockEach'
    BY <1>2, ConsumerFacts DEF OneBlockEach
  <1>4. NothingSkipped' /\ Passed'
    BY <1>2, ConsumerFacts DEF NothingSkipped, Passed
  <1>5. Consumed'
    <2>1. offset \in Nat /\ position \in Nat /\ offset <= position
      BY ConsumerFacts DEF Consumed
    <2>2. ~commitLost => InBlocks \subseteq 1 .. position
      BY <2>1, ConsumerFacts DEF Consumed
    <2>3. QED
      BY <1>2, <2>1, <2>2, ConsumerFacts DEF Consumed
  <1>6. QED
    BY <1>1, <1>3, <1>4, <1>5 DEF ConsumerInv

\* The library commits the position on its own ...
LEMMA AutoCommitStep ==
  ASSUME IInv, AutoCommit
  PROVE  IInv'
  <1>0. /\ pc = "poll" /\ offset' = position /\ pc' = pc
        /\ UNCHANGED <<program, producer, requests, topic, newBlock, db, blockQueue, generated>>
        /\ UNCHANGED <<count, lost, torn, fed, commitLost, position, fetched, polls>>
    BY DEF AutoCommit, fixed, server, sender, history
  <1>1. ConsumerTypes' /\ ConsumerInv'
    BY <1>0, CatchUp
  <1>2. QED
    BY <1>0, <1>1, ConsumerFacts, ConsumerFrame

\* ... or blockProducer commits it; a commit that fails is remembered if it mattered.
LEMMA CommitStep ==
  ASSUME IInv, NEW ok \in BOOLEAN, Commit(ok)
  PROVE  IInv'
  <1>0. /\ pc = "commit" /\ pc' = "build"
        /\ offset' = (IF ok THEN position ELSE offset)
        /\ commitLost' = (commitLost \/ (~ok /\ offset # position))
        /\ UNCHANGED <<program, producer, requests, topic, newBlock, db, blockQueue, generated>>
        /\ UNCHANGED <<count, lost, torn, fed, position, fetched, polls>>
    BY DEF Commit, fixed, server, sender
  <1>1. CASE offset' = position /\ commitLost' = commitLost
    <2>1. ConsumerTypes' /\ ConsumerInv'
      BY <1>0, <1>1, CatchUp
    <2>2. QED
      BY <1>0, <2>1, ConsumerFacts, ConsumerFrame
  <1>2. CASE offset' = offset /\ commitLost' = TRUE
    <2>1. ConsumerTypes'
      <3>1. ConsumerTypes
        BY Parts, TypeParts
      <3>2. QED
        BY <1>0, <1>2, <3>1 DEF ConsumerTypes
    <2>2. InBlocks' = InBlocks
      BY <1>0 DEF InBlocks
    <2>3. ConsumerInv'
      BY <1>0, <1>2, <2>2, ConsumerFacts
         DEF ConsumerInv, OneBlockEach, NothingSkipped, Consumed, Passed
    <2>4. QED
      BY <1>0, <2>1, <2>3, ConsumerFacts, ConsumerFrame
  <1>3. QED
    <2>1. commitLost \in BOOLEAN
      BY ConsumerFacts
    <2>2. CASE ok \/ (offset = position /\ ~commitLost)
      BY <1>0, <1>1, <2>1, <2>2
    <2>3. CASE ~ok /\ (offset # position \/ commitLost)
      BY <1>0, <1>2, <2>1, <2>3
    <2>4. QED
      BY <2>2, <2>3

-----------------------------------------------------------------------------
(***************************************************************************)
(* main: making, executing and storing the block.                          *)
(***************************************************************************)
\* What main throws away is lost.
LEMMA Discard ==
  ASSUME IInv, UNCHANGED <<topic, offset, position, polls, fed, commitLost>>,
         lost' = lost \cup ToSet(fetched), fetched' = <<>>, pc' \in {"idle", "ended"}
  PROVE  ConsumerTypes' /\ ConsumerInv'
  <1>1. ToSet(fetched) \subseteq DOMAIN topic /\ ToSet(fetched') = {}
    BY ConsumerFacts, NoElements DEF Consumed
  <1>2. InBlocks' = InBlocks /\ ~Making'
    BY DEF InBlocks, Making
  <1>3. ConsumerTypes'
    <2>1. ConsumerTypes
      BY Parts, TypeParts
    <2>2. fetched' \in Seq(Nat) /\ Len(fetched') = 0 /\ polls >= 0
      BY ConsumerFacts
    <2>3. QED
      BY <1>1, <2>1, <2>2 DEF ConsumerTypes
  <1>4. OneBlockEach' /\ NothingSkipped'
    BY <1>1, <1>2, ConsumerFacts DEF OneBlockEach, NothingSkipped
  <1>5. Consumed' /\ Passed'
    BY <1>1, <1>2, ConsumerFacts DEF Consumed, Passed
  <1>6. QED
    BY <1>3, <1>4, <1>5 DEF ConsumerInv

\* The facts about the blocks that main's steps use.
LEMMA BlockFacts ==
  ASSUME IInv
  PROVE  /\ db.latest \in Nat \cup {-1} /\ DOMAIN db.blocks \subseteq Nat
         /\ db = [latest |-> db.latest, blocks |-> db.blocks, pending |-> db.pending]
         /\ NextNum \in Nat \ {0} /\ NextNum > db.latest
         /\ newBlock.num \in Nat \cup {-1} /\ torn \subseteq Nat
         /\ GapsTorn /\ ChainLinked /\ Numbered /\ Fresh
  <1>1. TypeOK /\ GapsTorn /\ ChainLinked /\ Numbered /\ Fresh
    BY DEF IInv
  <1>2. /\ db.latest \in Nat \cup {-1} /\ DOMAIN db.blocks \subseteq Nat
        /\ db = [latest |-> db.latest, blocks |-> db.blocks, pending |-> db.pending]
        /\ newBlock.num \in Nat \cup {-1} /\ torn \subseteq Nat
    BY <1>1 DEF TypeOK
  <1>3. NextNum \in Nat \ {0} /\ NextNum > db.latest
    BY <1>2 DEF NextNum, LatestBlockNum
  <1>4. QED
    BY <1>1, <1>2, <1>3

\* The hash of the block before depends on the stored blocks alone.
LEMMA SameBlocks ==
  ASSUME db'.blocks = db.blocks
  PROVE  /\ \A n : PreviousHash(n)' = PreviousHash(n)
         /\ (db'.latest = db.latest => NextNum' = NextNum)
  BY DEF NextNum, LatestBlockNum, PreviousHash, getBlock

\* A new block: it has the next number, or 0 when a file was empty.
LEMMA NewBlock ==
  ASSUME IInv, UNCHANGED <<program, producer, requests, topic, offset, position, polls, fetched, db>>,
         UNCHANGED <<blockQueue, generated, count, commitLost, lost, torn, fed>>,
         pc \in {"idle", "build"}, pc' = "execute", count < MaxBlocks,
         newBlock'.num \in {0, NextNum},
         producer = "blockProducer.h" =>
           newBlock'.num # 0 /\ newBlock'.hash = PreviousHash(newBlock'.num - 1)
  PROVE  IInv'
  <1>1. ConsumerTypes' /\ DbTypes' /\ ConsumerInv'
    <2>1. pc = "idle" => fetched = <<>>
      BY ConsumerFacts DEF Consumed
    <2>2. QED
      BY <2>1, Parts, TypeParts, KeepTypes, KeepConsumer DEF Making
  <1>2. MainTypes'
    <2>1. MainTypes
      BY Parts, TypeParts
    <2>2. QED
      BY <2>1, BlockFacts DEF MainTypes
  <1>3. BlockInv'
    <2>1. GapsTorn' /\ ChainLinked' /\ Fresh'
      BY BlockFacts DEF GapsTorn, ChainLinked, Fresh
    <2>2. newBlock'.num >= 0 /\ NextNum' = NextNum
      BY BlockFacts, SameBlocks
    <2>3. Numbered'
      BY <2>2, BlockFacts, SameBlocks DEF Numbered
    <2>4. QED
      BY <2>1, <2>3 DEF BlockInv
  <1>4. QED
    BY <1>1, <1>2, <1>3, NodeFrame

\* blockProducer builds the block of what it fetched.
LEMMA BuildStep ==
  ASSUME IInv, Build
  PROVE  IInv'
  <1>0. /\ pc = "build" /\ pc' = "execute" /\ newBlock' = blockProducer(fetched)
        /\ UNCHANGED <<program, producer, requests, topic, offset, position, polls, fetched, db>>
        /\ UNCHANGED <<blockQueue, generated, count, commitLost, lost, torn, fed>>
    BY DEF Build, fixed, server, sender, history
  <1>1. program \in Programs
    BY Parts, TypeParts DEF FixedTypes
  <1>2. newBlock' = [num |-> NextNum, txns |-> fetched, hash |-> PreviousHash(NextNum - 1)]
    BY <1>0, <1>1 DEF blockProducer, blockProducerD, blockProducerP, blockProducerS, Programs
  <1>3. newBlock'.num = NextNum /\ newBlock'.hash = PreviousHash(NextNum - 1)
    BY <1>2
  <1>4. NextNum # 0 /\ count < MaxBlocks
    BY <1>0, BlockFacts, ConsumerFacts
  <1>5. QED
    BY <1>0, <1>3, <1>4, NewBlock

\* TestBlockProducer makes a block of a file.
LEMMA ProduceStep ==
  ASSUME IInv, NEW k \in 0 .. MaxTxns, ProduceFromFile(k)
  PROVE  IInv'
  <1>0. /\ pc = "idle" /\ ~Pool /\ pc' = "execute" /\ newBlock' = produce([i \in 1 .. k |-> i])
        /\ count < MaxBlocks
        /\ UNCHANGED <<program, producer, requests, topic, offset, position, polls, fetched, db>>
        /\ UNCHANGED <<blockQueue, generated, count, commitLost, lost, torn, fed>>
    BY DEF ProduceFromFile, fixed, server, sender, history
  <1>1. program \in Programs
    BY Parts, TypeParts DEF FixedTypes
  <1>2. PICK t : t = [i \in 1 .. k |-> i]
    OBVIOUS
  <1>3. newBlock' = TestBlock(t)
    BY <1>0, <1>1, <1>2 DEF produce, produceD, produceP, produceS, Programs
  <1>4. newBlock'.num \in {0, NextNum}
    <2>1. CASE t = <<>>
      <3>1. newBlock' = [num |-> 0, txns |-> <<>>, hash |-> <<>>]
        BY <1>3, <2>1 DEF TestBlock
      <3>2. QED
        BY <3>1
    <2>2. CASE t # <<>>
      <3>1. newBlock' = [num |-> NextNum, txns |-> t, hash |-> <<NextNum, t>>]
        BY <1>3, <2>2 DEF TestBlock
      <3>2. QED
        BY <3>1
    <2>3. QED
      BY <2>1, <2>2
  <1>5. producer # "blockProducer.h"
    BY <1>0 DEF Pool
  <1>6. QED
    BY <1>0, <1>4, <1>5, NewBlock

\* blockProducer.cpp prints its block and ends.
LEMMA PrintStep ==
  ASSUME IInv, PrintBlock
  PROVE  IInv'
  <1>0. /\ pc = "build" /\ pc' = "idle" /\ lost' = lost \cup ToSet(fetched) /\ fetched' = <<>>
        /\ count' = count + 1
        /\ UNCHANGED <<program, producer, requests, topic, offset, position, polls, newBlock, db>>
        /\ UNCHANGED <<blockQueue, generated, commitLost, torn, fed>>
    BY DEF PrintBlock, fixed, server, sender
  <1>1. ConsumerTypes' /\ ConsumerInv'
    BY <1>0, Discard
  <1>2. MainTypes' /\ DbTypes'
    <2>1. MainTypes /\ DbTypes
      BY Parts, TypeParts
    <2>2. count' \in 0 .. MaxBlocks
      BY <1>0, ConsumerFacts, BoundsAssumption
    <2>3. QED
      BY <1>0, <2>1, <2>2 DEF MainTypes, DbTypes
  <1>3. BlockInv'
    BY <1>0, Parts, KeepBlocks DEF Making
  <1>4. QED
    BY <1>0, <1>1, <1>2, <1>3, NodeFrame

\* destroyDB at the end of main.
LEMMA Exit ==
  ASSUME IInv, UNCHANGED <<producer, torn>>, db' = AtExit, pc' = "ended", pc # "stored"
  PROVE  BlockInv' /\ DbTypes'
  <1>1. CASE db' = db
    BY <1>1, Parts, TypeParts, KeepBlocks, KeepTypes DEF Making
  <1>2. CASE db' = EmptyDB
    <2>1. /\ db'.latest = -1 /\ DOMAIN db'.blocks = {} /\ db'.blocks = [n \in {} |-> 0]
          /\ db' = [latest |-> -1, blocks |-> [n \in {} |-> 0], pending |-> {}]
      BY <1>2 DEF EmptyDB
    <2>2. db' = [latest |-> db'.latest, blocks |-> db'.blocks, pending |-> db'.pending]
      BY <2>1
    <2>3. db'.blocks = [n \in DOMAIN db'.blocks |-> db'.blocks[n]]
      BY <2>1
    <2>4. DbTypes'
      BY <2>1, <2>2, <2>3 DEF DbTypes
    <2>5. GapsTorn' /\ ChainLinked' /\ Fresh'
      BY <2>1 DEF GapsTorn, ChainLinked, Fresh
    <2>6. Numbered'
      BY <2>1, BlockFacts DEF Numbered, Making
    <2>7. QED
      BY <2>4, <2>5, <2>6 DEF BlockInv
  <1>3. QED
    BY <1>1, <1>2 DEF AtExit

\* The scheduler succeeds, or main gives up.
LEMMA ExecuteStep ==
  ASSUME IInv, NEW ok \in BOOLEAN, Execute(ok)
  PROVE  IInv'
  <1>0. /\ pc = "execute" /\ pc' = (IF ok THEN "store" ELSE "ended")
        /\ lost' = (IF ok THEN lost ELSE lost \cup ToSet(fetched))
        /\ db' = (IF ok THEN db ELSE AtExit) /\ fetched' = (IF ok THEN fetched ELSE <<>>)
        /\ UNCHANGED <<program, producer, requests, topic, offset, position, polls, newBlock>>
        /\ UNCHANGED <<blockQueue, generated, count, commitLost, torn, fed>>
    BY DEF Execute, fixed, server, sender
  <1>1. MainTypes'
    <2>1. MainTypes
      BY Parts, TypeParts
    <2>2. QED
      BY <1>0, <2>1 DEF MainTypes
  <1>2. CASE ok
    <2>1. ConsumerTypes' /\ DbTypes'
      BY <1>0, <1>2, Parts, TypeParts, KeepTypes
    <2>2. ConsumerInv'
      BY <1>0, <1>2, Parts, KeepConsumer DEF Making
    <2>3. BlockInv'
      BY <1>0, <1>2, Parts, KeepBlocks DEF Making
    <2>4. QED
      BY <1>0, <1>1, <1>2, <2>1, <2>2, <2>3, NodeFrame
  <1>3. CASE ~ok
    <2>1. ConsumerTypes' /\ ConsumerInv'
      BY <1>0, <1>3, Discard
    <2>2. BlockInv' /\ DbTypes'
      BY <1>0, <1>3, Exit
    <2>3. QED
      BY <1>0, <1>1, <1>3, <2>1, <2>2, NodeFrame
  <1>4. QED
    BY <1>2, <1>3

\* storeBlock's first write: the number becomes the latest before its block is there.
LEMMA StoreLatestStep ==
  ASSUME IInv, StoreLatest
  PROVE  IInv'
  <1>0. /\ pc = "store" /\ pc' = "stored" /\ db' = PutLatest(db, newBlock.num)
        /\ UNCHANGED <<program, producer, requests, topic, offset, position, polls, fetched>>
        /\ UNCHANGED <<newBlock, blockQueue, generated, count, commitLost, lost, torn, fed>>
    BY DEF StoreLatest, fixed, server, sender, history
  <1>1. /\ db'.latest = newBlock.num /\ db'.blocks = db.blocks /\ db'.pending = db.pending
        /\ db' = [latest |-> db'.latest, blocks |-> db'.blocks, pending |-> db'.pending]
    <2>1. db' = [latest |-> newBlock.num, blocks |-> db.blocks, pending |-> db.pending]
      BY <1>0, BlockFacts DEF PutLatest
    <2>2. QED
      BY <2>1
  <1>2. ConsumerTypes' /\ ConsumerInv'
    BY <1>0, Parts, TypeParts, KeepTypes, KeepConsumer DEF Making
  <1>3. MainTypes' /\ DbTypes'
    <2>1. MainTypes /\ DbTypes
      BY Parts, TypeParts
    <2>2. MainTypes'
      BY <1>0, <2>1 DEF MainTypes
    <2>3. DbTypes'
      BY <1>1, <2>1, BlockFacts DEF DbTypes
    <2>4. QED
      BY <2>2, <2>3
  <1>4. BlockInv'
    <2>1. newBlock.num \in {0, NextNum} /\ newBlock.num >= 0 /\ newBlock.num \in Nat
      BY <1>0, BlockFacts DEF Numbered, Making
    <2>2. GapsTorn'
      <3>1. ASSUME NEW n \in 1 .. newBlock.num, n # newBlock.num
            PROVE  n \in DOMAIN db.blocks \cup torn
        <4>1. newBlock.num = NextNum
          BY <2>1, <3>1
        <4>2. n \in 1 .. db.latest
          BY <2>1, <3>1, <4>1, BlockFacts DEF NextNum, LatestBlockNum
        <4>3. QED
          BY <1>0, <4>2, BlockFacts DEF GapsTorn
      <3>2. QED
        BY <1>0, <1>1, <3>1 DEF GapsTorn
    <2>3. ChainLinked'
      BY <1>0, <1>1, BlockFacts DEF ChainLinked
    <2>4. Numbered'
      BY <1>0, <1>1, <2>1, BlockFacts, SameBlocks DEF Numbered, Making
    <2>5. Fresh'
      <3>1. ASSUME 0 \notin DOMAIN db.blocks \cup torn, newBlock.num # 0, NEW n \in DOMAIN db.blocks
            PROVE  n <= newBlock.num /\ n # newBlock.num
        <4>1. n <= db.latest /\ n \in Nat
          BY <1>0, <3>1, BlockFacts DEF Fresh
        <4>2. newBlock.num > db.latest /\ db.latest \in Int
          BY <2>1, <3>1, BlockFacts
        <4>3. QED
          BY <2>1, <4>1, <4>2
      <3>2. QED
        BY <1>0, <1>1, <3>1 DEF Fresh
    <2>6. QED
      BY <2>2, <2>3, <2>4, <2>5 DEF BlockInv
  <1>5. QED
    BY <1>0, <1>1, <1>2, <1>3, <1>4, NodeFrame

\* The number of the block that is half stored is new, unless there has been a block 0.
LEMMA NumberIsNew ==
  ASSUME IInv, pc = "stored", 0 \notin DOMAIN db.blocks \cup torn
  PROVE  newBlock.num \notin DOMAIN db.blocks
  <1>1. newBlock.num = db.latest
    BY BlockFacts DEF Numbered
  <1>2. CASE newBlock.num = 0
    BY <1>2
  <1>3. CASE newBlock.num # 0
    BY <1>1, <1>3, BlockFacts DEF Fresh
  <1>4. QED
    BY <1>2, <1>3

\* storeBlock's second write.
LEMMA StoreBlockStep ==
  ASSUME IInv, StoreBlock
  PROVE  IInv'
  <1>0. /\ pc = "stored" /\ pc' = "idle" /\ db' = PutBlock(db, newBlock.num, newBlock)
        /\ fed' = Append(fed, fetched) /\ fetched' = <<>> /\ newBlock' = NoBlock /\ count' = count + 1
        /\ UNCHANGED <<program, producer, requests, topic, offset, position, polls>>
        /\ UNCHANGED <<blockQueue, generated, commitLost, lost, torn>>
    BY DEF StoreBlock, fixed, server, sender
  <1>1. PICK num : num = newBlock.num /\ num = db.latest /\ num \in Nat
    BY <1>0, BlockFacts DEF Numbered, Making
  <1>2. /\ db'.latest = num /\ db'.pending = db.pending
        /\ DOMAIN db'.blocks = DOMAIN db.blocks \cup {num} /\ db'.blocks[num] = newBlock
        /\ \A n \in DOMAIN db.blocks : n # num => db'.blocks[n] = db.blocks[n]
        /\ db' = [latest |-> db'.latest, blocks |-> db'.blocks, pending |-> db'.pending]
        /\ db'.blocks = [n \in DOMAIN db'.blocks |-> db'.blocks[n]]
    <2>1. db' = [latest |-> db.latest, pending |-> db.pending,
                 blocks |-> [m \in DOMAIN db.blocks \cup {num} |->
                               IF m = num THEN newBlock ELSE db.blocks[m]]]
      BY <1>0, <1>1, BlockFacts DEF PutBlock
    <2>2. /\ db'.latest = db.latest /\ db'.pending = db.pending
          /\ db'.blocks = [m \in DOMAIN db.blocks \cup {num} |->
                             IF m = num THEN newBlock ELSE db.blocks[m]]
      BY <2>1
    <2>3. db' = [latest |-> db'.latest, blocks |-> db'.blocks, pending |-> db'.pending]
      BY <2>1, <2>2
    <2>4. QED
      BY <1>1, <2>2, <2>3
  <1>3. MainTypes' /\ DbTypes'
    <2>1. MainTypes /\ DbTypes
      BY Parts, TypeParts
    <2>2. count' \in 0 .. MaxBlocks
      BY <1>0, ConsumerFacts, BoundsAssumption
    <2>3. newBlock'.num = -1
      BY <1>0 DEF NoBlock
    <2>4. MainTypes'
      BY <1>0, <2>1, <2>2, <2>3 DEF MainTypes
    <2>5. DbTypes'
      BY <1>1, <1>2, BlockFacts DEF DbTypes
    <2>6. QED
      BY <2>4, <2>5
  <1>4. /\ InBlocks' = InBlocks \cup ToSet(fetched) /\ ToSet(fetched') = {} /\ ~Making'
        /\ fed' \in Seq(Seq(Nat)) /\ fetched' \in Seq(Nat) /\ Len(fetched') = 0
    <2>1. fed \in Seq(Seq(Nat)) /\ fetched \in Seq(Nat)
      BY ConsumerFacts
    <2>2. InBlocks' = InBlocks \cup ToSet(fetched)
      BY <1>0, <2>1, MoreBlocks
    <2>3. fed' \in Seq(Seq(Nat)) /\ fetched' \in Seq(Nat) /\ Len(fetched') = 0
      BY <1>0, <2>1
    <2>4. QED
      BY <1>0, <2>2, <2>3, NoElements DEF Making
  <1>5. ConsumerTypes'
    <2>1. ConsumerTypes /\ polls >= 0
      BY Parts, TypeParts, ConsumerFacts
    <2>2. QED
      BY <1>0, <1>4, <2>1 DEF ConsumerTypes
  <1>6. OneBlockEach'
    <2>1. ASSUME ~commitLost, NEW m \in DOMAIN fed', NEW n \in DOMAIN fed', m # n
          PROVE  ToSet(fed'[m]) \cap ToSet(fed'[n]) = {}
      <3>1. /\ \A k \in DOMAIN fed : ToSet(fed[k]) \cap ToSet(fetched) = {}
            /\ \A k, l \in DOMAIN fed : k # l => ToSet(fed[k]) \cap ToSet(fed[l]) = {}
        BY <2>1, ConsumerFacts DEF OneBlockEach, InBlocks
      <3>2. /\ DOMAIN fed' = DOMAIN fed \cup {Len(fed) + 1}
            /\ fed'[Len(fed) + 1] = fetched /\ \A k \in DOMAIN fed : fed'[k] = fed[k]
        BY <1>0, MoreBlocks, ConsumerFacts
      <3>3. QED
        BY <2>1, <3>1, <3>2
    <2>2. QED
      BY <1>0, <1>4, <2>1 DEF OneBlockEach
  <1>7. NothingSkipped' /\ Passed'
    BY <1>0, <1>4, ConsumerFacts DEF NothingSkipped, Passed
  <1>8. Consumed'
    <2>1. ~commitLost => InBlocks \subseteq 1 .. offset /\ ToSet(fetched) \subseteq 1 .. offset
      BY <1>0, ConsumerFacts DEF Consumed, Making
    <2>2. QED
      BY <1>0, <1>4, <2>1 DEF Consumed
  <1>9. GapsTorn' /\ Fresh'
    <2>1. GapsTorn'
      BY <1>0, <1>1, <1>2, BlockFacts DEF GapsTorn
    <2>2. Fresh'
      <3>1. ASSUME 0 \notin DOMAIN db'.blocks \cup torn, NEW n \in DOMAIN db'.blocks
            PROVE  n <= num
        <4>1. 0 \notin DOMAIN db.blocks \cup torn /\ num # 0
          BY <1>2, <3>1
        <4>2. CASE n = num
          BY <1>1, <4>2
        <4>3. CASE n \in DOMAIN db.blocks
          BY <1>1, <4>1, <4>3, BlockFacts DEF Fresh
        <4>4. QED
          BY <1>2, <4>2, <4>3
      <3>2. QED
        BY <1>0, <1>2, <3>1 DEF Fresh
    <2>3. QED
      BY <2>1, <2>2
  <1>10. ChainLinked' /\ Numbered'
    <2>1. CASE producer # "blockProducer.h"
      BY <1>0, <1>4, <2>1 DEF ChainLinked, Numbered, Making
    <2>2. CASE producer = "blockProducer.h"
      <3>1. /\ 0 \notin DOMAIN db.blocks \cup torn /\ num # 0
            /\ newBlock.hash = PreviousHash(num - 1)
        BY <1>0, <1>1, <2>2, BlockFacts DEF Numbered, Making
      <3>2. Numbered'
        BY <1>0, <1>2, <1>4, <3>1 DEF Numbered, Making
      <3>3. ASSUME NEW n \in DOMAIN db'.blocks \ {1}
            PROVE  \/ n - 1 \in DOMAIN db'.blocks /\ db'.blocks[n].hash = Sha(db'.blocks[n - 1])
                   \/ n - 1 \in torn
        <4>1. CASE n = num
          <5>1. num - 1 \in 1 .. db.latest /\ num - 1 > 0 /\ num - 1 # num
            BY <1>1, <3>1, <3>3, <4>1
          <5>2. num - 1 \in DOMAIN db.blocks \cup torn
            BY <1>1, <5>1, BlockFacts DEF GapsTorn
          <5>3. num - 1 \in DOMAIN db.blocks => newBlock.hash = Sha(db.blocks[num - 1])
            BY <3>1, <5>1 DEF PreviousHash, getBlock
          <5>4. QED
            BY <1>2, <4>1, <5>1, <5>2, <5>3
        <4>2. CASE n # num
          <5>1. n \in DOMAIN db.blocks \ {1} /\ db'.blocks[n] = db.blocks[n]
            BY <1>2, <3>3, <4>2
          <5>2. \/ n - 1 \in DOMAIN db.blocks /\ db.blocks[n].hash = Sha(db.blocks[n - 1])
                \/ n - 1 \in torn
            BY <2>2, <5>1, BlockFacts DEF ChainLinked
          <5>3. num \notin DOMAIN db.blocks
            BY <1>0, <1>1, <3>1, NumberIsNew
          <5>4. QED
            BY <1>2, <5>1, <5>2, <5>3
        <4>3. QED
          BY <4>1, <4>2
      <3>4. ChainLinked'
        BY <1>0, <3>3 DEF ChainLinked, Sha
      <3>5. QED
        BY <3>2, <3>4
    <2>3. QED
      BY <2>1, <2>2
  <1>11. QED
    BY <1>0, <1>2, <1>3, <1>5, <1>6, <1>7, <1>8, <1>9, <1>10, NodeFrame DEF ConsumerInv, BlockInv

\* main has stored its last block.
LEMMA FinishStep ==
  ASSUME IInv, Finish
  PROVE  IInv'
  <1>0. /\ pc = "idle" /\ pc' = "ended" /\ db' = AtExit
        /\ UNCHANGED <<program, producer, requests, topic, offset, position, polls, fetched>>
        /\ UNCHANGED <<newBlock, blockQueue, generated, count, commitLost, lost, torn, fed>>
    BY DEF Finish, fixed, server, sender, history
  <1>1. ConsumerTypes' /\ ConsumerInv'
    BY <1>0, Parts, TypeParts, KeepTypes, KeepConsumer DEF Making
  <1>2. MainTypes'
    <2>1. MainTypes
      BY Parts, TypeParts
    <2>2. QED
      BY <1>0, <2>1 DEF MainTypes
  <1>3. BlockInv' /\ DbTypes'
    BY <1>0, Exit
  <1>4. QED
    BY <1>0, <1>1, <1>2, <1>3, NodeFrame

\* A crash: what was committed and not stored is lost, a half stored block is torn.
LEMMA CrashStep ==
  ASSUME IInv, Crash
  PROVE  IInv'
  <1>0. /\ pc \notin {"down", "ended"} /\ pc' = "down" /\ fetched' = <<>> /\ newBlock' = NoBlock
        /\ lost' = lost \cup {n \in ToSet(fetched) : n <= offset}
        /\ torn' = (IF pc = "stored" THEN torn \cup {newBlock.num} ELSE torn)
        /\ UNCHANGED <<program, producer, requests, topic, offset, position, polls, db>>
        /\ UNCHANGED <<blockQueue, generated, count, commitLost, fed>>
    BY DEF Crash, fixed, server, sender
  <1>1. /\ ToSet(fetched) \subseteq DOMAIN topic /\ ToSet(fetched') = {} /\ InBlocks' = InBlocks
        /\ ~Making' /\ fetched' \in Seq(Nat) /\ Len(fetched') = 0
    BY <1>0, ConsumerFacts, NoElements DEF Consumed, InBlocks, Making
  <1>2. ConsumerTypes'
    <2>1. ConsumerTypes /\ polls >= 0
      BY Parts, TypeParts, ConsumerFacts
    <2>2. lost' \subseteq DOMAIN topic
      BY <1>0, <1>1, ConsumerFacts
    <2>3. QED
      BY <1>0, <1>1, <2>1, <2>2 DEF ConsumerTypes
  <1>3. ConsumerInv'
    <2>1. OneBlockEach' /\ Passed'
      BY <1>0, <1>1, ConsumerFacts DEF OneBlockEach, Passed
    <2>2. NothingSkipped'
      <3>1. ASSUME NEW n \in 1 .. offset, topic[n].parses PROVE n \in InBlocks \cup lost'
        <4>1. n <= offset /\ n \in InBlocks \cup ToSet(fetched) \cup lost
          BY <3>1, ConsumerFacts DEF NothingSkipped
        <4>2. QED
          BY <1>0, <4>1
      <3>2. QED
        BY <1>0, <1>1, <3>1 DEF NothingSkipped
    <2>3. Consumed'
      BY <1>0, <1>1, ConsumerFacts DEF Consumed
    <2>4. QED
      BY <2>1, <2>2, <2>3 DEF ConsumerInv
  <1>4. pc = "stored" => newBlock.num \in Nat /\ newBlock.num = db.latest
    BY BlockFacts DEF Numbered, Making
  <1>5. MainTypes' /\ DbTypes'
    <2>1. MainTypes /\ DbTypes
      BY Parts, TypeParts
    <2>2. newBlock'.num = -1
      BY <1>0 DEF NoBlock
    <2>3. QED
      BY <1>0, <1>4, <2>1, <2>2 DEF MainTypes, DbTypes
  <1>6. BlockInv'
    <2>1. torn \subseteq torn' /\ (pc = "stored" => newBlock.num \in torn')
      BY <1>0
    <2>2. GapsTorn'
      BY <1>0, <2>1, BlockFacts DEF GapsTorn
    <2>3. ChainLinked'
      BY <1>0, <2>1, BlockFacts DEF ChainLinked
    <2>4. Numbered'
      <3>1. producer = "blockProducer.h" => 0 \notin DOMAIN db.blocks \cup torn'
        BY <1>0, BlockFacts DEF Numbered, Making
      <3>2. QED
        BY <1>0, <1>1, <3>1 DEF Numbered, Making
    <2>5. Fresh'
      BY <1>0, <2>1, BlockFacts DEF Fresh
    <2>6. QED
      BY <2>2, <2>3, <2>4, <2>5 DEF BlockInv
  <1>7. QED
    BY <1>0, <1>2, <1>3, <1>5, <1>6, NodeFrame

\* The node is started again.
LEMMA RestartStep ==
  ASSUME IInv, Restart
  PROVE  IInv'
  <1>0. /\ pc = "down" /\ pc' = "idle" /\ count' = 0
        /\ UNCHANGED <<program, producer, requests, topic, offset, position, polls, fetched, db>>
        /\ UNCHANGED <<newBlock, blockQueue, generated, commitLost, lost, torn, fed>>
    BY DEF Restart, fixed, server, sender, history
  <1>1. ConsumerTypes' /\ DbTypes'
    BY <1>0, Parts, TypeParts, KeepTypes
  <1>2. ConsumerInv'
    <2>1. fetched = <<>>
      BY <1>0, ConsumerFacts DEF Consumed
    <2>2. QED
      BY <1>0, <2>1, Parts, KeepConsumer DEF Making
  <1>3. MainTypes'
    <2>1. MainTypes
      BY Parts, TypeParts
    <2>2. QED
      BY <1>0, <2>1, BoundsAssumption DEF MainTypes
  <1>4. BlockInv'
    BY <1>0, Parts, KeepBlocks DEF Making
  <1>5. QED
    BY <1>0, <1>1, <1>2, <1>3, <1>4, NodeFrame

-----------------------------------------------------------------------------
(***************************************************************************)
(* The sender.                                                             *)
(***************************************************************************)
\* A step of the sender leaves the node alone, but for the pending blocks.
LEMMA SenderFrame ==
  ASSUME IInv, UNCHANGED <<program, producer, requests, topic, offset, position, pc, polls, fetched>>,
         UNCHANGED <<newBlock, count, commitLost, lost, torn, fed>>,
         db'.latest = db.latest, db'.blocks = db.blocks, DbTypes', SenderTypes', QueueConnected'
  PROVE  IInv'
  <1>1. FixedTypes' /\ ServerTypes' /\ ConsumerTypes' /\ MainTypes'
    BY Parts, TypeParts, KeepTypes
  <1>2. TypeOK'
    BY <1>1 DEF TypeOK, FixedTypes, ServerTypes, ConsumerTypes, MainTypes, DbTypes, SenderTypes
  <1>3. ConsumerInv'
    <2>1. pc \in {"idle", "down"} => fetched = <<>>
      BY ConsumerFacts DEF Consumed
    <2>2. QED
      BY <2>1, Parts, KeepConsumer DEF Making
  <1>4. BlockInv' /\ HeaderInv'
    BY Parts, KeepBlocks, KeepHeaders
  <1>5. QED
    BY <1>2, <1>3, <1>4 DEF IInv, ConsumerInv, BlockInv, HeaderInv

\* It numbers a block of its own ...
LEMMA GenerateStep ==
  ASSUME IInv, Generate
  PROVE  IInv'
  <1>0. /\ generated' = NextNum
        /\ UNCHANGED <<program, producer, requests, topic, offset, position, pc, polls, fetched>>
        /\ UNCHANGED <<newBlock, count, commitLost, lost, torn, fed, db, blockQueue>>
    BY DEF Generate, fixed, server, history
  <1>1. SenderTypes' /\ DbTypes'
    <2>1. SenderTypes /\ DbTypes
      BY Parts, TypeParts
    <2>2. QED
      BY <1>0, <2>1, BlockFacts DEF SenderTypes, DbTypes
  <1>2. QueueConnected'
    BY <1>0, Parts, KeepQueue DEF QueueConnected
  <1>3. QED
    BY <1>0, <1>1, <1>2, SenderFrame

\* ... and queues it if it follows the latest block or a queued one.
LEMMA SendStep ==
  ASSUME IInv, blockSender
  PROVE  IInv'
  <1>0. /\ generated # 0 /\ generated' = 0
        /\ blockQueue' = (IF Acceptable THEN Append(blockQueue, generated) ELSE blockQueue)
        /\ db' = (IF Acceptable THEN storePendingBlock(db, generated) ELSE db)
        /\ UNCHANGED <<program, producer, requests, topic, offset, position, pc, polls, fetched>>
        /\ UNCHANGED <<newBlock, count, commitLost, lost, torn, fed>>
    BY DEF blockSender, fixed, server, history
  <1>1. /\ QueueConnected /\ generated \in Nat \ {0} /\ blockQueue \in Seq(Nat \ {0}) /\ DbTypes
    BY <1>0, Parts, TypeParts DEF SenderTypes
  <1>2. CASE ~Acceptable
    <2>1. SenderTypes' /\ DbTypes' /\ QueueConnected'
      BY <1>0, <1>1, <1>2 DEF SenderTypes, DbTypes, QueueConnected
    <2>2. QED
      BY <1>0, <1>2, <2>1, SenderFrame
  <1>3. CASE Acceptable
    <2>1. /\ db'.latest = db.latest /\ db'.blocks = db.blocks
          /\ db'.pending = db.pending \cup {generated}
          /\ db' = [latest |-> db'.latest, blocks |-> db'.blocks, pending |-> db'.pending]
      <3>1. db' = [latest |-> db.latest, blocks |-> db.blocks,
                   pending |-> db.pending \cup {generated}]
        BY <1>0, <1>3, BlockFacts DEF storePendingBlock
      <3>2. QED
        BY <3>1
    <2>2. DbTypes'
      BY <1>1, <2>1 DEF DbTypes
    <2>3. PICK g \in Nat \ {0} : g = generated
      BY <1>1
    <2>4. PICK N \in Nat : N = Len(blockQueue) /\ DOMAIN blockQueue = 1 .. N
      BY <1>1
    <2>5. /\ blockQueue' \in Seq(Nat \ {0}) /\ ToSet(blockQueue') = ToSet(blockQueue) \cup {g}
          /\ Len(blockQueue') = N + 1 /\ blockQueue'[N + 1] = g
          /\ \A n \in 1 .. N : blockQueue'[n] = blockQueue[n]
      BY <1>0, <1>1, <1>3, <2>3, <2>4, AppendSet
    <2>6. SenderTypes'
      BY <1>0, <2>5 DEF SenderTypes
    <2>7. ASSUME NEW i \in 2 .. N + 1
          PROVE  \E j \in 1 .. i - 1 : blockQueue'[j] = blockQueue'[i] - 1
      <3>1. CASE i = N + 1
        <4>1. blockQueue # <<>>
          BY <2>4, <3>1
        <4>2. g - 1 \in ToSet(blockQueue)
          BY <1>3, <2>3, <4>1 DEF Acceptable
        <4>3. PICK j \in 1 .. N : blockQueue[j] = g - 1
          BY <2>4, <4>2 DEF ToSet
        <4>4. j \in 1 .. i - 1
          BY <3>1
        <4>5. QED
          BY <2>5, <3>1, <4>3, <4>4
      <3>2. CASE i \in 2 .. N
        <4>1. PICK j \in 1 .. i - 1 : blockQueue[j] = blockQueue[i] - 1
          BY <1>1, <2>4, <3>2 DEF QueueConnected
        <4>2. j \in 1 .. N /\ i \in 1 .. N
          BY <3>2
        <4>3. QED
          BY <2>5, <4>1, <4>2
      <3>3. QED
        BY <3>1, <3>2
    <2>8. QueueConnected'
      BY <1>0, <1>1, <2>1, <2>3, <2>5, <2>7 DEF QueueConnected
    <2>9. QED
      BY <1>0, <2>1, <2>2, <2>6, <2>8, SenderFrame
  <1>4. QED
    BY <1>2, <1>3

-----------------------------------------------------------------------------
\* Every step keeps the invariant.
LEMMA NextIInv == IInv /\ [Next]_vars => IInv'
  <1> SUFFICES ASSUME IInv, [Next]_vars PROVE IInv'
    OBVIOUS
  <1>1. ASSUME NEW cart \in Carts, NEW words \in Carts,
               NEW c \in UNION {Commands[n] : n \in DOMAIN Commands \cap {Len(requests) + 1}},
               RunClient(c, cart, words)
        PROVE  IInv'
    <2>1. c \in Lines
      BY DEF Lines
    <2>2. QED
      BY <1>1, <2>1, RunClientStep
  <1>2. ASSUME NEW k \in {"malformed", "read-only"}, PostOther(k) PROVE IInv'
    BY <1>2, PostOtherStep
  <1>3. ASSUME NEW r \in DOMAIN requests, AnswerAtOnce(r) PROVE IInv'
    BY <1>3, AnswerStep
  <1>4. ASSUME NEW r \in DOMAIN requests, NEW d \in BOOLEAN, Submit(r, d) PROVE IInv'
    BY <1>4, SubmitStep
  <1>5. ASSUME NEW ok \in BOOLEAN, Commit(ok) PROVE IInv'
    BY <1>5, CommitStep
  <1>6. ASSUME NEW n \in 0 .. MaxTxns, ProduceFromFile(n) PROVE IInv'
    BY <1>6, ProduceStep
  <1>7. ASSUME NEW ok \in BOOLEAN, Execute(ok) PROVE IInv'
    BY <1>7, ExecuteStep
  <1>8. CASE OtherMessage \/ Subscribe \/ PollMessage \/ PollError \/ PollEnd \/ AutoCommit
    BY <1>8, OtherMessageStep, SubscribeStep, PollMessageStep, PollErrorStep, PollEndStep,
       AutoCommitStep
  <1>9. CASE Build \/ PrintBlock \/ StoreLatest \/ StoreBlock \/ Finish \/ Crash \/ Restart
    BY <1>9, BuildStep, PrintStep, StoreLatestStep, StoreBlockStep, FinishStep, CrashStep,
       RestartStep
  <1>10. CASE Generate \/ blockSender
    BY <1>10, GenerateStep, SendStep
  <1>11. CASE UNCHANGED vars
    <2>1. /\ UNCHANGED <<program, producer, requests, topic, offset, position, pc, polls, fetched>>
          /\ UNCHANGED <<newBlock, count, commitLost, lost, torn, fed, db, blockQueue, generated>>
      BY <1>11 DEF vars
    <2>2. DbTypes' /\ SenderTypes'
      BY <2>1, Parts, TypeParts, KeepTypes
    <2>3. QueueConnected'
      BY <2>1, Parts DEF QueueConnected
    <2>4. QED
      BY <2>1, <2>2, <2>3, SenderFrame
  <1>12. QED
    BY <1>1, <1>2, <1>3, <1>4, <1>5, <1>6, <1>7, <1>8, <1>9, <1>10, <1>11 DEF Next

\* The invariant holds in every reachable state of the node, its pool, its clients
\* and the sender, whatever the commands, the block size and the number of crashes.
THEOREM Invariance == Spec => []IInv
  BY InitIInv, NextIInv, PTL DEF Spec

\* A transaction of the pool gets into one block at most, crashes and restarts
\* included, as long as no commit fails: the committed offset lies behind every
\* block and blockProducer reads from it (blockProducer.h).
THEOREM EachInOneBlock == Spec => []OneBlockEach
  <1>1. IInv => OneBlockEach
    BY DEF IInv
  <1>2. QED
    BY <1>1, Invariance, PTL

\* What lies below the committed offset is in a block, in the block being made, no
\* transaction, or accounted for as lost.
THEOREM OffsetAccounted == Spec => []NothingSkipped
  <1>1. IInv => NothingSkipped
    BY DEF IInv
  <1>2. QED
    BY <1>1, Invariance, PTL

\* The stored blocks have no gap but a torn block and no broken link but the one
\* behind it, for any number of crashes inside storeBlock (blocksDB.h).
THEOREM ChainIsSound == Spec => []ChainInv
  <1>1. IInv => ChainInv
    BY DEF IInv, ChainInv
  <1>2. QED
    BY <1>1, Invariance, PTL

\* The sender's queue stays connected and stored (p2pBlockSender.cpp).
THEOREM QueueIsConnected == Spec => []QueueConnected
  <1>1. IInv => QueueConnected
    BY DEF IInv
  <1>2. QED
    BY <1>1, Invariance, PTL

\* Whatever commands users type and carts they find: a transaction in the pool
\* declares every key its contract accesses, in each of the three programs.
THEOREM PoolIsDeclared == Spec => []PoolDeclared
  <1>1. IInv => PoolDeclared
    BY DEF IInv
  <1>2. QED
    BY <1>1, Invariance, PTL

\* No stored block is overwritten, unless main has stored a block 0 of an empty file.
THEOREM StoredIsKept == Spec => BlocksKept
  <1> DEFINE Kept == (pc' # "ended" /\ 0 \notin DOMAIN db.blocks \cup torn) =>
                       \A n \in DOMAIN db.blocks :
                         n \in DOMAIN db'.blocks /\ db'.blocks[n] = db.blocks[n]
  <1>1. IInv /\ [Next]_vars => [Kept]_vars
    <2> SUFFICES ASSUME IInv, [Next]_vars PROVE [Kept]_vars
      OBVIOUS
    <2>1. CASE UNCHANGED vars
      BY <2>1
    <2>2. CASE StoreBlock
      <3>1. pc = "stored" /\ db' = PutBlock(db, newBlock.num, newBlock)
        BY <2>2 DEF StoreBlock
      <3>2. PICK num : num = newBlock.num
        OBVIOUS
      <3>3. db'.blocks = [m \in DOMAIN db.blocks \cup {num} |->
                            IF m = num THEN newBlock ELSE db.blocks[m]]
        BY <3>1, <3>2, BlockFacts DEF PutBlock
      <3>4. QED
        BY <3>1, <3>2, <3>3, NumberIsNew
    <2>3. ASSUME pc' = "ended" \/ db'.blocks = db.blocks PROVE Kept
      BY <2>3
    <2>4. CASE StoreLatest
      BY <2>3, <2>4, BlockFacts DEF StoreLatest, PutLatest
    <2>5. CASE blockSender
      BY <2>3, <2>5, BlockFacts DEF blockSender, storePendingBlock
    <2>6. CASE Finish
      BY <2>3, <2>6 DEF Finish
    <2>7. ASSUME NEW ok \in BOOLEAN, Execute(ok) PROVE Kept
      BY <2>3, <2>7 DEF Execute
    <2>8. ASSUME NEW cart \in Carts, NEW words \in Carts, NEW c, RunClient(c, cart, words) PROVE Kept
      BY <2>3, <2>8 DEF RunClient
    <2>9. ASSUME NEW k \in {"malformed", "read-only"}, PostOther(k) PROVE Kept
      BY <2>3, <2>9 DEF PostOther
    <2>10. ASSUME NEW r \in DOMAIN requests, AnswerAtOnce(r) PROVE Kept
      BY <2>3, <2>10 DEF AnswerAtOnce
    <2>11. ASSUME NEW r \in DOMAIN requests, NEW d \in BOOLEAN, Submit(r, d) PROVE Kept
      BY <2>3, <2>11 DEF Submit
    <2>12. ASSUME NEW ok \in BOOLEAN, Commit(ok) PROVE Kept
      BY <2>3, <2>12 DEF Commit
    <2>13. ASSUME NEW n \in 0 .. MaxTxns, ProduceFromFile(n) PROVE Kept
      BY <2>3, <2>13 DEF ProduceFromFile
    <2>14. CASE OtherMessage \/ Subscribe \/ PollMessage \/ PollError \/ PollEnd \/ AutoCommit
      BY <2>3, <2>14 DEF OtherMessage, Subscribe, PollMessage, PollError, PollEnd, AutoCommit
    <2>15. CASE Build \/ PrintBlock \/ Crash \/ Restart \/ Generate
      BY <2>3, <2>15 DEF Build, PrintBlock, Crash, Restart, Generate
    <2>16. QED
      BY <2>1, <2>2, <2>4, <2>5, <2>6, <2>7, <2>8, <2>9, <2>10, <2>11, <2>12, <2>13, <2>14, <2>15
         DEF Next
  <1>2. QED
    BY <1>1, Invariance, PTL DEF Spec, BlocksKept

-----------------------------------------------------------------------------
(***************************************************************************)
(* What a call does to the map.                                            *)
(***************************************************************************)
\* The map is a function; two maps hold the same for a key; the keys a call uses.
IsMap(m) == m = [y \in DOMAIN m |-> m[y]]
SameAt(m1, m2, k) == (k \in DOMAIN m1 <=> k \in DOMAIN m2) /\ (k \in DOMAIN m1 => m1[k] = m2[k])
OpsOf(p, c) == ProcessTxn(p, c).ops
Touched(p, c) == {OpsOf(p, c)[n].key : n \in {m \in DOMAIN OpsOf(p, c) : OpsOf(p, c)[m].op # "fail"}}

\* The shape of an access, of the accesses of a call and of a call.
IsOp(o) ==
  \/ o.op = "fail" /\ o.key = <<>> /\ ~o.hold
  \/ o.op \in {"load", "find", "enter", "put"} /\ o.key # <<>> /\ o.hold \in BOOLEAN
AreOps(ops) ==
  Len(ops) \in 1 .. 4 /\ DOMAIN ops = 1 .. Len(ops) /\ \A n \in DOMAIN ops : IsOp(ops[n])
CallRec(at, n, vals, puts, ok) == [at |-> at, pc |-> n, vals |-> vals, puts |-> puts, ok |-> ok]
IsCall(call) ==
  \E at, vals, puts : \E n \in Nat \ {0} : \E ok \in BOOLEAN : call = CallRec(at, n, vals, puts, ok)

\* An access to a named key, with the accessor kept or not.
LEMMA NamedOp ==
  ASSUME NEW op \in {"load", "find", "enter", "put"}, NEW kind, NEW name
  PROVE  IsOp(Op(op, <<kind, name>>)) /\ IsOp(Hold(op, <<kind, name>>))
  BY DEF IsOp, Op, Hold

\* A sequence of one access.
LEMMA OneOp ==
  ASSUME NEW o, IsOp(o)
  PROVE  AreOps(<<o>>)
  BY DEF AreOps

\* Two accesses.
LEMMA TwoOps ==
  ASSUME NEW o1, NEW o2, IsOp(o1), IsOp(o2)
  PROVE  AreOps(<<o1, o2>>)
  BY DEF AreOps

\* Four accesses.
LEMMA FourOps ==
  ASSUME NEW o1, NEW o2, NEW o3, NEW o4, IsOp(o1), IsOp(o2), IsOp(o3), IsOp(o4)
  PROVE  AreOps(<<o1, o2, o3, o4>>)
  BY DEF AreOps

\* The failure alone.
LEMMA FailOps == AreOps(Fail)
  <1>1. IsOp(Op("fail", <<>>))
    BY DEF IsOp, Op
  <1>2. QED
    BY <1>1, OneOp DEF Fail

\* The wallet's accesses.
LEMMA WalletAreOps ==
  ASSUME NEW c
  PROVE  AreOps(WalletOps(c))
  <1>1. CASE c.verb \in {"deposit", "withdraw"}
    BY <1>1, NamedOp, TwoOps DEF WalletOps, Account
  <1>2. CASE c.verb = "transfer"
    BY <1>2, NamedOp, FourOps DEF WalletOps, Account
  <1>3. CASE c.verb \notin {"deposit", "withdraw", "transfer"}
    BY <1>3, FailOps DEF WalletOps
  <1>4. QED
    BY <1>1, <1>2, <1>3

\* The voting contract's accesses.
LEMMA VotingAreOps ==
  ASSUME NEW c
  PROVE  AreOps(VotingOps(c))
  <1>1. CASE c.verb = "registerVoter"
    BY <1>1, NamedOp, OneOp DEF VotingOps, Voter
  <1>2. CASE c.verb = "registerCandidate"
    BY <1>2, NamedOp, OneOp DEF VotingOps, Candidate
  <1>3. CASE c.verb = "transferVote"
    BY <1>3, NamedOp, FourOps DEF VotingOps, Voter
  <1>4. CASE c.verb = "castVote"
    BY <1>4, NamedOp, FourOps DEF VotingOps, Voter, Candidate
  <1>5. CASE c.verb \notin {"registerVoter", "registerCandidate", "transferVote", "castVote"}
    BY <1>5, FailOps DEF VotingOps
  <1>6. QED
    BY <1>1, <1>2, <1>3, <1>4, <1>5

\* The NFT contract's accesses, in both forms.
LEMMA NftAreOps ==
  ASSUME NEW c
  PROVE  AreOps(NftOpsHeld(c)) /\ AreOps(NftOpsScoped(c))
  <1>1. CASE c.x = "missing" \/ c.verb \notin {"create", "transfer"}
    BY <1>1, FailOps DEF NftOpsHeld, NftOpsScoped
  <1>2. CASE c.x # "missing" /\ c.verb = "create"
    <2>1. /\ NftOpsHeld(c) = <<Hold("load", Owner(c.a)), Op("put", Owner(c.a))>>
          /\ NftOpsScoped(c) = <<Hold("load", Owner(c.a)), Op("put", Owner(c.a))>>
      BY <1>2 DEF NftOpsHeld, NftOpsScoped
    <2>2. QED
      BY <2>1, NamedOp, TwoOps DEF Owner
  <1>3. CASE c.x # "missing" /\ c.verb = "transfer"
    <2>1. /\ NftOpsHeld(c) = <<Hold("load", Owner(c.a)), Op("put", Owner(c.a)),
                               Hold("load", Owner(c.b)), Op("put", Owner(c.b))>>
          /\ NftOpsScoped(c) = <<Op("find", Owner(c.a)), Op("put", Owner(c.a)),
                                 Op("load", Owner(c.b)), Op("put", Owner(c.b))>>
      BY <1>3 DEF NftOpsHeld, NftOpsScoped
    <2>2. QED
      BY <2>1, NamedOp, FourOps DEF Owner
  <1>4. QED
    BY <1>1, <1>2, <1>3

\* The shop's accesses.
LEMMA ECommAreOps ==
  ASSUME NEW c
  PROVE  AreOps(ECommOps(c))
  <1>1. CASE c.verb \in {"checkout", "addToCart", "removeFromCart"}
    BY <1>1, NamedOp, TwoOps DEF ECommOps, Cart
  <1>2. CASE c.verb = "refillItem"
    BY <1>2, NamedOp, TwoOps DEF ECommOps, Item
  <1>3. CASE c.verb \notin {"checkout", "addToCart", "removeFromCart", "refillItem"}
    BY <1>3, FailOps DEF ECommOps
  <1>4. QED
    BY <1>1, <1>2, <1>3

\* Every processor: which accesses it makes.
LEMMA OpsChoice ==
  ASSUME NEW p \in Programs, NEW c, c.family \in Families
  PROVE  /\ c.family = "wallet" => OpsOf(p, c) = WalletOps(c)
         /\ c.family = "voting" => OpsOf(p, c) = VotingOps(c)
         /\ c.family = "nft" => OpsOf(p, c) = IF p = "distributed" THEN NftOpsHeld(c) ELSE NftOpsScoped(c)
         /\ c.family = "eComm" => OpsOf(p, c) = ECommOps(c)
         /\ ProcessTxn(p, c).again \in BOOLEAN
  <1>1. CASE p = "distributed"
    <2>1. CASE c.family = "wallet"
      BY <1>1, <2>1 DEF OpsOf, ProcessTxn, walletProcessorD, Processor
    <2>2. CASE c.family = "voting"
      <3>1. ProcessTxn(p, c) = votingProcessorD(c)
        BY <1>1, <2>2, SMTT(60) DEF ProcessTxn
      <3>2. QED
        BY <2>2, <3>1 DEF OpsOf, votingProcessorD, Processor
    <2>3. CASE c.family = "nft"
      <3>1. ProcessTxn(p, c) = nftProcessorD(c)
        BY <1>1, <2>3, SMTT(60) DEF ProcessTxn
      <3>2. OpsOf(p, c) = NftOpsHeld(c)
        BY <3>1 DEF OpsOf, nftProcessorD, Processor
      <3>3. ProcessTxn(p, c).again \in BOOLEAN
        BY <3>1 DEF nftProcessorD, Processor
      <3>4. QED
        BY <1>1, <2>3, <3>2, <3>3
    <2>4. CASE c.family = "eComm"
      BY <1>1, <2>4 DEF OpsOf, ProcessTxn, eCommProcessorD, Processor
    <2>5. QED
      BY <2>1, <2>2, <2>3, <2>4 DEF Families
  <1>2. CASE p = "parallel"
    BY <1>2 DEF Families, OpsOf, ProcessTxn, walletProcessorP, votingProcessorP, nftProcessorP,
                eCommProcessorP, Processor
  <1>3. CASE p = "serial"
    BY <1>3 DEF Families, OpsOf, ProcessTxn, walletProcessorS, votingProcessorS, nftProcessorS,
                eCommProcessorS, Processor
  <1>4. QED
    BY <1>1, <1>2, <1>3 DEF Programs

\* Every call makes one to four well-formed accesses.
LEMMA ProcessorOps ==
  ASSUME NEW p \in Programs, NEW c, c.family \in Families
  PROVE  AreOps(OpsOf(p, c)) /\ ProcessTxn(p, c).again \in BOOLEAN
  BY OpsChoice, WalletAreOps, VotingAreOps, NftAreOps, ECommAreOps DEF Families

\* The map with a key written.
Written(map, k, x) == [y \in DOMAIN map \cup {k} |-> IF y = k THEN x ELSE map[y]]
After(call, map) == [call |-> call, map |-> map]

\* The outcomes of an access o to map, by what it finds.
AccessOutcome(a, p, c, o, at, n, vals, puts, ok, map, st) ==
  LET k == o.key
      found == k \in DOMAIN map
      write == o.op = "put" /\ (puts > 0 \/ Allowed(c, vals))
  IN /\ o.op \in {"load", "find"} /\ found =>
          a = After(CallRec(at, n + 1, Append(vals, map[k]), puts, ok), map)
     /\ o.op = "load" /\ ~found /\ Readable(k, st) =>
          a = After(CallRec(at, n + 1, Append(vals, Stored(k, st)), puts, ok),
                    Written(map, k, Stored(k, st)))
     /\ o.op = "enter" /\ ~found =>
          a = After(CallRec(at, n + 1, vals, puts, ok),
                    Written(map, k, IF k[1] = "voter" THEN ProcessTxn(p, c).tokens ELSE 0))
     /\ o.op = "enter" /\ found =>
          a = After(CallRec(at, n + 1, vals, puts, ProcessTxn(p, c).again), map)
     /\ write =>
          a = After(CallRec(at, n + 1, vals, puts + 1, ok),
                    Written(map, k, NewValue(c, puts + 1, vals)))
     /\ \/ o.op = "load" /\ ~found /\ ~Readable(k, st)
        \/ o.op = "find" /\ ~found
        \/ o.op = "put" /\ ~write
        \/ o.op = "fail"
        => a = After(CallRec(at, n + 1, vals, puts, FALSE), map)

\* Access has those outcomes.
LEMMA AccessCases ==
  ASSUME NEW p, NEW c, NEW at, NEW n \in Nat, NEW vals, NEW puts, NEW ok, NEW map, NEW st,
         NEW o, o = OpsOf(p, c)[n], IsOp(o)
  PROVE  AccessOutcome(Access(p, c, CallRec(at, n, vals, puts, ok), map, st),
                       p, c, o, at, n, vals, puts, ok, map, st)
  <1> DEFINE call == CallRec(at, n, vals, puts, ok)
             next == [call EXCEPT !.pc = @ + 1]
             a == Access(p, c, call, map, st)
             k == o.key
             found == k \in DOMAIN map
             write == o.op = "put" /\ (puts > 0 \/ Allowed(c, vals))
  <1>1. call.pc = n /\ call.puts = puts /\ call.vals = vals /\ ProcessTxn(p, c).ops[call.pc] = o
    BY DEF CallRec, OpsOf
  <1>2. /\ next = CallRec(at, n + 1, vals, puts, ok)
        /\ \A x : /\ [next EXCEPT !.ok = x] = CallRec(at, n + 1, vals, puts, x)
                  /\ [next EXCEPT !.vals = Append(@, x)] = CallRec(at, n + 1, Append(vals, x), puts, ok)
        /\ [next EXCEPT !.puts = @ + 1] = CallRec(at, n + 1, vals, puts + 1, ok)
    <2>1. next = CallRec(at, n + 1, vals, puts, ok)
      BY DEF CallRec
    <2> HIDE DEF next
    <2>2. ASSUME NEW x
          PROVE  /\ [next EXCEPT !.ok = x] = CallRec(at, n + 1, vals, puts, x)
                 /\ [next EXCEPT !.vals = Append(@, x)] = CallRec(at, n + 1, Append(vals, x), puts, ok)
      <3>1. [next EXCEPT !.ok = x] = CallRec(at, n + 1, vals, puts, x)
        BY <2>1 DEF CallRec
      <3>2. [next EXCEPT !.vals = Append(@, x)] = CallRec(at, n + 1, Append(vals, x), puts, ok)
        <4>1. PICK longer : longer = Append(vals, x)
          OBVIOUS
        <4>2. next.vals = vals
          BY <2>1 DEF CallRec
        <4>3. [next EXCEPT !.vals = longer] = CallRec(at, n + 1, longer, puts, ok)
          BY <2>1 DEF CallRec
        <4>4. QED
          BY <4>1, <4>2, <4>3
      <3>3. QED
        BY <3>1, <3>2
    <2>3. [next EXCEPT !.puts = @ + 1] = CallRec(at, n + 1, vals, puts + 1, ok)
      BY <2>1 DEF CallRec
    <2>4. QED
      BY <2>1, <2>2, <2>3
  <1>3. /\ o.op \in {"load", "find"} /\ found =>
             a = After([next EXCEPT !.vals = Append(@, map[k])], map)
        /\ o.op = "load" /\ ~found /\ Readable(k, st) =>
             a = After([next EXCEPT !.vals = Append(@, Stored(k, st))], Written(map, k, Stored(k, st)))
    BY <1>1 DEF Access, After, Written
  <1>4. /\ o.op = "enter" /\ ~found =>
             a = After(next, Written(map, k, IF k[1] = "voter" THEN ProcessTxn(p, c).tokens ELSE 0))
        /\ o.op = "enter" /\ found =>
             a = After([next EXCEPT !.ok = ProcessTxn(p, c).again], map)
    BY <1>1 DEF Access, After, Written
  <1>5. write => a = After([next EXCEPT !.puts = @ + 1], Written(map, k, NewValue(c, puts + 1, vals)))
    BY <1>1 DEF Access, After, Written
  <1>6. \/ o.op = "load" /\ ~found /\ ~Readable(k, st)
        \/ o.op = "find" /\ ~found
        \/ o.op = "put" /\ ~write
        \/ o.op = "fail"
        => a = After([next EXCEPT !.ok = FALSE], map)
    BY <1>1 DEF Access, After, Written
  <1>7. /\ o.op \in {"load", "find"} /\ found =>
             a = After(CallRec(at, n + 1, Append(vals, map[k]), puts, ok), map)
        /\ o.op = "load" /\ ~found /\ Readable(k, st) =>
             a = After(CallRec(at, n + 1, Append(vals, Stored(k, st)), puts, ok),
                       Written(map, k, Stored(k, st)))
        /\ o.op = "enter" /\ ~found =>
             a = After(CallRec(at, n + 1, vals, puts, ok),
                       Written(map, k, IF k[1] = "voter" THEN ProcessTxn(p, c).tokens ELSE 0))
        /\ o.op = "enter" /\ found =>
             a = After(CallRec(at, n + 1, vals, puts, ProcessTxn(p, c).again), map)
        /\ write => a = After(CallRec(at, n + 1, vals, puts + 1, ok),
                             Written(map, k, NewValue(c, puts + 1, vals)))
        /\ \/ o.op = "load" /\ ~found /\ ~Readable(k, st)
           \/ o.op = "find" /\ ~found
           \/ o.op = "put" /\ ~write
           \/ o.op = "fail"
           => a = After(CallRec(at, n + 1, vals, puts, FALSE), map)
    <2> HIDE DEF a, next, found, write
    <2> QED
      BY <1>2, <1>3, <1>4, <1>5, <1>6
  <1>8. QED
    BY <1>7, Zenon DEF AccessOutcome

\* Writing a key: the other keys are kept, and maps that agree still do.
LEMMA WrittenAt ==
  ASSUME NEW m, NEW m2, NEW k, NEW x
  PROVE  /\ IsMap(Written(m, k, x)) /\ DOMAIN Written(m, k, x) = DOMAIN m \cup {k}
         /\ \A y : y # k => SameAt(Written(m, k, x), m, y)
         /\ \A y : SameAt(m, m2, y) => SameAt(Written(m, k, x), Written(m2, k, x), y)
  <1>1. DOMAIN Written(m, k, x) = DOMAIN m \cup {k} /\ DOMAIN Written(m2, k, x) = DOMAIN m2 \cup {k}
    BY DEF Written
  <1>2. /\ \A y \in DOMAIN m \cup {k} : Written(m, k, x)[y] = IF y = k THEN x ELSE m[y]
        /\ \A y \in DOMAIN m2 \cup {k} : Written(m2, k, x)[y] = IF y = k THEN x ELSE m2[y]
    BY DEF Written
  <1>3. IsMap(Written(m, k, x))
    BY DEF IsMap, Written
  <1>4. \A y : y # k => SameAt(Written(m, k, x), m, y)
    BY <1>1, <1>2 DEF SameAt
  <1>5. \A y : SameAt(m, m2, y) => SameAt(Written(m, k, x), Written(m2, k, x), y)
    BY <1>1, <1>2 DEF SameAt
  <1>6. QED
    BY <1>1, <1>3, <1>4, <1>5

\* An access steps over itself and changes the map at its own key only.
LEMMA AccessLocal ==
  ASSUME NEW p \in Programs, NEW c, c.family \in Families, NEW call, IsCall(call),
         call.pc <= Len(OpsOf(p, c)), NEW m, IsMap(m), NEW st,
         NEW a, a = Access(p, c, call, m, st)
  PROVE  /\ IsCall(a.call) /\ a.call.pc = call.pc + 1 /\ a.call.at = call.at
         /\ IsMap(a.map) /\ DOMAIN m \subseteq DOMAIN a.map
         /\ \A y : y \notin Touched(p, c) => SameAt(a.map, m, y)
  <1>1. PICK at, vals, puts : \E n \in Nat \ {0} : \E ok \in BOOLEAN : call = CallRec(at, n, vals, puts, ok)
    BY DEF IsCall
  <1>2. PICK n \in Nat \ {0}, ok \in BOOLEAN : call = CallRec(at, n, vals, puts, ok)
    BY <1>1
  <1>3. call.pc = n /\ call.at = at
    BY <1>2 DEF CallRec
  <1>4. /\ n \in DOMAIN OpsOf(p, c) /\ ProcessTxn(p, c).again \in BOOLEAN
        /\ IsOp(OpsOf(p, c)[n])
    BY <1>3, ProcessorOps DEF AreOps
  <1>5. PICK o : o = OpsOf(p, c)[n]
    OBVIOUS
  <1>6. o.op # "fail" => o.key \in Touched(p, c)
    BY <1>4, <1>5 DEF Touched
  <1> DEFINE Outcome ==
        \E v2, p2 : \E o2 \in BOOLEAN :
          /\ a.call = CallRec(at, n + 1, v2, p2, o2)
          /\ \/ a.map = m
             \/ o.op # "fail" /\ \E x : a.map = Written(m, o.key, x)
  <1>7. Outcome
    <2> DEFINE found == o.key \in DOMAIN m
               write == o.op = "put" /\ (puts > 0 \/ Allowed(c, vals))
    <2>1. ASSUME NEW v2, NEW p2, NEW o2 \in BOOLEAN, NEW map,
                 a = After(CallRec(at, n + 1, v2, p2, o2), map),
                 map = m \/ (o.op # "fail" /\ \E x : map = Written(m, o.key, x))
          PROVE  Outcome
      <3>1. a.call = CallRec(at, n + 1, v2, p2, o2) /\ a.map = map
        BY <2>1 DEF After
      <3>2. QED
        BY <2>1, <3>1
    <2> HIDE DEF Outcome
    <2>a. AccessOutcome(a, p, c, o, at, n, vals, puts, ok, m, st)
      BY <1>2, <1>4, <1>5, AccessCases
    <2>2. CASE o.op \in {"load", "find"} /\ found
      BY <1>4, <2>1, <2>a, <2>2 DEF AccessOutcome
    <2>3. CASE o.op = "load" /\ ~found /\ Readable(o.key, st)
      BY <1>4, <2>1, <2>a, <2>3 DEF AccessOutcome
    <2>4. CASE o.op = "enter" /\ ~found
      BY <1>4, <2>1, <2>a, <2>4 DEF AccessOutcome
    <2>5. CASE o.op = "enter" /\ found
      BY <1>4, <2>1, <2>a, <2>5 DEF AccessOutcome
    <2>6. CASE write
      BY <1>4, <2>1, <2>a, <2>6 DEF AccessOutcome
    <2>7. CASE \/ o.op = "load" /\ ~found /\ ~Readable(o.key, st)
               \/ o.op = "find" /\ ~found
               \/ o.op = "put" /\ ~write
               \/ o.op = "fail"
      BY <1>4, <2>1, <2>a, <2>7 DEF AccessOutcome
    <2>8. QED
      BY <1>4, <1>5, <2>2, <2>3, <2>4, <2>5, <2>6, <2>7 DEF IsOp
  <1>8. IsCall(a.call) /\ a.call.pc = call.pc + 1 /\ a.call.at = call.at
    <2>1. PICK v2, p2 : \E o2 \in BOOLEAN : a.call = CallRec(at, n + 1, v2, p2, o2)
      BY <1>7
    <2>2. PICK o2 \in BOOLEAN : a.call = CallRec(at, n + 1, v2, p2, o2)
      BY <2>1
    <2>3. a.call.pc = n + 1 /\ a.call.at = at
      BY <2>2 DEF CallRec
    <2>4. n + 1 \in Nat \ {0}
      OBVIOUS
    <2>5. QED
      BY <1>3, <2>2, <2>3, <2>4 DEF IsCall
  <1>9. /\ IsMap(a.map) /\ DOMAIN m \subseteq DOMAIN a.map
        /\ \A y : y \notin Touched(p, c) => SameAt(a.map, m, y)
    <2>1. CASE a.map = m
      BY <2>1 DEF SameAt
    <2>2. CASE o.op # "fail" /\ \E x : a.map = Written(m, o.key, x)
      <3>1. PICK x : a.map = Written(m, o.key, x)
        BY <2>2
      <3>2. /\ IsMap(Written(m, o.key, x)) /\ DOMAIN Written(m, o.key, x) = DOMAIN m \cup {o.key}
            /\ \A y : y # o.key => SameAt(Written(m, o.key, x), m, y)
        BY WrittenAt
      <3>3. QED
        BY <1>6, <2>2, <3>1, <3>2
    <2>3. QED
      BY <1>7, <2>1, <2>2
  <1>10. QED
    BY <1>8, <1>9

\* What an access does depends on the map at the call's keys only.
LEMMA AccessAgrees ==
  ASSUME NEW p \in Programs, NEW c, c.family \in Families, NEW call, IsCall(call),
         call.pc <= Len(OpsOf(p, c)), NEW m, IsMap(m), NEW m2, NEW st,
         \A y \in Touched(p, c) : SameAt(m, m2, y),
         NEW a, a = Access(p, c, call, m, st), NEW a2, a2 = Access(p, c, call, m2, st)
  PROVE  /\ a.call = a2.call
         /\ \A y \in Touched(p, c) : SameAt(a.map, a2.map, y)
  <1>1. PICK at, vals, puts : \E n \in Nat \ {0} : \E ok \in BOOLEAN : call = CallRec(at, n, vals, puts, ok)
    BY DEF IsCall
  <1>2. PICK n \in Nat \ {0}, ok \in BOOLEAN : call = CallRec(at, n, vals, puts, ok)
    BY <1>1
  <1>3. call.pc = n
    BY <1>2 DEF CallRec
  <1>4. n \in DOMAIN OpsOf(p, c) /\ IsOp(OpsOf(p, c)[n])
    BY <1>3, ProcessorOps DEF AreOps
  <1>5. PICK o : o = OpsOf(p, c)[n]
    OBVIOUS
  <1>6. o.op # "fail" => SameAt(m, m2, o.key)
    BY <1>4, <1>5 DEF Touched
  <1> DEFINE found == o.key \in DOMAIN m
             write == o.op = "put" /\ (puts > 0 \/ Allowed(c, vals))
  <1>7. o.op # "fail" => (found <=> o.key \in DOMAIN m2) /\ (found => m[o.key] = m2[o.key])
    BY <1>6 DEF SameAt
  <1>8. ASSUME NEW d, NEW map, NEW map2, a = After(d, map), a2 = After(d, map2),
               \/ map = m /\ map2 = m2
               \/ \E x : map = Written(m, o.key, x) /\ map2 = Written(m2, o.key, x)
        PROVE  a.call = a2.call /\ \A y \in Touched(p, c) : SameAt(a.map, a2.map, y)
    <2>1. a.call = d /\ a2.call = d /\ a.map = map /\ a2.map = map2
      BY <1>8 DEF After
    <2>2. QED
      <3>1. CASE map = m /\ map2 = m2
        BY <2>1, <3>1
      <3>2. CASE \E x : map = Written(m, o.key, x) /\ map2 = Written(m2, o.key, x)
        <4>1. PICK x : map = Written(m, o.key, x) /\ map2 = Written(m2, o.key, x)
          BY <3>2
        <4>2. \A y : SameAt(m, m2, y) => SameAt(Written(m, o.key, x), Written(m2, o.key, x), y)
          BY WrittenAt
        <4>3. QED
          BY <2>1, <4>1, <4>2
      <3>3. QED
        BY <1>8, <3>1, <3>2
  <1>a. /\ AccessOutcome(a, p, c, o, at, n, vals, puts, ok, m, st)
        /\ AccessOutcome(a2, p, c, o, at, n, vals, puts, ok, m2, st)
    BY <1>2, <1>4, <1>5, AccessCases
  <1>9. CASE o.op \in {"load", "find"} /\ found
    BY <1>7, <1>8, <1>a, <1>9 DEF AccessOutcome
  <1>10. CASE o.op = "load" /\ ~found /\ Readable(o.key, st)
    BY <1>7, <1>8, <1>a, <1>10 DEF AccessOutcome
  <1>11. CASE o.op = "enter" /\ ~found
    BY <1>7, <1>8, <1>a, <1>11 DEF AccessOutcome
  <1>12. CASE o.op = "enter" /\ found
    BY <1>7, <1>8, <1>a, <1>12 DEF AccessOutcome
  <1>13. CASE write
    BY <1>7, <1>8, <1>a, <1>13 DEF AccessOutcome
  <1>14. CASE \/ o.op = "load" /\ ~found /\ ~Readable(o.key, st)
              \/ o.op = "find" /\ ~found
              \/ o.op = "put" /\ ~write
              \/ o.op = "fail"
    BY <1>7, <1>8, <1>a, <1>14 DEF AccessOutcome
  <1>15. QED
    BY <1>4, <1>5, <1>9, <1>10, <1>11, <1>12, <1>13, <1>14 DEF IsOp

-----------------------------------------------------------------------------
(***************************************************************************)
(* The commands of a block one after the other.                            *)
(***************************************************************************)
\* Induction over the numbers up to N, as a set.
LEMMA UpTo ==
  ASSUME NEW N \in Nat, NEW T, 0 \in T, \A n \in 0 .. N - 1 : n \in T => n + 1 \in T
  PROVE  \A n \in 0 .. N : n \in T
  <1> DEFINE B == {n \in 0 .. N : n \notin T}
  <1>1. SUFFICES ASSUME B # {} PROVE FALSE
    OBVIOUS
  <1> DEFINE U == {0 .. b : b \in B}
  <1>2. \A b \in B : b \in Nat /\ b <= N /\ 0 .. b \in SUBSET (0 .. N) /\ IsFiniteSet(0 .. b)
    BY FS_Interval
  <1>3. U \subseteq FiniteSubsetsOf(0 .. N) /\ U # {}
    BY <1>1, <1>2 DEF FiniteSubsetsOf
  <1>4. PICK s \in U : \A r \in U : <<r, s>> \notin StrictSubsetOrdering(0 .. N)
    <2> HIDE DEF U
    <2> QED
      BY <1>3, FS_StrictSubsetOrderingWellFounded, WFMin
  <1>5. PICK b \in B : s = 0 .. b
    OBVIOUS
  <1>6. b - 1 \in 0 .. N - 1 /\ b - 1 + 1 = b /\ b \in Nat
    OBVIOUS
  <1>7. b - 1 \in T
    <2>1. SUFFICES ASSUME b - 1 \in B PROVE FALSE
      BY <1>6
    <2>2. 0 .. b - 1 \in U /\ 0 .. b - 1 \subseteq s /\ b \in s /\ b \notin 0 .. b - 1
      BY <1>5, <1>6, <2>1
    <2>3. <<0 .. b - 1, s>> \in StrictSubsetOrdering(0 .. N)
      BY <1>2, <1>5, <2>1, <2>2 DEF StrictSubsetOrdering
    <2>4. QED
      BY <1>4, <2>2, <2>3
  <1>8. QED
    BY <1>6, <1>7

\* What a call and a map are in between.
IsState(s) == IsCall(s.call) /\ s.call.at = "running" /\ IsMap(s.map)

\* A call not yet returned has an access left.
LEMMA NotReturned ==
  ASSUME NEW p \in Programs, NEW c, c.family \in Families, NEW call, IsCall(call),
         ~Returned(p, c, call)
  PROVE  call.pc \in 1 .. 4 /\ call.pc <= Len(OpsOf(p, c)) /\ call.pc \in DOMAIN OpsOf(p, c)
         /\ IsOp(OpsOf(p, c)[call.pc])
  <1>1. call.pc \in Nat \ {0}
    BY DEF IsCall, CallRec
  <1>2. AreOps(OpsOf(p, c)) /\ ~(call.pc > Len(OpsOf(p, c)))
    BY ProcessorOps DEF Returned, OpsOf
  <1>3. QED
    BY <1>1, <1>2 DEF AreOps

\* A step of a call alone.
LEMMA StepLocal ==
  ASSUME NEW p \in Programs, NEW c, c.family \in Families, NEW s, IsState(s), NEW st
  PROVE  /\ IsState(Step(p, c, s, st))
         /\ \A y : y \notin Touched(p, c) => SameAt(Step(p, c, s, st).map, s.map, y)
  <1>1. CASE Returned(p, c, s.call)
    BY <1>1 DEF Step, SameAt
  <1>2. CASE ~Returned(p, c, s.call)
    <2>1. PICK a : a = Access(p, c, s.call, s.map, st)
      OBVIOUS
    <2>2. Step(p, c, s, st) = a
      BY <1>2, <2>1 DEF Step
    <2>3. s.call.pc <= Len(OpsOf(p, c))
      BY <1>2, NotReturned DEF IsState
    <2>4. QED
      BY <2>1, <2>2, <2>3, AccessLocal DEF IsState
  <1>3. QED
    BY <1>1, <1>2

\* The call alone after j steps.
Stage(p, c, m, st, j) ==
  CASE j = 0 -> Begun(m)
    [] j = 1 -> Step(p, c, Begun(m), st)
    [] j = 2 -> Step(p, c, Step(p, c, Begun(m), st), st)
    [] j = 3 -> Step(p, c, Step(p, c, Step(p, c, Begun(m), st), st), st)
    [] j = 4 -> Whole(p, c, m, st)

\* One stage is a step after the one before it; the last is the whole call.
LEMMA Stages ==
  ASSUME NEW p, NEW c, NEW m, NEW st
  PROVE  /\ Stage(p, c, m, st, 0) = Begun(m) /\ Stage(p, c, m, st, 4) = Whole(p, c, m, st)
         /\ \A j \in 0 .. 3 : Stage(p, c, m, st, j + 1) = Step(p, c, Stage(p, c, m, st, j), st)
  <1>1. /\ Stage(p, c, m, st, 0) = Begun(m) /\ Stage(p, c, m, st, 4) = Whole(p, c, m, st)
        /\ Stage(p, c, m, st, 1) = Step(p, c, Begun(m), st)
        /\ Stage(p, c, m, st, 2) = Step(p, c, Stage(p, c, m, st, 1), st)
        /\ Stage(p, c, m, st, 3) = Step(p, c, Stage(p, c, m, st, 2), st)
        /\ Stage(p, c, m, st, 4) = Step(p, c, Stage(p, c, m, st, 3), st)
    BY DEF Stage, Whole
  <1>2. QED
    BY <1>1

\* All stages of a call leave the keys it does not use.
LEMMA StageLocal ==
  ASSUME NEW p \in Programs, NEW c, c.family \in Families, NEW m, IsMap(m), NEW st,
         NEW j \in 0 .. 4
  PROVE  /\ IsState(Stage(p, c, m, st, j))
         /\ \A y : y \notin Touched(p, c) => SameAt(Stage(p, c, m, st, j).map, m, y)
  <1> DEFINE Ok(i) == /\ IsState(Stage(p, c, m, st, i))
                      /\ \A y : y \notin Touched(p, c) => SameAt(Stage(p, c, m, st, i).map, m, y)
  <1>1. Ok(0)
    <2>1. Stage(p, c, m, st, 0) = Begun(m) /\ Begun(m).map = m /\ Begun(m).call = Call("running")
      BY Stages DEF Begun
    <2>2. Call("running") = CallRec("running", 1, <<>>, 0, TRUE)
      BY DEF Call, CallRec
    <2>3. IsCall(Call("running")) /\ Call("running").at = "running"
      <3>1. 1 \in Nat \ {0} /\ TRUE \in BOOLEAN
        OBVIOUS
      <3>2. IsCall(Call("running"))
        BY <2>2, <3>1 DEF IsCall
      <3>3. QED
        BY <2>2, <3>2 DEF CallRec
    <2>4. QED
      BY <2>1, <2>3 DEF IsState, SameAt
  <1>2. ASSUME NEW i \in 0 .. 3, Ok(i) PROVE Ok(i + 1)
    <2>1. PICK s : s = Stage(p, c, m, st, i)
      OBVIOUS
    <2>2. Stage(p, c, m, st, i + 1) = Step(p, c, s, st)
      BY <2>1, Stages
    <2>3. IsState(s) /\ \A y : y \notin Touched(p, c) => SameAt(s.map, m, y)
      BY <1>2, <2>1
    <2>4. /\ IsState(Step(p, c, s, st))
          /\ \A y : y \notin Touched(p, c) => SameAt(Step(p, c, s, st).map, s.map, y)
      BY <2>3, StepLocal
    <2>5. QED
      BY <2>2, <2>3, <2>4 DEF SameAt
  <1>3. Ok(1)
    BY <1>1, <1>2
  <1>4. Ok(2)
    BY <1>2, <1>3
  <1>5. Ok(3)
    BY <1>2, <1>4
  <1>6. Ok(4)
    BY <1>2, <1>5
  <1>7. QED
    BY <1>1, <1>3, <1>4, <1>5, <1>6

\* A call that has returned stays as it is.
LEMMA ReturnedStays ==
  ASSUME NEW p, NEW c, NEW m, NEW st, NEW j \in 0 .. 4,
         Returned(p, c, Stage(p, c, m, st, j).call)
  PROVE  Whole(p, c, m, st) = Stage(p, c, m, st, j)
  <1> DEFINE S(i) == Stage(p, c, m, st, i)
  <1>1. \A i \in 0 .. 3 : S(i + 1) = Step(p, c, S(i), st)
    BY Stages
  <1>2. ASSUME NEW i \in 0 .. 3, Returned(p, c, S(i).call) PROVE S(i + 1) = S(i)
    BY <1>1, <1>2 DEF Step
  <1> HIDE DEF S
  <1>3. /\ Returned(p, c, S(0).call) => S(1) = S(0)
        /\ Returned(p, c, S(1).call) => S(2) = S(1)
        /\ Returned(p, c, S(2).call) => S(3) = S(2)
        /\ Returned(p, c, S(3).call) => S(4) = S(3)
    BY <1>2
  <1>4. Returned(p, c, S(j).call) => S(4) = S(j)
    BY <1>3
  <1>5. QED
    BY <1>4, Stages DEF S

\* The equations of InBlockOrder.
RunsInOrder(f, p, cs, m, st) ==
  f[0] = m /\ \A n \in 1 .. Len(cs) : f[n] = Whole(p, cs[n], f[n - 1], st).map

\* They have a solution: the recursion is well founded.
LEMMA InOrder ==
  ASSUME NEW p, NEW cs, Len(cs) \in Nat, NEW m, NEW st
  PROVE  RunsInOrder(InBlockOrder(p, cs, m, st), p, cs, m, st)
  <1>0. PICK f : f = InBlockOrder(p, cs, m, st)
    OBVIOUS
  <1> DEFINE N == Len(cs)
             After1(n, x) == IF n = 0 THEN m ELSE Whole(p, cs[n], x, st).map
             Upto(g, k) == g = [n \in 0 .. k |-> After1(n, g[n - 1])]
             T == {k \in 0 .. N : \E g : Upto(g, k)}
  <1>1. 0 \in T
    <2>1. PICK g : g = [n \in 0 .. 0 |-> m]
      OBVIOUS
    <2>2. DOMAIN g = 0 .. 0 /\ \A n \in 0 .. 0 : g[n] = After1(n, g[n - 1])
      BY <2>1
    <2>3. Upto(g, 0)
      BY <2>1, <2>2
    <2>4. QED
      BY <2>3
  <1>2. ASSUME NEW k \in 0 .. N - 1, k \in T PROVE k + 1 \in T
    <2>1. PICK g : Upto(g, k)
      BY <1>2
    <2>2. PICK h : h = [n \in 0 .. k + 1 |-> IF n = k + 1 THEN After1(k + 1, g[k]) ELSE g[n]]
      OBVIOUS
    <2>3. \A n \in 0 .. k : g[n] = After1(n, g[n - 1])
      BY <2>1
    <2>4. \A n \in 0 .. k + 1 : h[n] = After1(n, h[n - 1])
      <3>1. TAKE n \in 0 .. k + 1
      <3>2. CASE n = 0
        BY <2>2, <2>3, <3>2
      <3>3. CASE n # 0 /\ n \in 0 .. k
        <4>1. h[n] = g[n] /\ h[n - 1] = g[n - 1]
          BY <2>2, <3>3
        <4>2. QED
          BY <2>3, <3>3, <4>1
      <3>4. CASE n = k + 1
        <4>1. h[n] = After1(k + 1, g[k]) /\ h[n - 1] = g[k]
          BY <2>2, <3>4
        <4>2. QED
          BY <3>4, <4>1
      <3>5. QED
        BY <3>2, <3>3, <3>4
    <2>5. Upto(h, k + 1)
      BY <2>2, <2>4
    <2>6. QED
      BY <2>5
  <1>3. N \in T
    <2> HIDE DEF T
    <2> QED
      <3>1. N \in Nat /\ N \in 0 .. N
        OBVIOUS
      <3> HIDE DEF N
      <3>2. \A k \in 0 .. N - 1 : k \in T => k + 1 \in T
        BY <1>2
      <3>3. QED
        BY <1>1, <3>1, <3>2, UpTo
  <1>4. PICK g : Upto(g, N)
    BY <1>3
  <1>5. f = CHOOSE h : Upto(h, N)
    BY <1>0 DEF InBlockOrder
  <1>6. Upto(f, N)
    <2> HIDE DEF Upto
    <2> QED
      BY <1>4, <1>5
  <1>7. \A n \in 0 .. N : f[n] = After1(n, f[n - 1])
    BY <1>6
  <1>8. f[0] = m /\ \A n \in 1 .. N : f[n] = Whole(p, cs[n], f[n - 1], st).map
    BY <1>7
  <1>9. QED
    BY <1>0, <1>8 DEF RunsInOrder

\* What a block is.
IsBlock(cs) ==
  Len(cs) \in Nat /\ DOMAIN cs = 1 .. Len(cs) /\ \A i \in 1 .. Len(cs) : cs[i].family \in Families

\* A whole call leaves a map, and in it the keys it does not use.
LEMMA WholeLocal ==
  ASSUME NEW p \in Programs, NEW c, c.family \in Families, NEW m, IsMap(m), NEW st
  PROVE  /\ IsMap(Whole(p, c, m, st).map)
         /\ \A y : y \notin Touched(p, c) => SameAt(Whole(p, c, m, st).map, m, y)
  <1>1. Stage(p, c, m, st, 4) = Whole(p, c, m, st) /\ 4 \in 0 .. 4
    BY Stages
  <1>2. QED
    BY <1>1, StageLocal DEF IsState

\* The maps in between are maps.
LEMMA OrderMaps ==
  ASSUME NEW p \in Programs, NEW cs, IsBlock(cs), NEW m, IsMap(m), NEW st,
         NEW f, f = InBlockOrder(p, cs, m, st)
  PROVE  \A n \in 0 .. Len(cs) : IsMap(f[n])
  <1> DEFINE T == {n \in 0 .. Len(cs) : IsMap(f[n])}
  <1>0. Len(cs) \in Nat
    BY DEF IsBlock
  <1>1. f[0] = m /\ \A n \in 1 .. Len(cs) : f[n] = Whole(p, cs[n], f[n - 1], st).map
    <2>1. RunsInOrder(f, p, cs, m, st)
      BY <1>0, InOrder
    <2>2. QED
      BY <2>1 DEF RunsInOrder
  <1>2. 0 \in T
    BY <1>0, <1>1
  <1>3. ASSUME NEW n \in 0 .. Len(cs) - 1, n \in T PROVE n + 1 \in T
    <2>1. n + 1 \in 1 .. Len(cs) /\ n + 1 - 1 = n /\ cs[n + 1].family \in Families
      BY <1>0 DEF IsBlock
    <2>2. IsMap(Whole(p, cs[n + 1], f[n], st).map)
      BY <1>3, <2>1, WholeLocal
    <2>3. f[n + 1] = Whole(p, cs[n + 1], f[n], st).map
      BY <1>1, <2>1
    <2>4. QED
      BY <1>0, <2>1, <2>2, <2>3
  <1>4. \A n \in 0 .. Len(cs) : n \in T
    <2> HIDE DEF T
    <2> QED
      BY <1>0, <1>2, <1>3, UpTo
  <1>5. QED
    BY <1>4

\* Commands that do not use a key leave it.
LEMMA OrderStable ==
  ASSUME NEW p \in Programs, NEW cs, IsBlock(cs), NEW m, IsMap(m), NEW st,
         NEW f, f = InBlockOrder(p, cs, m, st),
         NEW k, NEW a \in 0 .. Len(cs), NEW b \in a .. Len(cs),
         \A i \in a + 1 .. b : k \notin Touched(p, cs[i])
  PROVE  SameAt(f[a], f[b], k)
  <1> DEFINE N == b - a
             T == {d \in 0 .. N : SameAt(f[a], f[a + d], k)}
  <1>0. Len(cs) \in Nat /\ N \in Nat /\ a \in Nat /\ b \in Nat
    BY DEF IsBlock
  <1>1. f[0] = m /\ \A n \in 1 .. Len(cs) : f[n] = Whole(p, cs[n], f[n - 1], st).map
    <2>1. RunsInOrder(f, p, cs, m, st)
      BY <1>0, InOrder
    <2>2. QED
      BY <2>1 DEF RunsInOrder
  <1>2. 0 \in T
    <2>1. a + 0 = a /\ 0 \in 0 .. N
      BY <1>0
    <2>2. SameAt(f[a], f[a], k)
      BY DEF SameAt
    <2>3. QED
      BY <2>1, <2>2
  <1>3. ASSUME NEW d \in 0 .. N - 1, d \in T PROVE d + 1 \in T
    <2>1. PICK n : n = a + (d + 1)
      OBVIOUS
    <2>2. /\ n \in 1 .. Len(cs) /\ n - 1 = a + d /\ n \in a + 1 .. b /\ n - 1 \in 0 .. Len(cs)
          /\ d + 1 \in 0 .. N
      BY <1>0, <2>1
    <2>3. cs[n].family \in Families /\ IsMap(f[n - 1]) /\ k \notin Touched(p, cs[n])
      BY <2>2, OrderMaps DEF IsBlock
    <2>4. SameAt(Whole(p, cs[n], f[n - 1], st).map, f[n - 1], k)
      BY <2>3, WholeLocal
    <2>5. f[n] = Whole(p, cs[n], f[n - 1], st).map
      BY <1>1, <2>2
    <2>6. SameAt(f[a], f[n - 1], k)
      BY <1>3, <2>2
    <2>7. SameAt(f[a], f[n], k)
      BY <2>4, <2>5, <2>6 DEF SameAt
    <2>8. QED
      BY <2>1, <2>2, <2>7
  <1>4. N \in T
    <2>1. N \in 0 .. N
      BY <1>0
    <2> HIDE DEF T, N
    <2>2. \A d \in 0 .. N - 1 : d \in T => d + 1 \in T
      BY <1>3
    <2>3. QED
      BY <1>0, <1>2, <2>1, <2>2, UpTo
  <1>5. a + N = b
    BY <1>0
  <1>6. QED
    BY <1>4, <1>5

-----------------------------------------------------------------------------
(***************************************************************************)
(* The declared headers order the transactions that share a key.           *)
(***************************************************************************)
\* The headers of the producer's clients.
LEMMA HeaderChoice ==
  ASSUME NEW p \in Programs, NEW c, c.family \in Families, NEW cart
  PROVE  /\ c.family = "wallet" => processCommand(p, c, cart) = WalletHeader(c)
         /\ c.family = "voting" => processCommand(p, c, cart) = VotingHeader(c)
         /\ c.family = "nft" => processCommand(p, c, cart) = NftHeader(c)
         /\ c.family = "eComm" => \E w : processCommand(p, c, cart) = ECommHeader(c, w)
  <1>1. CASE c.family = "wallet"
    BY <1>1 DEF Programs, processCommand, walletClientD, walletClientP, walletClientS
  <1>2. CASE c.family = "voting"
    BY <1>2 DEF Programs, processCommand, votingClientD, votingClientP, votingClientS
  <1>3. CASE c.family = "nft"
    BY <1>3 DEF Programs, processCommand, nftClientD, nftClientP, nftClientS
  <1>4. CASE c.family = "eComm"
    <2>1. processCommand(p, c, cart) \in {ECommHeader(c, cart), ECommHeader(c, <<>>)}
      BY <1>4 DEF Programs, processCommand, eCommClientD, eCommClientP, eCommClientS
    <2>2. QED
      BY <1>4, <2>1
  <1>5. QED
    BY <1>1, <1>2, <1>3, <1>4 DEF Families

\* Every producer's header declares what the processor accesses; an unknown verb
\* is declared as it comes and fails at once.
LEMMA Covered ==
  ASSUME NEW p \in Programs, NEW c, c.family \in Families, NEW cart
  PROVE  Covers(processCommand(p, c, cart), OpsOf(p, c))
  <1>1. \A h : Covers(h, Fail)
    <2>1. ToSet(Fail) = {Op("fail", <<>>)}
      BY DEF Fail, ToSet
    <2>2. QED
      BY <2>1 DEF Covers, Op
  <1>2. CASE c.family = "wallet"
    <2>1. c.verb \notin {"deposit", "withdraw", "transfer"} => WalletOps(c) = Fail
      BY DEF WalletOps
    <2>2. QED
      BY <1>1, <1>2, <2>1, OpsChoice, HeaderChoice, WalletCovered
  <1>3. CASE c.family = "voting"
    <2>1. c.verb \notin {"registerVoter", "registerCandidate", "transferVote", "castVote"}
            => VotingOps(c) = Fail
      BY DEF VotingOps
    <2>2. QED
      BY <1>1, <1>3, <2>1, OpsChoice, HeaderChoice, VotingCovered
  <1>4. CASE c.family = "nft"
    <2>1. c.verb \notin {"create", "transfer"} => NftOpsHeld(c) = Fail /\ NftOpsScoped(c) = Fail
      BY DEF NftOpsHeld, NftOpsScoped
    <2>2. QED
      BY <1>1, <1>4, <2>1, OpsChoice, HeaderChoice, NftCovered
  <1>5. CASE c.family = "eComm"
    <2>1. c.verb \notin {"checkout", "addToCart", "removeFromCart", "refillItem"} => ECommOps(c) = Fail
      BY DEF ECommOps
    <2>2. PICK w : processCommand(p, c, cart) = ECommHeader(c, w)
      BY <1>5, HeaderChoice
    <2>3. QED
      BY <1>1, <1>5, <2>1, <2>2, OpsChoice, ECommCovered
  <1>6. QED
    BY <1>2, <1>3, <1>4, <1>5 DEF Families

\* The address under which a key is declared.
Address(k) == IF k # <<>> /\ k[1] = "owner" THEN Nft(k[2]) ELSE k

\* Every key a call uses is declared as an input and as an output.
LEMMA TouchedDeclared ==
  ASSUME NEW p \in Programs, NEW c, c.family \in Families, NEW cart, NEW k \in Touched(p, c)
  PROVE  /\ Address(k) \in processCommand(p, c, cart).inputs
         /\ Address(k) \in processCommand(p, c, cart).outputs
  <1>1. PICK n \in DOMAIN OpsOf(p, c) : OpsOf(p, c)[n].op # "fail" /\ k = OpsOf(p, c)[n].key
    BY DEF Touched
  <1>2. OpsOf(p, c)[n] \in ToSet(OpsOf(p, c))
    BY DEF ToSet
  <1>3. QED
    BY <1>1, <1>2, Covered DEF Covers, Address

-----------------------------------------------------------------------------
(***************************************************************************)
(* The inductive invariant.                                                *)
(***************************************************************************)
\* The maps the block's commands leave one after the other, the keys a transaction
\* uses, and its call run alone in block order.
Ordered == InBlockOrder(variant, commands, entry, state)
Uses(i) == Touched(variant, commands[i])
Alone(i, j) == Stage(variant, commands[i], Ordered[i - 1], state, j)

\* What the block, the maps and the calls are.
Shapes ==
  /\ IsBlock(commands) /\ IsMap(myMap) /\ IsMap(entry)
  /\ \A i \in Txns : IsCall(calls[i]) /\ calls[i].at \in {"waiting", "running", "done"}
  /\ IF phase = "run" THEN blockCount < NBlocks ELSE Running = {}

\* The declared headers, and what they order.
HeadersMade ==
  \A i \in Txns : headers[i] = processCommand(variant, commands[i], Stored(Cart(commands[i].a), state))
DepsDone ==
  \A h \in Txns, i \in Txns : Dependent(h, i) /\ calls[i].at # "waiting" => calls[h].at = "done"

\* k is as the first n transactions left it: those of them that use it have run, the
\* later ones have not begun.
Settled(k, n) ==
  \A i \in Txns : k \in Uses(i) => calls[i].at = IF i <= n THEN "done" ELSE "waiting"
InPlace == \A n \in 0 .. Len(commands) : \A k : Settled(k, n) => SameAt(myMap, Ordered[n], k)

\* A running call is where it would be alone, and so are its keys.
AsAlone(i, j) == calls[i] = Alone(i, j).call /\ \A k \in Uses(i) : SameAt(myMap, Alone(i, j).map, k)
MidCall == \A i \in Running : calls[i].pc - 1 \in 0 .. 4 /\ AsAlone(i, calls[i].pc - 1)

RunInv == phase = "run" => HeadersMade /\ DepsDone /\ InPlace /\ MidCall

\* The flag of the single-node programs, and the serial scheduler's only thread.
FlagInv ==
  phase = "run" =>
    /\ variant # "distributed" /\ flag => \A i \in Txns : results[i]
    /\ variant = "serial" => \A i \in Running : flag /\ \A h \in Running : h = i

LedgerIInv == LedgerTypeOK /\ Shapes /\ RunInv /\ FlagInv

\* Two transactions that use the same key are ordered.
LEMMA Conflict ==
  ASSUME variant \in Programs, Shapes, HeadersMade, NEW h \in Txns, NEW i \in Txns, h < i,
         NEW k, k \in Uses(h), k \in Uses(i)
  PROVE  Dependent(h, i)
  <1>1. commands[h].family \in Families /\ commands[i].family \in Families
    BY DEF Shapes, IsBlock, Txns
  <1>2. Address(k) \in headers[h].outputs /\ Address(k) \in headers[i].inputs
    BY <1>1, TouchedDeclared DEF HeadersMade, Uses
  <1>3. QED
    BY <1>2 DEF Dependent

\* No two running transactions share a key.
LEMMA Apart ==
  ASSUME variant \in Programs, Shapes, HeadersMade, DepsDone, NEW h \in Running, NEW i \in Running,
         h # i, NEW k, k \in Uses(h)
  PROVE  k \notin Uses(i)
  <1>1. SUFFICES ASSUME k \in Uses(i) PROVE FALSE
    OBVIOUS
  <1>2. h \in Txns /\ i \in Txns /\ calls[h].at = "running" /\ calls[i].at = "running"
    BY DEF Running
  <1>3. h \in Nat /\ i \in Nat
    BY <1>2 DEF Shapes, IsBlock, Txns
  <1>4. Dependent(h, i) \/ Dependent(i, h)
    BY <1>1, <1>2, <1>3, Conflict
  <1>5. QED
    BY <1>2, <1>4 DEF DepsDone

\* A block that is as it was has the same order, keys and dependencies.
LEMMA SameBlock ==
  ASSUME UNCHANGED <<variant, state, commands, headers, entry>>
  PROVE  /\ Txns' = Txns /\ Ordered' = Ordered /\ \A i : Uses(i)' = Uses(i)
         /\ \A i, j : Alone(i, j)' = Alone(i, j)
         /\ \A h, i : Dependent(h, i)' <=> Dependent(h, i)
         /\ HeadersMade' <=> HeadersMade
  <1>1. Txns' = Txns /\ Ordered' = Ordered /\ \A i : Uses(i)' = Uses(i)
    BY DEF Txns, Ordered, Uses
  <1>2. \A i, j : Alone(i, j)' = Alone(i, j)
    BY <1>1 DEF Alone
  <1>3. \A h, i : Dependent(h, i)' <=> Dependent(h, i)
    BY DEF Dependent
  <1>4. HeadersMade' <=> HeadersMade
    BY <1>1 DEF HeadersMade
  <1>5. QED
    BY <1>1, <1>2, <1>3, <1>4

-----------------------------------------------------------------------------
\* A fresh call.
LEMMA FreshCall ==
  ASSUME NEW at
  PROVE  IsCall(Call(at)) /\ Call(at).at = at /\ Call(at).pc = 1
  <1>1. Call(at) = CallRec(at, 1, <<>>, 0, TRUE) /\ 1 \in Nat \ {0} /\ TRUE \in BOOLEAN
    BY DEF Call, CallRec
  <1>2. IsCall(Call(at))
    BY <1>1 DEF IsCall
  <1>3. QED
    BY <1>1, <1>2 DEF CallRec

\* A waiting transaction whose predecessors are done finds its keys in place.
LEMMA ReadyInPlace ==
  ASSUME variant \in Programs, Shapes, HeadersMade, DepsDone, InPlace, NEW i \in Txns, Ready(i),
         NEW k \in Uses(i)
  PROVE  SameAt(myMap, Ordered[i - 1], k)
  <1>0. Len(commands) \in Nat /\ Txns = 1 .. Len(commands) /\ i - 1 \in 0 .. Len(commands)
    BY DEF Shapes, IsBlock, Txns
  <1>1. calls[i].at = "waiting" /\ \A h \in Txns : Dependent(h, i) => calls[h].at = "done"
    BY DEF Ready
  <1>2. ASSUME NEW h \in Txns, k \in Uses(h)
        PROVE  calls[h].at = IF h <= i - 1 THEN "done" ELSE "waiting"
    <2>1. CASE h < i
      <3>1. Dependent(h, i)
        BY <1>2, <2>1, Conflict
      <3>2. QED
        BY <1>0, <1>1, <2>1, <3>1
    <2>2. CASE h = i
      BY <1>0, <1>1, <2>2
    <2>3. CASE i < h
      <3>1. Dependent(i, h)
        BY <1>2, <2>3, Conflict
      <3>2. calls[h].at = "waiting"
        BY <1>1, <3>1 DEF DepsDone
      <3>3. QED
        BY <1>0, <2>3, <3>2
    <2>4. QED
      BY <1>0, <2>1, <2>2, <2>3
  <1>3. Settled(k, i - 1)
    BY <1>2 DEF Settled
  <1>4. QED
    BY <1>0, <1>3 DEF InPlace

\* A transaction is taken.
LEMMA SelectRun ==
  ASSUME LedgerIInv, NEW i \in Txns, phase = "run", flag, Ready(i), variant = "serial" => Running = {},
         calls' = [calls EXCEPT ![i] = Call("running")],
         UNCHANGED <<variant, state, myMap, commands, headers, results, flag, phase,
                     blockCount, latest, entry, ledger>>
  PROVE  LedgerIInv'
  <1>0. /\ LedgerTypeOK /\ Shapes /\ HeadersMade /\ DepsDone /\ InPlace /\ MidCall /\ FlagInv
        /\ variant \in Programs /\ DOMAIN calls = Txns
    BY DEF LedgerIInv, RunInv, LedgerTypeOK
  <1>1. /\ Txns' = Txns /\ Ordered' = Ordered /\ (\A h : Uses(h)' = Uses(h))
        /\ (\A h, j : Alone(h, j)' = Alone(h, j))
        /\ (\A g, h : Dependent(g, h)' <=> Dependent(g, h)) /\ HeadersMade'
    BY <1>0, SameBlock
  <1>2. /\ DOMAIN calls' = Txns /\ calls'[i] = Call("running")
        /\ \A h \in Txns \ {i} : calls'[h] = calls[h]
    BY <1>0
  <1>3. /\ IsCall(calls'[i]) /\ calls'[i].at = "running" /\ calls'[i].pc = 1
        /\ calls[i].at = "waiting" /\ \A h \in Txns : Dependent(h, i) => calls[h].at = "done"
    BY <1>2, FreshCall DEF Ready
  <1>4. Running' = Running \cup {i} /\ i \notin Running
    BY <1>1, <1>2, <1>3 DEF Running
  <1>5. Shapes'
    BY <1>0, <1>1, <1>2, <1>3 DEF Shapes
  <1>6. LedgerTypeOK'
    <2>1. \A h \in Running' : calls'[h].pc \in 1 .. Len(Ops(h)') + 1
      <3>1. \A h : Ops(h)' = Ops(h)
        BY DEF Ops
      <3>2. commands[i].family \in Families
        BY <1>0 DEF Shapes, IsBlock, Txns
      <3>3. Len(Ops(i)) \in Nat
        BY <1>0, <3>2, ProcessorOps DEF AreOps, Ops, OpsOf
      <3>4. QED
        BY <1>0, <1>2, <1>3, <1>4, <3>1, <3>3 DEF LedgerTypeOK, Running
    <2>2. QED
      BY <1>0, <1>1, <1>2, <2>1 DEF LedgerTypeOK
  <1>7. DepsDone'
    <2>1. ASSUME NEW g \in Txns, NEW h \in Txns, Dependent(g, h), calls'[h].at # "waiting"
          PROVE  calls'[g].at = "done"
      <3>1. calls[g].at = "done"
        BY <1>0, <1>2, <1>3, <2>1 DEF DepsDone
      <3>2. QED
        BY <1>2, <1>3, <3>1
    <2>2. QED
      BY <1>1, <2>1 DEF DepsDone
  <1>8. InPlace'
    <2>1. ASSUME NEW n \in 0 .. Len(commands), NEW k, Settled(k, n)'
          PROVE  SameAt(myMap, Ordered[n], k)
      <3>1. k \notin Uses(i)
        BY <1>1, <1>3, <2>1 DEF Settled
      <3>2. Settled(k, n)
        BY <1>1, <1>2, <2>1, <3>1 DEF Settled
      <3>3. QED
        BY <1>0, <3>2 DEF InPlace
    <2>2. QED
      BY <1>1, <2>1 DEF InPlace
  <1>9. MidCall'
    <2>1. ASSUME NEW h \in Running PROVE calls'[h].pc - 1 \in 0 .. 4 /\ AsAlone(h, calls[h].pc - 1)'
      <3>1. calls'[h] = calls[h]
        BY <1>2, <1>4 DEF Running
      <3>2. calls[h].pc - 1 \in 0 .. 4 /\ AsAlone(h, calls[h].pc - 1)
        BY <1>0 DEF MidCall
      <3>3. QED
        BY <1>1, <3>1, <3>2 DEF AsAlone
    <2>2. calls'[i].pc - 1 = 0
      BY <1>3
    <2>3. AsAlone(i, 0)'
      <3>1. Alone(i, 0) = Begun(Ordered[i - 1])
        BY Stages DEF Alone
      <3>2. Alone(i, 0).call = Call("running") /\ Alone(i, 0).map = Ordered[i - 1]
        BY <3>1 DEF Begun
      <3>3. \A k \in Uses(i) : SameAt(myMap, Ordered[i - 1], k)
        BY <1>0, ReadyInPlace
      <3>4. QED
        BY <1>1, <1>2, <3>2, <3>3 DEF AsAlone
    <2>4. QED
      BY <1>2, <1>4, <2>1, <2>2, <2>3 DEF MidCall, Running
  <1>10. FlagInv'
    BY <1>0, <1>1, <1>4 DEF FlagInv
  <1>11. QED
    BY <1>1, <1>5, <1>6, <1>7, <1>8, <1>9, <1>10 DEF LedgerIInv, RunInv

\* A call makes its next access: the call goes on as it would alone, and no other
\* running call uses the key.
LEMMA AccessStep ==
  ASSUME LedgerIInv, NEW i \in Txns, AccessMap(i)
  PROVE  LedgerIInv'
  <1>0. /\ LedgerTypeOK /\ Shapes /\ HeadersMade /\ DepsDone /\ InPlace /\ MidCall /\ FlagInv
        /\ variant \in Programs /\ DOMAIN calls = Txns /\ phase = "run"
    BY DEF LedgerIInv, RunInv, LedgerTypeOK, AccessMap
  <1>1. /\ UNCHANGED <<variant, state, commands, headers, results, flag, phase, blockCount,
                       latest, entry, ledger>>
        /\ i \in Running /\ ~Returned(variant, commands[i], calls[i])
    BY DEF AccessMap
  <1>2. PICK a : a = Access(variant, commands[i], calls[i], myMap, state)
    OBVIOUS
  <1>3. calls' = [calls EXCEPT ![i] = a.call] /\ myMap' = a.map
    BY <1>2 DEF AccessMap
  <1>4. /\ Txns' = Txns /\ Ordered' = Ordered /\ (\A h : Uses(h)' = Uses(h))
        /\ (\A h, j : Alone(h, j)' = Alone(h, j))
        /\ (\A g, h : Dependent(g, h)' <=> Dependent(g, h)) /\ HeadersMade'
    BY <1>0, <1>1, SameBlock
  <1>5. /\ DOMAIN calls' = Txns /\ calls'[i] = a.call
        /\ \A h \in Txns \ {i} : calls'[h] = calls[h]
    BY <1>0, <1>3
  <1>6. /\ commands[i].family \in Families /\ IsCall(calls[i]) /\ IsMap(myMap)
        /\ calls[i].at = "running" /\ calls[i].pc \in Nat
    BY <1>0, <1>1 DEF Shapes, IsBlock, Txns, Running, MidCall, IsCall, CallRec
  <1>7. /\ calls[i].pc \in 1 .. 4 /\ calls[i].pc <= Len(OpsOf(variant, commands[i]))
        /\ Len(OpsOf(variant, commands[i])) \in Nat
    BY <1>0, <1>1, <1>6, NotReturned, ProcessorOps DEF AreOps
  <1>8. /\ IsCall(a.call) /\ a.call.pc = calls[i].pc + 1 /\ a.call.at = "running"
        /\ IsMap(a.map) /\ DOMAIN myMap \subseteq DOMAIN a.map
        /\ \A y : y \notin Uses(i) => SameAt(a.map, myMap, y)
    BY <1>0, <1>2, <1>6, <1>7, AccessLocal DEF Uses
  <1>9. Running' = Running /\ \A h \in Txns : calls'[h].at = calls[h].at
    BY <1>4, <1>5, <1>6, <1>8 DEF Running
  <1>10. Shapes'
    BY <1>0, <1>1, <1>3, <1>4, <1>5, <1>8, <1>9 DEF Shapes
  <1>11. LedgerTypeOK'
    <2>1. \A h \in Running' : calls'[h].pc \in 1 .. Len(Ops(h)') + 1
      <3>1. \A h : Ops(h)' = Ops(h)
        BY <1>1 DEF Ops
      <3>2. calls'[i].pc \in 1 .. Len(Ops(i)) + 1
        BY <1>5, <1>6, <1>7, <1>8 DEF Ops, OpsOf
      <3>3. QED
        BY <1>0, <1>5, <1>9, <3>1, <3>2 DEF LedgerTypeOK, Running
    <2>2. DOMAIN entry' \subseteq DOMAIN myMap' \/ phase' = "produce"
      BY <1>0, <1>1, <1>3, <1>8 DEF LedgerTypeOK
    <2>3. QED
      BY <1>0, <1>1, <1>4, <1>5, <2>1, <2>2 DEF LedgerTypeOK
  <1>12. DepsDone'
    BY <1>0, <1>4, <1>9 DEF DepsDone
  <1>13. InPlace'
    <2>1. ASSUME NEW n \in 0 .. Len(commands), NEW k, Settled(k, n)'
          PROVE  SameAt(myMap', Ordered[n], k)
      <3>1. Settled(k, n)
        BY <1>4, <1>9, <2>1 DEF Settled
      <3>2. k \notin Uses(i)
        BY <1>6, <3>1 DEF Settled
      <3>3. SameAt(myMap, Ordered[n], k)
        BY <1>0, <3>1 DEF InPlace
      <3>4. SameAt(myMap', myMap, k)
        BY <1>3, <1>8, <3>2
      <3>5. QED
        BY <3>3, <3>4 DEF SameAt
    <2>2. QED
      BY <1>1, <1>4, <2>1 DEF InPlace
  <1>14. MidCall'
    <2>1. ASSUME NEW h \in Running, h # i
          PROVE  calls'[h].pc - 1 \in 0 .. 4 /\ AsAlone(h, calls[h].pc - 1)'
      <3>1. calls'[h] = calls[h]
        BY <1>5, <2>1 DEF Running
      <3>2. calls[h].pc - 1 \in 0 .. 4 /\ AsAlone(h, calls[h].pc - 1)
        BY <1>0 DEF MidCall
      <3>3. ASSUME NEW k \in Uses(h) PROVE SameAt(myMap', Alone(h, calls[h].pc - 1).map, k)
        <4>1. k \notin Uses(i)
          BY <1>0, <1>1, <2>1, Apart
        <4>2. SameAt(myMap', myMap, k)
          BY <1>3, <1>8, <4>1
        <4>3. SameAt(myMap, Alone(h, calls[h].pc - 1).map, k)
          BY <3>2 DEF AsAlone
        <4>4. QED
          BY <4>2, <4>3 DEF SameAt
      <3>4. QED
        BY <1>4, <3>1, <3>2, <3>3 DEF AsAlone
    <2>2. calls'[i].pc - 1 \in 0 .. 4 /\ AsAlone(i, calls[i].pc - 1)'
      <3>1. PICK j : j = calls[i].pc - 1
        OBVIOUS
      <3>2. j \in 0 .. 3 /\ calls'[i].pc - 1 = j + 1 /\ j + 1 \in 0 .. 4
        BY <1>5, <1>7, <1>8, <3>1
      <3>3. calls[i] = Alone(i, j).call /\ \A k \in Uses(i) : SameAt(myMap, Alone(i, j).map, k)
        BY <1>0, <1>1, <3>1 DEF MidCall, AsAlone
      <3>4. Alone(i, j + 1) = Step(variant, commands[i], Alone(i, j), state)
        BY <3>2, Stages DEF Alone
      <3>5. PICK b : b = Access(variant, commands[i], calls[i], Alone(i, j).map, state)
        OBVIOUS
      <3>6. Alone(i, j + 1) = b
        BY <1>1, <3>3, <3>4, <3>5 DEF Step
      <3>7. a.call = b.call /\ \A k \in Uses(i) : SameAt(a.map, b.map, k)
        BY <1>0, <1>2, <1>6, <1>7, <3>3, <3>5, AccessAgrees DEF Uses
      <3>8. QED
        BY <1>3, <1>4, <1>5, <3>2, <3>6, <3>7 DEF AsAlone
    <2>3. QED
      BY <1>9, <2>1, <2>2 DEF MidCall
  <1>15. FlagInv'
    BY <1>0, <1>1, <1>4, <1>9 DEF FlagInv
  <1>16. QED
    BY <1>4, <1>10, <1>11, <1>12, <1>13, <1>14, <1>15 DEF LedgerIInv, RunInv

\* A call returns: its keys are as its turn in block order leaves them, and no later
\* transaction that uses one of them has begun.
LEMMA CompleteStep ==
  ASSUME LedgerIInv, NEW i \in Txns, CompleteTxn(i)
  PROVE  LedgerIInv'
  <1>0. /\ LedgerTypeOK /\ Shapes /\ HeadersMade /\ DepsDone /\ InPlace /\ MidCall /\ FlagInv
        /\ variant \in Programs /\ DOMAIN calls = Txns /\ phase = "run"
    BY DEF LedgerIInv, RunInv, LedgerTypeOK, CompleteTxn
  <1>1. /\ UNCHANGED <<variant, state, myMap, commands, headers, phase, blockCount, latest, entry, ledger>>
        /\ i \in Running /\ Returned(variant, commands[i], calls[i])
        /\ calls' = [calls EXCEPT ![i] = Call("done")]
        /\ results' = [results EXCEPT ![i] = calls[i].ok]
        /\ flag' = IF variant = "parallel" THEN flag /\ calls[i].ok ELSE calls[i].ok
    BY DEF CompleteTxn
  <1>2. /\ Txns' = Txns /\ Ordered' = Ordered /\ (\A h : Uses(h)' = Uses(h))
        /\ (\A h, j : Alone(h, j)' = Alone(h, j))
        /\ (\A g, h : Dependent(g, h)' <=> Dependent(g, h)) /\ HeadersMade'
    BY <1>0, <1>1, SameBlock
  <1>3. /\ DOMAIN calls' = Txns /\ calls'[i] = Call("done")
        /\ \A h \in Txns \ {i} : calls'[h] = calls[h]
    BY <1>0, <1>1
  <1>4. IsCall(calls'[i]) /\ calls'[i].at = "done" /\ calls[i].at = "running"
    BY <1>1, <1>3, FreshCall DEF Running
  <1>5. Running' = Running \ {i}
    BY <1>2, <1>3, <1>4 DEF Running
  <1>6. calls[i].ok \in BOOLEAN
    <2>1. IsCall(calls[i])
      BY <1>0 DEF Shapes
    <2>2. PICK at, vals, puts : \E n \in Nat \ {0} : \E ok \in BOOLEAN :
                                  calls[i] = CallRec(at, n, vals, puts, ok)
      BY <2>1 DEF IsCall
    <2>3. PICK n \in Nat \ {0}, ok \in BOOLEAN : calls[i] = CallRec(at, n, vals, puts, ok)
      BY <2>2
    <2>4. calls[i].ok = ok
      BY <2>3 DEF CallRec
    <2>5. QED
      BY <2>4
  <1>7. Shapes'
    BY <1>0, <1>1, <1>2, <1>3, <1>4 DEF Shapes
  <1>8. LedgerTypeOK'
    <2>1. \A h \in Running' : calls'[h].pc \in 1 .. Len(Ops(h)') + 1
      <3>1. \A h : Ops(h)' = Ops(h)
        BY <1>1 DEF Ops
      <3>2. QED
        BY <1>0, <1>3, <1>5, <3>1 DEF LedgerTypeOK, Running
    <2>2. results' \in [Txns -> BOOLEAN]
      BY <1>0, <1>1, <1>6 DEF LedgerTypeOK
    <2>3. flag' \in BOOLEAN
      BY <1>0, <1>1, <1>6 DEF LedgerTypeOK
    <2>4. QED
      BY <1>0, <1>1, <1>2, <1>3, <2>1, <2>2, <2>3 DEF LedgerTypeOK
  <1>9. DepsDone'
    <2>1. ASSUME NEW g \in Txns, NEW h \in Txns, Dependent(g, h), calls'[h].at # "waiting"
          PROVE  calls'[g].at = "done"
      <3>1. calls[h].at # "waiting"
        BY <1>3, <1>4, <2>1
      <3>2. calls[g].at = "done"
        BY <1>0, <2>1, <3>1 DEF DepsDone
      <3>3. QED
        BY <1>3, <1>4, <3>2
    <2>2. QED
      BY <1>2, <2>1 DEF DepsDone
  <1>10. ASSUME NEW k \in Uses(i) PROVE SameAt(myMap, Ordered[i], k)
    <2>1. PICK j : j = calls[i].pc - 1
      OBVIOUS
    <2>2. j \in 0 .. 4 /\ calls[i] = Alone(i, j).call /\ SameAt(myMap, Alone(i, j).map, k)
      BY <1>0, <1>1, <2>1 DEF MidCall, AsAlone
    <2>3. Alone(i, j) = Whole(variant, commands[i], Ordered[i - 1], state)
      BY <1>1, <2>2, ReturnedStays DEF Alone
    <2>4. Ordered[i] = Whole(variant, commands[i], Ordered[i - 1], state).map
      <3>1. Len(commands) \in Nat /\ i \in 1 .. Len(commands)
        BY <1>0 DEF Shapes, IsBlock, Txns
      <3>2. QED
        <4>1. RunsInOrder(Ordered, variant, commands, entry, state)
          BY <3>1, InOrder DEF Ordered
        <4>2. QED
          BY <3>1, <4>1 DEF RunsInOrder
    <2>5. QED
      BY <2>2, <2>3, <2>4
  <1>11. InPlace'
    <2>1. ASSUME NEW n \in 0 .. Len(commands), NEW k, Settled(k, n)'
          PROVE  SameAt(myMap, Ordered[n], k)
      <3>0. /\ IsBlock(commands) /\ IsMap(entry) /\ Len(commands) \in Nat /\ Txns = 1 .. Len(commands)
            /\ i \in 0 .. Len(commands)
        BY <1>0 DEF Shapes, IsBlock, Txns
      <3>1. CASE k \notin Uses(i)
        <4>1. Settled(k, n)
          BY <1>2, <1>3, <2>1, <3>1 DEF Settled
        <4>2. QED
          BY <1>0, <4>1 DEF InPlace
      <3>2. CASE k \in Uses(i)
        <4>1. i <= n
          BY <1>2, <1>4, <2>1, <3>2 DEF Settled
        <4>2. ASSUME NEW h \in i + 1 .. n PROVE k \notin Touched(variant, commands[h])
          <5>1. SUFFICES ASSUME k \in Uses(h) PROVE FALSE
            BY DEF Uses
          <5>2. h \in Txns /\ i < h /\ h # i /\ h <= n
            BY <3>0
          <5>3. Dependent(i, h)
            BY <1>0, <3>2, <5>1, <5>2, Conflict
          <5>4. calls'[h].at = "done"
            BY <1>2, <2>1, <5>1, <5>2 DEF Settled
          <5>5. calls[h].at = "done"
            BY <1>3, <5>2, <5>4
          <5>6. QED
            BY <1>0, <1>4, <5>2, <5>3, <5>5 DEF DepsDone
        <4>3. SameAt(Ordered[i], Ordered[n], k)
          <5>1. n \in i .. Len(commands)
            BY <3>0, <4>1
          <5>2. QED
            BY <1>0, <3>0, <4>2, <5>1, OrderStable DEF Ordered
        <4>4. QED
          BY <1>10, <3>2, <4>3 DEF SameAt
      <3>3. QED
        BY <3>1, <3>2
    <2>2. QED
      BY <1>1, <1>2, <2>1 DEF InPlace
  <1>12. MidCall'
    <2>1. ASSUME NEW h \in Running, h # i
          PROVE  calls'[h].pc - 1 \in 0 .. 4 /\ AsAlone(h, calls[h].pc - 1)'
      <3>1. calls'[h] = calls[h]
        BY <1>3, <2>1 DEF Running
      <3>2. calls[h].pc - 1 \in 0 .. 4 /\ AsAlone(h, calls[h].pc - 1)
        BY <1>0 DEF MidCall
      <3>3. QED
        BY <1>1, <1>2, <3>1, <3>2 DEF AsAlone
    <2>2. QED
      BY <1>5, <2>1 DEF MidCall
  <1>13. FlagInv'
    <2>1. results \in [Txns -> BOOLEAN] /\ flag \in BOOLEAN
      BY <1>0 DEF LedgerTypeOK
    <2>2. results'[i] = calls[i].ok /\ \A h \in Txns \ {i} : results'[h] = results[h]
      BY <1>1, <2>1
    <2>3. ASSUME variant # "distributed", flag' PROVE \A h \in Txns : results'[h]
      <3>1. flag /\ calls[i].ok
        BY <1>0, <1>1, <1>6, <2>1, <2>3 DEF FlagInv, Programs
      <3>2. \A h \in Txns : results[h]
        BY <1>0, <2>3, <3>1 DEF FlagInv
      <3>3. QED
        BY <2>2, <3>1, <3>2
    <2>4. variant = "serial" => Running' = {}
      BY <1>0, <1>1, <1>5 DEF FlagInv
    <2>5. QED
      BY <1>1, <1>2, <2>3, <2>4 DEF FlagInv
  <1>14. QED
    BY <1>2, <1>7, <1>8, <1>9, <1>11, <1>12, <1>13 DEF LedgerIInv, RunInv

\* A block is produced: nothing has run and the map is where the order begins.
LEMMA ProduceBlockStep ==
  ASSUME LedgerIInv, NEW blk \in SetupBlocks \cup TestBlocks, Produce(blk)
  PROVE  LedgerIInv'
  <1>0. LedgerTypeOK /\ Shapes /\ variant \in Programs /\ variant' = variant
    BY DEF LedgerIInv, LedgerTypeOK, Produce
  <1>1. /\ UNCHANGED <<variant, state, blockCount, latest, ledger>> /\ blockCount < NBlocks
        /\ commands' = blk /\ flag' = TRUE /\ phase' = "run"
        /\ headers' = [i \in DOMAIN blk |->
                         processCommand(variant, blk[i], Stored(Cart(blk[i].a), state))]
        /\ calls' = [i \in DOMAIN blk |-> Call("waiting")]
        /\ results' = [i \in DOMAIN blk |-> TRUE]
        /\ myMap' = (IF variant = "serial" THEN myMap ELSE Empty) /\ entry' = myMap'
    BY DEF Produce
  <1>2. IsBlock(blk)
    <2>1. blk \in Seq(ToSet(blk)) /\ \A i \in DOMAIN blk : blk[i].family \in Families
      BY BlocksAssumption
    <2>2. Len(blk) \in Nat /\ DOMAIN blk = 1 .. Len(blk)
      BY <2>1
    <2>3. QED
      BY <2>1, <2>2 DEF IsBlock
  <1>3. Txns' = DOMAIN blk /\ \A i \in Txns' : calls'[i] = Call("waiting") /\ calls'[i].at = "waiting"
    BY <1>1, FreshCall DEF Txns
  <1>4. Running' = {}
    BY <1>3 DEF Running
  <1>5. IsMap(myMap') /\ IsMap(entry')
    <2>1. IsMap(Empty)
      BY DEF IsMap, Empty
    <2>2. QED
      BY <1>0, <1>1, <2>1 DEF Shapes
  <1>6. Shapes'
    BY <1>1, <1>2, <1>3, <1>5, FreshCall DEF Shapes
  <1>7. LedgerTypeOK'
    BY <1>0, <1>1, <1>3, <1>4 DEF LedgerTypeOK
  <1>8. HeadersMade'
    BY <1>1, <1>3 DEF HeadersMade
  <1>9. DepsDone'
    BY <1>3 DEF DepsDone
  <1>10. InPlace'
    <2>1. PICK f : f = InBlockOrder(variant, blk, myMap', state)
      OBVIOUS
    <2>2. Ordered' = f
      BY <1>1, <2>1 DEF Ordered
    <2>3. Len(blk) \in Nat /\ Txns' = 1 .. Len(blk)
      BY <1>2, <1>3 DEF IsBlock
    <2>4. f[0] = myMap'
      <3>1. RunsInOrder(f, variant, blk, myMap', state)
        BY <2>1, <2>3, InOrder
      <3>2. QED
        BY <3>1 DEF RunsInOrder
    <2>5. ASSUME NEW n \in 0 .. Len(blk), NEW k, Settled(k, n)' PROVE SameAt(myMap', f[n], k)
      <3>1. ASSUME NEW i \in 0 + 1 .. n PROVE k \notin Touched(variant, blk[i])
        <4>1. i \in Txns' /\ i <= n /\ calls'[i].at = "waiting"
          BY <1>3, <2>3
        <4>2. k \in Uses(i)' => calls'[i].at = "done"
          BY <2>5, <4>1 DEF Settled
        <4>3. QED
          BY <1>1, <4>1, <4>2 DEF Uses
      <3>2. 0 \in 0 .. Len(blk)
        BY <2>3
      <3>3. SameAt(f[0], f[n], k)
        BY <1>0, <1>2, <1>5, <2>1, <3>1, <3>2, OrderStable
      <3>4. QED
        BY <2>4, <3>3
    <2>6. QED
      BY <1>1, <2>2, <2>5 DEF InPlace
  <1>11. MidCall'
    BY <1>4 DEF MidCall
  <1>12. FlagInv'
    BY <1>1, <1>3, <1>4 DEF FlagInv
  <1>13. QED
    BY <1>6, <1>7, <1>8, <1>9, <1>10, <1>11, <1>12 DEF LedgerIInv, RunInv

\* The end of a block, whole or given up.
LEMMA EndStep ==
  ASSUME LedgerIInv, FlushMapToState \/ Stop \/ EndBlock
  PROVE  LedgerIInv'
  <1>0. LedgerTypeOK /\ Shapes /\ phase = "run"
    BY DEF LedgerIInv, FlushMapToState, Stop, EndBlock
  <1>1. /\ UNCHANGED <<variant, myMap, commands, headers, calls, results, flag, entry>>
        /\ phase' \in {"produce", "stopped"} /\ phase' # "run" /\ Running = {}
        /\ \/ blockCount' = blockCount + 1 /\ latest' \in {latest, latest + 1} /\ phase' = "produce"
           \/ UNCHANGED <<blockCount, latest>>
    BY DEF FlushMapToState, Stop, EndBlock
  <1>2. blockCount \in Nat /\ latest \in Nat /\ blockCount < NBlocks /\ NBlocks \in Nat /\ latest <= blockCount
    BY <1>0, NumbersAssumption DEF LedgerTypeOK, Shapes
  <1>3. blockCount' \in 0 .. NBlocks /\ latest' \in 0 .. blockCount'
    BY <1>1, <1>2
  <1>4. Txns' = Txns /\ Running' = Running /\ \A i : Ops(i)' = Ops(i)
    BY <1>1 DEF Txns, Running, Ops
  <1>5. LedgerTypeOK'
    BY <1>0, <1>1, <1>3, <1>4 DEF LedgerTypeOK
  <1>6. Shapes'
    BY <1>0, <1>1, <1>4 DEF Shapes
  <1>7. QED
    BY <1>1, <1>5, <1>6 DEF LedgerIInv, RunInv, FlagInv

\* The invariant holds at the start.
LEMMA LedgerInitInv == LedgerInit => LedgerIInv
  <1> SUFFICES ASSUME LedgerInit PROVE LedgerIInv
    OBVIOUS
  <1>1. Txns = {} /\ Running = {} /\ phase = "produce" /\ Len(commands) = 0
    BY DEF LedgerInit, Txns, Running
  <1>2. IsMap(Empty)
    BY DEF IsMap, Empty
  <1>3. LedgerTypeOK
    <2>1. results \in [Txns -> BOOLEAN] /\ DOMAIN headers = Txns /\ DOMAIN calls = Txns
      BY <1>1 DEF LedgerInit
    <2>2. blockCount \in 0 .. NBlocks /\ latest \in 0 .. blockCount
      BY NumbersAssumption DEF LedgerInit
    <2>3. QED
      BY <1>1, <2>1, <2>2 DEF LedgerInit, LedgerTypeOK
  <1>4. Shapes
    <2>1. DOMAIN commands = 1 .. Len(commands)
      BY <1>1 DEF LedgerInit
    <2>2. QED
      BY <1>1, <1>2, <2>1 DEF Shapes, IsBlock, LedgerInit
  <1>5. QED
    BY <1>1, <1>3, <1>4 DEF LedgerIInv, RunInv, FlagInv

\* Every step keeps it.
LEMMA LedgerNextInv == LedgerIInv /\ [LedgerNext]_ledgerVars => LedgerIInv'
  <1> SUFFICES ASSUME LedgerIInv, [LedgerNext]_ledgerVars PROVE LedgerIInv'
    OBVIOUS
  <1>1. ASSUME NEW b \in SetupBlocks \cup TestBlocks, Produce(b) PROVE LedgerIInv'
    BY <1>1, ProduceBlockStep
  <1>2. ASSUME NEW i \in Txns, SelectTxn(i) PROVE LedgerIInv'
    BY <1>2, SelectRun DEF SelectTxn
  <1>3. ASSUME NEW i \in Txns, SelectFirstTxn(i) PROVE LedgerIInv'
    BY <1>3, SelectRun DEF SelectFirstTxn
  <1>4. ASSUME NEW i \in Txns, AccessMap(i) PROVE LedgerIInv'
    BY <1>4, AccessStep
  <1>5. ASSUME NEW i \in Txns, CompleteTxn(i) PROVE LedgerIInv'
    BY <1>5, CompleteStep
  <1>6. CASE FlushMapToState \/ Stop \/ EndBlock
    BY <1>6, EndStep
  <1>7. CASE UNCHANGED ledgerVars
    <2>1. UNCHANGED <<variant, state, myMap, commands, headers, calls, results, flag, phase,
                      blockCount, latest, entry, ledger>>
      BY <1>7 DEF ledgerVars
    <2>2. LedgerTypeOK' <=> LedgerTypeOK
      BY <2>1 DEF LedgerTypeOK, Txns, Running, Ops
    <2>3. Shapes' <=> Shapes
      BY <2>1 DEF Shapes, Txns, Running
    <2>4. FlagInv' <=> FlagInv
      BY <2>1 DEF FlagInv, Txns, Running
    <2>5. RunInv' <=> RunInv
      <3>1. /\ Txns' = Txns /\ Ordered' = Ordered /\ (\A h : Uses(h)' = Uses(h))
            /\ (\A h, j : Alone(h, j)' = Alone(h, j)) /\ Running' = Running
            /\ (\A g, h : Dependent(g, h)' <=> Dependent(g, h)) /\ (HeadersMade' <=> HeadersMade)
        BY <2>1, SameBlock DEF Running, Txns
      <3>2. DepsDone' <=> DepsDone
        BY <2>1, <3>1 DEF DepsDone
      <3>3. \A k, n : Settled(k, n)' <=> Settled(k, n)
        BY <2>1, <3>1 DEF Settled
      <3>4. InPlace' <=> InPlace
        BY <2>1, <3>1, <3>3 DEF InPlace
      <3>5. \A i, j : AsAlone(i, j)' <=> AsAlone(i, j)
        BY <2>1, <3>1 DEF AsAlone
      <3>6. MidCall' <=> MidCall
        BY <2>1, <3>1, <3>5 DEF MidCall
      <3>7. QED
        BY <2>1, <3>1, <3>2, <3>4, <3>6 DEF RunInv
    <2>6. QED
      BY <2>2, <2>3, <2>4, <2>5 DEF LedgerIInv
  <1>8. QED
    BY <1>1, <1>2, <1>3, <1>4, <1>5, <1>6, <1>7 DEF LedgerNext

\* Every reachable state satisfies the invariant.
LEMMA LedgerReachable == LedgerSpec => []LedgerIInv
  BY LedgerInitInv, LedgerNextInv, PTL DEF LedgerSpec

-----------------------------------------------------------------------------
(***************************************************************************)
(* What follows from the invariant.                                        *)
(***************************************************************************)
\* Where the block runs, the parts of the invariant.
LEMMA WhileRunning ==
  ASSUME LedgerIInv
  PROVE  /\ LedgerTypeOK /\ Shapes /\ FlagInv /\ variant \in Programs
         /\ (Running # {} \/ phase = "run") =>
              phase = "run" /\ HeadersMade /\ DepsDone /\ InPlace /\ MidCall
  BY DEF LedgerIInv, RunInv, LedgerTypeOK, Shapes

\* Two maps that hold the same for every key are the same.
LEMMA SameMap ==
  ASSUME NEW m, NEW m2, IsMap(m), IsMap(m2), \A k : SameAt(m, m2, k)
  PROVE  m = m2
  <1>1. DOMAIN m = DOMAIN m2 /\ \A k \in DOMAIN m : m[k] = m2[k]
    BY DEF SameAt
  <1>2. QED
    BY <1>1 DEF IsMap

\* A block that has run is settled everywhere.
LEMMA EquivalenceHolds == LedgerIInv => SerialEquivalence
  <1> SUFFICES ASSUME LedgerIInv, phase = "run", AllDone
               PROVE  myMap = InBlockOrder(variant, commands, entry, state)[Len(commands)]
    BY DEF SerialEquivalence
  <1>1. Shapes /\ InPlace /\ variant \in Programs
    BY WhileRunning
  <1>2. /\ IsBlock(commands) /\ Len(commands) \in Nat /\ Txns = 1 .. Len(commands)
        /\ Len(commands) \in 0 .. Len(commands)
    BY <1>1 DEF Shapes, IsBlock, Txns
  <1>3. \A k : Settled(k, Len(commands))
    BY <1>2 DEF Settled, AllDone
  <1>4. \A k : SameAt(myMap, Ordered[Len(commands)], k)
    BY <1>1, <1>2, <1>3 DEF InPlace
  <1>5. IsMap(Ordered[Len(commands)]) /\ IsMap(myMap)
    <2>1. \A n \in 0 .. Len(commands) : IsMap(Ordered[n])
      BY <1>1, <1>2, OrderMaps DEF Ordered, Shapes
    <2>2. QED
      BY <1>1, <1>2, <2>1 DEF Shapes
  <1>6. myMap = Ordered[Len(commands)]
    BY <1>4, <1>5, SameMap
  <1>7. QED
    BY <1>6 DEF Ordered

\* An access to a key that is no failure uses the key.
LEMMA KeyUsed ==
  ASSUME LedgerIInv, NEW i \in Txns, NEW n \in DOMAIN Ops(i)
  PROVE  IsOp(Ops(i)[n]) /\ (Ops(i)[n].key # <<>> => Ops(i)[n].key \in Uses(i))
  <1>1. commands[i].family \in Families /\ variant \in Programs
    BY WhileRunning DEF Shapes, IsBlock, Txns
  <1>2. Ops(i) = OpsOf(variant, commands[i])
    BY DEF Ops, OpsOf
  <1>3. IsOp(Ops(i)[n])
    BY <1>1, <1>2, ProcessorOps DEF AreOps
  <1>4. QED
    BY <1>2, <1>3 DEF Uses, Touched, IsOp

\* Running transactions share no key.
LEMMA IsolatedHolds == LedgerIInv => Isolated
  <1> SUFFICES ASSUME LedgerIInv, NEW i \in Running, NEW h \in Running \ {i},
                      NEW n \in DOMAIN Ops(i), NEW m \in DOMAIN Ops(h),
                      Ops(i)[n].key = Ops(h)[m].key
               PROVE  Ops(i)[n].key = <<>>
    BY DEF Isolated
  <1>1. SUFFICES ASSUME Ops(i)[n].key # <<>> PROVE FALSE
    OBVIOUS
  <1>2. i \in Txns /\ h \in Txns
    BY DEF Running
  <1>3. Ops(i)[n].key \in Uses(i) /\ Ops(i)[n].key \in Uses(h)
    BY <1>1, <1>2, KeyUsed
  <1>4. QED
    BY <1>3, WhileRunning, Apart

\* Which accessors are kept: the owners' of an NFT call.
LEMMA KeptAccessors ==
  ASSUME NEW p \in Programs, NEW c, c.family \in Families,
         NEW n \in DOMAIN OpsOf(p, c), NEW m \in 1 .. n - 1, OpsOf(p, c)[m].hold
  PROVE  /\ OpsOf(p, c)[m].key # <<>>
         /\ \/ OpsOf(p, c)[n].op = "put"
            \/ /\ p = "distributed" /\ c.verb = "transfer"
               /\ OpsOf(p, c)[m].key = OpsOf(p, c)[n].key => c.a = c.b
  <1>1. CASE c.family = "wallet"
    BY <1>1, OpsChoice DEF WalletOps, Op, Fail
  <1>2. CASE c.family = "voting"
    BY <1>2, OpsChoice DEF VotingOps, Op, Fail
  <1>3. CASE c.family = "eComm"
    BY <1>3, OpsChoice DEF ECommOps, Op, Fail
  <1>4. CASE c.family = "nft" /\ p = "distributed"
    <2>1. OpsOf(p, c) = NftOpsHeld(c)
      BY <1>4, OpsChoice
    <2>2. CASE c.x = "missing" \/ c.verb \notin {"create", "transfer"}
      BY <2>1, <2>2 DEF NftOpsHeld, Fail, Op
    <2>3. CASE c.x # "missing" /\ c.verb = "create"
      BY <2>1, <2>3 DEF NftOpsHeld, Hold, Op, Owner
    <2>4. CASE c.x # "missing" /\ c.verb = "transfer"
      <3>1. OpsOf(p, c) = <<Hold("load", Owner(c.a)), Op("put", Owner(c.a)),
                            Hold("load", Owner(c.b)), Op("put", Owner(c.b))>>
        BY <2>1, <2>4 DEF NftOpsHeld
      <3>2. /\ OpsOf(p, c)[1].key = Owner(c.a) /\ OpsOf(p, c)[3].key = Owner(c.b)
            /\ OpsOf(p, c)[2].op = "put" /\ OpsOf(p, c)[4].op = "put" /\ ~OpsOf(p, c)[2].hold
            /\ DOMAIN OpsOf(p, c) = 1 .. 4
        BY <3>1 DEF Hold, Op
      <3>3. Owner(c.a) # <<>> /\ Owner(c.b) # <<>> /\ (Owner(c.a) = Owner(c.b) => c.a = c.b)
        BY DEF Owner
      <3>4. n \in {2, 4} \/ (n = 3 /\ m = 1)
        BY <3>2
      <3>5. m \in {1, 3}
        BY <3>2
      <3>6. QED
        BY <1>4, <2>4, <3>2, <3>3, <3>4, <3>5
    <2>5. QED
      BY <2>2, <2>3, <2>4
  <1>5. CASE c.family = "nft" /\ p # "distributed"
    <2>1. OpsOf(p, c) = NftOpsScoped(c)
      BY <1>5, OpsChoice
    <2>2. CASE c.x = "missing" \/ c.verb \notin {"create", "transfer"}
      BY <2>1, <2>2 DEF NftOpsScoped, Fail, Op
    <2>3. CASE c.x # "missing" /\ c.verb = "create"
      BY <2>1, <2>3 DEF NftOpsScoped, Hold, Op, Owner
    <2>4. CASE c.x # "missing" /\ c.verb = "transfer"
      BY <2>1, <2>4 DEF NftOpsScoped, Hold, Op, Owner
    <2>5. QED
      BY <2>2, <2>3, <2>4
  <1>6. QED
    BY <1>1, <1>2, <1>3, <1>4, <1>5 DEF Families

\* A call waits only for itself, and only where it asks for what it keeps.
LEMMA NeverBlockedHolds == LedgerIInv => NeverBlocked
  <1> SUFFICES ASSUME LedgerIInv, NEW i \in Running, NEW h \in Running,
                      ~Returned(variant, commands[i], calls[i]), WaitsFor(i, h)
               PROVE  /\ i = h /\ variant = "distributed" /\ commands[i].verb = "transfer"
                      /\ commands[i].a = commands[i].b
    BY DEF NeverBlocked
  <1>1. i \in Txns /\ h \in Txns /\ variant \in Programs
    BY WhileRunning DEF Running
  <1>2. /\ commands[i].family \in Families /\ commands[h].family \in Families
        /\ IsCall(calls[i]) /\ IsCall(calls[h])
    BY <1>1, WhileRunning DEF Shapes, IsBlock, Txns
  <1>3. PICK n : n = calls[i].pc
    OBVIOUS
  <1>4. n \in DOMAIN OpsOf(variant, commands[i]) /\ n \in Nat
    BY <1>1, <1>2, <1>3, NotReturned
  <1>5. \A g : Ops(g) = OpsOf(variant, commands[g])
    BY DEF Ops, OpsOf
  <1>6. PICK m \in 1 .. calls[h].pc - 1 : Ops(h)[m].hold /\ Ops(i)[n].key = Ops(h)[m].key
    BY <1>3 DEF WaitsFor, Held
  <1>7. h = i => Ops(i)[n].op # "put"
    BY <1>3 DEF WaitsFor
  <1>8. m \in DOMAIN Ops(h)
    <2>1. calls[h].pc \in 1 .. Len(Ops(h)) + 1
      BY WhileRunning DEF LedgerTypeOK
    <2>2. Len(Ops(h)) \in Nat /\ DOMAIN Ops(h) = 1 .. Len(Ops(h))
      BY <1>1, <1>2, <1>5, ProcessorOps DEF AreOps
    <2>3. QED
      BY <2>1, <2>2
  <1>9. Ops(h)[m].key # <<>>
    BY <1>1, <1>6, <1>8, KeyUsed DEF IsOp
  <1>10. i = h
    <2>1. SUFFICES ASSUME h # i PROVE FALSE
      OBVIOUS
    <2>2. Ops(i)[n].key \in Uses(i) /\ Ops(h)[m].key \in Uses(h)
      BY <1>1, <1>4, <1>5, <1>6, <1>8, <1>9, KeyUsed
    <2>3. QED
      BY <1>6, <2>1, <2>2, WhileRunning, Apart
  <1>11. m \in 1 .. n - 1
    BY <1>3, <1>6, <1>10
  <1>12. QED
    BY <1>1, <1>2, <1>4, <1>5, <1>6, <1>7, <1>10, <1>11, KeptAccessors

\* Only a flush writes the state, and the flag it asks for vouches for the results.
LEMMA WholeStep == LedgerIInv /\ [LedgerNext]_ledgerVars => [state' # state => AllDone /\ \A i \in Txns : results[i]]_ledgerVars
  <1> SUFFICES ASSUME LedgerIInv, LedgerNext, state' # state PROVE AllDone /\ \A i \in Txns : results[i]
    BY DEF ledgerVars
  <1>1. FlushMapToState
    BY DEF LedgerNext, Produce, SelectTxn, SelectFirstTxn, AccessMap, CompleteTxn, Stop, EndBlock
  <1>2. AllDone /\ flag /\ phase = "run" /\ variant # "distributed"
    BY <1>1 DEF FlushMapToState
  <1>3. QED
    BY <1>2 DEF LedgerIInv, FlagInv

\* Types of the node's variables (scheduler.h and node.cpp).
THEOREM LedgerTypes == LedgerSpec => []LedgerTypeOK
  BY LedgerReachable, PTL DEF LedgerIInv

\* The interleaving of the threads cannot be told from the result: in all three
\* programs, for any blocks of commands and any number of threads, a block that has
\* run leaves the map of block order (scheduler::executeTxns, the processors and the
\* headers of the clients).
THEOREM BlockOrderResult == LedgerSpec => []SerialEquivalence
  BY LedgerReachable, EquivalenceHolds, PTL

\* Transactions that run at the same time share no key of the map, so that looking a
\* key up, loading it and inserting it need not be one step (getOrLoad... of the
\* processors).
THEOREM KeysAreApart == LedgerSpec => []Isolated
  BY LedgerReachable, IsolatedHolds, PTL

\* No call waits for an accessor, but the distributed transferNFT to oneself, which
\* waits for its own (nftProcessor.h).
THEOREM OnlySelfTransferBlocks == LedgerSpec => []NeverBlocked
  BY LedgerReachable, NeverBlockedHolds, PTL

\* The state changes only by the write set of a block all of whose transactions have
\* run and returned true (schedulTxns, flushMapToState).
THEOREM StateByWholeBlocks == LedgerSpec => WholeBlocks
  BY LedgerReachable, WholeStep, PTL DEF LedgerSpec, WholeBlocks

=============================================================================
