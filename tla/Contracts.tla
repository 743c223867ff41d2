----------------------------- MODULE Contracts -----------------------------
(***************************************************************************)
(* The four smart contracts: what a client declares when it builds a       *)
(* transaction (processCommand of the ...Client.h files: the inputs and    *)
(* outputs the dependency matrix is made of) and what the processor really *)
(* does with the shared map when the transaction runs (the ...Processor.h  *)
(* files).  The three programs "distributed", "parallel" and "serial" have *)
(* copies of this code that differ in places; each copy is a definition.   *)
(*                                                                         *)
(* A command is [family, verb, a, b, x, v]: a and b name accounts, voters, *)
(* candidates or owners, x an item or an image, v is a number.  A key is   *)
(* <<kind, name>>, standing for the concatenated string.  Balances, vote   *)
(* counts and stocks are numbers, an NFT list is the sequence of its image *)
(* hashes, a cart the sequence of its <<item, quantity>> pairs.            *)
(***************************************************************************)
EXTENDS Integers, Sequences, FiniteSets, SequencesExt

Programs == {"distributed", "parallel", "serial"}

Account(n)   == <<"wallet", n>>
Voter(n)     == <<"voter", n>>
Candidate(n) == <<"candidate", n>>
Owner(n)     == <<"owner", n>>     \* the bare name
Nft(n)       == <<"nft", n>>       \* the address the client declares for it
Cart(n)      == <<"cart", n>>
Item(n)      == <<"item", n>>

-----------------------------------------------------------------------------
(***************************************************************************)
(* Clients: the declared header of a command.                              *)
(***************************************************************************)
Header(ins, outs) == [inputs |-> ins, outputs |-> outs]
ReadWrite(keys)   == Header(keys, keys)

\* Mutant: the receiver of a transfer is not declared.
WalletHeaderSender(c) == ReadWrite({Account(c.a)})

WalletHeader(c) ==
  ReadWrite(IF c.verb = "transfer" THEN {Account(c.a), Account(c.b)}
            ELSE {Account(c.a)} )

VotingHeader(c) ==
  ReadWrite(CASE c.verb = "registerVoter"     -> {Voter(c.a)}
              [] c.verb = "registerCandidate" -> {Candidate(c.a)}
              [] c.verb = "transferVote"      -> {Voter(c.a), Voter(c.b)}
              [] c.verb = "castVote"          -> {Voter(c.a), Candidate(c.b)}
              [] OTHER                        -> {})

\* Mutant: the new owner is not declared.
NftHeaderOldOwner(c) == ReadWrite({Nft(c.a)})

\* The image is only an input.
NftHeader(c) ==
  CASE c.verb = "create"   -> Header({Nft(c.a), Nft(c.x)}, {Nft(c.a)})
    [] c.verb = "transfer" -> Header({Nft(c.a), Nft(c.x), Nft(c.b)}, {Nft(c.a), Nft(c.b)})
    [] OTHER               -> Header({}, {})

\* checkout declares the items of the cart the client found in "globalState".
ECommHeader(c, cart) ==
  ReadWrite(CASE c.verb \in {"addToCart", "removeFromCart"} -> {Cart(c.a), Item(c.x)}
              [] c.verb = "checkout" -> {Cart(c.a)} \cup {Item(cart[i][1]) : i \in DOMAIN cart}
              [] c.verb = "refillItem" -> {Item(c.x)}
              [] OTHER -> {})

\* The clients the block producers of the three programs use.
walletClientD(c) == WalletHeader(c)
walletClientP(c) == WalletHeader(c)
walletClientS(c) == WalletHeader(c)
votingClientD(c) == VotingHeader(c)
votingClientP(c) == VotingHeader(c)
votingClientS(c) == VotingHeader(c)
nftClientD(c) == NftHeader(c)
nftClientP(c) == NftHeader(c)
nftClientS(c) == NftHeader(c)
eCommClientD(c, cart) == ECommHeader(c, cart)
eCommClientP(c, cart) == ECommHeader(c, cart)
\* getValue looks the cart up under its name instead of the name's hash.
eCommClientS(c, cart) == ECommHeader(c, <<>>)

\* processCommand of the client for the command's family; a command line that
\* names no client never becomes a transaction (TestBlockProducer::produce).
processCommand(p, c, cart) ==
  LET client == <<p, c.family>> IN
  CASE client = <<"distributed", "wallet">> -> walletClientD(c)
    [] client = <<"distributed", "voting">> -> votingClientD(c)
    [] client = <<"distributed", "nft">>    -> nftClientD(c)
    [] client = <<"distributed", "eComm">>  -> eCommClientD(c, cart)
    [] client = <<"parallel", "wallet">>    -> walletClientP(c)
    [] client = <<"parallel", "voting">>    -> votingClientP(c)
    [] client = <<"parallel", "nft">>       -> nftClientP(c)
    [] client = <<"parallel", "eComm">>     -> eCommClientP(c, cart)
    [] client = <<"serial", "wallet">>      -> walletClientS(c)
    [] client = <<"serial", "voting">>      -> votingClientS(c)
    [] client = <<"serial", "nft">>         -> nftClientS(c)
    [] client = <<"serial", "eComm">>       -> eCommClientS(c, cart)

-----------------------------------------------------------------------------
(***************************************************************************)
(* Processors.  A transaction is a sequence of accesses to the shared map, *)
(* each through an accessor of tbb::concurrent_hash_map:                   *)
(*   load   find the key, else read it from the state and insert it (taken *)
(*          as one step: no two running transactions use the same key, see *)
(*          Isolated in LedgerNode)                                        *)
(*   find   find the key in the map only                                   *)
(*   enter  insert the key with a first value unless it is there           *)
(*   put    write the next new value                                       *)
(*   fail   return false                                                   *)
(* hold marks an accessor that is kept until the transaction returns.      *)
(***************************************************************************)
Op(o, k) == [op |-> o, key |-> k, hold |-> FALSE]
Hold(o, k) == [op |-> o, key |-> k, hold |-> TRUE]
Fail == <<Op("fail", <<>>)>>

\* deposit, withdraw, transfer; another verb returns false.
WalletOps(c) ==
  CASE c.verb \in {"deposit", "withdraw"} ->
         <<Op("load", Account(c.a)), Op("put", Account(c.a))>>
    [] c.verb = "transfer" ->
         <<Op("load", Account(c.a)), Op("load", Account(c.b)),
           Op("put", Account(c.a)), Op("put", Account(c.b))>>
    [] OTHER -> Fail

\* registerVoter, registerCandidate, transferVote, castVote
VotingOps(c) ==
  CASE c.verb = "registerVoter" -> <<Op("enter", Voter(c.a))>>
    [] c.verb = "registerCandidate" -> <<Op("enter", Candidate(c.a))>>
    [] c.verb = "transferVote" ->
         <<Op("load", Voter(c.a)), Op("load", Voter(c.b)),
           Op("put", Voter(c.a)), Op("put", Voter(c.b))>>
    [] c.verb = "castVote" ->
         <<Op("load", Voter(c.a)), Op("load", Candidate(c.b)),
           Op("put", Voter(c.a)), Op("put", Candidate(c.b))>>
    [] OTHER -> Fail

\* createNFT and transferNFT of the distributed node, which keeps the accessor
\* of the old owner while it asks for the new owner's.  An image that cannot
\* be opened has no hash.
NftOpsHeld(c) ==
  IF c.x = "missing" THEN Fail ELSE
  CASE c.verb = "create" -> <<Hold("load", Owner(c.a)), Op("put", Owner(c.a))>>
    [] c.verb = "transfer" ->
         <<Hold("load", Owner(c.a)), Op("put", Owner(c.a)),
           Hold("load", Owner(c.b)), Op("put", Owner(c.b))>>
    [] OTHER -> Fail

\* The single-node programs look for the old owner in the map only and release
\* its accessor before they ask for the next one.
NftOpsScoped(c) ==
  IF c.x = "missing" THEN Fail ELSE
  CASE c.verb = "create" -> <<Hold("load", Owner(c.a)), Op("put", Owner(c.a))>>
    [] c.verb = "transfer" ->
         <<Op("find", Owner(c.a)), Op("put", Owner(c.a)),
           Op("load", Owner(c.b)), Op("put", Owner(c.b))>>
    [] OTHER -> Fail

\* checkout, addToCart and removeFromCart rewrite the cart, refillItem the stock.
ECommOps(c) ==
  CASE c.verb \in {"checkout", "addToCart", "removeFromCart"} ->
         <<Op("load", Cart(c.a)), Op("put", Cart(c.a))>>
    [] c.verb = "refillItem" -> <<Op("load", Item(c.x)), Op("put", Item(c.x))>>
    [] OTHER -> Fail

\* ProcessTxn of each program's copy: the accesses, the votes registerVoter
\* gives and what it returns for a voter that is in the map already.
Processor(ops, tokens, again) == [ops |-> ops, tokens |-> tokens, again |-> again]

walletProcessorD(c) == Processor(WalletOps(c), 0, FALSE)
walletProcessorP(c) == Processor(WalletOps(c), 0, FALSE)
walletProcessorS(c) == Processor(WalletOps(c), 0, FALSE)
votingProcessorD(c) == Processor(VotingOps(c), 10000, FALSE)
votingProcessorP(c) == Processor(VotingOps(c), 1, FALSE)
\* registerVoter returns true, registerCandidate false.
votingProcessorS(c) == Processor(VotingOps(c), 1, c.verb = "registerVoter")
nftProcessorD(c) == Processor(NftOpsHeld(c), 0, FALSE)
nftProcessorP(c) == Processor(NftOpsScoped(c), 0, FALSE)
nftProcessorS(c) == Processor(NftOpsScoped(c), 0, FALSE)
eCommProcessorD(c) == Processor(ECommOps(c), 0, FALSE)
eCommProcessorP(c) == Processor(ECommOps(c), 0, FALSE)
eCommProcessorS(c) == Processor(ECommOps(c), 0, FALSE)

\* The scheduler's choice by family name; another family returns false.
ProcessTxn(p, c) ==
  LET processor == <<p, c.family>> IN
  CASE processor = <<"distributed", "wallet">> -> walletProcessorD(c)
    [] processor = <<"distributed", "voting">> -> votingProcessorD(c)
    [] processor = <<"distributed", "nft">>    -> nftProcessorD(c)
    [] processor = <<"distributed", "eComm">>  -> eCommProcessorD(c)
    [] processor = <<"parallel", "wallet">>    -> walletProcessorP(c)
    [] processor = <<"parallel", "voting">>    -> votingProcessorP(c)
    [] processor = <<"parallel", "nft">>       -> nftProcessorP(c)
    [] processor = <<"parallel", "eComm">>     -> eCommProcessorP(c)
    [] processor = <<"serial", "wallet">>      -> walletProcessorS(c)
    [] processor = <<"serial", "voting">>      -> votingProcessorS(c)
    [] processor = <<"serial", "nft">>         -> nftProcessorS(c)
    [] processor = <<"serial", "eComm">>       -> eCommProcessorS(c)

-----------------------------------------------------------------------------
\* The index of x in a cart, 0 if it is not there.
InCart(cart, x) == IF \E i \in DOMAIN cart : cart[i][1] = x
                   THEN CHOOSE i \in DOMAIN cart : cart[i][1] = x ELSE 0

AddToCart(cart, x, q) ==
  LET i == InCart(cart, x) IN
  IF i = 0 THEN Append(cart, <<x, q>>) ELSE [cart EXCEPT ![i][2] = @ + q]

\* An item of which nothing is left disappears.
RemoveFromCart(cart, x, q) ==
  LET i == InCart(cart, x) IN
  IF cart[i][2] > q THEN [cart EXCEPT ![i][2] = @ - q] ELSE RemoveAt(cart, i)

RemoveFirstHash(list, x) == RemoveAt(list, CHOOSE i \in DOMAIN list :
                                /\ list[i] = x /\ \A j \in 1 .. i - 1 : list[j] # x)

\* The condition under which the first put happens; else the call returns false.
Allowed(c, vals) ==
  CASE c.verb = "withdraw" -> vals[1] >= c.v
    [] c.family = "wallet" /\ c.verb = "transfer" -> vals[1] >= c.v
    [] c.verb = "transferVote" -> vals[1] >= c.v
    [] c.verb = "castVote" -> vals[1] >= 1
    [] c.family = "nft" /\ c.verb = "transfer" -> c.x \in ToSet(vals[1])
    [] c.verb = "removeFromCart" -> InCart(vals[1], c.x) # 0
    [] OTHER -> TRUE

\* Mutant: the one who gives is not debited.
NewValueUndebited(c, n, vals) ==
  CASE c.verb \in {"transfer", "castVote"} /\ n = 1 -> vals[1]
    [] c.verb = "castVote" -> vals[2] + 1
    [] c.verb = "deposit" -> vals[1] + c.v
    [] c.family = "wallet" /\ c.verb = "transfer" -> vals[2] + c.v
    [] OTHER -> vals[1]

\* What the n-th put writes, from the values loaded before it.
NewValue(c, n, vals) ==
  CASE c.verb = "deposit" -> vals[1] + c.v
    [] c.verb = "withdraw" -> vals[1] - c.v
    [] (c.family = "wallet" /\ c.verb = "transfer") \/ c.verb = "transferVote" ->
         IF n = 1 THEN vals[1] - c.v ELSE vals[2] + c.v
    [] c.verb = "castVote" -> IF n = 1 THEN vals[1] - 1 ELSE vals[2] + 1
    [] c.verb = "create" -> IF c.x \in ToSet(vals[1]) THEN vals[1] ELSE Append(vals[1], c.x)
    [] c.family = "nft" /\ c.verb = "transfer" ->
         IF n = 1 THEN RemoveFirstHash(vals[1], c.x) ELSE Append(vals[2], c.x)
    [] c.verb = "checkout" -> <<>>
    [] c.verb = "addToCart" -> AddToCart(vals[1], c.x, c.v)
    [] c.verb = "removeFromCart" -> RemoveFromCart(vals[1], c.x, c.v)
    [] c.verb = "refillItem" -> vals[1] + c.v

\* getValue of a key the state does not have is the empty string, which the
\* getOrLoad functions take for 0, an empty list or an empty cart.
Nothing(key) == IF key[1] \in {"owner", "cart"} THEN <<>> ELSE 0

\* A node of the state is a list separated by commas, so the JSON array of two or
\* more images comes back cut off at its first comma and json::parse throws.
Readable(key, st) == ~(key[1] = "owner" /\ key \in DOMAIN st /\ Len(st[key]) > 1)

Stored(key, st) == IF key \in DOMAIN st THEN st[key] ELSE Nothing(key)

\* A call of ProcessTxn: whether it has begun, its next access, the values it has
\* loaded, the number of its puts and what it will return.
Call(at) == [at |-> at, pc |-> 1, vals |-> <<>>, puts |-> 0, ok |-> TRUE]

\* One access by the call `call` of command c: the call and the map afterwards.
Access(p, c, call, map, st) ==
  LET proc == ProcessTxn(p, c)
      o == proc.ops[call.pc]
      k == o.key
      next == [call EXCEPT !.pc = @ + 1]
      failed == [call |-> [next EXCEPT !.ok = FALSE], map |-> map]
      write(x) == [y \in DOMAIN map \cup {k} |-> IF y = k THEN x ELSE map[y]]
  IN CASE o.op = "load" /\ k \in DOMAIN map ->
            [call |-> [next EXCEPT !.vals = Append(@, map[k])], map |-> map]
       [] o.op = "load" /\ k \notin DOMAIN map /\ Readable(k, st) ->
            [call |-> [next EXCEPT !.vals = Append(@, Stored(k, st))],
             map |-> write(Stored(k, st))]
       [] o.op = "find" /\ k \in DOMAIN map ->
            [call |-> [next EXCEPT !.vals = Append(@, map[k])], map |-> map]
       [] o.op = "enter" /\ k \notin DOMAIN map ->
            [call |-> next, map |-> write(IF k[1] = "voter" THEN proc.tokens ELSE 0)]
       [] o.op = "enter" /\ k \in DOMAIN map ->
            [call |-> [next EXCEPT !.ok = proc.again], map |-> map]
       [] o.op = "put" /\ (call.puts > 0 \/ Allowed(c, call.vals)) ->
            [call |-> [next EXCEPT !.puts = @ + 1],
             map |-> write(NewValue(c, call.puts + 1, call.vals))]
       [] OTHER -> failed

\* The call has returned.
Returned(p, c, call) == ~call.ok \/ call.pc > Len(ProcessTxn(p, c).ops)
=============================================================================
