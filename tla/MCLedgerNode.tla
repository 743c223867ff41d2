---------------------------- MODULE MCLedgerNode ----------------------------
(***************************************************************************)
(* Instance of LedgerNode for TLC: a setup block per contract, then every  *)
(* test block of three commands of that contract over two names, then the  *)
(* setup block again.                                                      *)
(***************************************************************************)
EXTENDS LedgerNode

Cmd(f, w, a, b, x, v) == [family |-> f, verb |-> w, a |-> a, b |-> b, x |-> x, v |-> v]

Wallet == {Cmd("wallet", "withdraw", "ann", "-", "-", 2)}
          \cup {Cmd("wallet", "deposit", "bob", "-", "-", 1)}
          \cup {Cmd("wallet", "transfer", a, b, "-", 1) : a \in {"ann", "bob"}, b \in {"ann", "cid"}}
Voting == {Cmd("voting", "castVote", a, "eve", "-", 0) : a \in {"ann", "bob"}}
          \cup {Cmd("voting", "transferVote", "ann", "bob", "-", 1),
                Cmd("voting", "registerVoter", "bob", "-", "-", 0),
                Cmd("voting", "registerCandidate", "dan", "-", "-", 0)}
Nfts   == {Cmd("nft", "create", "bob", "-", "i1", 0), Cmd("nft", "create", "cid", "-", "i2", 0),
           Cmd("nft", "create", "bob", "-", "missing", 0)}
          \cup {Cmd("nft", "transfer", a, b, "i1", 0) : a \in {"ann", "bob"}, b \in {"ann", "cid"}}
Shop   == {Cmd("eComm", "addToCart", "ann", "-", x, 2) : x \in {"i1", "i2"}}
          \cup {Cmd("eComm", "removeFromCart", "ann", "-", "i1", 1),
                Cmd("eComm", "checkout", "ann", "-", "-", 0),
                Cmd("eComm", "refillItem", "-", "-", "i1", 1)}
Mixed  == {Cmd("wallet", "lend", "ann", "-", "-", 1)}

Blocks3(S) == [1 .. 3 -> S]
Setups == {<<Cmd("wallet", "deposit", "ann", "-", "-", 3), Cmd("wallet", "deposit", "bob", "-", "-", 1)>>,
           <<Cmd("voting", "registerVoter", "ann", "-", "-", 0), Cmd("voting", "registerCandidate", "eve", "-", "-", 0)>>,
           <<Cmd("nft", "create", "ann", "-", "i1", 0), Cmd("eComm", "refillItem", "-", "-", "i1", 1),
             Cmd("eComm", "addToCart", "ann", "-", "i2", 1)>>}
Tests == Blocks3(Wallet) \cup Blocks3(Voting) \cup Blocks3(Nfts) \cup Blocks3(Shop) \cup Blocks3(Mixed)
=============================================================================
