----------------------------- MODULE MCIngress -----------------------------
(***************************************************************************)
(* Instance of Ingress for TLC.                                            *)
(***************************************************************************)
EXTENDS Ingress

Cmd(f, w, a, b, x, v) == [family |-> f, verb |-> w, a |-> a, b |-> b, x |-> x, v |-> v]

Transfer == Cmd("wallet", "transfer", "ann", "bob", "-", 1)

\* Any kind of command, then a second one that may overtake it.
SomeCommands ==
  <<{Transfer, Cmd("wallet", "balance", "ann", "-", "-", 0),
     Cmd("voting", "castVote", "ann", "eve", "-", 0), Cmd("nft", "transfer", "ann", "bob", "i1", 0),
     Cmd("eComm", "checkout", "ann", "-", "-", 0)}, {Transfer}>>

\* The sender looks at nothing of a block but its number.
SomeSends == [p \in Producers |-> IF p = "TestBlockProducer" THEN 3 ELSE 0]

SomeCarts == {<<>>, <<<<"i1", 2>>>>}
=============================================================================
