-------------------------- MODULE MCBlockProtocol --------------------------
(***************************************************************************)
(* Instances of BlockProtocol for TLC.  In Block(s, b) transaction x is in *)
(* component s[x]; those in b have a contract that fails.  The orders are  *)
(* those of etcd's member list, which sorts by a hash and not by name.     *)
(***************************************************************************)
EXTENDS BlockProtocol

Block(s, b) == [comp |-> s, bad |-> b]

\* The failing contract of the second component stops its follower or, the other
\* transaction succeeding after it, does not.
MayFail == {Block(<<1, 2, 2>>, {2})}
Uneven  == {Block(<<1, 1, 2>>, {})}

\* s0, s1, s2 in this order, and with the leader's entry where s1's number leads.
InOrder(n)  == [k \in 0 .. n - 1 |-> k]
Swapped     == [k \in 0 .. 2 |-> CASE k = 0 -> 1 [] k = 1 -> 0 [] OTHER -> k]
Ordered3    == {InOrder(3)}
Swapped3    == {Swapped}

BothModes == {"production", "validation"}
=============================================================================
