---------------------------- MODULE MCStateTree ----------------------------
(***************************************************************************)
(* Instance of StateTree for TLC: three keys with digests of three digits. *)
(***************************************************************************)
EXTENDS StateTree

CONSTANTS k1, k2, k3

Zero == <<"0">>
One  == <<"1">>
MCChars  == {Zero, One, <<"w">>, <<"x">>, <<"y">>, <<"z">>}
MCOrder  == <<k1, k2, k3>>
MCKeys   == {k1, k2, k3}
\* k1 and k2 part at the last level, k3 at the root.
MCPathOf == (k1 :> <<Zero, Zero, Zero>>) @@ (k2 :> <<Zero, Zero, One>>) @@ (k3 :> <<One, Zero, Zero>>)
\* The first letter of k2's name is a hexadecimal digit, as in "candidate" and "cart".
MCNameOf == (k1 :> << <<"w">>, <<"x">> >>) @@ (k2 :> <<Zero, <<"z">> >>) @@ (k3 :> << <<"w">>, <<"y">> >>)
\* A cleared cart, and a number that is also the name of an inner node.
MCValues == {<<>>, <<One>>}
MCModes  == {"parallel", "serial", "leader", "parallelTree", "serialTree", "library"}
=============================================================================
