--------------------------- MODULE MCDagCreation ---------------------------
(***************************************************************************)
(* Instance of DagCreation for TLC.                                        *)
(***************************************************************************)
EXTENDS DagCreation, TLC

CONSTANTS a1, a2, w1, w2

\* Addresses and workers are only compared for equality.
Symmetry == Permutations(Addresses) \cup Permutations(Workers)
=============================================================================
