----------------------- MODULE MCConnectedComponents -----------------------
(***************************************************************************)
(* Instance of ConnectedComponents for TLC: every graph on NTxns vertices. *)
(***************************************************************************)
EXTENDS ConnectedComponents
=============================================================================
