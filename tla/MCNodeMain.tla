----------------------------- MODULE MCNodeMain -----------------------------
(***************************************************************************)
(* Instance of NodeMain for TLC: two nodes, in a cluster of five members.  *)
(***************************************************************************)
EXTENDS NodeMain

CONSTANTS n1, n2

\* Two of five members: still a majority, no longer healthy for the monitor.
MCFailures == {0, 2, 3}
=============================================================================
