------------------------ MODULE MCParallelScheduler ------------------------
(***************************************************************************)
(* Instance of ParallelScheduler for TLC.                                  *)
(***************************************************************************)
EXTENDS ParallelScheduler

CONSTANTS w1, w2, w3
=============================================================================
