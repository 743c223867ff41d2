------------------------ MODULE MCFollowerScheduler ------------------------
(***************************************************************************)
(* Instances of FollowerScheduler for TLC.                                 *)
(***************************************************************************)
EXTENDS FollowerScheduler, TLC

CONSTANTS w1, w2

OneWorker == {w1}
TwoWorkers == {w1, w2}

\* Workers run the same code and are never compared.
WorkerSymmetry == Permutations(Workers)
=============================================================================
