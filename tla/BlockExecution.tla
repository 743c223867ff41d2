--------------------------- MODULE BlockExecution ---------------------------
(***************************************************************************)
(* What executing a block promises, whatever the number of workers: each   *)
(* transaction begins at most once and only when every earlier transaction *)
(* it conflicts with has ended, and the block's write set is kept only if  *)
(* all of them ended well, given up only if one did not, and neither while *)
(* a contract is still running.  ParallelScheduler implements it.          *)
(***************************************************************************)
EXTENDS Integers

CONSTANT NTxns

Txns == 0 .. NTxns - 1

VARIABLES conflicts,  \* pairs <<i, j>>, i before j in the block
          begun, running, ended,
          succeeded,  \* those of ended whose contract returned true
          outcome

vars == <<conflicts, begun, running, ended, succeeded, outcome>>

Init ==
  /\ conflicts \in SUBSET {e \in Txns \X Txns : e[1] < e[2]}
  /\ begun = {} /\ running = {} /\ ended = {} /\ succeeded = {}
  /\ outcome = "running"

Begin(i) ==
  /\ outcome = "running" /\ i \notin begun
  /\ \A h \in Txns : <<h, i>> \in conflicts => h \in ended
  /\ begun' = begun \cup {i} /\ running' = running \cup {i}
  /\ UNCHANGED <<conflicts, ended, succeeded, outcome>>

End(i, ok) ==
  /\ i \in running
  /\ running' = running \ {i} /\ ended' = ended \cup {i}
  /\ succeeded' = IF ok THEN succeeded \cup {i} ELSE succeeded
  /\ UNCHANGED <<conflicts, begun, outcome>>

\* A transaction that cannot be read is left aside and never ends.
Drop(i) ==
  /\ i \in running /\ running' = running \ {i}
  /\ UNCHANGED <<conflicts, begun, ended, succeeded, outcome>>

Keep ==
  /\ outcome = "running" /\ running = {} /\ succeeded = Txns
  /\ outcome' = "flushed"
  /\ UNCHANGED <<conflicts, begun, running, ended, succeeded>>

GiveUp ==
  /\ outcome = "running" /\ running = {} /\ succeeded # ended
  /\ outcome' = "failed"
  /\ UNCHANGED <<conflicts, begun, running, ended, succeeded>>

Next ==
  \/ \E i \in Txns : Begin(i) \/ Drop(i) \/ \E ok \in BOOLEAN : End(i, ok)
  \/ Keep \/ GiveUp

Spec == Init /\ [][Next]_vars
=============================================================================
