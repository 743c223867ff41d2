----------------------------- MODULE FifoQueue -----------------------------
(***************************************************************************)
(* What LockFreeQueue (transactionQueue.h) promises the thread that pushes *)
(* transactions and the thread that pops them: a bounded first-in          *)
(* first-out queue whose operations take effect at one instant.  answer is *)
(* what the operation that took effect last returned to its caller.        *)
(***************************************************************************)
EXTENDS Naturals, Sequences

CONSTANTS Items, Capacity

VARIABLES contents, answer

vars == <<contents, answer>>

Answers == [op : {"none", "full", "empty"}] \cup [op : {"push", "pop"}, item : Items]

Init ==
  /\ contents = <<>>
  /\ answer = [op |-> "none"]

\* push returns true: the item is the last one.
Push(x) ==
  /\ Len(contents) < Capacity
  /\ contents' = Append(contents, x)
  /\ answer' = [op |-> "push", item |-> x]

\* push returns false, and only when there is no room.
PushFull ==
  /\ Len(contents) = Capacity
  /\ answer' = [op |-> "full"]
  /\ UNCHANGED contents

\* pop hands out the oldest item.
Pop ==
  /\ contents # <<>>
  /\ contents' = Tail(contents)
  /\ answer' = [op |-> "pop", item |-> Head(contents)]

\* pop returns false, and only when there is nothing.
PopEmpty ==
  /\ contents = <<>>
  /\ answer' = [op |-> "empty"]
  /\ UNCHANGED contents

Next ==
  \/ \E x \in Items : Push(x)
  \/ PushFull
  \/ Pop
  \/ PopEmpty

\* A consumer that keeps calling pop empties the queue.
Spec == Init /\ [][Next]_vars /\ WF_vars(Pop)
=============================================================================
