-------------------------- MODULE TransactionQueue --------------------------
(***************************************************************************)
(* LockFreeQueue of transactionQueue.h: a ring of QueueSize slots with the *)
(* atomics head (next slot to write) and tail (next slot to read).  push   *)
(* and pop are each four steps between which the other thread may run: two *)
(* loads, one access to the slot, one store.  The class has no loop and no *)
(* compare-exchange, so it is a queue for one producer and one consumer.   *)
(***************************************************************************)
EXTENDS Naturals, Sequences

CONSTANTS
  QueueSize,   \* QUEUE_SIZE; one slot always stays empty
  Items,       \* the serialized transactions
  Empty        \* the string in a slot that was never written

ASSUME QueueSizeAssumption == QueueSize \in Nat /\ QueueSize > 1
ASSUME EmptyAssumption == Empty \notin Items

VARIABLES
  buffer,      \* the slots
  head, tail,  \* the two atomics
  push,        \* the producer: its step, the item it pushes and its head_snapshot
  pop,         \* the consumer: its step, its tail_snapshot and the item it copied
  answer       \* what the last operation that took effect returned

vars == <<buffer, head, tail, push, pop, answer>>

Slots == 0 .. QueueSize - 1

\* (x + 1) % QUEUE_SIZE
After(x) == (x + 1) % QueueSize

Init ==
  /\ buffer = [s \in Slots |-> Empty]
  /\ head = 0 /\ tail = 0
  /\ push = [pc |-> "idle", item |-> Empty, snapshot |-> 0]
  /\ pop = [pc |-> "idle", item |-> Empty, snapshot |-> 0]
  /\ answer = [op |-> "none"]

-----------------------------------------------------------------------------
\* push(item): head_snapshot = head.load()
PushLoad(x) ==
  /\ push.pc = "idle"
  /\ push' = [pc |-> "check", item |-> x, snapshot |-> head]
  /\ UNCHANGED <<buffer, head, tail, pop, answer>>

\* Mutant: head is published before the slot is written.
PushCheckPublishes ==
  /\ push.pc = "check"
  /\ After(push.snapshot) # tail
  /\ head' = After(push.snapshot)
  /\ push' = [push EXCEPT !.pc = "write"]
  /\ UNCHANGED <<buffer, tail, pop, answer>>

\* Mutant: push does not ask whether the queue is full.
PushCheckNeverFull ==
  /\ push.pc = "check"
  /\ push' = [push EXCEPT !.pc = "write"]
  /\ UNCHANGED <<buffer, head, tail, pop, answer>>

\* next_head == tail.load(): the queue is full, push returns false.
PushCheck ==
  /\ push.pc = "check"
  /\ \/ /\ After(push.snapshot) = tail
        /\ push' = [push EXCEPT !.pc = "idle"]
        /\ answer' = [op |-> "full"]
     \/ /\ After(push.snapshot) # tail
        /\ push' = [push EXCEPT !.pc = "write"]
        /\ UNCHANGED answer
  /\ UNCHANGED <<buffer, head, tail, pop>>

\* buffer[head_snapshot] = item
PushWrite ==
  /\ push.pc = "write"
  /\ buffer' = [buffer EXCEPT ![push.snapshot] = push.item]
  /\ push' = [push EXCEPT !.pc = "store"]
  /\ UNCHANGED <<head, tail, pop, answer>>

\* head.store(next_head); push returns true.
PushStore ==
  /\ push.pc = "store"
  /\ head' = After(push.snapshot)
  /\ push' = [push EXCEPT !.pc = "idle"]
  /\ answer' = [op |-> "push", item |-> push.item]
  /\ UNCHANGED <<buffer, tail, pop>>

\* pop(item): tail_snapshot = tail.load()
PopLoad ==
  /\ pop.pc = "idle"
  /\ pop' = [pop EXCEPT !.pc = "check", !.snapshot = tail]
  /\ UNCHANGED <<buffer, head, tail, push, answer>>

\* tail_snapshot == head.load(): the queue is empty, pop returns false.
PopCheck ==
  /\ pop.pc = "check"
  /\ \/ /\ pop.snapshot = head
        /\ pop' = [pop EXCEPT !.pc = "idle"]
        /\ answer' = [op |-> "empty"]
     \/ /\ pop.snapshot # head
        /\ pop' = [pop EXCEPT !.pc = "read"]
        /\ UNCHANGED answer
  /\ UNCHANGED <<buffer, head, tail, push>>

\* item = buffer[tail_snapshot]
PopRead ==
  /\ pop.pc = "read"
  /\ pop' = [pop EXCEPT !.pc = "store", !.item = buffer[pop.snapshot]]
  /\ UNCHANGED <<buffer, head, tail, push, answer>>

\* tail.store((tail_snapshot + 1) % QUEUE_SIZE); pop returns true.
PopStore ==
  /\ pop.pc = "store"
  /\ tail' = After(pop.snapshot)
  /\ pop' = [pop EXCEPT !.pc = "idle"]
  /\ answer' = [op |-> "pop", item |-> pop.item]
  /\ UNCHANGED <<buffer, head, push>>

Consumer == PopLoad \/ PopCheck \/ PopRead \/ PopStore

Next ==
  \/ \E x \in Items : PushLoad(x)
  \/ PushCheck \/ PushWrite \/ PushStore
  \/ Consumer

\* The consumer polls; the producer owes nobody another push.
Spec == Init /\ [][Next]_vars /\ WF_vars(Consumer)

-----------------------------------------------------------------------------
\* The transactions between tail and head, oldest first.
Contents ==
  [i \in 1 .. (head + QueueSize - tail) % QueueSize |-> buffer[(tail + i - 1) % QueueSize]]

Fifo == INSTANCE FifoQueue WITH Capacity <- QueueSize - 1, contents <- Contents

\* What each variable may hold.
TypeOK ==
  /\ buffer \in [Slots -> Items \cup {Empty}]
  /\ head \in Slots /\ tail \in Slots
  /\ push \in [pc : {"idle", "check", "write", "store"}, item : Items \cup {Empty}, snapshot : Slots]
  /\ pop \in [pc : {"idle", "check", "read", "store"}, item : Items \cup {Empty}, snapshot : Slots]
  /\ answer \in Fifo!Answers

\* The thread that owns a slot has it alone: while the consumer copies a slot
\* between its check and its store, the producer's write goes to another one
\* (transactionQueue.h reads and writes buffer without a lock).
NoSlotRace ==
  (pop.pc \in {"read", "store"} /\ push.pc \in {"write", "store"}) => pop.snapshot # push.snapshot

\* The ring implements the bounded FIFO queue: every item popped is the oldest one
\* pushed, none is lost, repeated or read half written, push refuses only when the
\* queue is full and pop only when it is empty, and a polled queue is emptied.
ImplementsFifo == Fifo!Spec

\* The slots that hold items, and why they can be read and written without a lock:
\* a snapshot is never stale, a slot is written only while it is free and copied
\* only while it is not, and what was copied or written stays there.
Occupied(s) == IF tail <= head THEN tail <= s /\ s < head ELSE tail <= s \/ s < head

Ownership ==
  /\ push.pc # "idle" => push.snapshot = head /\ push.item \in Items
  /\ push.pc \in {"write", "store"} => After(head) # tail
  /\ push.pc = "store" => buffer[head] = push.item
  /\ pop.pc # "idle" => pop.snapshot = tail
  /\ pop.pc \in {"read", "store"} => head # tail
  /\ pop.pc = "store" => pop.item = buffer[tail]
  /\ \A s \in Slots : Occupied(s) => buffer[s] \in Items

\* The inductive invariant of TransactionQueueProofs.
IInv == TypeOK /\ Ownership

\* The safety part of ImplementsFifo.
FifoSteps == Fifo!Init /\ [][Fifo!Next]_(Fifo!vars)

\* Types, and the ownership of slots.
SlotInv == TypeOK /\ NoSlotRace

=============================================================================
