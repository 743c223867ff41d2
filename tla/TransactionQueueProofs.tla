----------------------- MODULE TransactionQueueProofs -----------------------
(***************************************************************************)
(* Proofs about TransactionQueue, for a ring of any size above one: the    *)
(* producer and the consumer never meet in a slot, and every step of the   *)
(* ring is a step of the FIFO queue of module FifoQueue or invisible there.*)
(***************************************************************************)
EXTENDS TransactionQueue, SequenceTheorems, TLAPS

\* Remainders up to twice the size of the ring.
LEMMA Wrap ==
  ASSUME NEW x \in Nat, x < 2 * QueueSize
  PROVE  x % QueueSize = IF x < QueueSize THEN x ELSE x - QueueSize
  BY QueueSizeAssumption

\* The index after x.
LEMMA AfterSlot ==
  ASSUME NEW x \in Slots
  PROVE  /\ After(x) = IF x + 1 = QueueSize THEN 0 ELSE x + 1
         /\ After(x) \in Slots
  <1>1. x \in Nat /\ x < QueueSize /\ x + 1 < 2 * QueueSize
    BY QueueSizeAssumption DEF Slots
  <1>2. (x + 1) % QueueSize = IF x + 1 < QueueSize THEN x + 1 ELSE x + 1 - QueueSize
    BY <1>1, Wrap, QueueSizeAssumption
  <1>3. CASE x + 1 = QueueSize
    BY <1>1, <1>2, <1>3, QueueSizeAssumption DEF Slots, After
  <1>4. CASE x + 1 # QueueSize
    BY <1>1, <1>2, <1>4, QueueSizeAssumption DEF Slots, After
  <1>5. QED
    BY <1>3, <1>4

\* An empty ring has no occupied slot and both threads are idle.
LEMMA InitIInv == Init => IInv
  <1> SUFFICES ASSUME Init PROVE IInv
    OBVIOUS
  <1>1. TypeOK
    BY QueueSizeAssumption DEF Init, TypeOK, Slots, Fifo!Answers
  <1>2. Ownership
    BY QueueSizeAssumption DEF Init, Ownership, Occupied, Slots
  <1>3. QED
    BY <1>1, <1>2 DEF IInv

\* The producer's steps.
LEMMA PushSteps ==
  ASSUME IInv, (\E x \in Items : PushLoad(x)) \/ PushCheck \/ PushWrite \/ PushStore
  PROVE  IInv'
  <1> USE QueueSizeAssumption
  <1>0. head \in Slots /\ tail \in Slots /\ After(head) \in Slots
        /\ After(head) = IF head + 1 = QueueSize THEN 0 ELSE head + 1
    BY AfterSlot DEF IInv, TypeOK
  <1>1. ASSUME NEW x \in Items, PushLoad(x) PROVE IInv'
    <2>1. TypeOK'
      BY <1>1 DEF PushLoad, IInv, TypeOK
    <2>2. Ownership'
      BY <1>1 DEF PushLoad, IInv, TypeOK, Ownership, Occupied
    <2>3. QED
      BY <2>1, <2>2 DEF IInv
  <1>2. CASE PushCheck
    <2>1. TypeOK'
      BY <1>2 DEF PushCheck, IInv, TypeOK, Fifo!Answers
    <2>2. Ownership'
      BY <1>2 DEF PushCheck, IInv, TypeOK, Ownership, Occupied
    <2>3. QED
      BY <2>1, <2>2 DEF IInv
  <1>3. CASE PushWrite
    <2>1. /\ push.snapshot = head /\ push.item \in Items
          /\ buffer' = [buffer EXCEPT ![head] = push.item]
          /\ push' = [push EXCEPT !.pc = "store"]
          /\ UNCHANGED <<head, tail, pop, answer>>
      BY <1>3 DEF PushWrite, IInv, Ownership
    <2>2. TypeOK'
      BY <1>0, <2>1 DEF IInv, TypeOK
    <2>3. ~Occupied(head)
      BY <1>0 DEF Occupied, Slots
    <2>4. Ownership'
      <3>1. \A s \in Slots : Occupied(s)' => buffer'[s] \in Items
        BY <1>0, <2>1 DEF IInv, TypeOK, Ownership, Occupied
      <3>2. pop.pc = "store" => pop.item = buffer'[tail]
        BY <1>0, <2>1 DEF IInv, TypeOK, Ownership
      <3>3. push'.pc = "store" /\ push'.snapshot = head /\ push'.item = push.item
        BY <2>1 DEF IInv, TypeOK
      <3>4. buffer'[head] = push.item /\ After(head) # tail
        BY <1>0, <1>3, <2>1 DEF IInv, TypeOK, Ownership, PushWrite
      <3>5. QED
        BY <2>1, <3>1, <3>2, <3>3, <3>4 DEF IInv, Ownership, After
    <2>5. QED
      BY <2>2, <2>4 DEF IInv
  <1>4. CASE PushStore
    <2>1. /\ push.snapshot = head /\ push.item \in Items /\ After(head) # tail
          /\ buffer[head] = push.item
          /\ head' = After(head)
          /\ push' = [push EXCEPT !.pc = "idle"]
          /\ answer' = [op |-> "push", item |-> push.item]
          /\ UNCHANGED <<buffer, tail, pop>>
      BY <1>4 DEF PushStore, IInv, Ownership
    <2>2. TypeOK'
      BY <1>0, <2>1 DEF IInv, TypeOK, Fifo!Answers
    <2>3. \A s \in Slots : Occupied(s)' => Occupied(s) \/ s = head
      BY <1>0, <2>1 DEF Occupied, Slots
    <2>4. Ownership'
      BY <1>0, <2>1, <2>3 DEF IInv, TypeOK, Ownership
    <2>5. QED
      BY <2>2, <2>4 DEF IInv
  <1>5. QED
    BY <1>1, <1>2, <1>3, <1>4

\* The consumer's steps.
LEMMA PopSteps ==
  ASSUME IInv, Consumer
  PROVE  IInv'
  <1> USE QueueSizeAssumption
  <1>a. head \in Slots /\ tail \in Slots
    BY DEF IInv, TypeOK
  <1>0. /\ head \in Slots /\ tail \in Slots
        /\ After(tail) \in Slots /\ After(head) \in Slots
        /\ After(tail) = IF tail + 1 = QueueSize THEN 0 ELSE tail + 1
        /\ After(head) = IF head + 1 = QueueSize THEN 0 ELSE head + 1
    BY <1>a, AfterSlot
  <1>1. CASE PopLoad
    <2>1. TypeOK'
      BY <1>1 DEF PopLoad, IInv, TypeOK
    <2>2. Ownership'
      BY <1>1 DEF PopLoad, IInv, TypeOK, Ownership, Occupied
    <2>3. QED
      BY <2>1, <2>2 DEF IInv
  <1>2. CASE PopCheck
    <2>1. TypeOK'
      BY <1>2 DEF PopCheck, IInv, TypeOK, Fifo!Answers
    <2>2. Ownership'
      BY <1>2 DEF PopCheck, IInv, TypeOK, Ownership, Occupied
    <2>3. QED
      BY <2>1, <2>2 DEF IInv
  <1>3. CASE PopRead
    <2>1. /\ pop.snapshot = tail
          /\ pop' = [pop EXCEPT !.pc = "store", !.item = buffer[tail]]
          /\ UNCHANGED <<buffer, head, tail, push, answer>>
      BY <1>3 DEF PopRead, IInv, Ownership
    <2>2. TypeOK'
      BY <1>0, <2>1 DEF IInv, TypeOK
    <2>3. head # tail
      BY <1>3 DEF PopRead, IInv, Ownership
    <2>4. Ownership'
      BY <2>1, <2>3 DEF IInv, TypeOK, Ownership, Occupied
    <2>5. QED
      BY <2>2, <2>4 DEF IInv
  <1>4. CASE PopStore
    <2>1. /\ pop.snapshot = tail /\ head # tail /\ pop.item = buffer[tail]
          /\ tail' = After(tail)
          /\ pop' = [pop EXCEPT !.pc = "idle"]
          /\ answer' = [op |-> "pop", item |-> pop.item]
          /\ UNCHANGED <<buffer, head, push>>
      BY <1>4 DEF PopStore, IInv, Ownership
    <2>2. Occupied(tail)
      BY <1>0, <2>1 DEF Occupied, Slots
    <2>3. pop.item \in Items
      BY <1>0, <2>1, <2>2 DEF IInv, Ownership
    <2>4. TypeOK'
      BY <1>0, <2>1, <2>3 DEF IInv, TypeOK, Fifo!Answers
    <2>5. \A s \in Slots : Occupied(s)' => Occupied(s)
      BY <1>0, <2>1 DEF Occupied, Slots
    <2>6. After(head) # After(tail)
      BY <1>0, <2>1 DEF Slots
    <2>7. Ownership'
      BY <1>0, <2>1, <2>5, <2>6 DEF IInv, TypeOK, Ownership
    <2>8. QED
      BY <2>4, <2>7 DEF IInv
  <1>5. QED
    BY <1>1, <1>2, <1>3, <1>4 DEF Consumer

\* IInv holds in every reachable state of a ring of any size.
THEOREM Invariance == Spec => []IInv
  <1>1. Init => IInv
    BY InitIInv
  <1>2. IInv /\ [Next]_vars => IInv'
    <2> SUFFICES ASSUME IInv, [Next]_vars PROVE IInv'
      OBVIOUS
    <2>1. CASE UNCHANGED vars
      BY <2>1 DEF vars, IInv, TypeOK, Ownership, Occupied
    <2>2. QED
      BY <2>1, PushSteps, PopSteps DEF Next
  <1>3. QED
    BY <1>1, <1>2, PTL DEF Spec

\* The consumer never copies the slot the producer is writing, although neither
\* takes a lock: the slot in between is the one the ring keeps empty.
THEOREM SlotsOwned == Spec => []SlotInv
  <1>1. IInv => SlotInv
    BY DEF IInv, SlotInv, TypeOK, Ownership, NoSlotRace
  <1>2. QED
    BY <1>1, Invariance, PTL

-----------------------------------------------------------------------------
(***************************************************************************)
(* The refinement of FifoQueue.                                            *)
(***************************************************************************)

\* How many items are between tail and head, and where the i-th of them is.
Size == IF tail <= head THEN head - tail ELSE head + QueueSize - tail
SlotOf(i) == IF tail + i - 1 < QueueSize THEN tail + i - 1 ELSE tail + i - 1 - QueueSize

\* Contents without remainders: a sequence of Size items.
Shape ==
  /\ Size \in 0 .. QueueSize - 1
  /\ \A i \in 1 .. Size : SlotOf(i) \in Slots /\ Occupied(SlotOf(i))
  /\ Contents = [i \in 1 .. Size |-> buffer[SlotOf(i)]]
  /\ Contents \in Seq(Items)
  /\ Len(Contents) = Size

\* Contents has that shape whenever the invariant holds.
LEMMA ContentsShape == IInv => Shape
  <1> SUFFICES ASSUME IInv PROVE Shape
    OBVIOUS
  <1>0. head \in 0 .. QueueSize - 1 /\ tail \in 0 .. QueueSize - 1 /\ QueueSize \in Nat
        /\ QueueSize > 1
    BY QueueSizeAssumption DEF IInv, TypeOK, Slots
  <1>1. Size \in 0 .. QueueSize - 1
    BY <1>0 DEF Size
  <1>2. (head + QueueSize - tail) % QueueSize = Size
    <2>1. head + QueueSize - tail \in Nat /\ head + QueueSize - tail < 2 * QueueSize
      BY <1>0
    <2>2. PICK x \in Nat : x = head + QueueSize - tail
      BY <2>1
    <2>3. x % QueueSize = IF x < QueueSize THEN x ELSE x - QueueSize
      BY <2>1, <2>2, Wrap
    <2>4. QED
      BY <1>0, <2>2, <2>3 DEF Size
  <1>3. \A i \in 1 .. Size : (tail + i - 1) % QueueSize = SlotOf(i)
    <2> SUFFICES ASSUME NEW i \in 1 .. Size
                 PROVE  (tail + i - 1) % QueueSize = SlotOf(i)
      OBVIOUS
    <2>1. tail + i - 1 \in Nat /\ tail + i - 1 < 2 * QueueSize
      BY <1>0, <1>1
    <2>2. PICK x \in Nat : x = tail + i - 1
      BY <2>1
    <2>3. x % QueueSize = IF x < QueueSize THEN x ELSE x - QueueSize
      BY <2>1, <2>2, Wrap
    <2>4. QED
      BY <1>0, <2>2, <2>3 DEF SlotOf
  <1>4. \A i \in 1 .. Size : SlotOf(i) \in Slots /\ Occupied(SlotOf(i))
    BY <1>0 DEF Size, SlotOf, Slots, Occupied
  <1>5. Contents = [i \in 1 .. Size |-> buffer[SlotOf(i)]]
    BY <1>2, <1>3 DEF Contents
  <1>6. \A i \in 1 .. Size : buffer[SlotOf(i)] \in Items
    BY <1>4 DEF IInv, Ownership
  <1>7. Contents \in Seq(Items) /\ Len(Contents) = Size
    BY <1>1, <1>5, <1>6
  <1>8. QED
    BY <1>1, <1>4, <1>5, <1>7 DEF Shape

\* Steps that move neither index and leave the occupied slots alone.
LEMMA ContentsKept ==
  ASSUME IInv, Shape, Shape', head' = head, tail' = tail,
         \A s \in Slots : Occupied(s) => buffer'[s] = buffer[s]
  PROVE  Contents' = Contents
  <1>1. Contents = [i \in 1 .. Size |-> buffer[SlotOf(i)]]
        /\ \A i \in 1 .. Size : SlotOf(i) \in Slots /\ Occupied(SlotOf(i))
    BY DEF Shape
  <1>2. Contents' = [i \in 1 .. Size' |-> buffer'[SlotOf(i)']]
    BY DEF Shape
  <1>3. Size' = Size /\ \A i \in 1 .. Size : SlotOf(i)' = SlotOf(i)
    BY DEF Size, SlotOf
  <1>4. QED
    BY <1>1, <1>2, <1>3

\* head.store publishes the item at the end of the queue.
LEMMA PushStoreImplements ==
  ASSUME IInv, Shape, Shape', PushStore
  PROVE  \E x \in Items : Fifo!Push(x)
  <1>0. head \in 0 .. QueueSize - 1 /\ tail \in 0 .. QueueSize - 1 /\ QueueSize \in Nat
        /\ QueueSize > 1
    BY QueueSizeAssumption DEF IInv, TypeOK, Slots
  <1>1. /\ push.item \in Items /\ After(head) # tail
        /\ buffer[head] = push.item
        /\ head' = After(head)
        /\ answer' = [op |-> "push", item |-> push.item]
        /\ buffer' = buffer /\ tail' = tail
    BY DEF PushStore, IInv, Ownership
  <1>2. After(head) = IF head + 1 = QueueSize THEN 0 ELSE head + 1
    BY AfterSlot DEF IInv, TypeOK
  <1>3. /\ Contents = [i \in 1 .. Size |-> buffer[SlotOf(i)]]
        /\ Contents \in Seq(Items) /\ Len(Contents) = Size /\ Size \in Nat
    BY DEF Shape
  <1>4. /\ Contents' = [i \in 1 .. Size' |-> buffer'[SlotOf(i)']]
        /\ Contents' \in Seq(Items) /\ Len(Contents') = Size'
    BY DEF Shape
  <1>5. Size < QueueSize - 1 /\ Size' = Size + 1
    BY <1>0, <1>1, <1>2 DEF Size
  <1>6. /\ \A i \in 1 .. Size + 1 : SlotOf(i)' = SlotOf(i)
        /\ SlotOf(Size + 1) = head
    BY <1>0, <1>1, <1>2 DEF Size, SlotOf
  <1>7. Contents' = Append(Contents, push.item)
    <2>1. Append(Contents, push.item) \in Seq(Items)
          /\ Len(Append(Contents, push.item)) = Size + 1
      BY <1>1, <1>3
    <2>2. \A i \in 1 .. Size + 1 : Contents'[i] = Append(Contents, push.item)[i]
      <3> SUFFICES ASSUME NEW i \in 1 .. Size + 1
                   PROVE  Contents'[i] = Append(Contents, push.item)[i]
        OBVIOUS
      <3>1. Contents'[i] = buffer[SlotOf(i)]
        BY <1>1, <1>4, <1>5, <1>6
      <3>2. CASE i = Size + 1
        BY <1>1, <1>3, <1>6, <3>1, <3>2
      <3>3. CASE i \in 1 .. Size
        BY <1>3, <3>1, <3>3
      <3>4. QED
        BY <1>3, <3>2, <3>3
    <2>3. QED
      BY <1>4, <1>5, <2>1, <2>2
  <1>8. Fifo!Push(push.item)
    BY <1>1, <1>3, <1>5, <1>7 DEF Fifo!Push
  <1>9. QED
    BY <1>1, <1>8

\* tail.store gives the oldest slot back.
LEMMA PopStoreImplements ==
  ASSUME IInv, Shape, Shape', PopStore
  PROVE  Fifo!Pop
  <1>0. head \in 0 .. QueueSize - 1 /\ tail \in 0 .. QueueSize - 1 /\ QueueSize \in Nat
        /\ QueueSize > 1
    BY QueueSizeAssumption DEF IInv, TypeOK, Slots
  <1>1. /\ head # tail /\ pop.item = buffer[tail]
        /\ tail' = After(tail)
        /\ answer' = [op |-> "pop", item |-> pop.item]
        /\ buffer' = buffer /\ head' = head
    BY DEF PopStore, IInv, Ownership
  <1>2. After(tail) = IF tail + 1 = QueueSize THEN 0 ELSE tail + 1
    BY AfterSlot DEF IInv, TypeOK
  <1>3. /\ Contents = [i \in 1 .. Size |-> buffer[SlotOf(i)]]
        /\ Contents \in Seq(Items) /\ Len(Contents) = Size /\ Size \in Nat
    BY DEF Shape
  <1>4. /\ Contents' = [i \in 1 .. Size' |-> buffer'[SlotOf(i)']]
        /\ Contents' \in Seq(Items) /\ Len(Contents') = Size'
    BY DEF Shape
  <1>5. Size > 0 /\ Size' = Size - 1
    BY <1>0, <1>1, <1>2 DEF Size
  <1>6. /\ \A i \in 1 .. Size - 1 : SlotOf(i)' = SlotOf(i + 1)
        /\ SlotOf(1) = tail
    <2>1. SlotOf(1) = tail
      BY <1>0 DEF SlotOf
    <2>2. ASSUME NEW i \in 1 .. Size - 1 PROVE SlotOf(i)' = SlotOf(i + 1)
      <3>1. i \in Nat /\ i < QueueSize
        BY <1>3, <1>0 DEF Shape
      <3>2. CASE tail + 1 = QueueSize
        BY <1>0, <1>1, <1>2, <3>1, <3>2 DEF SlotOf
      <3>3. CASE tail + 1 # QueueSize
        BY <1>0, <1>1, <1>2, <3>1, <3>3 DEF SlotOf
      <3>4. QED
        BY <3>2, <3>3
    <2>3. QED
      BY <2>1, <2>2
  <1>7. Contents # <<>> /\ Head(Contents) = pop.item
    <2>1. Contents # <<>> /\ Head(Contents) = Contents[1]
      BY <1>3, <1>5
    <2>2. Contents[1] = buffer[SlotOf(1)]
      BY <1>3, <1>5
    <2>3. QED
      BY <1>1, <1>6, <2>1, <2>2
  <1>8. Contents' = Tail(Contents)
    <2>1. Tail(Contents) \in Seq(Items) /\ Len(Tail(Contents)) = Size - 1
      BY <1>3, <1>5
    <2>2. \A i \in 1 .. Size - 1 : Contents'[i] = Tail(Contents)[i]
      <3> SUFFICES ASSUME NEW i \in 1 .. Size - 1
                   PROVE  Contents'[i] = Tail(Contents)[i]
        OBVIOUS
      <3>1. Contents'[i] = buffer[SlotOf(i + 1)]
        BY <1>1, <1>4, <1>5, <1>6
      <3>2. Tail(Contents)[i] = Contents[i + 1]
        BY <1>3, <1>5
      <3>3. Contents[i + 1] = buffer[SlotOf(i + 1)]
        BY <1>3
      <3>4. QED
        BY <3>1, <3>2, <3>3
    <2>3. QED
      BY <1>4, <1>5, <2>1, <2>2, SeqEqual
  <1>9. QED
    BY <1>1, <1>7, <1>8 DEF Fifo!Pop

\* A push that finds no room.  tail may move on after it was read here; the
\* step is where it was read.
LEMMA PushCheckImplements ==
  ASSUME IInv, Shape, Shape', PushCheck
  PROVE  Fifo!PushFull \/ UNCHANGED Fifo!vars
  <1>0. head \in 0 .. QueueSize - 1 /\ tail \in 0 .. QueueSize - 1 /\ QueueSize \in Nat
        /\ QueueSize > 1
    BY QueueSizeAssumption DEF IInv, TypeOK, Slots
  <1>1. push.snapshot = head /\ UNCHANGED <<buffer, head, tail>>
    BY DEF PushCheck, IInv, Ownership
  <1>2. After(head) = IF head + 1 = QueueSize THEN 0 ELSE head + 1
    BY AfterSlot DEF IInv, TypeOK
  <1>3. Contents' = Contents
    BY <1>1, ContentsKept
  <1>4. CASE After(head) = tail
    <2>1. Size = QueueSize - 1
      BY <1>0, <1>2, <1>4 DEF Size
    <2>2. Len(Contents) = QueueSize - 1
      BY <2>1 DEF Shape
    <2>3. answer' = [op |-> "full"]
      BY <1>1, <1>4 DEF PushCheck
    <2>4. QED
      BY <1>3, <2>2, <2>3 DEF Fifo!PushFull
  <1>5. CASE After(head) # tail
    <2>1. UNCHANGED answer
      BY <1>1, <1>5 DEF PushCheck
    <2>2. QED
      BY <1>3, <2>1 DEF Fifo!vars
  <1>6. QED
    BY <1>4, <1>5

\* A pop that finds nothing.
LEMMA PopCheckImplements ==
  ASSUME IInv, Shape, Shape', PopCheck
  PROVE  Fifo!PopEmpty \/ UNCHANGED Fifo!vars
  <1>0. head \in 0 .. QueueSize - 1 /\ tail \in 0 .. QueueSize - 1
    BY DEF IInv, TypeOK, Slots
  <1>1. pop.snapshot = tail /\ UNCHANGED <<buffer, head, tail>>
    BY DEF PopCheck, IInv, Ownership
  <1>2. Contents' = Contents
    BY <1>1, ContentsKept
  <1>3. CASE tail = head
    <2>1. Size = 0
      BY <1>0, <1>3 DEF Size
    <2>2. Contents \in Seq(Items) /\ Len(Contents) = 0
      BY <2>1 DEF Shape
    <2>3. answer' = [op |-> "empty"]
      BY <1>1, <1>3 DEF PopCheck
    <2>4. Contents = <<>>
      BY <2>2
    <2>5. QED
      BY <1>2, <2>3, <2>4 DEF Fifo!PopEmpty
  <1>4. CASE tail # head
    <2>1. UNCHANGED answer
      BY <1>1, <1>4 DEF PopCheck
    <2>2. QED
      BY <1>2, <2>1 DEF Fifo!vars
  <1>5. QED
    BY <1>3, <1>4

\* Loads and copies are invisible.
LEMMA QuietImplements ==
  ASSUME IInv, Shape, Shape', (\E x \in Items : PushLoad(x)) \/ PushWrite \/ PopLoad \/ PopRead
  PROVE  UNCHANGED Fifo!vars
  <1>1. /\ UNCHANGED <<head, tail, answer>>
        /\ \A s \in Slots : s # head => buffer'[s] = buffer[s]
    BY DEF PushLoad, PushWrite, PopLoad, PopRead, IInv, TypeOK, Ownership
  <1>2. \A s \in Slots : Occupied(s) => s # head
    BY DEF IInv, TypeOK, Slots, Occupied
  <1>3. Contents' = Contents
    BY <1>1, <1>2, ContentsKept
  <1>4. QED
    BY <1>1, <1>3 DEF Fifo!vars

\* LockFreeQueue is a bounded FIFO queue, for every size: each push and pop takes
\* effect at one step, in order, nothing is lost, repeated or read half written,
\* and a refusal is true when it is decided.
THEOREM Implementation == Spec => FifoSteps
  <1>1. Init => Fifo!Init
    <2> SUFFICES ASSUME Init PROVE Fifo!Init
      OBVIOUS
    <2>1. IInv
      BY InitIInv
    <2>2. Size = 0
      BY DEF Init, Size
    <2>3. Contents \in Seq(Items) /\ Len(Contents) = 0
      BY <2>1, <2>2, ContentsShape DEF Shape
    <2>4. Contents = <<>>
      BY <2>3
    <2>5. QED
      BY <2>4 DEF Init, Fifo!Init
  <1>2. IInv /\ Shape /\ Shape' /\ [Next]_vars => [Fifo!Next]_(Fifo!vars)
    <2> SUFFICES ASSUME IInv, Shape, Shape', [Next]_vars
                 PROVE  Fifo!Next \/ UNCHANGED Fifo!vars
      OBVIOUS
    <2>1. CASE UNCHANGED vars
      BY <2>1 DEF vars, Fifo!vars, Contents
    <2>2. CASE PushStore
      BY <2>2, PushStoreImplements DEF Fifo!Next
    <2>3. CASE PopStore
      BY <2>3, PopStoreImplements DEF Fifo!Next
    <2>4. CASE PushCheck
      BY <2>4, PushCheckImplements DEF Fifo!Next
    <2>5. CASE PopCheck
      BY <2>5, PopCheckImplements DEF Fifo!Next
    <2>6. QED
      BY <2>1, <2>2, <2>3, <2>4, <2>5, QuietImplements DEF Next, Consumer
  <1>3. QED
    BY <1>1, <1>2, Invariance, ContentsShape, PTL DEF Spec, FifoSteps

=============================================================================
