-------------------------- MODULE SpscQueueProofs --------------------------
(***************************************************************************)
(* Theorems about the SPSC queue, for any capacity, any values and any     *)
(* number of pushes: it implements the bounded queue.                      *)
(***************************************************************************)
EXTENDS SpscQueue, NumberTheorems, SequenceTheorems, TLAPS

\* The pointers are never more than a capacity apart, and a call that has begun
\* has seen room, or a value, that cannot go away.
PointerInv ==
  /\ tail_ <= head_
  /\ head_ <= tail_ + Capacity
  /\ pushing # "idle" => head_ < tail_ + Capacity
  /\ popping # "idle" => tail_ < head_

\* What a call has copied is still what it copied from or to.
CopyInv ==
  /\ pushing # "idle" => value \in Values
  /\ pushing = "store" => buffer_[Cell(head_)] = value
  /\ popping = "store" => out = buffer_[Cell(tail_)]

QueueInv == TypeOK /\ PointerInv /\ CopyInv

\* head & mask_ is an index of the buffer.
LEMMA CellInBuffer ==
  ASSUME NEW c \in Nat
  PROVE  Cell(c) \in 0..Capacity - 1
BY CapacityAssumption, RemainderRange DEF Cell

\* While the producer may write at head_, no value of the queue is there.
LEMMA FreeCell ==
  ASSUME TypeOK, NEW c \in Nat, tail_ <= c, c < head_, head_ < tail_ + Capacity
  PROVE  Cell(c) # Cell(head_)
<1>1. head_ \in Nat /\ tail_ \in Nat /\ Capacity \in Nat \ {0}
  BY CapacityAssumption DEF TypeOK
<1>2. head_ - c < Capacity
  BY <1>1
<1>3. QED
  BY <1>1, <1>2, SameLap DEF Cell

\* The queue begins empty.
LEMMA InitQueue == Init => QueueInv
BY CapacityAssumption DEF Init, QueueInv, TypeOK, PointerInv, CopyInv, Cells

\* Every access of the two threads keeps the invariant.
LEMMA QueueStep ==
  ASSUME QueueInv, [Next]_vars
  PROVE  QueueInv'
<1> USE DEF QueueInv
<1>0. /\ head_ \in Nat /\ tail_ \in Nat /\ Capacity \in Nat /\ Capacity > 0
      /\ Cell(head_) \in 0..Capacity - 1 /\ Cell(tail_) \in 0..Capacity - 1
  BY CapacityAssumption, CellInBuffer DEF TypeOK
<1>1. CASE PushFull
  BY <1>0, <1>1 DEF PushFull, consumer, TypeOK, PointerInv, CopyInv, Cells
<1>2. ASSUME NEW v \in Values, PushBegin(v)
      PROVE  QueueInv'
  BY <1>0, <1>2 DEF PushBegin, Full, consumer, TypeOK, PointerInv, CopyInv, Cells
<1>3. CASE PushCopy
  <2>1. /\ UNCHANGED <<head_, tail_, value, popping, out, refused, delivered>>
        /\ pushing = "copy" /\ pushing' = "store"
        /\ buffer_' = [buffer_ EXCEPT ![Cell(head_)] = value]
    BY <1>3 DEF PushCopy, consumer
  <2>2. popping = "store" => buffer_'[Cell(tail_)] = buffer_[Cell(tail_)]
    <3>1. popping = "store" => Cell(tail_) # Cell(head_)
      BY <1>0, <2>1, FreeCell DEF PointerInv
    <3>2. QED
      BY <1>0, <2>1, <3>1 DEF TypeOK
  <2>3. buffer_'[Cell(head_)] = value
    BY <1>0, <2>1 DEF TypeOK
  <2>4. TypeOK' /\ PointerInv'
    BY <1>0, <2>1 DEF TypeOK, PointerInv, Cells
  <2>5. CopyInv'
    BY <2>1, <2>2, <2>3 DEF CopyInv, Cell
  <2>6. QED
    BY <2>4, <2>5
<1>4. CASE PushStore
  BY <1>0, <1>4 DEF PushStore, consumer, TypeOK, PointerInv, CopyInv, Cells, Cell
<1>5. CASE PopBegin
  BY <1>0, <1>5 DEF PopBegin, producer, TypeOK, PointerInv, CopyInv, Cells, Cell
<1>6. CASE PopCopy
  BY <1>0, <1>6 DEF PopCopy, producer, TypeOK, PointerInv, CopyInv, Cells, Cell
<1>7. CASE PopStore
  <2>1. /\ UNCHANGED <<head_, pushing, value, refused, buffer_, out>>
        /\ popping = "store" /\ popping' = "idle"
        /\ tail_' = tail_ + 1
        /\ delivered' = Append(delivered, out)
    BY <1>7 DEF PopStore, producer
  <2>2. delivered' \in Seq(Cells)
    BY <2>1 DEF TypeOK
  <2>3. TypeOK'
    BY <1>0, <2>1, <2>2 DEF TypeOK, Cells
  <2>4. PointerInv' /\ CopyInv'
    BY <1>0, <2>1 DEF PointerInv, CopyInv, Cell
  <2>5. QED
    BY <2>3, <2>4
<1>8. CASE UNCHANGED vars
  BY <1>8 DEF vars, TypeOK, PointerInv, CopyInv, Cells, Cell
<1>9. QED
  BY <1>1, <1>2, <1>3, <1>4, <1>5, <1>6, <1>7, <1>8 DEF Next, TryPush, TryPop, PopEmpty

\* The pointers and the copies agree in every state of the two threads.
THEOREM QueueInvHolds == Spec => []QueueInv
BY InitQueue, QueueStep, PTL DEF Spec

\* The pointers, the cells and what the two threads hold have their types.
THEOREM QueueTypes == Spec => []TypeOK
<1>1. QueueInv => TypeOK
  BY DEF QueueInv
<1>2. QED
  BY QueueInvHolds, <1>1, PTL

\* No cell is read while it is written.
THEOREM CellsExclusive == Spec => []NoSharedCell
<1>1. QueueInv => NoSharedCell
  <2> SUFFICES ASSUME QueueInv, pushing = "copy", popping = "copy"
               PROVE  Cell(head_) # Cell(tail_)
    BY DEF NoSharedCell
  <2>1. tail_ \in Nat /\ tail_ <= tail_ /\ tail_ < head_ /\ head_ < tail_ + Capacity
    BY DEF QueueInv, TypeOK, PointerInv
  <2>2. QED
    BY <2>1, FreeCell DEF QueueInv
<1>2. QED
  BY QueueInvHolds, <1>1, PTL

-----------------------------------------------------------------------------
(* The refinement                                                          *)

\* A sequence is the function of its elements.
LEMMA SequenceIs ==
  ASSUME NEW S, NEW s \in Seq(S)
  PROVE  s = [i \in 1..Len(s) |-> s[i]]
<1> DEFINE t == [i \in 1..Len(s) |-> s[i]]
<1>1. Len(s) \in Nat /\ \A i \in 1..Len(s) : s[i] \in S
  OBVIOUS
<1>2. t \in Seq(S) /\ Len(t) = Len(s)
  BY <1>1
<1>3. \A i \in 1..Len(s) : s[i] = t[i]
  OBVIOUS
<1> HIDE DEF t
<1>4. s = t
  BY <1>2, <1>3, SeqEqual
<1>5. QED
  BY <1>4 DEF t

\* A value of the queue is the content of its cell.
LEMMA ItemsAre ==
  ASSUME TypeOK, PointerInv
  PROVE  /\ Items \in Seq(Cells)
         /\ Len(Items) = head_ - tail_
         /\ \A i \in 1..head_ - tail_ : Items[i] = buffer_[Cell(tail_ + i - 1)]
<1>1. head_ \in Nat /\ tail_ \in Nat /\ head_ - tail_ \in Nat
  BY DEF TypeOK, PointerInv
<1>2. \A i \in 1..head_ - tail_ : buffer_[Cell(tail_ + i - 1)] \in Cells
  BY <1>1, CellInBuffer DEF TypeOK
<1>3. QED
  BY <1>1, <1>2 DEF Items

\* A step of the queue is a step of the bounded queue, or changes nothing of it.
LEMMA QueueRefines ==
  ASSUME QueueInv, [Next]_vars
  PROVE  [Bounded!Next]_Bounded!vars
<1> USE DEF QueueInv
<1>0. /\ head_ \in Nat /\ tail_ \in Nat /\ Capacity \in Nat /\ head_ - tail_ \in Nat
      /\ Items \in Seq(Cells) /\ Len(Items) = head_ - tail_
      /\ \A i \in 1..head_ - tail_ : Items[i] = buffer_[Cell(tail_ + i - 1)]
  BY ItemsAre, CapacityAssumption DEF TypeOK, PointerInv
<1>1. CASE PushFull
  <2>1. Items' = Items
    BY <1>1 DEF PushFull, consumer, Items, Cell
  <2>2. Len(Items) = Capacity
    BY <1>0, <1>1 DEF PushFull, Full, PointerInv
  <2>3. Bounded!Refuse
    BY <1>1, <2>1, <2>2 DEF Bounded!Refuse, PushFull, consumer
  <2>4. QED
    BY <2>3 DEF Bounded!Next
<1>2. ASSUME NEW v \in Values, PushBegin(v)
      PROVE  UNCHANGED Bounded!vars
  BY <1>2 DEF PushBegin, consumer, Items, Cell, Bounded!vars
<1>3. CASE PushCopy
  <2>1. /\ UNCHANGED <<head_, tail_, refused, delivered>>
        /\ pushing = "copy"
        /\ buffer_' = [buffer_ EXCEPT ![Cell(head_)] = value]
    BY <1>3 DEF PushCopy, consumer
  <2>2. ASSUME NEW i \in 1..head_ - tail_
        PROVE  buffer_'[Cell(tail_ + i - 1)] = buffer_[Cell(tail_ + i - 1)]
    <3>1. tail_ + i - 1 \in Nat /\ tail_ <= tail_ + i - 1 /\ tail_ + i - 1 < head_
      BY <1>0
    <3>2. Cell(tail_ + i - 1) # Cell(head_)
      BY <2>1, <3>1, FreeCell DEF PointerInv
    <3>3. Cell(tail_ + i - 1) \in 0..Capacity - 1
      BY <3>1, CellInBuffer
    <3>4. QED
      BY <2>1, <3>2, <3>3 DEF TypeOK
  <2>3. Items' = Items
    BY <2>1, <2>2 DEF Items, Cell
  <2>4. QED
    BY <2>1, <2>3 DEF Bounded!vars
<1>4. CASE PushStore
  <2>1. /\ UNCHANGED <<tail_, buffer_, refused, delivered>>
        /\ pushing = "store" /\ head_' = head_ + 1
    BY <1>4 DEF PushStore, consumer
  <2>2. head_ - tail_ < Capacity /\ value \in Values /\ buffer_[Cell(head_)] = value
    BY <1>0, <2>1 DEF PointerInv, CopyInv
  <2>3. Items' = Append(Items, value)
    <3> DEFINE n == head_ - tail_
    <3>1. head_' - tail_' = n + 1
      BY <1>0, <2>1
    <3>2. Items' = [i \in 1..n + 1 |-> buffer_[Cell(tail_ + i - 1)]]
      BY <2>1, <3>1 DEF Items, Cell
    <3>3. /\ Append(Items, value) \in Seq(Cells)
          /\ Len(Append(Items, value)) = n + 1
          /\ Append(Items, value)[n + 1] = value
          /\ \A i \in 1..n : Append(Items, value)[i] = Items[i]
      BY <1>0, <2>2 DEF Cells
    <3>4. ASSUME NEW i \in 1..n + 1
          PROVE  buffer_[Cell(tail_ + i - 1)] = Append(Items, value)[i]
      <4>1. CASE i = n + 1
        <5>1. tail_ + i - 1 = head_
          BY <1>0, <4>1
        <5>2. QED
          BY <2>2, <3>3, <4>1, <5>1
      <4>2. CASE i # n + 1
        <5>1. i \in 1..n
          BY <1>0, <4>2
        <5>2. QED
          BY <1>0, <3>3, <5>1
      <4>3. QED
        BY <4>1, <4>2
    <3> HIDE DEF n
    <3>5. Append(Items, value) = [i \in 1..n + 1 |-> Append(Items, value)[i]]
      BY <3>3, SequenceIs, Zenon
    <3>6. QED
      BY <3>2, <3>4, <3>5, Zenon
  <2>4. Bounded!Push(value)
    BY <1>0, <2>1, <2>2, <2>3 DEF Bounded!Push
  <2>5. QED
    BY <2>2, <2>4 DEF Bounded!Next
<1>5. CASE PopBegin
  BY <1>5 DEF PopBegin, producer, Items, Cell, Bounded!vars
<1>6. CASE PopCopy
  BY <1>6 DEF PopCopy, producer, Items, Cell, Bounded!vars
<1>7. CASE PopStore
  <2>1. /\ UNCHANGED <<head_, buffer_, refused>>
        /\ popping = "store" /\ tail_' = tail_ + 1
        /\ delivered' = Append(delivered, out)
    BY <1>7 DEF PopStore, producer
  <2>2. head_ - tail_ > 0 /\ Items # <<>> /\ Head(Items) = out
    <3>1. head_ - tail_ > 0
      BY <1>0, <2>1 DEF PointerInv
    <3>2. tail_ + 1 - 1 = tail_ /\ 1 \in 1..head_ - tail_
      BY <1>0, <3>1
    <3>3. Items[1] = buffer_[Cell(tail_)]
      BY <1>0, <3>2
    <3>4. QED
      BY <1>0, <2>1, <3>1, <3>3 DEF CopyInv
  <2>3. Items' = Tail(Items)
    <3> DEFINE n == head_ - tail_
    <3>1. head_' - tail_' = n - 1
      BY <1>0, <2>1
    <3>2. Items' = [i \in 1..n - 1 |-> buffer_[Cell(tail_' + i - 1)]]
      BY <2>1, <3>1 DEF Items, Cell
    <3>3. /\ Tail(Items) \in Seq(Cells)
          /\ Len(Tail(Items)) = n - 1
          /\ \A i \in 1..n - 1 : Tail(Items)[i] = Items[i + 1]
      BY <1>0, <2>2
    <3>4. ASSUME NEW i \in 1..n - 1
          PROVE  buffer_[Cell(tail_' + i - 1)] = Tail(Items)[i]
      <4>1. i + 1 \in 1..n /\ tail_' + i - 1 = tail_ + (i + 1) - 1
        BY <1>0, <2>1
      <4>2. QED
        BY <1>0, <3>3, <4>1
    <3> HIDE DEF n
    <3>5. Tail(Items) = [i \in 1..n - 1 |-> Tail(Items)[i]]
      BY <3>3, SequenceIs, Zenon
    <3>6. QED
      BY <3>2, <3>4, <3>5, Zenon
  <2>4. Bounded!Pop
    BY <2>1, <2>2, <2>3 DEF Bounded!Pop
  <2>5. QED
    BY <2>4 DEF Bounded!Next
<1>8. CASE UNCHANGED vars
  BY <1>8 DEF vars, Items, Cell, Bounded!vars
<1>9. QED
  BY <1>1, <1>2, <1>3, <1>4, <1>5, <1>6, <1>7, <1>8 DEF Next, TryPush, TryPop, PopEmpty

\* SpscQueue implements the bounded queue: pushes and pops, whatever their
\* interleaving, take effect one at a time, in order, and a push is refused
\* exactly when the queue is full.
THEOREM QueueImplementsBounded == Spec => BoundedSpec
<1>1. Init => Bounded!Init
  <2> SUFFICES ASSUME Init
               PROVE  Bounded!Init
    OBVIOUS
  <2>1. head_ - tail_ = 0 /\ 1..0 = {}
    BY DEF Init
  <2>2. Items = <<>>
    BY <2>1 DEF Items
  <2>3. QED
    BY <2>2 DEF Init, Bounded!Init
<1>2. QueueInv /\ [Next]_vars => [Bounded!Next]_Bounded!vars
  BY QueueRefines
<1>3. QED
  BY QueueInvHolds, <1>1, <1>2, PTL DEF Spec, BoundedSpec, Bounded!Spec
=============================================================================
