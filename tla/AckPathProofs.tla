--------------------------- MODULE AckPathProofs ---------------------------
(***************************************************************************)
(* Theorems about the way of the acknowledgements, for rings and queues of *)
(* any size, any number of acknowledgements, and any interleaving of the   *)
(* engine, the reader thread and the consumer.                             *)
(***************************************************************************)
EXTENDS AckPath, NumberTheorems, FiniteSetTheorems, SequenceTheorems, TLAPS

\* The queue with its invariant.
Q == INSTANCE SpscQueueProofs WITH
  Values <- AckValues, Blank <- BlankAck, MaxPushes <- Acks, refused <- dropped_count_

-----------------------------------------------------------------------------
(* The invariant.                                                          *)

Ops   == 0..Acks - 1 \cup {NoAck}
Ready == {i \in 0..Size - 1 : slot[i].is_ready}
InHand == reader \in {"answer", "op", "release"}

PathTypeOK ==
  /\ slot \in [0..Size - 1 -> [op : Ops, answer : Ops, is_ready : BOOLEAN]]
  /\ write_p_outbound \in Nat
  /\ engine \in {"stamp", "answer", "publish"}
  /\ outbound_ringbuffer_read_p \in Nat
  /\ reader \in {"check", "poll", "answer", "op", "release", "push", "done"}
  /\ ack \in AckValues
  /\ lapped \in BOOLEAN
  /\ stop_ \in BOOLEAN

\* What holds however often the engine laps the reader: every slot that is marked
\* ready, and every acknowledgement taken, stands for one that was published.
CountInv ==
  /\ write_p_outbound <= Acks
  /\ engine # "stamp" => write_p_outbound < Acks
  /\ Cardinality(Ready) + outbound_ringbuffer_read_p <= write_p_outbound
  /\ InHand => NextSlot.is_ready
  /\ outbound_ringbuffer_read_p
       = (IF reader = "push" THEN 1 ELSE 0) + head_ + dropped_count_
  /\ pushing # "idle" => reader = "push" /\ value = ack
  /\ Len(delivered) = tail_

\* The engine has kept behind the reader's lap: the slots that are ready are those
\* that are published and not released, and hold their own acknowledgement.
RingInv ==
  /\ write_p_outbound - outbound_ringbuffer_read_p <= Size
  /\ engine # "stamp" => write_p_outbound - outbound_ringbuffer_read_p < Size
  /\ \A i \in 0..Size - 1 :
       slot[i].is_ready <=>
         \E c \in outbound_ringbuffer_read_p..write_p_outbound - 1 : Index(c) = i
  /\ \A c \in outbound_ringbuffer_read_p..write_p_outbound - 1 :
       slot[Index(c)].op = c /\ slot[Index(c)].answer = c
  /\ engine # "stamp" => slot[Index(write_p_outbound)].op = write_p_outbound
  /\ engine = "publish" => slot[Index(write_p_outbound)].answer = write_p_outbound
  /\ Cardinality(Ready) = write_p_outbound - outbound_ringbuffer_read_p

\* What the reader has copied belongs to one acknowledgement.
HandInv ==
  /\ reader = "op" => ack.answer = outbound_ringbuffer_read_p
  /\ reader = "release" => /\ ack.answer = outbound_ringbuffer_read_p
                           /\ ack.op = outbound_ringbuffer_read_p
  /\ reader = "push" => /\ ack.answer = outbound_ringbuffer_read_p - 1
                        /\ ack.op = outbound_ringbuffer_read_p - 1

\* The c-th acknowledgement that was pushed, popped or not.
AckAt(c) == IF c < tail_ THEN delivered[c + 1] ELSE buffer_[Queue!Cell(c)]

\* What was pushed is whole, in order, and older than what the reader will push next.
OrderInv ==
  /\ \A c \in 0..head_ - 1 :
       /\ AckAt(c).op \in Nat /\ AckAt(c).op = AckAt(c).answer
       /\ AckAt(c).op < outbound_ringbuffer_read_p - (IF reader = "push" THEN 1 ELSE 0)
  /\ \A c, d \in 0..head_ - 1 : c < d => AckAt(c).op < AckAt(d).op

UnlappedInv == ~lapped => RingInv /\ HandInv /\ OrderInv

PathInv == PathTypeOK /\ Q!QueueInv /\ CountInv /\ UnlappedInv

-----------------------------------------------------------------------------
(* The ring and the queue as the steps find them.                          *)

\* A sequence number has a slot, and numbers less than a lap apart have different ones.
LEMMA IndexOf ==
  /\ Size \in Nat /\ Size > 0
  /\ \A c \in Nat : Index(c) \in 0..Size - 1
  /\ \A c, d \in Nat : c # d /\ c - d < Size /\ d - c < Size => Index(c) # Index(d)
<1>1. Size \in Nat \ {0}
  BY SizesAssumption
<1>2. \A c \in Nat : Index(c) \in 0..Size - 1
  BY <1>1, RemainderRange DEF Index
<1>3. \A c, d \in Nat : c < d /\ d - c < Size => Index(c) # Index(d)
  BY <1>1, SameLap DEF Index
<1>4. \A c, d \in Nat : c # d => c < d \/ d < c
  OBVIOUS
<1>5. QED
  BY <1>1, <1>2, <1>3, <1>4

\* The slots that are ready can be counted.
LEMMA ReadyFinite ==
  /\ IsFiniteSet(Ready)
  /\ Cardinality(Ready) \in Nat
<1>1. IsFiniteSet(0..Size - 1)
  BY IndexOf, FS_Interval
<1>2. Ready \subseteq 0..Size - 1
  BY DEF Ready
<1>3. QED
  BY <1>1, <1>2, FS_Subset, FS_CardinalityType

\* What the queue's own variables are.
LEMMA QueueTypes ==
  ASSUME Q!QueueInv
  PROVE  /\ head_ \in Nat /\ tail_ \in Nat /\ tail_ <= head_
         /\ dropped_count_ \in Nat
         /\ buffer_ \in [0..Capacity - 1 -> Q!Cells]
         /\ delivered \in Seq(Q!Cells)
         /\ pushing # "idle" => head_ < tail_ + Capacity
         /\ popping # "idle" => tail_ < head_
         /\ pushing = "store" => buffer_[Queue!Cell(head_)] = value
         /\ popping = "store" => out = buffer_[Queue!Cell(tail_)]
BY DEF Q!QueueInv, Q!TypeOK, Q!PointerInv, Q!CopyInv, Q!Cell, Queue!Cell

\* The reader pushes no more than the engine wrote.
LEMMA RoomToPush ==
  ASSUME PathInv, reader = "push"
  PROVE  head_ + dropped_count_ < Acks
BY ReadyFinite, QueueTypes, AcksAssumption DEF PathInv, PathTypeOK, CountInv

\* Every step is one of the queue, or leaves it alone.
LEMMA QueueAlong ==
  ASSUME PathInv, [Next]_vars
  PROVE  [Q!Next]_Q!vars
<1>1. CASE Drop
  <2>1. Q!PushFull /\ head_ + dropped_count_ < Acks
    BY <1>1, RoomToPush
       DEF Drop, Queue!PushFull, Queue!Full, Queue!consumer, Q!PushFull, Q!Full, Q!consumer
  <2>2. ack \in AckValues
    BY DEF PathInv, PathTypeOK
  <2>3. QED
    BY <2>1, <2>2 DEF Q!Next, Q!TryPush
<1>2. CASE Push
  <2>1. ack \in AckValues /\ head_ + dropped_count_ < Acks
    BY <1>2, RoomToPush DEF Push, PathInv, PathTypeOK
  <2>2. Q!PushBegin(ack) \/ Q!PushCopy \/ Q!PushStore
    BY <1>2
       DEF Push, Queue!PushBegin, Queue!PushCopy, Queue!PushStore, Queue!Full, Queue!Cell,
           Queue!consumer, Q!PushBegin, Q!PushCopy, Q!PushStore, Q!Full, Q!Cell, Q!consumer
  <2>3. QED
    BY <2>1, <2>2 DEF Q!Next, Q!TryPush
<1>3. CASE Consumer
  BY <1>3
     DEF Consumer, Queue!TryPop, Queue!PopBegin, Queue!PopCopy, Queue!PopStore, Queue!Cell,
         Queue!producer, Q!Next, Q!TryPop, Q!PopBegin, Q!PopCopy, Q!PopStore, Q!Cell, Q!producer
<1>4. ASSUME UNCHANGED queue
      PROVE  UNCHANGED Q!vars
  BY <1>4 DEF queue, Q!vars
<1>5. CASE Engine \/ Stop \/ ConsumerWaits \/ UNCHANGED vars
  BY <1>4, <1>5 DEF Engine, Stamp, Answer, Publish, Stop, ConsumerWaits, vars
<1>6. CASE CheckStop \/ PollAgain \/ Poll \/ CopyAnswer \/ CopyOp \/ Release
  BY <1>4, <1>6 DEF CheckStop, PollAgain, Poll, CopyAnswer, CopyOp, Release
<1>7. QED
  BY <1>1, <1>2, <1>3, <1>5, <1>6 DEF Next, Reader

\* The queue's own invariant goes on.
LEMMA QueueGoesOn ==
  ASSUME PathInv, [Next]_vars
  PROVE  Q!QueueInv'
BY QueueAlong, Q!QueueStep, AcksAssumption, SizesAssumption DEF PathInv

\* Every step keeps the types.
LEMMA TypeGoesOn ==
  ASSUME PathInv, [Next]_vars
  PROVE  PathTypeOK'
<1> DEFINE w == write_p_outbound
           r == outbound_ringbuffer_read_p
<1>1. /\ Index(w) \in 0..Size - 1 /\ Index(r) \in 0..Size - 1
      /\ NextSlot \in [op : Ops, answer : Ops, is_ready : BOOLEAN]
      /\ engine # "stamp" => w \in Ops
      /\ w < Acks => w \in Ops
      /\ AckValues = [op : Ops, answer : Ops]
  <2>1. Index(w) \in 0..Size - 1 /\ Index(r) \in 0..Size - 1
    BY IndexOf DEF PathInv, PathTypeOK
  <2>2. NextSlot \in [op : Ops, answer : Ops, is_ready : BOOLEAN]
    BY <2>1 DEF PathInv, PathTypeOK, NextSlot
  <2>3. w < Acks => w \in Ops
    BY AcksAssumption DEF PathInv, PathTypeOK, Ops
  <2>4. engine # "stamp" => w < Acks
    BY DEF PathInv, CountInv
  <2>5. AckValues = [op : Ops, answer : Ops]
    BY DEF AckValues, Ops
  <2>6. QED
    BY <2>1, <2>2, <2>3, <2>4, <2>5
<1> USE DEF PathInv
<1>2. CASE Stamp
  BY <1>1, <1>2 DEF Stamp, PathTypeOK, reading
<1>3. CASE Answer
  BY <1>1, <1>3 DEF Answer, PathTypeOK, reading
<1>4. CASE Publish
  <2>1. slot' \in [0..Size - 1 -> [op : Ops, answer : Ops, is_ready : BOOLEAN]]
    BY <1>1, <1>4 DEF Publish, PathTypeOK
  <2>2. w + 1 \in Nat
    BY DEF PathTypeOK
  <2>3. QED
    BY <1>4, <2>1, <2>2 DEF Publish, PathTypeOK, reading
<1>5. CASE CheckStop \/ PollAgain \/ Poll
  BY <1>5 DEF CheckStop, PollAgain, Poll, PathTypeOK, ring
<1>6. CASE CopyAnswer \/ CopyOp
  BY <1>1, <1>6 DEF CopyAnswer, CopyOp, PathTypeOK, ring
<1>7. CASE Release
  <2>1. slot' \in [0..Size - 1 -> [op : Ops, answer : Ops, is_ready : BOOLEAN]]
    BY <1>1, <1>7 DEF Release, PathTypeOK
  <2>2. r + 1 \in Nat
    BY DEF PathTypeOK
  <2>3. QED
    BY <1>7, <2>1, <2>2 DEF Release, PathTypeOK
<1>8. CASE Drop \/ Push
  BY <1>8 DEF Drop, Push, PathTypeOK, ring
<1>9. CASE Consumer \/ ConsumerWaits \/ Stop \/ UNCHANGED vars
  BY <1>9 DEF Consumer, ConsumerWaits, Stop, PathTypeOK, ring, reading, vars
<1>10. QED
  BY <1>2, <1>3, <1>4, <1>5, <1>6, <1>7, <1>8, <1>9 DEF Next, Engine, Reader

-----------------------------------------------------------------------------
(* What the steps do to the ring.                                          *)

Slots == [op : Ops, answer : Ops, is_ready : BOOLEAN]

\* Writing a slot's op or answer marks and unmarks no slot.
LEMMA WritingKeepsReady ==
  ASSUME PathTypeOK, Stamp \/ Answer
  PROVE  /\ \A i \in 0..Size - 1 : slot'[i].is_ready = slot[i].is_ready
         /\ Ready' = Ready
         /\ \A i \in 0..Size - 1 : i # Index(write_p_outbound) => slot'[i] = slot[i]
         /\ Stamp => slot'[Index(write_p_outbound)].op = write_p_outbound
         /\ Answer => /\ slot'[Index(write_p_outbound)].answer = write_p_outbound
                      /\ slot'[Index(write_p_outbound)].op = slot[Index(write_p_outbound)].op
<1>1. Index(write_p_outbound) \in 0..Size - 1 /\ slot \in [0..Size - 1 -> Slots]
  BY IndexOf DEF PathTypeOK, Slots
<1>2. ASSUME Stamp
      PROVE  /\ \A i \in 0..Size - 1 : slot'[i].is_ready = slot[i].is_ready
             /\ \A i \in 0..Size - 1 : i # Index(write_p_outbound) => slot'[i] = slot[i]
             /\ slot'[Index(write_p_outbound)].op = write_p_outbound
  BY <1>1, <1>2 DEF Stamp, Slots
<1>3. ASSUME Answer
      PROVE  /\ \A i \in 0..Size - 1 : slot'[i].is_ready = slot[i].is_ready
             /\ \A i \in 0..Size - 1 : i # Index(write_p_outbound) => slot'[i] = slot[i]
             /\ slot'[Index(write_p_outbound)].answer = write_p_outbound
             /\ slot'[Index(write_p_outbound)].op = slot[Index(write_p_outbound)].op
  BY <1>1, <1>3 DEF Answer, Slots
<1>4. \A i \in 0..Size - 1 : slot'[i].is_ready = slot[i].is_ready
  BY <1>2, <1>3
<1>5. Ready' = Ready
  BY <1>4, Zenon DEF Ready
<1>6. Stamp => engine = "stamp"
  BY DEF Stamp
<1>7. Answer => engine = "answer"
  BY DEF Answer
<1>8. QED
  BY <1>2, <1>3, <1>4, <1>5, <1>6, <1>7

\* Publishing marks one slot, whatever it held.
LEMMA PublishMarks ==
  ASSUME PathTypeOK, Publish
  PROVE  /\ Index(write_p_outbound) \in 0..Size - 1
         /\ slot'[Index(write_p_outbound)].is_ready
         /\ slot'[Index(write_p_outbound)].op = slot[Index(write_p_outbound)].op
         /\ slot'[Index(write_p_outbound)].answer = slot[Index(write_p_outbound)].answer
         /\ \A i \in 0..Size - 1 : i # Index(write_p_outbound) => slot'[i] = slot[i]
         /\ Ready' = Ready \cup {Index(write_p_outbound)}
<1>1. Index(write_p_outbound) \in 0..Size - 1 /\ slot \in [0..Size - 1 -> Slots]
  BY IndexOf DEF PathTypeOK, Slots
<1>2. /\ slot'[Index(write_p_outbound)].is_ready
      /\ slot'[Index(write_p_outbound)].op = slot[Index(write_p_outbound)].op
      /\ slot'[Index(write_p_outbound)].answer = slot[Index(write_p_outbound)].answer
      /\ \A i \in 0..Size - 1 : i # Index(write_p_outbound) => slot'[i] = slot[i]
  BY <1>1 DEF Publish, Slots
<1>3. Ready' = Ready \cup {Index(write_p_outbound)}
  BY <1>1, <1>2, Zenon DEF Ready
<1>4. QED
  BY <1>1, <1>2, <1>3

\* Releasing unmarks one slot, and keeps the others.
LEMMA ReleaseUnmarks ==
  ASSUME PathTypeOK, Release
  PROVE  /\ Index(outbound_ringbuffer_read_p) \in 0..Size - 1
         /\ ~slot'[Index(outbound_ringbuffer_read_p)].is_ready
         /\ \A i \in 0..Size - 1 :
              /\ slot'[i].op = slot[i].op /\ slot'[i].answer = slot[i].answer
              /\ i # Index(outbound_ringbuffer_read_p) => slot'[i] = slot[i]
         /\ Ready' = Ready \ {Index(outbound_ringbuffer_read_p)}
<1>1. Index(outbound_ringbuffer_read_p) \in 0..Size - 1 /\ slot \in [0..Size - 1 -> Slots]
  BY IndexOf DEF PathTypeOK, Slots
<1>2. /\ ~slot'[Index(outbound_ringbuffer_read_p)].is_ready
      /\ \A i \in 0..Size - 1 :
           /\ slot'[i].op = slot[i].op /\ slot'[i].answer = slot[i].answer
           /\ i # Index(outbound_ringbuffer_read_p) => slot'[i] = slot[i]
  BY <1>1 DEF Release, Slots
<1>3. Ready' = Ready \ {Index(outbound_ringbuffer_read_p)}
  BY <1>1, <1>2, Zenon DEF Ready
<1>4. QED
  BY <1>1, <1>2, <1>3

-----------------------------------------------------------------------------
(* The counts.                                                             *)

\* Every step keeps the count of what was published, taken, pushed and popped.
LEMMA CountGoesOn ==
  ASSUME PathInv, [Next]_vars
  PROVE  CountInv'
<1> DEFINE w == write_p_outbound
           r == outbound_ringbuffer_read_p
<1> USE DEF PathInv
<1>0. /\ w \in Nat /\ r \in Nat /\ head_ \in Nat /\ tail_ \in Nat
      /\ dropped_count_ \in Nat /\ Acks \in Nat
      /\ IsFiniteSet(Ready) /\ Cardinality(Ready) \in Nat
  BY QueueTypes, ReadyFinite, AcksAssumption DEF PathTypeOK
<1>1. CASE Stamp \/ Answer
  <2>1. Ready' = Ready
    BY <1>1, WritingKeepsReady
  <2>2. InHand' => NextSlot'.is_ready
    <3>1. \A i \in 0..Size - 1 : slot'[i].is_ready = slot[i].is_ready
      BY <1>1, WritingKeepsReady
    <3>2. UNCHANGED <<reader, r>> /\ Index(r) \in 0..Size - 1
      BY <1>0, <1>1, IndexOf DEF Stamp, Answer, reading
    <3>3. NextSlot'.is_ready = NextSlot.is_ready /\ InHand' = InHand
      BY <3>1, <3>2 DEF NextSlot, InHand, Index
    <3>4. QED
      BY <3>3 DEF CountInv
  <2>3. engine' # "stamp" => w' < Acks
    BY <1>1 DEF Stamp, Answer, CountInv
  <2>4. UNCHANGED <<w, reading, queue>>
    BY <1>1 DEF Stamp, Answer
  <2>5. QED
    BY <2>1, <2>2, <2>3, <2>4 DEF CountInv, reading, queue
<1>2. CASE Publish
  <2>1. /\ Ready' = Ready \cup {Index(w)}
        /\ UNCHANGED <<reading, queue>>
        /\ w' = w + 1 /\ engine = "publish" /\ engine' = "stamp"
    BY <1>2, PublishMarks DEF Publish
  <2>2. Cardinality(Ready') <= Cardinality(Ready) + 1
    BY <1>0, <2>1, FS_AddElement
  <2>3. w < Acks
    BY <2>1 DEF CountInv
  <2>4. InHand' => NextSlot'.is_ready
    <3>1. /\ slot'[Index(w)].is_ready
          /\ \A i \in 0..Size - 1 : i # Index(w) => slot'[i] = slot[i]
      BY <1>2, PublishMarks
    <3>2. Index(r) \in 0..Size - 1 /\ Index(w) \in 0..Size - 1
      BY <1>0, IndexOf
    <3>3. NextSlot.is_ready => NextSlot'.is_ready
      BY <2>1, <3>1, <3>2 DEF NextSlot, Index, reading
    <3>4. InHand' = InHand
      BY <2>1 DEF InHand, reading
    <3>5. QED
      BY <3>3, <3>4 DEF CountInv
  <2>5. Cardinality(Ready') \in Nat
    BY <1>0, <2>1, FS_AddElement
  <2>6. Cardinality(Ready') + r <= w'
    BY <1>0, <2>1, <2>2, <2>5 DEF CountInv
  <2>7. w' <= Acks
    BY <1>0, <2>1, <2>3
  <2>8. QED
    BY <2>1, <2>4, <2>6, <2>7 DEF CountInv, reading, queue
<1>3. CASE Release
  <2>1. /\ Ready' = Ready \ {Index(r)}
        /\ UNCHANGED <<w, engine, queue, ack>>
        /\ r' = r + 1 /\ reader = "release" /\ reader' = "push"
    BY <1>3, ReleaseUnmarks DEF Release
  <2>2. Index(r) \in Ready
    <3>1. InHand /\ NextSlot.is_ready
      BY <2>1 DEF CountInv, InHand
    <3>2. QED
      BY <1>0, <3>1, IndexOf DEF NextSlot, Ready
  <2>3. Cardinality(Ready') = Cardinality(Ready) - 1
    BY <1>0, <2>1, <2>2, FS_RemoveElement
  <2>4. Cardinality(Ready') + r' <= w
    BY <1>0, <2>1, <2>3 DEF CountInv
  <2>5. r' = 1 + head_ + dropped_count_
    BY <1>0, <2>1 DEF CountInv
  <2>6. pushing = "idle"
    BY <2>1 DEF CountInv
  <2>7. ~InHand'
    BY <2>1 DEF InHand
  <2>8. QED
    BY <2>1, <2>4, <2>5, <2>6, <2>7 DEF CountInv, queue
<1>4. ASSUME UNCHANGED ring
      PROVE  UNCHANGED <<w, engine, Cardinality(Ready)>>
  BY <1>4 DEF ring, Ready
<1>5. CASE CheckStop \/ PollAgain \/ Poll \/ CopyAnswer \/ CopyOp
  <2>1. UNCHANGED <<ring, r, queue>> /\ reader # "push" /\ reader' # "push"
    BY <1>5 DEF CheckStop, PollAgain, Poll, CopyAnswer, CopyOp
  <2>2. InHand' => NextSlot.is_ready
    BY <1>5 DEF CheckStop, PollAgain, Poll, CopyAnswer, CopyOp, CountInv, InHand
  <2>3. NextSlot' = NextSlot
    BY <2>1 DEF NextSlot, Index, ring
  <2>4. UNCHANGED <<w, engine, Cardinality(Ready)>>
    BY <1>4, <2>1
  <2>5. QED
    BY <2>1, <2>2, <2>3, <2>4 DEF CountInv, queue
<1>6. CASE Drop
  <2>1. /\ UNCHANGED <<ring, r, ack, head_, tail_, pushing, value, delivered>>
        /\ reader = "push" /\ reader' = "check" /\ pushing = "idle"
        /\ dropped_count_' = dropped_count_ + 1
    BY <1>6 DEF Drop, Queue!PushFull, Queue!consumer
  <2>2. UNCHANGED <<w, engine, Cardinality(Ready)>> /\ ~InHand'
    BY <1>4, <2>1 DEF InHand
  <2>3. r' = (IF reader' = "push" THEN 1 ELSE 0) + head_' + dropped_count_'
    BY <1>0, <2>1 DEF CountInv
  <2>4. QED
    BY <2>1, <2>2, <2>3 DEF CountInv
<1>7. CASE Push
  <2>1. /\ UNCHANGED <<ring, r, ack, tail_, dropped_count_, delivered>>
        /\ reader = "push" /\ ~InHand'
    BY <1>7 DEF Push, InHand, Queue!PushBegin, Queue!PushCopy, Queue!PushStore, Queue!consumer
  <2>2. UNCHANGED <<w, engine, Cardinality(Ready)>>
    BY <1>4, <2>1
  <2>3. \/ reader' = "push" /\ head_' = head_
        \/ reader' = "check" /\ head_' = head_ + 1 /\ pushing' = "idle"
    BY <1>7 DEF Push, Queue!PushBegin, Queue!PushCopy, Queue!PushStore
  <2>4. r = 1 + head_ + dropped_count_
    BY <2>1 DEF CountInv
  <2>5. r' = (IF reader' = "push" THEN 1 ELSE 0) + head_' + dropped_count_'
    BY <1>0, <2>1, <2>3, <2>4
  <2>6. reader' = "push" /\ pushing' # "idle" => value' = ack
    BY <1>7 DEF Push, Queue!PushBegin, Queue!PushCopy, Queue!PushStore, CountInv
  <2>7. QED
    BY <2>1, <2>2, <2>3, <2>5, <2>6 DEF CountInv
<1>8. CASE Consumer
  <2>1. UNCHANGED <<ring, reading, head_, pushing, value, dropped_count_>>
    BY <1>8 DEF Consumer, Queue!TryPop, Queue!PopBegin, Queue!PopCopy, Queue!PopStore,
                Queue!producer
  <2>2. UNCHANGED <<w, engine, Cardinality(Ready)>>
    BY <1>4, <2>1
  <2>3. \/ UNCHANGED <<tail_, delivered>>
        \/ tail_' = tail_ + 1 /\ delivered' = Append(delivered, out)
    BY <1>8 DEF Consumer, Queue!TryPop, Queue!PopBegin, Queue!PopCopy, Queue!PopStore
  <2>4. Len(delivered') = tail_'
    BY <1>0, <2>3, QueueTypes DEF CountInv
  <2>5. UNCHANGED <<InHand, NextSlot>>
    BY <2>1 DEF InHand, NextSlot, Index, ring, reading
  <2>6. QED
    BY <2>1, <2>2, <2>4, <2>5 DEF CountInv, reading
<1>9. CASE ConsumerWaits \/ Stop \/ UNCHANGED vars
  <2>1. UNCHANGED <<ring, reading, queue>>
    BY <1>9 DEF ConsumerWaits, Stop, vars
  <2>2. UNCHANGED <<w, engine, Cardinality(Ready), InHand, NextSlot>>
    BY <1>4, <2>1 DEF InHand, NextSlot, Index, ring, reading
  <2>3. QED
    BY <2>1, <2>2 DEF CountInv, reading, queue
<1>10. QED
  BY <1>1, <1>2, <1>3, <1>5, <1>6, <1>7, <1>8, <1>9 DEF Next, Engine, Reader

-----------------------------------------------------------------------------
(* The order, as long as the engine has not lapped the reader.             *)

\* A slot that the reader finds ready is the next to read, and holds its own
\* acknowledgement.
LEMMA ReadyIsNext ==
  ASSUME PathInv, RingInv, NextSlot.is_ready
  PROVE  /\ outbound_ringbuffer_read_p < write_p_outbound
         /\ NextSlot.op = outbound_ringbuffer_read_p
         /\ NextSlot.answer = outbound_ringbuffer_read_p
<1> DEFINE w == write_p_outbound
           r == outbound_ringbuffer_read_p
<1>1. w \in Nat /\ r \in Nat /\ Index(r) \in 0..Size - 1
  BY IndexOf DEF PathInv, PathTypeOK
<1>2. \E c \in r..w - 1 : Index(c) = Index(r)
  BY <1>1 DEF RingInv, NextSlot
<1>3. r \in r..w - 1
  BY <1>1, <1>2
<1>4. QED
  BY <1>1, <1>3 DEF RingInv, NextSlot

\* The numbers between the two pointers have slots of their own.
LEMMA SlotsApart ==
  ASSUME PathTypeOK, RingInv
  PROVE  /\ \A c \in outbound_ringbuffer_read_p..write_p_outbound - 1 :
              /\ c \in Nat /\ Index(c) \in 0..Size - 1
              /\ c # outbound_ringbuffer_read_p => Index(c) # Index(outbound_ringbuffer_read_p)
         /\ write_p_outbound - outbound_ringbuffer_read_p < Size =>
              \A c \in outbound_ringbuffer_read_p..write_p_outbound - 1 :
                Index(c) # Index(write_p_outbound)
<1> DEFINE w == write_p_outbound
           r == outbound_ringbuffer_read_p
<1>1. w \in Nat /\ r \in Nat /\ Size \in Nat /\ w - r <= Size
  BY IndexOf DEF PathTypeOK, RingInv
<1>2. ASSUME NEW c \in r..w - 1
      PROVE  /\ c \in Nat /\ Index(c) \in 0..Size - 1
             /\ c # r => Index(c) # Index(r)
             /\ w - r < Size => Index(c) # Index(w)
  <2>1. c \in Nat /\ c - r < Size /\ r - c < Size /\ c # w /\ c - w < Size
    BY <1>1
  <2>2. Index(c) \in 0..Size - 1
    BY <2>1, IndexOf
  <2>3. c # r => Index(c) # Index(r)
    BY <1>1, <2>1, IndexOf
  <2>4. w - r < Size => w - c < Size
    BY <1>1
  <2>5. w - r < Size => Index(c) # Index(w)
    BY <1>1, <2>1, <2>4, IndexOf
  <2>6. QED
    BY <2>1, <2>2, <2>3, <2>5
<1>3. QED
  BY <1>2

\* The ring keeps the acknowledgements that are published and not released.
LEMMA RingGoesOn ==
  ASSUME PathInv, [Next]_vars, RingInv, ~lapped'
  PROVE  RingInv'
<1> DEFINE w == write_p_outbound
           r == outbound_ringbuffer_read_p
<1>0. /\ PathTypeOK /\ CountInv
      /\ w \in Nat /\ r \in Nat /\ Size \in Nat
      /\ Index(w) \in 0..Size - 1
      /\ IsFiniteSet(Ready) /\ Cardinality(Ready) \in Nat
  BY IndexOf, ReadyFinite DEF PathInv, PathTypeOK
<1>1. CASE Stamp \/ Answer
  <2>1. /\ Ready' = Ready
        /\ \A i \in 0..Size - 1 : slot'[i].is_ready = slot[i].is_ready
        /\ \A i \in 0..Size - 1 : i # Index(w) => slot'[i] = slot[i]
    BY <1>0, <1>1, WritingKeepsReady
  <2>2. UNCHANGED <<w, r>>
    BY <1>1 DEF Stamp, Answer, reading
  <2>3. w - r < Size
    BY <1>0, <1>1 DEF Stamp, Answer, KeptUp, RingInv
  <2>4. \A c \in r..w - 1 : Index(c) # Index(w) /\ Index(c) \in 0..Size - 1
    BY <1>0, <2>3, SlotsApart
  <2>5. \A c \in r..w - 1 : slot'[Index(c)].op = c /\ slot'[Index(c)].answer = c
    BY <2>1, <2>4 DEF RingInv
  <2>6. slot'[Index(w)].op = w
    BY <1>0, <1>1, WritingKeepsReady DEF RingInv, Answer
  <2>7. engine' = "publish" => slot'[Index(w)].answer = w
    BY <1>0, <1>1, WritingKeepsReady DEF Stamp
  <2>8. \A i \in 0..Size - 1 : slot'[i].is_ready <=> \E c \in r..w - 1 : Index(c) = i
    BY <2>1 DEF RingInv
  <2>9. QED
    BY <2>1, <2>2, <2>3, <2>5, <2>6, <2>7, <2>8 DEF RingInv, Index
<1>2. CASE Publish
  <2>1. /\ Ready' = Ready \cup {Index(w)}
        /\ w' = w + 1 /\ r' = r /\ engine = "publish" /\ engine' = "stamp"
        /\ slot'[Index(w)].is_ready
        /\ slot'[Index(w)].op = slot[Index(w)].op
        /\ slot'[Index(w)].answer = slot[Index(w)].answer
        /\ \A i \in 0..Size - 1 : i # Index(w) => slot'[i] = slot[i]
    BY <1>0, <1>2, PublishMarks DEF Publish, reading
  <2>2. w - r < Size /\ w' - 1 = w /\ r <= w
    <3>1. w - r < Size
      BY <2>1 DEF RingInv
    <3>2. r <= w
      BY <1>0 DEF CountInv
    <3>3. w' - 1 = w
      BY <1>0, <2>1
    <3>4. QED
      BY <3>1, <3>2, <3>3
  <2>3. \A c \in r..w - 1 : Index(c) # Index(w) /\ Index(c) \in 0..Size - 1
    BY <1>0, <2>2, SlotsApart
  <2>4. ASSUME NEW c \in r..w
        PROVE  slot'[Index(c)].op = c /\ slot'[Index(c)].answer = c
    <3>1. CASE c = w
      BY <2>1, <3>1 DEF RingInv
    <3>2. CASE c # w
      <4>1. c \in r..w - 1
        BY <1>0, <3>2
      <4>2. QED
        BY <2>1, <2>3, <4>1 DEF RingInv
    <3>3. QED
      BY <3>1, <3>2
  <2>5. ASSUME NEW i \in 0..Size - 1
        PROVE  slot'[i].is_ready <=> \E c \in r..w : Index(c) = i
    <3>1. CASE i = Index(w)
      <4>1. w \in r..w
        BY <1>0, <2>2
      <4>2. QED
        BY <2>1, <3>1, <4>1
    <3>2. CASE i # Index(w)
      <4>1. slot'[i].is_ready <=> \E c \in r..w - 1 : Index(c) = i
        BY <2>1, <3>2 DEF RingInv
      <4>2. \A c \in r..w : Index(c) = i => c \in r..w - 1
        BY <1>0, <3>2
      <4>3. \A c \in r..w - 1 : c \in r..w
        BY <1>0
      <4>4. QED
        BY <4>1, <4>2, <4>3
    <3>3. QED
      BY <3>1, <3>2
  <2>6. Cardinality(Ready') = w' - r'
    <3>1. Index(w) \notin Ready
      BY <1>0, <2>3 DEF Ready, RingInv
    <3>2. Cardinality(Ready') = Cardinality(Ready) + 1
      BY <1>0, <2>1, <3>1, FS_AddElement
    <3>3. QED
      BY <1>0, <2>1, <3>2 DEF RingInv
  <2>7. w' - r' <= Size
    BY <1>0, <2>1, <2>2
  <2>8. QED
    BY <2>1, <2>2, <2>4, <2>5, <2>6, <2>7 DEF RingInv, Index
<1>3. CASE Release
  <2>1. /\ Ready' = Ready \ {Index(r)}
        /\ w' = w /\ r' = r + 1 /\ UNCHANGED <<engine, Index(w)>> /\ reader = "release"
        /\ Index(r) \in 0..Size - 1
        /\ ~slot'[Index(r)].is_ready
        /\ \A i \in 0..Size - 1 :
             /\ slot'[i].op = slot[i].op /\ slot'[i].answer = slot[i].answer
             /\ i # Index(r) => slot'[i] = slot[i]
    BY <1>0, <1>3, ReleaseUnmarks DEF Release, Index
  <2>2. NextSlot.is_ready
    BY <1>0, <2>1 DEF CountInv, InHand
  <2>3. r < w
    BY <2>2, ReadyIsNext
  <2>4. \A c \in r..w - 1 : /\ Index(c) \in 0..Size - 1
                            /\ c # r => Index(c) # Index(r)
    BY <1>0, SlotsApart
  <2>5. \A c \in r + 1..w - 1 : c \in r..w - 1 /\ c # r
    BY <1>0
  <2>6. \A c \in r + 1..w - 1 : slot'[Index(c)].op = c /\ slot'[Index(c)].answer = c
    BY <2>1, <2>4, <2>5 DEF RingInv
  <2>7. ASSUME NEW i \in 0..Size - 1
        PROVE  slot'[i].is_ready <=> \E c \in r + 1..w - 1 : Index(c) = i
    <3>1. CASE i = Index(r)
      BY <2>1, <2>4, <2>5, <3>1
    <3>2. CASE i # Index(r)
      <4>1. slot'[i].is_ready <=> \E c \in r..w - 1 : Index(c) = i
        BY <2>1, <3>2 DEF RingInv
      <4>2. \A c \in r..w - 1 : Index(c) = i => c \in r + 1..w - 1
        BY <1>0, <3>2
      <4>3. QED
        BY <2>5, <4>1, <4>2
    <3>3. QED
      BY <3>1, <3>2
  <2>8. Cardinality(Ready') = w' - r'
    <3>1. Index(r) \in Ready
      BY <2>1, <2>2 DEF Ready, NextSlot
    <3>2. Cardinality(Ready') = Cardinality(Ready) - 1
      BY <1>0, <2>1, <3>1, FS_RemoveElement
    <3>3. QED
      BY <1>0, <2>1, <3>2 DEF RingInv
  <2>9. /\ w' - r' <= Size
        /\ engine # "stamp" => w' - r' < Size
    BY <1>0, <2>1 DEF RingInv
  <2>10. /\ engine # "stamp" => slot'[Index(w)].op = w
         /\ engine = "publish" => slot'[Index(w)].answer = w
    BY <1>0, <2>1 DEF RingInv
  <2>11. QED
    BY <2>1, <2>6, <2>7, <2>8, <2>9, <2>10 DEF RingInv, Index
<1>4. ASSUME UNCHANGED <<ring, r>>
      PROVE  RingInv'
  BY <1>4 DEF ring, RingInv, Ready, Index
<1>5. CASE CheckStop \/ PollAgain \/ Poll \/ CopyAnswer \/ CopyOp \/ Drop \/ Push
  BY <1>4, <1>5 DEF CheckStop, PollAgain, Poll, CopyAnswer, CopyOp, Drop, Push
<1>6. CASE Consumer \/ ConsumerWaits \/ Stop \/ UNCHANGED vars
  BY <1>4, <1>6 DEF Consumer, ConsumerWaits, Stop, vars, reading
<1>7. QED
  BY <1>1, <1>2, <1>3, <1>5, <1>6 DEF Next, Engine, Reader

\* What the reader copies belongs to one acknowledgement, the one it releases.
LEMMA HandGoesOn ==
  ASSUME PathInv, [Next]_vars, RingInv, HandInv
  PROVE  HandInv'
<1> DEFINE r == outbound_ringbuffer_read_p
<1>0. r \in Nat /\ ack \in [op : Ops, answer : Ops]
  BY DEF PathInv, PathTypeOK, AckValues, Ops
<1>1. ASSUME UNCHANGED reading
      PROVE  HandInv'
  BY <1>1 DEF HandInv, reading
<1>2. CASE CopyAnswer
  <2>1. NextSlot.is_ready
    BY <1>2 DEF CopyAnswer, PathInv, CountInv, InHand
  <2>2. NextSlot.answer = r
    BY <2>1, ReadyIsNext
  <2>3. reader' = "op" /\ r' = r /\ ack'.answer = r
    BY <1>0, <1>2, <2>2 DEF CopyAnswer
  <2>4. QED
    BY <2>3 DEF HandInv
<1>3. CASE CopyOp
  <2>1. NextSlot.is_ready
    BY <1>3 DEF CopyOp, PathInv, CountInv, InHand
  <2>2. NextSlot.op = r
    BY <2>1, ReadyIsNext
  <2>3. reader' = "release" /\ r' = r /\ ack'.op = r /\ ack'.answer = ack.answer
    BY <1>0, <1>3, <2>2 DEF CopyOp
  <2>4. ack.answer = r
    BY <1>3 DEF CopyOp, HandInv
  <2>5. QED
    BY <2>3, <2>4 DEF HandInv
<1>4. CASE Release
  <2>1. reader = "release" /\ reader' = "push" /\ r' = r + 1 /\ ack' = ack
    BY <1>4 DEF Release
  <2>2. r' - 1 = r
    BY <1>0, <2>1
  <2>3. QED
    BY <2>1, <2>2 DEF HandInv
<1>5. CASE CheckStop \/ PollAgain \/ Poll \/ Drop \/ Push
  BY <1>5 DEF CheckStop, PollAgain, Poll, Drop, Push, HandInv
<1>6. CASE Engine \/ Consumer \/ ConsumerWaits \/ Stop \/ UNCHANGED vars
  BY <1>1, <1>6 DEF Engine, Stamp, Answer, Publish, Consumer, ConsumerWaits, Stop, vars
<1>7. QED
  BY <1>2, <1>3, <1>4, <1>5, <1>6 DEF Next, Reader

\* What was pushed stays as it is, popped or not.
LEMMA PushedStays ==
  ASSUME PathInv, [Next]_vars
  PROVE  \A c \in 0..head_ - 1 : AckAt(c)' = AckAt(c)
<1>0. /\ head_ \in Nat /\ tail_ \in Nat /\ tail_ <= head_ /\ Capacity \in Nat
      /\ delivered \in Seq(Q!Cells) /\ Len(delivered) = tail_
      /\ buffer_ \in [0..Capacity - 1 -> Q!Cells]
      /\ out \in Q!Cells
  BY QueueTypes, SizesAssumption DEF PathInv, CountInv, Q!QueueInv, Q!TypeOK
<1>1. ASSUME UNCHANGED <<tail_, delivered, buffer_>>
      PROVE  \A c \in 0..head_ - 1 : AckAt(c)' = AckAt(c)
  BY <1>1 DEF AckAt, Queue!Cell
<1>2. CASE Push
  <2>1. CASE Queue!PushCopy
    <3>1. /\ UNCHANGED <<tail_, delivered, head_>> /\ pushing = "copy"
          /\ buffer_' = [buffer_ EXCEPT ![Queue!Cell(head_)] = value]
      BY <2>1 DEF Queue!PushCopy, Queue!consumer
    <3>2. ASSUME NEW c \in 0..head_ - 1, ~(c < tail_)
          PROVE  buffer_'[Queue!Cell(c)] = buffer_[Queue!Cell(c)]
      <4>1. c \in Nat /\ tail_ <= c /\ c < head_ /\ head_ < tail_ + Capacity
        BY <1>0, <3>1, <3>2, QueueTypes DEF PathInv
      <4>2. Q!TypeOK
        BY DEF PathInv, Q!QueueInv
      <4>3. Q!Cell(c) # Q!Cell(head_)
        BY <4>1, <4>2, Q!FreeCell, AcksAssumption, SizesAssumption
      <4>4. QED
        BY <1>0, <3>1, <4>3 DEF Q!Cell, Queue!Cell
    <3>3. QED
      BY <3>1, <3>2 DEF AckAt, Queue!Cell
  <2>2. CASE ~Queue!PushCopy
    <3>1. UNCHANGED <<tail_, delivered, buffer_>>
      BY <1>2, <2>2 DEF Push, Queue!PushBegin, Queue!PushStore, Queue!consumer
    <3>2. QED
      BY <1>1, <3>1
  <2>3. QED
    BY <2>1, <2>2
<1>3. CASE Consumer
  <2>1. CASE Queue!PopStore
    <3>1. /\ UNCHANGED <<head_, buffer_>> /\ popping = "store"
          /\ tail_' = tail_ + 1 /\ delivered' = Append(delivered, out)
      BY <2>1 DEF Queue!PopStore, Queue!producer
    <3>2. out = buffer_[Queue!Cell(tail_)]
      BY <3>1, QueueTypes DEF PathInv
    <3>3. /\ delivered'[tail_ + 1] = out
          /\ \A c \in 0..tail_ - 1 : delivered'[c + 1] = delivered[c + 1]
      BY <1>0, <3>1
    <3>4. ASSUME NEW c \in 0..head_ - 1
          PROVE  AckAt(c)' = AckAt(c)
      <4>1. CASE c < tail_
        <5>1. c < tail_' /\ c \in 0..tail_ - 1
          BY <1>0, <3>1, <4>1
        <5>2. QED
          BY <3>3, <4>1, <5>1 DEF AckAt
      <4>2. CASE c = tail_
        <5>1. c < tail_' /\ ~(c < tail_)
          BY <1>0, <3>1, <4>2
        <5>2. QED
          BY <3>2, <3>3, <4>2, <5>1 DEF AckAt
      <4>3. CASE tail_ < c
        <5>1. ~(c < tail_') /\ ~(c < tail_)
          BY <1>0, <3>1, <4>3
        <5>2. QED
          BY <3>1, <5>1 DEF AckAt, Queue!Cell
      <4>4. QED
        BY <1>0, <4>1, <4>2, <4>3
    <3>5. QED
      BY <3>4
  <2>2. CASE ~Queue!PopStore
    <3>1. UNCHANGED <<tail_, delivered, buffer_>>
      BY <1>3, <2>2 DEF Consumer, Queue!TryPop, Queue!PopBegin, Queue!PopCopy, Queue!producer
    <3>2. QED
      BY <1>1, <3>1
  <2>3. QED
    BY <2>1, <2>2
<1>4. CASE Drop
  BY <1>1, <1>4 DEF Drop, Queue!PushFull, Queue!consumer
<1>5. CASE Engine \/ Stop \/ ConsumerWaits \/ UNCHANGED vars
  BY <1>1, <1>5 DEF Engine, Stamp, Answer, Publish, Stop, ConsumerWaits, vars, queue
<1>6. CASE CheckStop \/ PollAgain \/ Poll \/ CopyAnswer \/ CopyOp \/ Release
  BY <1>1, <1>6 DEF CheckStop, PollAgain, Poll, CopyAnswer, CopyOp, Release, queue
<1>7. QED
  BY <1>2, <1>3, <1>4, <1>5, <1>6 DEF Next, Reader

\* Every push adds an acknowledgement that is whole and newer than the others.
LEMMA OrderGoesOn ==
  ASSUME PathInv, [Next]_vars, RingInv, HandInv, OrderInv
  PROVE  OrderInv'
<1> DEFINE r == outbound_ringbuffer_read_p
           b == r - (IF reader = "push" THEN 1 ELSE 0)
<1>0. /\ head_ \in Nat /\ tail_ \in Nat /\ tail_ <= head_ /\ r \in Nat
      /\ \A c \in 0..head_ - 1 : AckAt(c)' = AckAt(c)
  BY QueueTypes, PushedStays DEF PathInv, PathTypeOK
<1>1. ASSUME head_' = head_, b' >= b, b \in Int, b' \in Int
      PROVE  OrderInv'
  <2>1. \A c \in 0..head_ - 1 :
          AckAt(c)'.op \in Nat /\ AckAt(c)'.op = AckAt(c)'.answer /\ AckAt(c)'.op < b
    BY <1>0 DEF OrderInv
  <2>2. \A c \in 0..head_ - 1 : AckAt(c)'.op < b'
    BY <1>1, <2>1
  <2>3. \A c, d \in 0..head_ - 1 : c < d => AckAt(c)'.op < AckAt(d)'.op
    BY <1>0 DEF OrderInv
  <2>4. QED
    BY <1>1, <2>1, <2>2, <2>3 DEF OrderInv
<1>2. CASE Push /\ Queue!PushStore
  <2>1. /\ head_' = head_ + 1 /\ UNCHANGED <<r, tail_, buffer_>> /\ pushing = "store"
        /\ reader = "push" /\ reader' = "check"
    <3>1. pushing = "store" /\ head_' = head_ + 1 /\ UNCHANGED <<r, tail_, buffer_>>
      BY <1>2 DEF Push, Queue!PushStore, Queue!consumer
    <3>2. reader = "push" /\ reader' = "check"
      BY <1>2, <3>1 DEF Push, Queue!PushStore, Queue!PushBegin, Queue!PushCopy
    <3>3. QED
      BY <3>1, <3>2
  <2>2. ASSUME NEW c, c = head_
        PROVE  AckAt(c)' = ack
    <3>1. ~(c < tail_) /\ ~(c < tail_')
      BY <1>0, <2>1, <2>2
    <3>2. buffer_[Queue!Cell(c)] = ack
      BY <2>1, <2>2, QueueTypes DEF PathInv, CountInv
    <3>3. QED
      BY <2>1, <3>1, <3>2 DEF AckAt, Queue!Cell
  <2>3. ack.op = r - 1 /\ ack.answer = r - 1
    BY <2>1 DEF HandInv
  <2>4. r - 1 \in Nat
    BY <1>0, <2>1, QueueTypes DEF PathInv, CountInv
  <2>5. \A c \in 0..head_ - 1 :
          /\ AckAt(c)'.op \in Nat /\ AckAt(c)'.op = AckAt(c)'.answer
          /\ AckAt(c)'.op < r - 1
    BY <1>0, <2>1 DEF OrderInv
  <2>6. \A c \in 0..head_' - 1 : c = head_ \/ c \in 0..head_ - 1
    BY <1>0, <2>1
  <2>7. ASSUME NEW c \in 0..head_' - 1
        PROVE  /\ AckAt(c)'.op \in Nat /\ AckAt(c)'.op = AckAt(c)'.answer
               /\ AckAt(c)'.op < r
    <3>1. CASE c = head_
      <4>1. AckAt(c)' = ack
        BY <2>2, <3>1
      <4>2. QED
        BY <1>0, <2>3, <2>4, <4>1
    <3>2. CASE c \in 0..head_ - 1
      <4>1. AckAt(c)'.op < r - 1 /\ AckAt(c)'.op \in Nat /\ AckAt(c)'.op = AckAt(c)'.answer
        BY <2>5, <3>2
      <4>2. QED
        BY <1>0, <4>1
    <3>3. QED
      BY <2>6, <3>1, <3>2
  <2>8. ASSUME NEW c \in 0..head_' - 1, NEW d \in 0..head_' - 1, c < d
        PROVE  AckAt(c)'.op < AckAt(d)'.op
    <3>1. c \in 0..head_ - 1
      BY <1>0, <2>1, <2>8
    <3>2. CASE d = head_
      <4>1. AckAt(d)' = ack /\ AckAt(c)'.op < r - 1
        BY <2>2, <2>5, <3>1, <3>2
      <4>2. QED
        BY <2>3, <4>1
    <3>3. CASE d \in 0..head_ - 1
      BY <1>0, <2>8, <3>1, <3>3 DEF OrderInv
    <3>4. QED
      BY <2>6, <3>2, <3>3
  <2>9. r' - (IF reader' = "push" THEN 1 ELSE 0) = r
    BY <1>0, <2>1
  <2>10. QED
    BY <2>7, <2>8, <2>9 DEF OrderInv
<1>3. CASE Release
  <2>1. reader = "release" /\ reader' = "push" /\ r' = r + 1 /\ head_' = head_
    BY <1>3 DEF Release, queue
  <2>2. QED
    BY <1>0, <1>1, <2>1
<1>4. CASE CheckStop \/ PollAgain \/ Poll \/ CopyAnswer \/ CopyOp
  <2>1. reader # "push" /\ reader' # "push" /\ r' = r /\ head_' = head_
    BY <1>4 DEF CheckStop, PollAgain, Poll, CopyAnswer, CopyOp, queue
  <2>2. QED
    BY <1>0, <1>1, <2>1
<1>5. CASE Drop
  <2>1. reader = "push" /\ reader' = "check" /\ r' = r /\ head_' = head_
    BY <1>5 DEF Drop, Queue!PushFull
  <2>2. QED
    BY <1>0, <1>1, <2>1
<1>6. CASE Push /\ ~Queue!PushStore
  <2>1. reader' = reader /\ r' = r /\ head_' = head_
    BY <1>6 DEF Push, Queue!PushBegin, Queue!PushCopy
  <2>2. QED
    BY <1>0, <1>1, <2>1
<1>7. CASE Engine \/ Consumer \/ Stop \/ ConsumerWaits \/ UNCHANGED vars
  <2>1. reader' = reader /\ r' = r /\ head_' = head_
    BY <1>7 DEF Engine, Stamp, Answer, Publish, Stop, ConsumerWaits, vars, queue, reading,
                Consumer, Queue!TryPop, Queue!PopBegin, Queue!PopCopy, Queue!PopStore,
                Queue!producer
  <2>2. QED
    BY <1>0, <1>1, <2>1
<1>8. QED
  BY <1>2, <1>3, <1>4, <1>5, <1>6, <1>7 DEF Next, Reader

-----------------------------------------------------------------------------
(* The theorems.                                                           *)

\* The invariant holds at first.
LEMMA PathInit == Init => PathInv
<1> SUFFICES ASSUME Init
             PROVE  PathInv
  OBVIOUS
<1>1. Q!QueueInv
  BY Q!InitQueue, AcksAssumption, SizesAssumption DEF Init, Queue!Init, Q!Init
<1>2. PathTypeOK
  BY DEF Init, PathTypeOK, BlankAck, AckValues, Ops
<1>3. Ready = {} /\ Cardinality(Ready) = 0
  <2>1. \A i \in 0..Size - 1 : ~slot[i].is_ready
    BY DEF Init
  <2>2. Ready = {}
    BY <2>1 DEF Ready
  <2>3. QED
    BY <2>2, FS_EmptySet
<1>4. head_ = 0 /\ tail_ = 0 /\ delivered = <<>> /\ pushing = "idle" /\ dropped_count_ = 0
  BY DEF Init, Queue!Init
<1>5. CountInv
  BY <1>3, <1>4, AcksAssumption DEF Init, CountInv, InHand
<1>6. RingInv
  <2>1. 0..0 - 1 = {}
    OBVIOUS
  <2>2. \A i \in 0..Size - 1 : ~slot[i].is_ready
    BY DEF Init
  <2>3. QED
    BY <1>3, <2>1, <2>2, SizesAssumption DEF Init, RingInv
<1>7. HandInv /\ OrderInv
  BY <1>4 DEF Init, HandInv, OrderInv
<1>8. QED
  BY <1>1, <1>2, <1>5, <1>6, <1>7 DEF PathInv, UnlappedInv

\* The history of lapping forgets nothing.
LEMMA OnceLapped ==
  ASSUME PathTypeOK, [Next]_vars, ~lapped'
  PROVE  ~lapped
BY DEF Next, Engine, Reader, Stamp, Answer, Publish, CheckStop, PollAgain, Poll, CopyAnswer,
       CopyOp, Release, Drop, Push, Consumer, ConsumerWaits, Stop, vars, ring

\* The invariant holds in every state of the three threads.
THEOREM PathInvHolds == Spec => []PathInv
<1>1. PathInv /\ [Next]_vars => PathInv'
  <2> SUFFICES ASSUME PathInv, [Next]_vars
               PROVE  PathInv'
    OBVIOUS
  <2>1. PathTypeOK' /\ Q!QueueInv' /\ CountInv'
    BY TypeGoesOn, QueueGoesOn, CountGoesOn
  <2>2. ASSUME ~lapped'
        PROVE  RingInv' /\ HandInv' /\ OrderInv'
    <3>1. RingInv /\ HandInv /\ OrderInv
      BY <2>2, OnceLapped DEF PathInv, UnlappedInv
    <3>2. QED
      BY <2>2, <3>1, RingGoesOn, HandGoesOn, OrderGoesOn
  <2>3. QED
    BY <2>1, <2>2 DEF PathInv, UnlappedInv
<1>2. QED
  BY PathInit, <1>1, PTL DEF Spec

\* The reader releases no acknowledgement that the engine has not published, also
\* when the engine runs ahead of it by laps (read_from_ring_buffer trusts is_ready
\* alone).
THEOREM NeverTakesTooMuch == Spec => []NeverAhead
<1>1. PathInv => NeverAhead
  BY ReadyFinite DEF PathInv, PathTypeOK, CountInv, NeverAhead
<1>2. QED
  BY PathInvHolds, <1>1, PTL

\* Unless the engine has lapped the reader, what the consumer pops are whole
\* acknowledgements, one order after the other, none twice.
THEOREM PopsInOrder == Spec => []AcksInOrder
<1>1. PathInv => AcksInOrder
  <2> SUFFICES ASSUME PathInv, ~lapped
               PROVE  AcksInOrder
    BY DEF AcksInOrder
  <2>1. /\ OrderInv /\ tail_ \in Nat /\ head_ \in Nat /\ tail_ <= head_
        /\ DOMAIN delivered = 1..tail_
    BY QueueTypes DEF PathInv, UnlappedInv, CountInv
  <2>2. ASSUME NEW i \in DOMAIN delivered
        PROVE  i - 1 \in 0..head_ - 1 /\ delivered[i] = AckAt(i - 1)
    <3>1. i - 1 \in 0..head_ - 1 /\ i - 1 < tail_ /\ (i - 1) + 1 = i
      BY <2>1
    <3>2. QED
      BY <3>1 DEF AckAt
  <2>3. \A i \in DOMAIN delivered :
          delivered[i].op \in Nat /\ delivered[i].op = delivered[i].answer
    BY <2>1, <2>2 DEF OrderInv
  <2>4. ASSUME NEW i \in DOMAIN delivered, NEW j \in DOMAIN delivered, i < j
        PROVE  delivered[i].op < delivered[j].op
    <3>1. i - 1 < j - 1
      BY <2>1, <2>4
    <3>2. QED
      BY <2>1, <2>2, <3>1 DEF OrderInv
  <2>5. QED
    BY <2>3, <2>4 DEF AcksInOrder
<1>2. QED
  BY PathInvHolds, <1>1, PTL

\* Unless the engine has lapped the reader, every published acknowledgement is in
\* the ring, in the reader's hands, pushed, or counted in dropped_count_.
THEOREM AcksAreCounted == Spec => []NoneUncounted
<1>1. PathInv => NoneUncounted
  <2> SUFFICES ASSUME PathInv, ~lapped
               PROVE  NoneUncounted
    BY DEF NoneUncounted
  <2>1. /\ write_p_outbound \in Nat /\ outbound_ringbuffer_read_p \in Nat
        /\ head_ \in Nat /\ dropped_count_ \in Nat
        /\ Cardinality(Ready) = write_p_outbound - outbound_ringbuffer_read_p
        /\ outbound_ringbuffer_read_p
             = (IF reader = "push" THEN 1 ELSE 0) + head_ + dropped_count_
    BY QueueTypes DEF PathInv, PathTypeOK, UnlappedInv, RingInv, CountInv
  <2>2. write_p_outbound
          = Cardinality(Ready) + (IF reader = "push" THEN 1 ELSE 0) + head_ + dropped_count_
    BY <2>1
  <2>3. QED
    BY <2>2 DEF NoneUncounted, Ready
<1>2. QED
  BY PathInvHolds, <1>1, PTL
=============================================================================
