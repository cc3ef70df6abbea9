------------------------------ MODULE AckPath ------------------------------
(***************************************************************************)
(* The way of the acknowledgements of one gateway: the engine writes them  *)
(* to RingBuffer_outbound (matching_engine.cpp, ring_buffer.cpp), the      *)
(* thread of a GatewayReader takes them with read_from_ring_buffer         *)
(* (gateway.cpp) and pushes them into an SpscQueue (gateway_reader.cpp),   *)
(* from which a consumer pops them.  A step is one access to what the      *)
(* threads share.                                                          *)
(*                                                                         *)
(* The n-th acknowledgement is [op |-> n, answer |-> n]: the op is stamped *)
(* before the order is processed, the answer (order_id, fulfilled,         *)
(* remaining_qty, fills) is written after, and the reader copies them in   *)
(* the opposite order.                                                     *)
(***************************************************************************)
EXTENDS Integers, Sequences, FiniteSets

CONSTANTS Size,      \* the number of slots of the outbound ring
          Capacity,  \* the capacity of the queue
          Acks,      \* how many acknowledgements the engine writes
          NoAck      \* what a field holds before it is first written

ASSUME SizesAssumption == Size \in Nat \ {0} /\ Capacity \in Nat \ {0}
ASSUME AcksAssumption  == Acks \in Nat /\ NoAck \notin Nat

VARIABLES slot,                       \* buffer: [op, answer, is_ready] for every index
          write_p_outbound,           \* the engine's place in the ring
          engine,                     \* where the engine stands in its loop
          lapped,                     \* history: has the engine written a slot before its release?
          outbound_ringbuffer_read_p, \* the gateway's place in the ring
          reader,                     \* where the reader thread stands in its loop
          ack,                        \* its Ack
          stop_,                      \* the destructor has asked it to stop
          dropped_count_,             \* how many it could not push
          head_, tail_, buffer_, pushing, value, popping, out, delivered  \* the queue

AckValues == [op : 0..Acks - 1 \cup {NoAck}, answer : 0..Acks - 1 \cup {NoAck}]
BlankAck  == [op |-> NoAck, answer |-> NoAck]

Queue == INSTANCE SpscQueue WITH
  Values <- AckValues, Blank <- BlankAck, MaxPushes <- Acks, refused <- dropped_count_

ring     == <<slot, write_p_outbound, engine, lapped>>
reading  == <<outbound_ringbuffer_read_p, reader, ack>>
queue    == <<head_, tail_, buffer_, pushing, value, popping, out, dropped_count_, delivered>>
vars == <<ring, reading, stop_, queue>>

\* Mutants, named *_M, are what a slip of the pen would make of the definition
\* that follows them; the specification uses none of them.

Index(c) == c % Size                   \* write_p & mask, for a power of two

Init ==
  /\ slot = [i \in 0..Size - 1 |-> [op |-> NoAck, answer |-> NoAck, is_ready |-> FALSE]]
  /\ write_p_outbound = 0
  /\ engine = "stamp"
  /\ outbound_ringbuffer_read_p = 0
  /\ reader = "check"
  /\ ack = BlankAck
  /\ lapped = FALSE
  /\ stop_ = FALSE
  /\ Queue!Init

-----------------------------------------------------------------------------
(* The engine: it looks at no is_ready of this ring.                       *)

\* The acknowledgement that the next slot held is released.  The code relies on
\* buffers that are large enough for that, and does nothing to ensure it.
KeptUp == write_p_outbound - outbound_ringbuffer_read_p < Size

\* The slot is still marked ready from the op on.
Stamp_M ==
  /\ engine = "stamp"
  /\ write_p_outbound < Acks
  /\ slot' = [slot EXCEPT ![Index(write_p_outbound)].op = write_p_outbound,
                          ![Index(write_p_outbound)].is_ready = TRUE]
  /\ engine' = "answer"
  /\ lapped' = (lapped \/ ~KeptUp)
  /\ UNCHANGED <<write_p_outbound, reading, stop_, queue>>

Stamp ==
  /\ engine = "stamp"
  /\ write_p_outbound < Acks
  /\ slot' = [slot EXCEPT ![Index(write_p_outbound)].op = write_p_outbound]
  /\ engine' = "answer"
  /\ lapped' = (lapped \/ ~KeptUp)
  /\ UNCHANGED <<write_p_outbound, reading, stop_, queue>>

Answer ==
  /\ engine = "answer"
  /\ slot' = [slot EXCEPT ![Index(write_p_outbound)].answer = write_p_outbound]
  /\ engine' = "publish"
  /\ UNCHANGED <<write_p_outbound, lapped, reading, stop_, queue>>

Publish ==
  /\ engine = "publish"
  /\ slot' = [slot EXCEPT ![Index(write_p_outbound)].is_ready = TRUE]
  /\ write_p_outbound' = write_p_outbound + 1
  /\ engine' = "stamp"
  /\ UNCHANGED <<lapped, reading, stop_, queue>>

-----------------------------------------------------------------------------
(* GatewayReader::run                                                      *)

NextSlot == slot[Index(outbound_ringbuffer_read_p)]

CheckStop ==
  /\ reader = "check"
  /\ reader' = IF stop_ THEN "done" ELSE "poll"
  /\ UNCHANGED <<ring, outbound_ringbuffer_read_p, ack, stop_, queue>>

\* The reader waits for an acknowledgement, whether or not it is to stop.
PollAgain_M ==
  /\ reader = "poll"
  /\ ~NextSlot.is_ready
  /\ UNCHANGED vars

\* read_from_ring_buffer returns false.
PollAgain ==
  /\ reader = "poll"
  /\ ~NextSlot.is_ready
  /\ reader' = "check"
  /\ UNCHANGED <<ring, outbound_ringbuffer_read_p, ack, stop_, queue>>

\* The slot is read whether or not it is ready.
Poll_M ==
  /\ reader = "poll"
  /\ reader' = "answer"
  /\ UNCHANGED <<ring, outbound_ringbuffer_read_p, ack, stop_, queue>>

Poll ==
  /\ reader = "poll"
  /\ NextSlot.is_ready
  /\ reader' = "answer"
  /\ UNCHANGED <<ring, outbound_ringbuffer_read_p, ack, stop_, queue>>

CopyAnswer ==
  /\ reader = "answer"
  /\ ack' = [ack EXCEPT !.answer = NextSlot.answer]
  /\ reader' = "op"
  /\ UNCHANGED <<ring, outbound_ringbuffer_read_p, stop_, queue>>

CopyOp ==
  /\ reader = "op"
  /\ ack' = [ack EXCEPT !.op = NextSlot.op]
  /\ reader' = "release"
  /\ UNCHANGED <<ring, outbound_ringbuffer_read_p, stop_, queue>>

Release ==
  /\ reader = "release"
  /\ slot' = [slot EXCEPT ![Index(outbound_ringbuffer_read_p)].is_ready = FALSE]
  /\ outbound_ringbuffer_read_p' = outbound_ringbuffer_read_p + 1
  /\ reader' = "push"
  /\ UNCHANGED <<write_p_outbound, engine, lapped, ack, stop_, queue>>

\* What cannot be pushed is not counted.
Drop_M ==
  /\ reader = "push"
  /\ pushing = "idle"
  /\ Queue!Full
  /\ reader' = "check"
  /\ UNCHANGED <<ring, outbound_ringbuffer_read_p, ack, stop_, queue>>

Drop ==
  /\ reader = "push"
  /\ Queue!PushFull
  /\ reader' = "check"
  /\ UNCHANGED <<ring, outbound_ringbuffer_read_p, ack, stop_>>

Push ==
  /\ reader = "push"
  /\ \/ (Queue!PushBegin(ack) \/ Queue!PushCopy) /\ reader' = reader
     \/ Queue!PushStore /\ reader' = "check"
  /\ UNCHANGED <<ring, outbound_ringbuffer_read_p, ack, stop_>>

\* ~GatewayReader, which then joins the thread.
Stop ==
  /\ ~stop_
  /\ stop_' = TRUE
  /\ UNCHANGED <<ring, reading, queue>>

-----------------------------------------------------------------------------

Engine == Stamp \/ Answer \/ Publish
Reader == \/ CheckStop \/ PollAgain \/ Poll \/ CopyAnswer \/ CopyOp
          \/ Release \/ Drop \/ Push
Consumer == Queue!TryPop /\ UNCHANGED <<ring, reading, stop_>>
ConsumerWaits == Queue!PopEmpty /\ UNCHANGED vars

Next == Engine \/ Reader \/ Consumer \/ ConsumerWaits \/ Stop

Spec == Init /\ [][Next]_vars

\* Every thread runs.  Nobody has to stop the reader.
FairSpec == Spec /\ WF_vars(Engine) /\ WF_vars(Reader) /\ WF_vars(Consumer)

-----------------------------------------------------------------------------

\* The consumer pops acknowledgements whole, in the order of their orders, and
\* none twice: gaps, from drops, are all it may see, as long as the engine has not
\* lapped the reader.
AcksInOrder == lapped \/
  /\ \A i \in DOMAIN delivered : delivered[i].op \in Nat /\ delivered[i].op = delivered[i].answer
  /\ \A i, j \in DOMAIN delivered : i < j => delivered[i].op < delivered[j].op

\* Every acknowledgement that was published is in the ring, in the reader's
\* hands, in the queue, popped, or counted as dropped, also after a stop, unless
\* the engine has lapped the reader.
NoneUncounted == lapped \/
  write_p_outbound = Cardinality({i \in 0..Size - 1 : slot[i].is_ready})
                       + (IF reader = "push" THEN 1 ELSE 0) + head_ + dropped_count_

\* The reader never takes more acknowledgements than there were, not even when
\* the engine overtakes it by laps.
NeverAhead == outbound_ringbuffer_read_p <= write_p_outbound

\* Unless the reader is stopped or lapped, every acknowledgement is popped or counted
\* as dropped in the end.
EveryAckEnds == <>(stop_ \/ lapped \/ Len(delivered) + dropped_count_ = Acks)

\* The destructor returns, whatever the engine does and however full the queue is.
DestructorReturns == stop_ ~> reader = "done"
=============================================================================
