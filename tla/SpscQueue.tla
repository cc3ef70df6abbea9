----------------------------- MODULE SpscQueue -----------------------------
(***************************************************************************)
(* The bounded queue of Core_Infra/spsc_queue.hpp, between one thread that *)
(* pushes and one that pops.  A step is one access to what they share; the *)
(* copy of a value into or out of the buffer is not atomic, and lasts from *)
(* the step before it to its own.                                          *)
(***************************************************************************)
EXTENDS Integers, Sequences

CONSTANTS Values,     \* what may be pushed
          Blank,      \* a T that no one has written yet
          Capacity,   \* capacity_
          MaxPushes   \* how many times try_push is called

ASSUME CapacityAssumption  == Capacity \in Nat \ {0}
ASSUME MaxPushesAssumption == MaxPushes \in Nat

VARIABLES head_,      \* how many values were pushed
          tail_,      \* how many values were popped
          buffer_,    \* the cells
          pushing,    \* where the producer stands in try_push
          value,      \* its argument
          popping,    \* where the consumer stands in try_pop
          out,        \* the value it has copied
          refused,    \* how many calls of try_push returned false
          delivered   \* history: the values try_pop has returned

producer == <<head_, pushing, value, refused>>
consumer == <<tail_, popping, out, delivered>>
vars == <<head_, tail_, buffer_, pushing, value, popping, out, refused, delivered>>

\* Mutants, named *_M, are what a slip of the pen would make of the definition
\* that follows them; the specification uses none of them.

Cell(c) == c % Capacity                \* c & mask_, for a power of two

Init ==
  /\ head_ = 0
  /\ tail_ = 0
  /\ buffer_ = [i \in 0..Capacity - 1 |-> Blank]
  /\ pushing = "idle"
  /\ value = Blank
  /\ popping = "idle"
  /\ out = Blank
  /\ refused = 0
  /\ delivered = <<>>

-----------------------------------------------------------------------------
(* try_push                                                                *)

\* One value too many fits; one too few.
Full_M      == head_ - tail_ > Capacity
FullEarly_M == head_ - tail_ >= Capacity - 1

Full == head_ - tail_ >= Capacity

PushFull ==
  /\ pushing = "idle"
  /\ Full
  /\ refused' = refused + 1
  /\ UNCHANGED <<head_, buffer_, pushing, value, consumer>>

PushBegin(v) ==
  /\ pushing = "idle"
  /\ ~Full
  /\ value' = v
  /\ pushing' = "copy"
  /\ UNCHANGED <<head_, buffer_, refused, consumer>>

PushCopy ==
  /\ pushing = "copy"
  /\ buffer_' = [buffer_ EXCEPT ![Cell(head_)] = value]
  /\ pushing' = "store"
  /\ UNCHANGED <<head_, value, refused, consumer>>

\* head_ goes the wrong way.
PushStore_M ==
  /\ pushing = "store"
  /\ head_' = head_ - 1
  /\ pushing' = "idle"
  /\ UNCHANGED <<buffer_, value, refused, consumer>>

PushStore ==
  /\ pushing = "store"
  /\ head_' = head_ + 1
  /\ pushing' = "idle"
  /\ UNCHANGED <<buffer_, value, refused, consumer>>

-----------------------------------------------------------------------------
(* try_pop                                                                 *)

PopEmpty ==
  /\ popping = "idle"
  /\ tail_ >= head_
  /\ UNCHANGED vars

PopBegin ==
  /\ popping = "idle"
  /\ tail_ < head_
  /\ popping' = "copy"
  /\ UNCHANGED <<tail_, buffer_, out, delivered, producer>>

PopCopy ==
  /\ popping = "copy"
  /\ out' = buffer_[Cell(tail_)]
  /\ popping' = "store"
  /\ UNCHANGED <<tail_, buffer_, delivered, producer>>

PopStore ==
  /\ popping = "store"
  /\ tail_' = tail_ + 1
  /\ delivered' = Append(delivered, out)
  /\ popping' = "idle"
  /\ UNCHANGED <<buffer_, out, producer>>

-----------------------------------------------------------------------------

TryPush(v) ==
  /\ pushing = "idle" => head_ + refused < MaxPushes
  /\ PushFull \/ PushBegin(v) \/ PushCopy \/ PushStore
TryPop == PopBegin \/ PopCopy \/ PopStore

Next == (\E v \in Values : TryPush(v)) \/ PopEmpty \/ TryPop

Spec == Init /\ [][Next]_vars

-----------------------------------------------------------------------------

Cells == Values \cup {Blank}

\* Every variable has its type.
TypeOK ==
  /\ head_ \in Nat
  /\ tail_ \in Nat
  /\ buffer_ \in [0..Capacity - 1 -> Cells]
  /\ pushing \in {"idle", "copy", "store"}
  /\ value \in Cells
  /\ popping \in {"idle", "copy", "store"}
  /\ out \in Cells
  /\ refused \in Nat
  /\ delivered \in Seq(Cells)

\* The two threads never copy into and out of one cell at the same time: a value
\* is never read half written, nor overwritten while it is read.
NoSharedCell == pushing = "copy" /\ popping = "copy" => Cell(head_) # Cell(tail_)

\* The cells between the two pointers are a queue that refuses a value exactly
\* when it is full, loses none and returns them in order.  A push takes effect
\* when it stores head_, a pop when it stores tail_.
Items == [i \in 1..head_ - tail_ |-> buffer_[Cell(tail_ + i - 1)]]

Bounded == INSTANCE BoundedQueue WITH items <- Items

BoundedSpec == Bounded!Spec
=============================================================================
