---------------------------- MODULE BoundedQueue ----------------------------
(***************************************************************************)
(* What SpscQueue promises: a first-in-first-out queue that refuses a      *)
(* value exactly when it is full, in steps that nothing can split.         *)
(***************************************************************************)
EXTENDS Naturals, Sequences

CONSTANTS Values,    \* what may be pushed
          Capacity   \* how many values the queue holds

VARIABLES items,     \* the values in the queue, the oldest first
          delivered, \* every value popped so far
          refused    \* how many pushes were refused

vars == <<items, delivered, refused>>

Init == items = <<>> /\ delivered = <<>> /\ refused = 0

Push(v) ==
  /\ Len(items) < Capacity
  /\ items' = Append(items, v)
  /\ UNCHANGED <<delivered, refused>>

Refuse ==
  /\ Len(items) = Capacity
  /\ refused' = refused + 1
  /\ UNCHANGED <<items, delivered>>

Pop ==
  /\ items # <<>>
  /\ items' = Tail(items)
  /\ delivered' = Append(delivered, Head(items))
  /\ UNCHANGED refused

Next == (\E v \in Values : Push(v)) \/ Refuse \/ Pop

Spec == Init /\ [][Next]_vars
=============================================================================
