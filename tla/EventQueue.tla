----------------------------- MODULE EventQueue -----------------------------
(***************************************************************************)
(* What the inbound ring promises the gateways and the engine: a queue of  *)
(* at most Size events.  Gateways put events in, the engine is given them  *)
(* one at a time and in order, and only when it is done with one is there  *)
(* room for another.  InboundRing implements it, and MatchingSystem is     *)
(* built on it.                                                            *)
(***************************************************************************)
EXTENDS Integers, Sequences

CONSTANT Size  \* how many events there is room for

VARIABLES queue,  \* every event put in so far
          given,  \* those the engine was given
          read_p  \* how many of them it is done with

queueVars == <<queue, given, read_p>>

Init == queue = <<>> /\ given = <<>> /\ read_p = 0

\* Some event is put in, behind the others.
Put ==
  /\ Len(queue) - read_p < Size
  /\ Len(queue') = Len(queue) + 1
  /\ SubSeq(queue', 1, Len(queue)) = queue
  /\ UNCHANGED <<given, read_p>>

Give ==
  /\ Len(given) = read_p
  /\ read_p < Len(queue)
  /\ given' = Append(given, queue[read_p + 1])
  /\ UNCHANGED <<queue, read_p>>

Release ==
  /\ Len(given) = read_p + 1
  /\ read_p' = read_p + 1
  /\ UNCHANGED <<queue, given>>

Next == Put \/ Give \/ Release

Spec == Init /\ [][Next]_queueVars
=============================================================================
