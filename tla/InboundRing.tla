----------------------------- MODULE InboundRing -----------------------------
(***************************************************************************)
(* The ring buffer between the gateways and the matching engine:           *)
(* RingBuffer_inbound (Core_Infra/ring_buffer.cpp), the calls a gateway    *)
(* makes of it to hand over an event (gateway.cpp) and those the engine    *)
(* makes to take one (matching_engine.cpp).  A step is one access to       *)
(* memory that threads share.                                              *)
(*                                                                         *)
(* An event has two halves, written and read one after the other: the      *)
(* order (op, id, price, volume, time, side) and the gateway it came from  *)
(* (gateway_id, silent).  The n-th order of a thread p is <<p, n>>.        *)
(***************************************************************************)
EXTENDS Integers, Sequences

CONSTANTS Producers,  \* the threads that call the gateways
          Size,       \* the number of slots of the ring
          Events      \* how many events every thread hands over

ASSUME SizeAssumption   == Size \in Nat \ {0}
ASSUME EventsAssumption == Events \in Nat

VARIABLES write_pointer,  \* the next sequence number to be claimed
          slot,           \* buffer: [order, gateway_id, is_ready] for every index
          pc,             \* where a producer stands in its call
          target_seq,     \* a producer's target_seq, once claimed its write_pointer
          sent,           \* how many events a producer has published
          read_p,         \* the next sequence number the engine takes
          engine,         \* where the engine stands in its loop
          gid,            \* the engine's copy of the event's gateway_id
          claimed,        \* history: the events, in the order of their sequence numbers
          taken           \* history: the events as the engine has read them

producers == <<write_pointer, pc, target_seq, sent, claimed>>
consumer  == <<read_p, engine, gid, taken>>
vars == <<write_pointer, slot, pc, target_seq, sent, read_p, engine, gid, claimed, taken>>

\* Mutants, named *_M, are what a slip of the pen would make of the definition
\* that follows them; the specification uses none of them.

Index(c) == c % Size                   \* write_p & mask, for a power of two
Event(p) == [order |-> <<p, sent[p]>>, gateway_id |-> p]
Blank == <<>>                          \* what a slot holds before it is first used

Init ==
  /\ write_pointer = 0
  /\ slot = [i \in 0..Size - 1 |-> [order |-> Blank, gateway_id |-> Blank, is_ready |-> FALSE]]
  /\ pc = [p \in Producers |-> "load"]
  /\ target_seq = [p \in Producers |-> 0]
  /\ sent = [p \in Producers |-> 0]
  /\ read_p = 0
  /\ engine = "poll"
  /\ gid = Blank
  /\ claimed = <<>>
  /\ taken = <<>>

-----------------------------------------------------------------------------
(* claim(), by a producer p with an event to hand over                     *)

Load(p) ==
  /\ pc[p] = "load"
  /\ sent[p] < Events
  /\ target_seq' = [target_seq EXCEPT ![p] = write_pointer]
  /\ pc' = [pc EXCEPT ![p] = "check"]
  /\ UNCHANGED <<write_pointer, slot, sent, claimed, consumer>>

\* The target slot is occupied: spin on whatever slot is next by then.
Wait(p) ==
  /\ pc[p] = "check"
  /\ slot[Index(target_seq[p])].is_ready
  /\ pc' = [pc EXCEPT ![p] = "load"]
  /\ UNCHANGED <<write_pointer, slot, target_seq, sent, claimed, consumer>>

\* The slot is not looked at.
SeeEmpty_M(p) ==
  /\ pc[p] = "check"
  /\ pc' = [pc EXCEPT ![p] = "cas"]
  /\ UNCHANGED <<write_pointer, slot, target_seq, sent, claimed, consumer>>

SeeEmpty(p) ==
  /\ pc[p] = "check"
  /\ ~slot[Index(target_seq[p])].is_ready
  /\ pc' = [pc EXCEPT ![p] = "cas"]
  /\ UNCHANGED <<write_pointer, slot, target_seq, sent, claimed, consumer>>

\* write_pointer is stored without being compared.
Claim_M(p) ==
  /\ pc[p] = "cas"
  /\ write_pointer' = target_seq[p] + 1
  /\ claimed' = Append(claimed, Event(p))
  /\ pc' = [pc EXCEPT ![p] = "fill"]
  /\ UNCHANGED <<slot, target_seq, sent, consumer>>

Claim(p) ==
  /\ pc[p] = "cas"
  /\ write_pointer = target_seq[p]
  /\ write_pointer' = target_seq[p] + 1
  /\ claimed' = Append(claimed, Event(p))
  /\ pc' = [pc EXCEPT ![p] = "fill"]
  /\ UNCHANGED <<slot, target_seq, sent, consumer>>

\* The CAS finds another value, or fails for no reason: it is the weak one.
ClaimFails(p) ==
  /\ pc[p] = "cas"
  /\ pc' = [pc EXCEPT ![p] = "load"]
  /\ target_seq' = [target_seq EXCEPT ![p] = write_pointer]
  /\ UNCHANGED <<write_pointer, slot, sent, claimed, consumer>>

-----------------------------------------------------------------------------
(* The rest of a call of the gateway                                       *)

\* The slot is marked ready before gateway_id and silent are written.
Fill_M(p) ==
  /\ pc[p] = "fill"
  /\ slot' = [slot EXCEPT ![Index(target_seq[p])].order = Event(p).order,
                          ![Index(target_seq[p])].is_ready = TRUE]
  /\ pc' = [pc EXCEPT ![p] = "stamp"]
  /\ UNCHANGED <<write_pointer, target_seq, sent, claimed, consumer>>

Fill(p) ==
  /\ pc[p] = "fill"
  /\ slot' = [slot EXCEPT ![Index(target_seq[p])].order = Event(p).order]
  /\ pc' = [pc EXCEPT ![p] = "stamp"]
  /\ UNCHANGED <<write_pointer, target_seq, sent, claimed, consumer>>

Stamp(p) ==
  /\ pc[p] = "stamp"
  /\ slot' = [slot EXCEPT ![Index(target_seq[p])].gateway_id = Event(p).gateway_id]
  /\ pc' = [pc EXCEPT ![p] = "publish"]
  /\ UNCHANGED <<write_pointer, target_seq, sent, claimed, consumer>>

\* is_ready is not set.
Publish_M(p) ==
  /\ pc[p] = "publish"
  /\ sent' = [sent EXCEPT ![p] = @ + 1]
  /\ pc' = [pc EXCEPT ![p] = "load"]
  /\ UNCHANGED <<write_pointer, slot, target_seq, claimed, consumer>>

Publish(p) ==
  /\ pc[p] = "publish"
  /\ slot' = [slot EXCEPT ![Index(target_seq[p])].is_ready = TRUE]
  /\ sent' = [sent EXCEPT ![p] = @ + 1]
  /\ pc' = [pc EXCEPT ![p] = "load"]
  /\ UNCHANGED <<write_pointer, target_seq, claimed, consumer>>

-----------------------------------------------------------------------------
(* MatchingEngine::run                                                     *)

NextEvent == slot[Index(read_p)]

\* continue: the next event is not there yet.
PollAgain ==
  /\ engine = "poll"
  /\ ~NextEvent.is_ready
  /\ UNCHANGED vars

Poll ==
  /\ engine = "poll"
  /\ NextEvent.is_ready
  /\ engine' = "route"
  /\ UNCHANGED <<producers, slot, read_p, gid, taken>>

\* int64_t gid = event->gateway_id
Route ==
  /\ engine = "route"
  /\ gid' = NextEvent.gateway_id
  /\ engine' = "process"
  /\ UNCHANGED <<producers, slot, read_p, taken>>

\* The order goes to the order book.
Process ==
  /\ engine = "process"
  /\ taken' = Append(taken, [order |-> NextEvent.order, gateway_id |-> gid])
  /\ engine' = "release"
  /\ UNCHANGED <<producers, slot, read_p, gid>>

\* read_p goes the wrong way.
Release_M ==
  /\ engine = "release"
  /\ slot' = [slot EXCEPT ![Index(read_p)].is_ready = FALSE]
  /\ read_p' = read_p - 1
  /\ engine' = "poll"
  /\ UNCHANGED <<producers, gid, taken>>

Release ==
  /\ engine = "release"
  /\ slot' = [slot EXCEPT ![Index(read_p)].is_ready = FALSE]
  /\ read_p' = read_p + 1
  /\ engine' = "poll"
  /\ UNCHANGED <<producers, gid, taken>>

-----------------------------------------------------------------------------

Produce(p) == \/ Load(p) \/ Wait(p) \/ SeeEmpty(p) \/ Claim(p) \/ ClaimFails(p)
              \/ Fill(p) \/ Stamp(p) \/ Publish(p)
Consume == Poll \/ Route \/ Process \/ Release

Next == (\E p \in Producers : Produce(p)) \/ PollAgain \/ Consume

Spec == Init /\ [][Next]_vars

-----------------------------------------------------------------------------

Holding(p) == pc[p] \in {"fill", "stamp", "publish"}

\* No producer that holds a slot is overtaken by a whole lap of claims.  The code
\* relies on it and does nothing to ensure it.
Timely == \A p \in Producers : Holding(p) => write_pointer - target_seq[p] < Size

TimelySpec == Init /\ [][Next /\ Timely']_vars

\* Every thread runs, and a weak CAS that could succeed again and again does not
\* fail forever.
FairTimelySpec ==
  /\ TimelySpec
  /\ WF_vars(Consume /\ Timely')
  /\ \A p \in Producers : WF_vars(Produce(p) /\ Timely') /\ SF_vars(Claim(p) /\ Timely')

-----------------------------------------------------------------------------

Orders == (Producers \X Nat) \cup {Blank}
Gateways == Producers \cup {Blank}

\* Every variable has its type.
TypeOK ==
  /\ write_pointer \in Nat
  /\ slot \in [0..Size - 1 -> [order : Orders, gateway_id : Gateways, is_ready : BOOLEAN]]
  /\ pc \in [Producers -> {"load", "check", "cas", "fill", "stamp", "publish"}]
  /\ target_seq \in [Producers -> Nat]
  /\ sent \in [Producers -> Nat]
  /\ read_p \in Nat
  /\ engine \in {"poll", "route", "process", "release"}
  /\ gid \in Gateways
  /\ claimed \in Seq([order : Orders, gateway_id : Gateways])
  /\ taken \in Seq([order : Orders, gateway_id : Gateways])

\* Every slot is owned by one party at a time: by the one producer that fills it,
\* or by the engine that reads it.
SlotExclusive ==
  /\ \A p, q \in Producers :
       Holding(p) /\ Holding(q) /\ p # q => Index(target_seq[p]) # Index(target_seq[q])
  /\ \A p \in Producers :
       Holding(p) /\ engine # "poll" => Index(target_seq[p]) # Index(read_p)

\* The engine takes the events in the order of their claims, every one once and
\* whole: with the gateway it came from.
InOrderExactlyOnce ==
  /\ Len(taken) <= Len(claimed)
  /\ \A i \in 1..Len(taken) : taken[i] = claimed[i]

\* The ring never holds more events than it has slots, taken or not.
NeverOverfull == write_pointer - read_p <= Size

\* Every event of every producer is taken in the end.
EveryEventIsTaken ==
  \A p \in Producers : <>(\E i \in DOMAIN taken : taken[i].order = <<p, Events - 1>>)

\* The ring is a queue of Size events: an event is in it from its claim on, although
\* its slot is written later and published when others are, and the engine is given
\* it when it reads it.
Queue == INSTANCE EventQueue WITH queue <- claimed, given <- taken
QueueSpec == Queue!Spec
==============================================================================
