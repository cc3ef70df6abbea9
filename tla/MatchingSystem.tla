--------------------------- MODULE MatchingSystem ---------------------------
(***************************************************************************)
(* Gateways, the matching engine and the order book together: the calls of *)
(* gateway.cpp, the loop of matching_engine.cpp and the book of Orderbook. *)
(* The two kinds of ring are what InboundRing and AckPath show them to be, *)
(* queues; the inbound one holds at most Slots events.  A gateway may be   *)
(* shared by threads, and a thread may use every gateway.                  *)
(***************************************************************************)
EXTENDS Integers, Sequences, SequencesExt

CONSTANTS Gateways,    \* the gateways
          Live,        \* those in LIVE mode; the others are in REPLAY mode
          Silenced,    \* those with silent_override true
          Observed,    \* those with silent_override false
          Threads,     \* the threads that call them
          ExternalIds, \* the ids a feed brings along
          Prices, Volumes, NoId,
          Slots,       \* the size of the inbound ring
          MaxFills,    \* the length of fills[], 16
          MaxCalls     \* how many calls are made

ASSUME GatewaysAssumption == Live \cup Silenced \cup Observed \subseteq Gateways
ASSUME LimitsAssumption   == Slots \in Nat \ {0} /\ MaxFills \in Nat /\ MaxCalls \in Nat
ASSUME ThreadsAssumption  == IsFiniteSet(Threads)
ASSUME ExternalAssumption == ExternalIds \subseteq Nat

VARIABLES internal_id_counter, \* a LIVE gateway's next id
          minting,             \* the place a thread has an id for and no slot yet, or Free
          inbound,             \* every event handed over so far
          read_p,              \* how many of them the engine has released
          engine,              \* is the engine in the middle of an event?
          outbound,            \* every acknowledgement written so far, for each gateway
          order, limit, global_map, allocated, taker, res, ok, asked, usedIds, placed

Ids == 0..MaxCalls - 1 \cup ExternalIds

ASSUME BookAssumption == Prices \subseteq Int /\ Volumes \subseteq Int /\ NoId \notin Ids

Book == INSTANCE Orderbook WITH MaxOrders <- MaxCalls, ReuseIds <- TRUE

book  == <<order, limit, global_map, allocated, taker, res, ok, asked, usedIds, placed>>
calls == <<internal_id_counter, minting, inbound>>
system == <<calls, read_p, engine, outbound, book>>

\* Mutants, named *_M, are what a slip of the pen would make of the definition
\* that follows them; the specification uses none of them.

Free == [gateway |-> NoId, id |-> NoId]

Init ==
  /\ internal_id_counter = [g \in Gateways |-> 0]
  /\ minting = [t \in Threads |-> Free]
  /\ inbound = <<>>
  /\ read_p = 0
  /\ engine = "poll"
  /\ outbound = [g \in Gateways |-> <<>>]
  /\ Book!Init

-----------------------------------------------------------------------------
(* Gateway                                                                 *)

\* Every gateway that is not told otherwise is noisy.
Silent_M(g) == g \in Silenced

\* silent_override.value_or(m == GatewayMode::REPLAY)
Silent(g) == g \in Silenced \/ g \notin Live \cup Observed

\* A slot that was used stays in use.
Post_M(e) ==
  /\ Len(inbound) < Slots
  /\ inbound' = Append(inbound, e)
  /\ UNCHANGED <<internal_id_counter, read_p, engine, outbound, book>>

\* One event more than there are slots.
PostMore_M(e) ==
  /\ Len(inbound) - read_p <= Slots
  /\ inbound' = Append(inbound, e)
  /\ UNCHANGED <<internal_id_counter, read_p, engine, outbound, book>>

\* claim() to publish(): it waits while the ring is full.
Post(e) ==
  /\ Len(inbound) - read_p < Slots
  /\ inbound' = Append(inbound, e)
  /\ UNCHANGED <<internal_id_counter, read_p, engine, outbound, book>>

New(g, id, p, v, s) == [op |-> "NEW", id |-> id, gateway |-> g, silent |-> Silent(g),
                        price |-> p, volume |-> v, side |-> s]

\* The counter stays where it is.
Mint_M(t, g) ==
  /\ minting[t] = Free
  /\ g \in Live
  /\ minting' = [minting EXCEPT ![t] = [gateway |-> g, id |-> internal_id_counter[g]]]
  /\ UNCHANGED <<internal_id_counter, inbound, read_p, engine, outbound, book>>

Mint(t, g) ==
  /\ minting[t] = Free
  /\ g \in Live
  /\ minting' = [minting EXCEPT ![t] = [gateway |-> g, id |-> internal_id_counter[g]]]
  /\ internal_id_counter' = [internal_id_counter EXCEPT ![g] = @ + 1]
  /\ UNCHANGED <<inbound, read_p, engine, outbound, book>>

PlaceLive(t, p, v, s) ==
  /\ minting[t] # Free
  /\ Post(New(minting[t].gateway, minting[t].id, p, v, s))
  /\ minting' = [minting EXCEPT ![t] = Free]

PlaceReplay(t, g, id, p, v, s) ==
  /\ minting[t] = Free
  /\ g \notin Live
  /\ Post(New(g, id, p, v, s))
  /\ UNCHANGED minting

Cancel(t, g, id) ==
  /\ minting[t] = Free
  /\ Post([op |-> "CANCEL", id |-> id, gateway |-> g, silent |-> Silent(g)])
  /\ UNCHANGED minting

Modify(t, g, id, n) ==
  /\ minting[t] = Free
  /\ Post([op |-> "MODIFY", id |-> id, gateway |-> g, silent |-> Silent(g), volume |-> n])
  /\ UNCHANGED minting

-----------------------------------------------------------------------------
(* MatchingEngine::run                                                     *)

Event == inbound[read_p + 1]

\* The engine finds the next event and hands it to the book.
Take ==
  /\ engine = "poll"
  /\ read_p < Len(inbound)
  /\ \/ Event.op = "NEW" /\ Book!PlaceOrder(Event.id, Event.price, Event.volume, Event.side)
     \/ Event.op = "CANCEL" /\ (Book!CancelUnknown(Event.id) \/ Book!CancelResting(Event.id))
     \/ Event.op = "MODIFY" /\ \/ Book!ModifyRejected(Event.id, Event.volume)
                               \/ Book!ModifyReduced(Event.id, Event.volume)
  /\ engine' = "busy"
  /\ UNCHANGED <<calls, read_p, outbound>>

Match == Book!MatchStep /\ UNCHANGED <<calls, read_p, engine, outbound>>

\* One fill less than there is room for.
Capped_M(trades) == SubSeq(trades, 1, IF Len(trades) < MaxFills THEN Len(trades) ELSE MaxFills - 1)

Capped(trades) == SubSeq(trades, 1, IF Len(trades) < MaxFills THEN Len(trades) ELSE MaxFills)

\* What was traded is taken for what remains.
Ack_M == [op |-> Event.op, order_id |-> Event.id,
          fulfilled |-> IF Event.op = "NEW" THEN res.fulfilled ELSE ok,
          remaining_qty |-> IF Event.op = "NEW" THEN asked - res.remainingQty ELSE 0,
          fills |-> <<>>]

Ack ==
  IF Event.op = "NEW"
    THEN [op |-> "NEW", order_id |-> res.orderID, fulfilled |-> res.fulfilled,
          remaining_qty |-> res.remainingQty, fills |-> Capped(res.trades)]
    ELSE [op |-> Event.op, order_id |-> Event.id, fulfilled |-> ok,
          remaining_qty |-> 0, fills |-> <<>>]

\* The event is released a moment before the acknowledgement is published; no thread
\* can tell, because the two are in different rings and a gateway polls for the second.
Acknowledge ==
  /\ engine = "busy"
  /\ Book!Idle
  /\ ~Event.silent
  /\ outbound' = [outbound EXCEPT ![Event.gateway] = Append(@, Ack)]
  /\ read_p' = read_p + 1
  /\ engine' = "poll"
  /\ UNCHANGED <<calls, book>>

\* continue: a silent event is released and not answered.
Discard ==
  /\ engine = "busy"
  /\ Book!Idle
  /\ Event.silent
  /\ read_p' = read_p + 1
  /\ engine' = "poll"
  /\ UNCHANGED <<calls, outbound, book>>

PollAgain == engine = "poll" /\ read_p = Len(inbound) /\ UNCHANGED system

Engine == Take \/ Match \/ Acknowledge \/ Discard

-----------------------------------------------------------------------------

\* The ids a caller may use.
Placed(g) == {e.id : e \in {x \in Range(inbound) : x.op = "NEW" /\ x.gateway = g}}
Begun == Len(inbound) + Cardinality({t \in Threads : minting[t] # Free})

Begin(t, g) ==
  /\ Begun < MaxCalls
  /\ \/ Mint(t, g)
     \/ \E id \in ExternalIds \ Placed(g), p \in Prices, v \in Volumes, s \in Book!Sides :
          PlaceReplay(t, g, id, p, v, s)
     \/ \E id \in Placed(g) : Cancel(t, g, id) \/ \E n \in Volumes : Modify(t, g, id, n)

GoOn(t) == \E p \in Prices, v \in Volumes, s \in Book!Sides : PlaceLive(t, p, v, s)

Call(t) == (\E g \in Gateways : Begin(t, g)) \/ GoOn(t)

Next == (\E t \in Threads : Call(t)) \/ Engine \/ PollAgain

Spec == Init /\ [][Next]_system

-----------------------------------------------------------------------------
(* What is said of the system.                                             *)

Events == [op : {"NEW"}, id : Ids, gateway : Gateways, silent : BOOLEAN,
           price : Prices, volume : Volumes, side : Book!Sides]
            \cup [op : {"CANCEL"}, id : Ids, gateway : Gateways, silent : BOOLEAN]
            \cup [op : {"MODIFY"}, id : Ids, gateway : Gateways, silent : BOOLEAN,
                  volume : Volumes]
Acks == [op : {"NEW", "CANCEL", "MODIFY"}, order_id : Ids, fulfilled : BOOLEAN,
         remaining_qty : Int, fills : Seq([price : Prices, volume : Int])]

\* Every variable has its type.
TypeOK ==
  /\ internal_id_counter \in [Gateways -> Nat]
  /\ minting \in [Threads -> [gateway : Gateways, id : Ids] \cup {Free}]
  /\ inbound \in Seq(Events)
  /\ read_p \in 0..Len(inbound)
  /\ engine \in {"poll", "busy"}
  /\ outbound \in [Gateways -> Seq(Acks)]
  /\ Book!TypeOK

Noisy == (Live \cup Observed) \ Silenced

\* The calls of a gateway among the first n events, and the acknowledgement of the
\* k-th event, which its gateway finds behind those of its earlier calls.
Calls(g, n) == {k \in 1..n : inbound[k].gateway = g}
Done(g) == Calls(g, read_p)            \* those the engine is done with
Answer(k) == outbound[inbound[k].gateway][Cardinality(Calls(inbound[k].gateway, k))]

\* Each noisy gateway gets one acknowledgement for every call of its own that is
\* done, in the order of the calls, and a silent one gets none, however the
\* calls of all gateways are mixed in the ring.
AcksAnswerCalls ==
  \A g \in Gateways :
    /\ Len(outbound[g]) = IF g \in Noisy THEN Cardinality(Done(g)) ELSE 0
    /\ g \in Noisy => \A k \in Done(g) : /\ Answer(k).op = inbound[k].op
                                         /\ Answer(k).order_id = inbound[k].id

Traded(fills) == SumFunction([k \in DOMAIN fills |-> fills[k].volume])

\* The fills an acknowledgement carries explain all that an order has lost, as
\* long as they leave room in fills[]; when it is full they may be short, and
\* never say more than was traded.
FillsExplainRemainder ==
  \A g \in Noisy : \A k \in Done(g) :
    LET lost == inbound[k].volume - Answer(k).remaining_qty
        fills == Answer(k).fills
    IN  inbound[k].op = "NEW" =>
          /\ Len(fills) <= MaxFills
          /\ Traded(fills) <= lost
          /\ Len(fills) < MaxFills => Traded(fills) = lost

\* Once a cancel is done nothing rests under its id, whatever was in the ring
\* before it: ids tell orders apart and calls are taken in order.
CancelledIsGone ==
  \A i \in 1..read_p :
    inbound[i].op = "CANCEL" => \A a \in DOMAIN order : order[a].orderID # inbound[i].id

\* What a gateway can tell from its calls and their acknowledgements: the size of
\* its order after the last call that changed it.
Changes(g, id) == {k \in Done(g) : /\ inbound[k].id = id
                                   /\ inbound[k].op = "NEW" \/ Answer(k).fulfilled}
SizeAfter(k) == CASE inbound[k].op = "NEW"    -> Answer(k).remaining_qty
                  [] inbound[k].op = "MODIFY" -> inbound[k].volume
                  [] inbound[k].op = "CANCEL" -> 0
Known(g, id) == IF Changes(g, id) = {} THEN 0 ELSE SizeAfter(Max(Changes(g, id)))

\* Between two events, no more rests of an order than its gateway knows of: fills
\* it is not told about only ever make it less.
NoMoreRestsThanKnown ==
  engine = "poll" =>
    \A a \in DOMAIN order : \A g \in Noisy :
      order[a].orderID \in Placed(g) => order[a].volume <= Known(g, order[a].orderID)

\* The system sees of the inbound ring what EventQueue says of it, and no more: the
\* engine has one event at a time, in order, and makes room when it is done with it.
Given == SubSeq(inbound, 1, IF engine = "busy" THEN read_p + 1 ELSE read_p)
Queue == INSTANCE EventQueue WITH Size <- Slots, queue <- inbound, given <- Given
QueueSpec == Queue!Spec
=============================================================================
