---------------------------- MODULE LobsterReplay ----------------------------
(***************************************************************************)
(* lobster_replay_adapter.cpp: the rows of a LOBSTER message file go into  *)
(* the matching system through the gateway Feed, which is silent, so that  *)
(* the adapter never hears what became of them.  A row is its fields; text *)
(* that does not parse is a row, too.                                      *)
(***************************************************************************)
EXTENDS MatchingSystem

CONSTANTS Feed,      \* the gateway of the adapter
          Feeder,    \* the thread that reads the file
          MaxRows    \* how many rows the file has

ASSUME FeedAssumption == Feed \in Gateways \ (Live \cup Observed) /\ Feeder \in Threads
ASSUME RowsAssumption == MaxRows \in Nat
\* The sizes of a LOBSTER file are positive, and what a size leaves of another is one.
ASSUME FileAssumption == /\ Volumes \subseteq Nat \ {0}
                         /\ \A v, w \in Volumes : v > w => v - w \in Volumes

VARIABLES row,              \* the row in hand, or NoRow
          live_sizes_,      \* id -> size, as the adapter knows it
          rows_processed_, rows_skipped_, rows_failed_,
          traded            \* history: the ids of the orders that traded

counters == <<rows_processed_, rows_skipped_, rows_failed_>>
adapter  == <<row, live_sizes_, counters>>
replay   == <<system, adapter, traded>>

NoRow == [type |-> -1]  \* between two rows

\* The fields dispatch reads of a row.  Type 0 is a row that does not parse, 8 a
\* type that LOBSTER does not have.
Rows == [type : {1}, order_id : ExternalIds, size : Volumes, price : Prices, side : Book!Sides]
          \cup [type : {2}, order_id : ExternalIds, size : Volumes]
          \cup [type : {3}, order_id : ExternalIds]
          \cup [type : {0} \cup 4..8]
RowsRead == rows_processed_ + rows_skipped_ + rows_failed_

ReplayInit ==
  /\ Init
  /\ row = NoRow
  /\ live_sizes_ = Book!NoEntries
  /\ rows_processed_ = 0 /\ rows_skipped_ = 0 /\ rows_failed_ = 0
  /\ traded = {}

Processed == rows_processed_' = rows_processed_ + 1 /\ UNCHANGED <<rows_skipped_, rows_failed_>>

Submit(r) ==
  /\ r.type = 1
  /\ PlaceReplay(Feeder, Feed, r.order_id, r.price, r.size, r.side)
  /\ live_sizes_' = Book!Assign(live_sizes_, r.order_id, r.size)
  /\ Processed

\* A size of 0 is a size.
Tracked_M(r) == r.order_id \in DOMAIN live_sizes_ /\ live_sizes_[r.order_id] - r.size >= 0

Tracked(r) == r.order_id \in DOMAIN live_sizes_ /\ live_sizes_[r.order_id] - r.size > 0

\* The row has what is removed, modify wants what is left.
CancelPart(r) ==
  LET new_size == live_sizes_[r.order_id] - r.size IN
  /\ r.type = 2
  /\ Tracked(r)
  /\ Modify(Feeder, Feed, r.order_id, new_size)
  /\ live_sizes_' = [live_sizes_ EXCEPT ![r.order_id] = new_size]
  /\ Processed

\* The size is left where it was.
Delete_M(r) ==
  /\ r.type = 3
  /\ Cancel(Feeder, Feed, r.order_id)
  /\ UNCHANGED live_sizes_
  /\ Processed

Delete(r) ==
  /\ r.type = 3
  /\ Cancel(Feeder, Feed, r.order_id)
  /\ live_sizes_' = Book!EraseKey(live_sizes_, r.order_id)
  /\ Processed

Skip(r) ==
  /\ r.type \in 4..7
  /\ rows_skipped_' = rows_skipped_ + 1
  /\ UNCHANGED <<system, live_sizes_, rows_processed_, rows_failed_>>

Fail(r) ==
  /\ r.type \notin 1..7 \/ (r.type = 2 /\ ~Tracked(r))
  /\ rows_failed_' = rows_failed_ + 1
  /\ UNCHANGED <<system, live_sizes_, rows_processed_, rows_skipped_>>

\* getline and parse_row.  A file submits no order twice.
ReadRow ==
  /\ row = NoRow
  /\ RowsRead < MaxRows
  /\ row' \in Rows
  /\ row'.type = 1 => row'.order_id \notin Placed(Feed)
  /\ UNCHANGED <<system, live_sizes_, counters, traded>>

\* Only this thread reads live_sizes_ and the counters: a call of the gateway and what
\* follows it up to the next row are one step.
Dispatch ==
  /\ row # NoRow
  /\ Submit(row) \/ CancelPart(row) \/ Delete(row) \/ Skip(row) \/ Fail(row)
  /\ row' = NoRow
  /\ UNCHANGED traded

Adapter == ReadRow \/ Dispatch

\* The ids of the orders that a turn of match makes smaller, and of the taker.
Trading == {order[a].orderID : a \in {x \in DOMAIN order :
              x \notin DOMAIN order' \/ order'[x].volume < order[x].volume}}
TradeStep ==
  /\ Match
  /\ traded' = traded \cup Trading \cup (IF Trading = {} THEN {} ELSE {taker.orderID})
  /\ UNCHANGED adapter

EngineStep == TradeStep \/ ((Take \/ Acknowledge \/ Discard) /\ UNCHANGED <<adapter, traded>>)

-----------------------------------------------------------------------------

\* Every variable has its type.
ReplayTypeOK ==
  /\ TypeOK
  /\ row \in Rows \cup {NoRow}
  /\ DOMAIN live_sizes_ \subseteq ExternalIds
  /\ live_sizes_ \in [DOMAIN live_sizes_ -> Nat \ {0}]
  /\ rows_processed_ \in Nat /\ rows_skipped_ \in Nat /\ rows_failed_ \in Nat
  /\ RowsRead <= MaxRows
  /\ traded \subseteq Ids

Drained == engine = "poll" /\ read_p = Len(inbound)
Resting(id)  == IF id \in DOMAIN global_map THEN order[global_map[id]].volume ELSE 0
LiveSize(id) == IF id \in DOMAIN live_sizes_ THEN live_sizes_[id] ELSE 0

\* When the engine has caught up, no order of the file is larger in the book than
\* the adapter believes: what the engine turns down, unheard, is never a
\* reduction that the order still had to suffer.
NoMoreRestsThanTracked == Drained => \A id \in ExternalIds : Resting(id) <= LiveSize(id)

\* ... and of an order that never traded, it is exactly what the adapter believes:
\* trades are the one thing it misses.
AgreesUntilTraded == Drained => \A id \in ExternalIds \ traded : Resting(id) = LiveSize(id)

\* live_sizes_ has the current size of every order.
\* lobster_replay_adapter.hpp:53, "so we track current sizes".
TracksCurrentSizes == Drained => \A id \in ExternalIds : Resting(id) = LiveSize(id)
=============================================================================
