------------------------------ MODULE Orderbook ------------------------------
(***************************************************************************)
(* The order book of Core_Infra/orderbook.cpp: two price-indexed maps of   *)
(* price levels, a doubly linked list of orders in every level, and an     *)
(* index from order id to order.  One action is one turn of the loop of    *)
(* Orderbook::match, one of its ways out, or a whole cancel or modify.     *)
(*                                                                         *)
(* A pointer to an Order is the number of its allocation, NULL is 0; an    *)
(* address that is not in DOMAIN order is freed memory.  The two maps are  *)
(* one function from <<side, price>> to the Limit, and parentlimit of an   *)
(* order is the key <<side, price>> of its Limit, which lives as long as   *)
(* its map entry does.                                                     *)
(***************************************************************************)
EXTENDS Integers, Sequences, FiniteSets, Functions

CONSTANTS Prices,     \* the limit prices
          Volumes,    \* the volumes placeOrder and modify may be called with
          Ids,        \* the order ids a caller may use
          NoId,       \* no order is being matched
          MaxOrders,  \* how many orders are placed
          ReuseIds    \* may a caller place two orders under one id?

ASSUME PricesAssumption    == Prices \subseteq Int
ASSUME VolumesAssumption   == Volumes \subseteq Int
ASSUME IdsAssumption       == NoId \notin Ids
ASSUME MaxOrdersAssumption == MaxOrders \in Nat
ASSUME ReuseIdsAssumption  == ReuseIds \in BOOLEAN

VARIABLES order,       \* the Orders that are allocated, by address
          limit,       \* the entries of bids and asks, by <<side, price>>
          global_map,  \* order id -> address of the Order
          allocated,   \* how many Orders were ever allocated
          taker,       \* the arguments of the match that runs, or NoTaker
          res,         \* the orderResult of the last match
          ok,          \* what the last cancel or modify returned
          asked,       \* history: the volume the last placeOrder was called with
          usedIds,     \* history: the ids orders were placed under
          placed       \* history: how many orders were placed

book == <<order, limit, global_map, allocated>>
history == <<asked, usedIds, placed>>
vars == <<order, limit, global_map, allocated, taker, res, ok, asked, usedIds, placed>>

\* Mutants, named *_M, are what a slip of the pen would make of the definition
\* that follows them; the specification uses none of them.

\* next and prev are left as they come.
NULL_M == -1

NULL == 0           \* nullptr, what next and prev of a new Order are set to
Sell == "sell"      \* side == true
Buy  == "buy"       \* side == false
Sides == {Sell, Buy}
Opposite(s) == IF s = Sell THEN Buy ELSE Sell

NoTaker == [orderID |-> NoId, price |-> 0, volume |-> 0, side |-> Buy]
Idle == taker = NoTaker

\* An empty map; m[k] = v; m.erase(k).
NoEntries == [x \in {} |-> NULL]
Assign(m, k, v) == [x \in DOMAIN m \cup {k} |-> IF x = k THEN v ELSE m[x]]
EraseKey(m, k)  == Restrict(m, DOMAIN m \ {k})

\* The new order is not entered; the deleted one is not erased.
Remember_M(id, a) == global_map
Forget_M(id) == global_map

\* The index with a new order's id, and without the id of one that is deleted.
Remember(id, a) == Assign(global_map, id, a)
Forget(id)      == EraseKey(global_map, id)

\* begin() and rbegin() are swapped.
Best_M(s, p) ==
  /\ <<s, p>> \in DOMAIN limit
  /\ \A q \in Prices : <<s, q>> \in DOMAIN limit => IF s = Sell THEN p >= q ELSE p <= q

\* The price is that of bids.rbegin() or asks.begin().
Best(s, p) ==
  /\ <<s, p>> \in DOMAIN limit
  /\ \A q \in Prices : <<s, q>> \in DOMAIN limit => IF s = Sell THEN p <= q ELSE p >= q

\* Equal prices do not cross.
Crosses_M(p) == IF taker.side = Sell THEN p > taker.price ELSE p < taker.price

\* A level at price p of the opposite side is good enough for the taker.
Crosses(p) == IF taker.side = Sell THEN p >= taker.price ELSE p <= taker.price

-----------------------------------------------------------------------------

Init ==
  /\ order = NoEntries
  /\ limit = NoEntries
  /\ global_map = NoEntries
  /\ allocated = 0
  /\ taker = NoTaker
  /\ res = [orderID |-> NoId, fulfilled |-> TRUE, remainingQty |-> 0, trades |-> <<>>]
  /\ ok = TRUE
  /\ asked = 0
  /\ usedIds = {}
  /\ placed = 0

PlaceOrder(id, p, v, s) ==
  /\ Idle
  /\ placed < MaxOrders
  /\ ReuseIds \/ id \notin usedIds
  /\ taker' = [orderID |-> id, price |-> p, volume |-> v, side |-> s]
  /\ res' = [orderID |-> id, fulfilled |-> FALSE, remainingQty |-> v, trades |-> <<>>]
  /\ asked' = v
  /\ usedIds' = usedIds \cup {id}
  /\ placed' = placed + 1
  /\ UNCHANGED <<book, ok>>

\* The loops of match go on: the best opposite level is at p and crosses.
Matching(p) ==
  /\ ~Idle
  /\ taker.volume > 0
  /\ Best(Opposite(taker.side), p)
  /\ Crosses(p)

\* The head of the level is larger than what is left of the taker.
FillPartial(p) ==
  LET L == <<Opposite(taker.side), p>>
      a == limit[L].head
  IN  /\ Matching(p)
      /\ order[a].volume > taker.volume
      /\ order' = [order EXCEPT ![a].volume = @ - taker.volume]
      /\ limit' = [limit EXCEPT ![L].totalVolume = @ - taker.volume]
      /\ res' = [res EXCEPT !.fulfilled = TRUE,
                            !.remainingQty = 0,
                            !.trades = Append(@, [price |-> order[a].price,
                                                  volume |-> taker.volume])]
      /\ taker' = NoTaker
      /\ UNCHANGED <<global_map, allocated, ok, history>>

\* The head of the level is used up: it is unlinked and deleted, and so is the
\* level when it was the last.
FillWhole(p) ==
  LET L == <<Opposite(taker.side), p>>
      a == limit[L].head
      n == order[a].next
  IN  /\ Matching(p)
      /\ order[a].volume <= taker.volume
      /\ order' = [x \in DOMAIN order \ {a} |->
                     IF x = n THEN [order[x] EXCEPT !.prev = NULL] ELSE order[x]]
      /\ limit' = IF limit[L].count - 1 = 0
                    THEN EraseKey(limit, L)
                    ELSE [limit EXCEPT ![L] = [head |-> n,
                                               tail |-> @.tail,
                                               count |-> @.count - 1,
                                               totalVolume |-> @.totalVolume - order[a].volume]]
      /\ global_map' = Forget(order[a].orderID)
      /\ taker' = [taker EXCEPT !.volume = @ - order[a].volume]
      /\ res' = [res EXCEPT !.remainingQty = @ - order[a].volume,
                            !.trades = Append(@, [price |-> order[a].price,
                                                  volume |-> order[a].volume])]
      /\ UNCHANGED <<allocated, ok, history>>

\* No opposite level crosses and volume is left: it rests at the tail of its level.
RestRemainder ==
  LET L == <<taker.side, taker.price>>
      a == allocated + 1
      known == L \in DOMAIN limit
      tail == IF known THEN limit[L].tail ELSE NULL
      new == [price |-> taker.price, volume |-> taker.volume, orderID |-> taker.orderID,
              side |-> taker.side, next |-> NULL, prev |-> tail]
  IN  /\ ~Idle
      /\ taker.volume > 0
      /\ \A p \in Prices : <<Opposite(taker.side), p>> \in DOMAIN limit => ~Crosses(p)
      /\ order' = [x \in DOMAIN order \cup {a} |->
                     IF x = a THEN new
                     ELSE IF x = tail THEN [order[x] EXCEPT !.next = a] ELSE order[x]]
      /\ limit' = Assign(limit, L,
                    IF known
                      THEN [head |-> limit[L].head,
                            tail |-> a,
                            count |-> limit[L].count + 1,
                            totalVolume |-> limit[L].totalVolume + taker.volume]
                      ELSE [head |-> a, tail |-> a, count |-> 1, totalVolume |-> taker.volume])
      /\ global_map' = Remember(taker.orderID, a)
      /\ allocated' = a
      /\ taker' = NoTaker
      /\ UNCHANGED <<res, ok, history>>

\* The answer is not marked fulfilled; the loop does not return.
ReturnFilled_M ==
  /\ ~Idle
  /\ taker.volume <= 0
  /\ taker' = NoTaker
  /\ UNCHANGED <<book, res, ok, history>>

\* Nothing is left of the taker, or it came without volume: it does not rest.
ReturnFilled ==
  /\ ~Idle
  /\ taker.volume <= 0
  /\ res' = [res EXCEPT !.fulfilled = TRUE]
  /\ taker' = NoTaker
  /\ UNCHANGED <<book, ok, history>>

-----------------------------------------------------------------------------

CancelUnknown(id) ==
  /\ Idle
  /\ id \notin DOMAIN global_map
  /\ ok' = FALSE
  /\ UNCHANGED <<book, taker, res, history>>

\* The next order keeps its prev.
Spliced_M(a) ==
  [x \in DOMAIN order \ {a} |->
     [order[x] EXCEPT !.next = IF x = order[a].prev THEN order[a].next ELSE @]]

\* The lists without the order at a, wherever it stands in its own.
Spliced(a) ==
  [x \in DOMAIN order \ {a} |->
     [order[x] EXCEPT !.next = IF x = order[a].prev THEN order[a].next ELSE @,
                      !.prev = IF x = order[a].next THEN order[a].prev ELSE @]]

\* A level is never pruned.
LevelsWithout_M(a) ==
  [limit EXCEPT ![<<order[a].side, order[a].price>>] =
     [head |-> IF @.head = a THEN order[a].next ELSE @.head,
      tail |-> IF @.tail = a THEN order[a].prev ELSE @.tail,
      count |-> @.count - 1,
      totalVolume |-> @.totalVolume - order[a].volume]]

\* The levels without the order at a; its own is pruned when it was the last.
LevelsWithout(a) ==
  LET L == <<order[a].side, order[a].price>> IN
  IF limit[L].count - 1 = 0
    THEN EraseKey(limit, L)
    ELSE [limit EXCEPT ![L] = [head |-> IF @.head = a THEN order[a].next ELSE @.head,
                               tail |-> IF @.tail = a THEN order[a].prev ELSE @.tail,
                               count |-> @.count - 1,
                               totalVolume |-> @.totalVolume - order[a].volume]]

CancelResting(id) ==
  /\ Idle
  /\ id \in DOMAIN global_map
  /\ order' = Spliced(global_map[id])
  /\ limit' = LevelsWithout(global_map[id])
  /\ global_map' = Forget(id)
  /\ ok' = TRUE
  /\ UNCHANGED <<allocated, taker, res, history>>

\* The size an order already has is a valid reduction; so is any other.
Reducible_M(id, n) ==
  /\ id \in DOMAIN global_map
  /\ n > 0
  /\ n <= order[global_map[id]].volume

ReducibleGrows_M(id, n) ==
  /\ id \in DOMAIN global_map
  /\ n > 0

Reducible(id, n) ==
  /\ id \in DOMAIN global_map
  /\ n > 0
  /\ n < order[global_map[id]].volume

ModifyRejected(id, n) ==
  /\ Idle
  /\ ~Reducible(id, n)
  /\ ok' = FALSE
  /\ UNCHANGED <<book, taker, res, history>>

\* The difference is taken after the volume is set, and is 0.
LevelsReduced_M(a, n) == limit

\* The levels once the volume of the order at a is n.
LevelsReduced(a, n) ==
  [limit EXCEPT ![<<order[a].side, order[a].price>>].totalVolume =
     @ - (order[a].volume - n)]

ModifyReduced(id, n) ==
  /\ Idle
  /\ Reducible(id, n)
  /\ order' = [order EXCEPT ![global_map[id]].volume = n]
  /\ limit' = LevelsReduced(global_map[id], n)
  /\ ok' = TRUE
  /\ UNCHANGED <<global_map, allocated, taker, res, history>>

MatchStep ==
  \/ \E p \in Prices : FillPartial(p) \/ FillWhole(p)
  \/ RestRemainder
  \/ ReturnFilled

Next ==
  \/ \E id \in Ids, p \in Prices, v \in Volumes, s \in Sides : PlaceOrder(id, p, v, s)
  \/ MatchStep
  \/ \E id \in Ids : CancelUnknown(id) \/ CancelResting(id)
  \/ \E id \in Ids, n \in Volumes : ModifyRejected(id, n) \/ ModifyReduced(id, n)

Spec == Init /\ [][Next]_vars

-----------------------------------------------------------------------------
(* What is said of the book.                                               *)

Pointer == Nat

\* Every variable has its type.
BookTypeOK ==
  /\ allocated \in Nat
  /\ DOMAIN order \subseteq 1..allocated
  /\ order \in [DOMAIN order -> [price : Prices, volume : Int, orderID : Ids, side : Sides,
                                 next : Pointer, prev : Pointer]]
  /\ DOMAIN limit \subseteq Sides \X Prices
  /\ limit \in [DOMAIN limit -> [head : Pointer, tail : Pointer,
                                 count : Int, totalVolume : Int]]
  /\ DOMAIN global_map \subseteq Ids
  /\ global_map \in [DOMAIN global_map -> Pointer]

CallTypeOK ==
  /\ taker \in [orderID : Ids, price : Prices, volume : Int, side : Sides] \cup {NoTaker}
  /\ res \in [orderID : Ids \cup {NoId}, fulfilled : BOOLEAN, remainingQty : Int,
              trades : Seq([price : Prices, volume : Int])]
  /\ ok \in BOOLEAN
  /\ asked \in Int
  /\ usedIds \subseteq Ids
  /\ placed \in Nat

TypeOK == BookTypeOK /\ CallTypeOK

LevelOf(a) == <<order[a].side, order[a].price>>
At(L) == {a \in DOMAIN order : LevelOf(a) = L}

\* The first and the last of a set of addresses, and what comes right after and
\* right before a in it, NULL where nothing does.
IsFirst(S, a) == a \in S /\ \A b \in S : a <= b
IsLast(S, a)  == a \in S /\ \A b \in S : b <= a
IsNext(S, a, n) == \/ n = NULL /\ \A b \in S : b <= a
                   \/ n \in S /\ a < n /\ \A b \in S : b <= a \/ n <= b
IsPrev(S, a, p) == \/ p = NULL /\ \A b \in S : a <= b
                   \/ p \in S /\ p < a /\ \A b \in S : b <= p \/ a <= b

\* The orders of a level form one doubly linked list in the order they came to
\* rest, from head to tail, whatever fills, cancels at the head, in the middle
\* and at the tail, and modifies were done to it: next is the order that came
\* to rest next, prev the one before.  Every order is in a level that exists.
QueueOrder ==
  /\ \A a \in DOMAIN order : LevelOf(a) \in DOMAIN limit
  /\ \A L \in DOMAIN limit : IsFirst(At(L), limit[L].head) /\ IsLast(At(L), limit[L].tail)
  /\ \A a \in DOMAIN order : /\ IsNext(At(LevelOf(a)), a, order[a].next)
                             /\ IsPrev(At(LevelOf(a)), a, order[a].prev)

\* A level counts its orders, through any mix of fills, cancels and arrivals,
\* and neither a level nor an order is ever left empty: match trusts both.
LevelCounts ==
  /\ \A L \in DOMAIN limit : limit[L].count = Cardinality(At(L)) /\ limit[L].count > 0
  /\ \A a \in DOMAIN order : order[a].volume > 0

\* A level's totalVolume is the sum of the volumes of its orders, through any mix
\* of partial fills, reductions, removals and arrivals.
LevelVolumes ==
  \A L \in DOMAIN limit :
    limit[L].totalVolume = SumFunction([a \in At(L) |-> order[a].volume])

\* A buyer and a seller who would trade with one another never both rest, not
\* even between two fills of a match.
NotCrossed ==
  \A p, q \in Prices :
    <<Sell, p>> \in DOMAIN limit /\ <<Buy, q>> \in DOMAIN limit => p > q

\* The index never leads to freed memory or to an order of another id, even
\* when callers use an id twice.
IndexSound ==
  \A id \in DOMAIN global_map :
    /\ global_map[id] \in DOMAIN order
    /\ order[global_map[id]].orderID = id

\* Every order that rests can be cancelled by its id.
IndexComplete ==
  \A a \in DOMAIN order :
    /\ order[a].orderID \in DOMAIN global_map
    /\ global_map[order[a].orderID] = a

\* The answer accounts for the whole volume of the order: what was traded and
\* what remains add up to it, the order is fulfilled exactly when nothing
\* remains, and what remains is what came to rest.
Accounted ==
  /\ asked = res.remainingQty + SumFunction([i \in DOMAIN res.trades |-> res.trades[i].volume])
  /\ Idle => (res.fulfilled <=> res.remainingQty <= 0)
  /\ ~Idle => taker.volume = res.remainingQty

\* An order a goes before an order b: a better price, or the same and earlier.
Before(a, b) ==
  \/ order[a].side = Sell /\ order[a].price < order[b].price
  \/ order[a].side = Buy  /\ order[a].price > order[b].price
  \/ order[a].price = order[b].price /\ a < b

\* An order that rests loses volume to a taker only when it goes before all the
\* others of its side: no fill overtakes a better price or an earlier arrival.
PriceTimePriority ==
  \A a \in DOMAIN order :
    ~Idle /\ (a \notin DOMAIN order' \/ order'[a].volume # order[a].volume) =>
      \A b \in DOMAIN order \ {a} : order[b].side = order[a].side => Before(a, b)

NoFillOvertakes == [][PriceTimePriority]_vars

\* The lists, levels and index together do what the plain book does.  A taker
\* that has run out of volume is done in the plain book, one step before match
\* returns.
Plain == INSTANCE PriceTimeBook WITH
  resting  <- {[seq |-> a, id |-> order[a].orderID, side |-> order[a].side,
                price |-> order[a].price, volume |-> order[a].volume] : a \in DOMAIN order},
  arrivals <- allocated,
  taker    <- IF taker.volume > 0 THEN taker ELSE NoTaker,
  answer   <- [res EXCEPT !.fulfilled = @ \/ (~Idle /\ taker.volume <= 0)]

PlainSpec == Plain!Spec
==============================================================================
