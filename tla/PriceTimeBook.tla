--------------------------- MODULE PriceTimeBook ---------------------------
(***************************************************************************)
(* What the order book promises, with none of its data structures: a set   *)
(* of resting orders, each with its place in the order of arrival, and at  *)
(* most one incoming order that trades against the best of them.  There    *)
(* are no levels, no lists, no index and no loops here.                    *)
(***************************************************************************)
EXTENDS Integers, Sequences

CONSTANTS Prices,     \* the limit prices
          Volumes,    \* the volumes placeOrder and modify may be called with
          Ids,        \* the order ids
          NoId        \* no order

VARIABLES resting,    \* the orders in the book: [seq, id, side, price, volume]
          arrivals,   \* how many orders have come to rest so far
          taker,      \* the incoming order that is being matched, or NoTaker
          answer,     \* what the last placeOrder says of its order
          ok          \* what the last cancel or modify returned

vars == <<resting, arrivals, taker, answer, ok>>

Sell == "sell"
Buy  == "buy"
Opposite(s) == IF s = Sell THEN Buy ELSE Sell

NoTaker == [orderID |-> NoId, price |-> 0, volume |-> 0, side |-> Buy]

\* The price p of a resting order is acceptable to the taker.
Acceptable(p) == IF taker.side = Sell THEN p >= taker.price ELSE p <= taker.price

\* Price-time priority: m goes before o, both on the same side.
Before(m, o) ==
  \/ m.side = Sell /\ m.price < o.price
  \/ m.side = Buy  /\ m.price > o.price
  \/ m.price = o.price /\ m.seq < o.seq

Candidates == {o \in resting : o.side = Opposite(taker.side) /\ Acceptable(o.price)}

Init ==
  /\ resting = {}
  /\ arrivals = 0
  /\ taker = NoTaker
  /\ answer = [orderID |-> NoId, fulfilled |-> TRUE, remainingQty |-> 0, trades |-> <<>>]
  /\ ok = TRUE

\* An order without volume is answered at once, and never rests.
Submit(id, p, v, s) ==
  /\ taker = NoTaker
  /\ taker' = IF v > 0 THEN [orderID |-> id, price |-> p, volume |-> v, side |-> s]
                       ELSE NoTaker
  /\ answer' = [orderID |-> id, fulfilled |-> v <= 0, remainingQty |-> v, trades |-> <<>>]
  /\ UNCHANGED <<resting, arrivals, ok>>

\* The taker trades with the acceptable order that goes before all others.
Trade(m, q) ==
  /\ taker # NoTaker
  /\ m \in Candidates
  /\ \A o \in Candidates \ {m} : Before(m, o)
  /\ q = IF m.volume < taker.volume THEN m.volume ELSE taker.volume
  /\ resting' = (resting \ {m})
                  \cup (IF m.volume > q THEN {[m EXCEPT !.volume = @ - q]} ELSE {})
  /\ taker' = IF taker.volume > q THEN [taker EXCEPT !.volume = @ - q] ELSE NoTaker
  /\ answer' = [answer EXCEPT !.fulfilled = (taker.volume = q),
                              !.remainingQty = @ - q,
                              !.trades = Append(@, [price |-> m.price, volume |-> q])]
  /\ UNCHANGED <<arrivals, ok>>

\* What is left of the taker comes to rest behind every order that rests.
Rest ==
  /\ taker # NoTaker
  /\ Candidates = {}
  /\ arrivals' = arrivals + 1
  /\ resting' = resting \cup {[seq |-> arrivals + 1, id |-> taker.orderID, side |-> taker.side,
                               price |-> taker.price, volume |-> taker.volume]}
  /\ taker' = NoTaker
  /\ UNCHANGED <<answer, ok>>

\* A cancel takes the resting order of that id out of the book, if there is one.
Cancel(id) ==
  /\ taker = NoTaker
  /\ ok' = (\E o \in resting : o.id = id)
  /\ resting' = {o \in resting : o.id # id}
  /\ UNCHANGED <<arrivals, taker, answer>>

\* A modify makes the resting order of that id smaller where it stands, or
\* changes nothing: it never grows an order, empties it or moves it.
Modify(id, n) ==
  LET smaller(o) == o.id = id /\ 0 < n /\ n < o.volume IN
  /\ taker = NoTaker
  /\ ok' = (\E o \in resting : smaller(o))
  /\ resting' = {IF smaller(o) THEN [o EXCEPT !.volume = n] ELSE o : o \in resting}
  /\ UNCHANGED <<arrivals, taker, answer>>

Next ==
  \/ \E id \in Ids, p \in Prices, v \in Volumes, s \in {Sell, Buy} : Submit(id, p, v, s)
  \/ \E m \in resting : \E q \in {m.volume, taker.volume} : Trade(m, q)
  \/ Rest
  \/ \E id \in Ids : Cancel(id) \/ \E n \in Volumes : Modify(id, n)

Spec == Init /\ [][Next]_vars
============================================================================
