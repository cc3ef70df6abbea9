--------------------------- MODULE OrderbookProofs ---------------------------
(***************************************************************************)
(* Theorems about the order book, for every set of prices, volumes and     *)
(* ids, any number of orders, and ids used once or many times.             *)
(***************************************************************************)
EXTENDS Orderbook, NumberTheorems, FiniteSetTheorems, TLAPS

-----------------------------------------------------------------------------
(* Lists as sets: what unlinking an element and appending one do to the    *)
(* neighbours of the others.                                               *)

\* An element's neighbours in a set without d are its old ones, but for those
\* of d, which become each other's.
LEMMA UnlinkNext ==
  ASSUME NEW S, \A x \in S : x \in Nat /\ x # NULL, NEW d \in S, NEW nd \in Nat, NEW pd \in Nat,
         IsNext(S, d, nd), IsPrev(S, d, pd),
         NEW a \in S \ {d}, NEW n \in Nat, IsNext(S, a, n)
  PROVE  IsNext(S \ {d}, a, IF a = pd THEN nd ELSE n)
<1>1. CASE a = pd
  BY <1>1 DEF IsNext, IsPrev, NULL
<1>2. CASE a # pd
  <2>1. n # d
    BY <1>2 DEF IsNext, IsPrev, NULL
  <2>2. QED
    BY <1>2, <2>1 DEF IsNext, NULL
<1>3. QED
  BY <1>1, <1>2

\* The same for prev.
LEMMA UnlinkPrev ==
  ASSUME NEW S, \A x \in S : x \in Nat /\ x # NULL, NEW d \in S, NEW nd \in Nat, NEW pd \in Nat,
         IsNext(S, d, nd), IsPrev(S, d, pd),
         NEW a \in S \ {d}, NEW p \in Nat, IsPrev(S, a, p)
  PROVE  IsPrev(S \ {d}, a, IF a = nd THEN pd ELSE p)
<1>1. CASE a = nd
  BY <1>1 DEF IsNext, IsPrev, NULL
<1>2. CASE a # nd
  <2>1. p # d
    BY <1>2 DEF IsNext, IsPrev, NULL
  <2>2. QED
    BY <1>2, <2>1 DEF IsPrev, NULL
<1>3. QED
  BY <1>1, <1>2

\* The ends of a set without d are its old ones, or d's neighbour where d was the end.
LEMMA UnlinkFirst ==
  ASSUME NEW S, \A x \in S : x \in Nat /\ x # NULL, NEW d \in S, NEW nd \in Nat, IsNext(S, d, nd),
         NEW h \in Nat, IsFirst(S, h), S \ {d} # {}
  PROVE  IsFirst(S \ {d}, IF h = d THEN nd ELSE h)
<1>1. PICK e \in S : e # d
  OBVIOUS
<1>2. CASE h = d
  <2>1. nd # NULL
    BY <1>1, <1>2 DEF IsNext, IsFirst
  <2>2. QED
    BY <1>2, <2>1 DEF IsNext, IsFirst
<1>3. CASE h # d
  BY <1>3 DEF IsFirst
<1>4. QED
  BY <1>2, <1>3

\* The same for the tail.
LEMMA UnlinkLast ==
  ASSUME NEW S, \A x \in S : x \in Nat /\ x # NULL, NEW d \in S, NEW pd \in Nat, IsPrev(S, d, pd),
         NEW t \in Nat, IsLast(S, t), S \ {d} # {}
  PROVE  IsLast(S \ {d}, IF t = d THEN pd ELSE t)
<1>1. PICK e \in S : e # d
  OBVIOUS
<1>2. CASE t = d
  <2>1. pd # NULL
    BY <1>1, <1>2 DEF IsPrev, IsLast
  <2>2. QED
    BY <1>2, <2>1 DEF IsPrev, IsLast
<1>3. CASE t # d
  BY <1>3 DEF IsLast
<1>4. QED
  BY <1>2, <1>3

\* An element m later than all others becomes the last one's next.
LEMMA AppendNeighbours ==
  ASSUME NEW S, \A x \in S : x \in Nat /\ x # NULL, NEW m \in Nat, \A b \in S : b < m,
         NEW t \in Nat, IsLast(S, t), NEW a \in S, NEW n \in Nat, NEW p \in Nat, IsNext(S, a, n), IsPrev(S, a, p)
  PROVE  /\ IsNext(S \cup {m}, a, IF a = t THEN m ELSE n)
         /\ IsPrev(S \cup {m}, a, p)
BY DEF IsNext, IsPrev, IsLast, NULL

\* The new element m comes right after the last one, and is the last now.
LEMMA AppendLast ==
  ASSUME NEW S, \A x \in S : x \in Nat /\ x # NULL, NEW m \in Nat, \A b \in S : b < m,
         NEW t \in Nat, IsLast(S, t), NEW h \in Nat, IsFirst(S, h)
  PROVE  /\ IsNext(S \cup {m}, m, NULL)
         /\ IsPrev(S \cup {m}, m, t)
         /\ IsLast(S \cup {m}, m)
         /\ IsFirst(S \cup {m}, h)
BY DEF IsNext, IsPrev, IsLast, IsFirst, NULL

-----------------------------------------------------------------------------
(* The invariant of the book, and the two changes a step makes to an order *)
(* that rests: it is unlinked from its level, or its volume shrinks.       *)

BookInv == BookTypeOK /\ QueueOrder /\ LevelCounts /\ NotCrossed /\ IndexSound

\* The order at a is spliced out of its list and deleted.
Unlinked(a) ==
  LET L == LevelOf(a) IN
  /\ order' = [x \in DOMAIN order \ {a} |->
                 [order[x] EXCEPT !.next = IF x = order[a].prev THEN order[a].next ELSE @,
                                  !.prev = IF x = order[a].next THEN order[a].prev ELSE @]]
  /\ limit' = IF limit[L].count - 1 = 0
                THEN EraseKey(limit, L)
                ELSE [limit EXCEPT ![L] =
                        [head |-> IF @.head = a THEN order[a].next ELSE @.head,
                         tail |-> IF @.tail = a THEN order[a].prev ELSE @.tail,
                         count |-> @.count - 1,
                         totalVolume |-> @.totalVolume - order[a].volume]]
  /\ global_map' = EraseKey(global_map, order[a].orderID)
  /\ allocated' = allocated

\* Addresses are positive and every level is finite.
LEMMA AddressesAtLevel ==
  ASSUME BookTypeOK, NEW L
  PROVE  /\ \A x \in At(L) : x \in Nat /\ x # NULL
         /\ IsFiniteSet(At(L))
<1>1. allocated \in Nat
  BY DEF BookTypeOK
<1>2. At(L) \subseteq 1..allocated
  BY DEF BookTypeOK, At
<1>3. IsFiniteSet(1..allocated)
  BY <1>1, FS_Interval
<1>4. IsFiniteSet(At(L))
  BY <1>2, <1>3, FS_Subset
<1>5. \A x \in 1..allocated : x \in Nat /\ x # 0
  BY <1>1
<1>6. QED
  BY <1>2, <1>4, <1>5 DEF NULL

\* Taking one order out keeps the book well formed, wherever in its level it
\* stands and whether or not it is the last there.
LEMMA UnlinkPreserves ==
  ASSUME BookInv, NEW a \in DOMAIN order, Unlinked(a)
  PROVE  BookInv'
<1> DEFINE L == LevelOf(a)
           S == At(L)
           nd == order[a].next
           pd == order[a].prev
<1> USE DEF BookInv
<1>1. /\ L \in DOMAIN limit
      /\ a \in S
      /\ nd \in Nat /\ pd \in Nat
      /\ IsNext(S, a, nd) /\ IsPrev(S, a, pd)
  BY DEF QueueOrder, At, BookTypeOK, Pointer
<1>2. /\ \A x \in S : x \in Nat /\ x # NULL
      /\ IsFiniteSet(S)
  BY AddressesAtLevel
<1>3. /\ DOMAIN order' = DOMAIN order \ {a}
      /\ \A x \in DOMAIN order' :
           /\ order'[x] \in [price : Prices, volume : Int, orderID : Ids, side : Sides,
                             next : Pointer, prev : Pointer]
           /\ order'[x].price = order[x].price
           /\ order'[x].side = order[x].side
           /\ order'[x].volume = order[x].volume
           /\ order'[x].orderID = order[x].orderID
           /\ order'[x].next = IF x = pd THEN nd ELSE order[x].next
           /\ order'[x].prev = IF x = nd THEN pd ELSE order[x].prev
  BY DEF Unlinked, BookTypeOK, Pointer
<1>4. \A K : At(K)' = At(K) \ {a}
  BY <1>3 DEF At, LevelOf
<1>5. \A K : K # L => At(K)' = At(K)
  BY <1>4 DEF At
<1>6. Cardinality(S \ {a}) = Cardinality(S) - 1
  BY <1>1, <1>2, FS_RemoveElement
<1>7. Cardinality(S) = limit[L].count /\ Cardinality(S) \in Nat
  BY <1>1, <1>2, FS_CardinalityType DEF LevelCounts
<1>8. limit[L].count - 1 = 0 <=> S \ {a} = {}
  BY <1>2, <1>6, <1>7, FS_EmptySet, FS_RemoveElement
<1>9. /\ DOMAIN limit' = IF S \ {a} = {} THEN DOMAIN limit \ {L} ELSE DOMAIN limit
      /\ \A K \in DOMAIN limit' : K # L => limit'[K] = limit[K]
      /\ S \ {a} # {} => limit'[L] = [head |-> IF limit[L].head = a THEN nd ELSE limit[L].head,
                                     tail |-> IF limit[L].tail = a THEN pd ELSE limit[L].tail,
                                     count |-> limit[L].count - 1,
                                     totalVolume |-> limit[L].totalVolume - order[a].volume]
  <2>1. CASE S \ {a} = {}
    <3>1. limit' = EraseKey(limit, L)
      BY <1>8, <2>1 DEF Unlinked
    <3>2. QED
      BY <1>1, <2>1, <3>1 DEF EraseKey, Restrict
  <2>2. CASE S \ {a} # {}
    <3>1. limit' = [limit EXCEPT ![L] =
                      [head |-> IF @.head = a THEN nd ELSE @.head,
                       tail |-> IF @.tail = a THEN pd ELSE @.tail,
                       count |-> @.count - 1,
                       totalVolume |-> @.totalVolume - order[a].volume]]
      BY <1>8, <2>2 DEF Unlinked
    <3>2. QED
      BY <1>1, <2>2, <3>1
  <2>3. QED
    BY <2>1, <2>2
<1>10. /\ DOMAIN global_map' = DOMAIN global_map \ {order[a].orderID}
       /\ \A id \in DOMAIN global_map' : global_map'[id] = global_map[id]
       /\ global_map' \in [DOMAIN global_map' -> Pointer]
  BY DEF Unlinked, EraseKey, Restrict, BookTypeOK
<1>11. BookTypeOK'
  <2>1. /\ allocated' \in Nat
        /\ DOMAIN order' \subseteq 1..allocated'
    BY <1>3 DEF BookTypeOK, Unlinked
  <2>2. order' \in [DOMAIN order' -> [price : Prices, volume : Int, orderID : Ids,
                                     side : Sides, next : Pointer, prev : Pointer]]
    <3>1. order' = [x \in DOMAIN order' |-> order'[x]]
      BY DEF Unlinked
    <3>2. QED
      BY <1>3, <3>1
  <2>3. DOMAIN limit' \subseteq Sides \X Prices
    BY <1>9 DEF BookTypeOK
  <2>4. \A K \in DOMAIN limit' : limit'[K] \in [head : Pointer, tail : Pointer,
                                               count : Int, totalVolume : Int]
    <3> SUFFICES ASSUME NEW K \in DOMAIN limit'
                 PROVE  limit'[K] \in [head : Pointer, tail : Pointer,
                                       count : Int, totalVolume : Int]
      OBVIOUS
    <3>1. CASE K # L
      BY <1>9, <3>1 DEF BookTypeOK
    <3>2. CASE K = L
      BY <1>1, <1>9, <3>2 DEF BookTypeOK, Pointer
    <3>3. QED
      BY <3>1, <3>2
  <2>5. limit' = [K \in DOMAIN limit' |-> limit'[K]]
    BY DEF Unlinked, EraseKey, Restrict
  <2>6. QED
    BY <1>10, <2>1, <2>2, <2>3, <2>4, <2>5 DEF BookTypeOK
<1>12. QueueOrder'
  <2>1. \A x \in DOMAIN order' : LevelOf(x)' \in DOMAIN limit'
    BY <1>3, <1>4, <1>9 DEF QueueOrder, LevelOf, At
  <2>2. ASSUME NEW K \in DOMAIN limit'
        PROVE  IsFirst(At(K)', limit'[K].head) /\ IsLast(At(K)', limit'[K].tail)
    <3>1. CASE K # L
      BY <1>5, <1>9, <3>1 DEF QueueOrder
    <3>2. CASE K = L
      <4>1. S \ {a} # {}
        BY <1>9, <3>2
      <4>2. /\ limit[L].head \in Nat /\ limit[L].tail \in Nat
            /\ IsFirst(S, limit[L].head) /\ IsLast(S, limit[L].tail)
        BY <1>1 DEF QueueOrder, BookTypeOK, Pointer
      <4>3. /\ IsFirst(S \ {a}, IF limit[L].head = a THEN nd ELSE limit[L].head)
            /\ IsLast(S \ {a}, IF limit[L].tail = a THEN pd ELSE limit[L].tail)
        BY <1>1, <1>2, <4>1, <4>2, UnlinkFirst, UnlinkLast
      <4>4. QED
        BY <1>4, <1>9, <3>2, <4>1, <4>3
    <3>3. QED
      BY <3>1, <3>2
  <2>3. ASSUME NEW x \in DOMAIN order'
        PROVE  /\ IsNext(At(LevelOf(x))', x, order'[x].next)
               /\ IsPrev(At(LevelOf(x))', x, order'[x].prev)
    <3>1. /\ IsNext(At(LevelOf(x)), x, order[x].next)
          /\ IsPrev(At(LevelOf(x)), x, order[x].prev)
          /\ order[x].next \in Nat /\ order[x].prev \in Nat
      BY <1>3 DEF QueueOrder, BookTypeOK, Pointer
    <3>2. LevelOf(x)' = LevelOf(x) /\ x \in At(LevelOf(x)) /\ x # a
      BY <1>3 DEF LevelOf, At
    <3>3. CASE LevelOf(x) = L
      <4>1. x \in S \ {a}
        BY <3>2, <3>3
      <4>2. /\ IsNext(S \ {a}, x, IF x = pd THEN nd ELSE order[x].next)
            /\ IsPrev(S \ {a}, x, IF x = nd THEN pd ELSE order[x].prev)
        BY <1>1, <1>2, <3>1, <3>3, <4>1, UnlinkNext, UnlinkPrev
      <4>3. At(LevelOf(x))' = S \ {a}
        BY <1>4, <3>2, <3>3
      <4>4. QED
        BY <1>3, <4>2, <4>3
    <3>4. CASE LevelOf(x) # L
      <4>1. x \notin S /\ x # 0
        BY <1>3, <3>4 DEF At, BookTypeOK
      <4>2. x # pd /\ x # nd
        BY <1>1, <4>1 DEF IsNext, IsPrev, NULL
      <4>3. At(LevelOf(x))' = At(LevelOf(x))
        BY <1>5, <3>2, <3>4
      <4>4. QED
        BY <1>3, <3>1, <4>2, <4>3
    <3>5. QED
      BY <3>3, <3>4
  <2>4. QED
    BY <2>1, <2>2, <2>3 DEF QueueOrder
<1>13. LevelCounts'
  <2>1. ASSUME NEW K \in DOMAIN limit'
        PROVE  limit'[K].count = Cardinality(At(K)') /\ limit'[K].count > 0
    <3>1. CASE K # L
      BY <1>5, <1>9, <3>1 DEF LevelCounts
    <3>2. CASE K = L
      <4>1. S \ {a} # {} /\ At(K)' = S \ {a}
        BY <1>4, <1>9, <3>2
      <4>2. limit'[K].count = limit[L].count - 1
        BY <1>9, <3>2, <4>1
      <4>3. limit[L].count > 0
        BY <1>1 DEF LevelCounts
      <4>4. QED
        BY <1>6, <1>7, <1>8, <4>1, <4>2, <4>3
    <3>3. QED
      BY <3>1, <3>2
  <2>2. QED
    BY <1>3, <2>1 DEF LevelCounts
<1>14. NotCrossed'
  BY <1>9 DEF NotCrossed
<1>15. IndexSound'
  BY <1>3, <1>10 DEF IndexSound
<1>16. QED
  BY <1>11, <1>12, <1>13, <1>14, <1>15

\* The volume of the order at a becomes n.
Resized(a, n) ==
  /\ order' = [order EXCEPT ![a].volume = n]
  /\ limit' = [limit EXCEPT ![LevelOf(a)].totalVolume = @ - (order[a].volume - n)]
  /\ UNCHANGED <<global_map, allocated>>

\* Giving an order another positive volume keeps the book well formed.
LEMMA ResizePreserves ==
  ASSUME BookInv, NEW a \in DOMAIN order, NEW n \in Int, n > 0, Resized(a, n)
  PROVE  BookInv'
<1> USE DEF BookInv
<1>1. /\ DOMAIN order' = DOMAIN order
      /\ order' \in [DOMAIN order -> [price : Prices, volume : Int, orderID : Ids,
                                      side : Sides, next : Pointer, prev : Pointer]]
      /\ \A x \in DOMAIN order :
           /\ order'[x].price = order[x].price
           /\ order'[x].side = order[x].side
           /\ order'[x].orderID = order[x].orderID
           /\ order'[x].next = order[x].next
           /\ order'[x].prev = order[x].prev
           /\ order'[x].volume = IF x = a THEN n ELSE order[x].volume
  BY DEF Resized, BookTypeOK
<1>2. LevelOf(a) \in DOMAIN limit
  BY DEF QueueOrder
<1>3. limit[LevelOf(a)].totalVolume - (order[a].volume - n) \in Int
  BY <1>2 DEF BookTypeOK
<1>4. /\ DOMAIN limit' = DOMAIN limit
      /\ limit' \in [DOMAIN limit -> [head : Pointer, tail : Pointer,
                                      count : Int, totalVolume : Int]]
      /\ \A K \in DOMAIN limit :
           /\ limit'[K].head = limit[K].head
           /\ limit'[K].tail = limit[K].tail
           /\ limit'[K].count = limit[K].count
  BY <1>2, <1>3 DEF Resized, BookTypeOK
<1>5. /\ \A x \in DOMAIN order : LevelOf(x)' = LevelOf(x)
      /\ \A K : At(K)' = At(K)
  BY <1>1 DEF At, LevelOf
<1>6. BookTypeOK'
  BY <1>1, <1>4 DEF BookTypeOK, Resized
<1>7. QueueOrder'
  BY <1>1, <1>4, <1>5 DEF QueueOrder
<1>8. LevelCounts'
  BY <1>1, <1>4, <1>5 DEF LevelCounts
<1>9. NotCrossed'
  BY <1>4 DEF NotCrossed
<1>10. IndexSound'
  BY <1>1 DEF IndexSound, Resized
<1>11. QED
  BY <1>6, <1>7, <1>8, <1>9, <1>10

-----------------------------------------------------------------------------
(* Each action that touches the book makes one of those changes, or        *)
(* appends the taker.                                                      *)

\* The head of a level is an order of that level with nothing before it.
LEMMA HeadOfLevel ==
  ASSUME BookInv, NEW L \in DOMAIN limit
  PROVE  LET a == limit[L].head IN
         /\ a \in DOMAIN order /\ LevelOf(a) = L
         /\ order[a].prev = NULL
         /\ \A b \in At(L) : a <= b
<1> DEFINE a == limit[L].head
<1>1. IsFirst(At(L), a)
  BY DEF BookInv, QueueOrder
<1>2. a \in DOMAIN order /\ LevelOf(a) = L
  BY <1>1 DEF IsFirst, At
<1>3. IsPrev(At(L), a, order[a].prev)
  BY <1>2 DEF BookInv, QueueOrder
<1>4. \A x \in At(L) : x \in Nat
  BY AddressesAtLevel DEF BookInv
<1>5. order[a].prev = NULL
  BY <1>1, <1>3, <1>4 DEF IsFirst, IsPrev
<1>6. QED
  BY <1>1, <1>2, <1>5 DEF IsFirst

\* The whole fill of match takes the head of the best level out of the book.
LEMMA FillWholeUnlinks ==
  ASSUME BookInv, CallTypeOK, NEW p \in Prices, FillWhole(p)
  PROVE  LET a == limit[<<Opposite(taker.side), p>>].head IN
         a \in DOMAIN order /\ Unlinked(a)
<1> DEFINE L == <<Opposite(taker.side), p>>
           a == limit[L].head
<1>1. L \in DOMAIN limit
  BY DEF FillWhole, Matching, Best
<1>2. /\ a \in DOMAIN order /\ LevelOf(a) = L
      /\ order[a].prev = NULL
      /\ \A b \in At(L) : a <= b
  BY <1>1, HeadOfLevel
<1>3. order' = [x \in DOMAIN order \ {a} |->
                 [order[x] EXCEPT !.next = IF x = order[a].prev THEN order[a].next ELSE @,
                                  !.prev = IF x = order[a].next THEN order[a].prev ELSE @]]
  <2>1. ASSUME NEW x \in DOMAIN order
        PROVE  (IF x = order[a].next THEN [order[x] EXCEPT !.prev = NULL] ELSE order[x])
                 = [order[x] EXCEPT
                      !.next = IF x = order[a].prev THEN order[a].next ELSE @,
                      !.prev = IF x = order[a].next THEN order[a].prev ELSE @]
    <3>1. x # NULL
      BY DEF BookInv, BookTypeOK, NULL
    <3>2. order[x] \in [price : Prices, volume : Int, orderID : Ids, side : Sides,
                        next : Pointer, prev : Pointer]
      BY DEF BookInv, BookTypeOK
    <3>3. QED
      BY <1>2, <3>1, <3>2
  <2>2. order' = [x \in DOMAIN order \ {a} |->
                   IF x = order[a].next THEN [order[x] EXCEPT !.prev = NULL] ELSE order[x]]
    BY DEF FillWhole
  <2>3. QED
    BY <2>1, <2>2
<1>4. limit[L].count - 1 # 0 => limit[L].tail # a
  <2> SUFFICES ASSUME limit[L].count - 1 # 0, limit[L].tail = a
               PROVE  FALSE
    OBVIOUS
  <2>1. IsLast(At(L), a)
    BY <1>1 DEF BookInv, QueueOrder
  <2>2. \A x \in At(L) : x \in Nat
    BY AddressesAtLevel DEF BookInv
  <2>3. At(L) = {a}
    BY <1>2, <2>1, <2>2 DEF IsLast
  <2>4. Cardinality(At(L)) = 1
    BY <2>3, FS_Singleton
  <2>5. QED
    BY <1>1, <2>4 DEF BookInv, LevelCounts
<1>5. limit' = IF limit[L].count - 1 = 0
                THEN EraseKey(limit, L)
                ELSE [limit EXCEPT ![L] =
                        [head |-> IF @.head = a THEN order[a].next ELSE @.head,
                         tail |-> IF @.tail = a THEN order[a].prev ELSE @.tail,
                         count |-> @.count - 1,
                         totalVolume |-> @.totalVolume - order[a].volume]]
  <2>1. CASE limit[L].count - 1 = 0
    BY <2>1 DEF FillWhole
  <2>2. CASE limit[L].count - 1 # 0
    <3>1. limit' = [limit EXCEPT ![L] = [head |-> order[a].next,
                                         tail |-> @.tail,
                                         count |-> @.count - 1,
                                         totalVolume |-> @.totalVolume - order[a].volume]]
      BY <2>2 DEF FillWhole
    <3>2. QED
      BY <1>2, <1>4, <2>2, <3>1
  <2>3. QED
    BY <2>1, <2>2
<1>6. global_map' = EraseKey(global_map, order[a].orderID) /\ allocated' = allocated
  BY DEF FillWhole, Forget
<1>7. QED
  BY <1>2, <1>3, <1>5, <1>6 DEF Unlinked

\* cancel takes the order of that id out of the book, wherever it stands.
LEMMA CancelUnlinks ==
  ASSUME BookInv, NEW id \in Ids, CancelResting(id)
  PROVE  global_map[id] \in DOMAIN order /\ Unlinked(global_map[id])
<1>1. global_map[id] \in DOMAIN order /\ order[global_map[id]].orderID = id
  BY DEF BookInv, IndexSound, CancelResting
<1>2. QED
  BY <1>1 DEF CancelResting, Spliced, LevelsWithout, Forget, Unlinked, LevelOf

\* What is left of a taker rests at the tail of its level, old or new, and
\* crosses with nothing.
LEMMA RestPreserves ==
  ASSUME BookInv, CallTypeOK, RestRemainder
  PROVE  BookInv'
<1> SUFFICES ASSUME NEW L, L = <<taker.side, taker.price>>,
                    NEW m, m = allocated + 1,
                    NEW t, t = IF L \in DOMAIN limit THEN limit[L].tail ELSE NULL
             PROVE  BookInv'
  OBVIOUS
<1> DEFINE S == At(L)
           known == L \in DOMAIN limit
           new == [price |-> taker.price, volume |-> taker.volume, orderID |-> taker.orderID,
                   side |-> taker.side, next |-> NULL, prev |-> t]
<1> USE DEF BookInv
<1>1. /\ taker.orderID \in Ids /\ taker.price \in Prices
      /\ taker.volume \in Int /\ taker.volume > 0
      /\ taker.side \in Sides
  BY DEF RestRemainder, CallTypeOK, Idle
<1>2. /\ m \in Nat /\ m # NULL /\ m \notin DOMAIN order
      /\ \A x \in DOMAIN order : x \in Nat /\ x # NULL /\ x < m
  BY DEF BookTypeOK, NULL
<1>3. known => /\ t \in S /\ IsLast(S, t)
               /\ limit[L].head \in Nat /\ IsFirst(S, limit[L].head)
  BY DEF QueueOrder, IsLast, BookTypeOK, Pointer
<1>4. ~known => S = {} /\ t = NULL
  BY DEF QueueOrder, At
<1>5. t \in Nat
  <2>1. \A x \in S : x \in Nat
    BY AddressesAtLevel
  <2>2. QED
    BY <1>3, <1>4, <2>1 DEF NULL
<1>6. order' = [x \in DOMAIN order \cup {m} |->
                 IF x = m THEN new
                 ELSE IF x = t THEN [order[x] EXCEPT !.next = m] ELSE order[x]]
  BY DEF RestRemainder
<1>7. /\ DOMAIN order' = DOMAIN order \cup {m}
      /\ order'[m] = new
      /\ order'[m].price = taker.price /\ order'[m].side = taker.side
      /\ order'[m].volume = taker.volume /\ order'[m].orderID = taker.orderID
      /\ order'[m].next = NULL /\ order'[m].prev = t
      /\ \A x \in DOMAIN order :
           /\ order'[x] \in [price : Prices, volume : Int, orderID : Ids, side : Sides,
                             next : Pointer, prev : Pointer]
           /\ order'[x].price = order[x].price
           /\ order'[x].side = order[x].side
           /\ order'[x].volume = order[x].volume
           /\ order'[x].orderID = order[x].orderID
           /\ order'[x].next = IF x = t THEN m ELSE order[x].next
           /\ order'[x].prev = order[x].prev
  BY <1>2, <1>6 DEF BookTypeOK, Pointer
<1>8. /\ LevelOf(m)' = L
      /\ \A x \in DOMAIN order : LevelOf(x)' = LevelOf(x)
  BY <1>7 DEF LevelOf
<1>9. At(L)' = S \cup {m} /\ \A K : K # L => At(K)' = At(K)
  BY <1>2, <1>7, <1>8 DEF At
<1>10. /\ DOMAIN limit' = DOMAIN limit \cup {L}
       /\ \A K \in DOMAIN limit : K # L => limit'[K] = limit[K]
       /\ limit'[L].tail = m
       /\ limit'[L].head = IF known THEN limit[L].head ELSE m
       /\ limit'[L].count = IF known THEN limit[L].count + 1 ELSE 1
       /\ limit'[L] \in [head : Pointer, tail : Pointer, count : Int, totalVolume : Int]
       /\ limit' = [K \in DOMAIN limit' |-> limit'[K]]
  <2>1. CASE known
    <3>1. limit[L] \in [head : Pointer, tail : Pointer, count : Int, totalVolume : Int]
      BY <2>1 DEF BookTypeOK
    <3>2. limit' = Assign(limit, L, [head |-> limit[L].head, tail |-> m,
                                     count |-> limit[L].count + 1,
                                     totalVolume |-> limit[L].totalVolume + taker.volume])
      BY <2>1 DEF RestRemainder
    <3>3. QED
      BY <1>1, <1>2, <2>1, <3>1, <3>2 DEF Assign, Pointer
  <2>2. CASE ~known
    <3>1. limit' = Assign(limit, L, [head |-> m, tail |-> m, count |-> 1,
                                     totalVolume |-> taker.volume])
      BY <2>2 DEF RestRemainder
    <3>2. QED
      BY <1>1, <1>2, <2>2, <3>1 DEF Assign, Pointer
  <2>3. QED
    BY <2>1, <2>2
<1>11. BookTypeOK'
  <2>1. allocated' \in Nat /\ DOMAIN order' \subseteq 1..allocated'
    BY <1>2, <1>7 DEF BookTypeOK, RestRemainder, NULL
  <2>2. new \in [price : Prices, volume : Int, orderID : Ids, side : Sides,
                 next : Pointer, prev : Pointer]
    BY <1>1, <1>5 DEF Pointer, NULL
  <2>3. order' \in [DOMAIN order' -> [price : Prices, volume : Int, orderID : Ids,
                                     side : Sides, next : Pointer, prev : Pointer]]
    <3>1. order' = [x \in DOMAIN order' |-> order'[x]]
      BY <1>6
    <3>2. QED
      BY <1>7, <2>2, <3>1
  <2>4. /\ DOMAIN limit' \subseteq Sides \X Prices
        /\ limit' \in [DOMAIN limit' -> [head : Pointer, tail : Pointer,
                                        count : Int, totalVolume : Int]]
    <3>1. L \in Sides \X Prices
      BY <1>1
    <3>2. \A K \in DOMAIN limit' : limit'[K] \in [head : Pointer, tail : Pointer,
                                                 count : Int, totalVolume : Int]
      BY <1>10 DEF BookTypeOK
    <3>3. QED
      BY <1>10, <3>1, <3>2 DEF BookTypeOK
  <2>5. DOMAIN global_map' \subseteq Ids /\ global_map' \in [DOMAIN global_map' -> Pointer]
    BY <1>1, <1>2 DEF RestRemainder, Remember, Assign, BookTypeOK, Pointer
  <2>6. QED
    BY <2>1, <2>3, <2>4, <2>5 DEF BookTypeOK
<1>12. QueueOrder'
  <2>1. \A x \in S : x \in Nat /\ x # NULL /\ x < m
    BY <1>2 DEF At
  <2>2. \A x \in DOMAIN order' : LevelOf(x)' \in DOMAIN limit'
    BY <1>7, <1>8, <1>10 DEF QueueOrder
  <2>3. /\ IsFirst(S \cup {m}, IF known THEN limit[L].head ELSE m)
        /\ IsLast(S \cup {m}, m)
        /\ IsNext(S \cup {m}, m, NULL)
        /\ IsPrev(S \cup {m}, m, t)
    <3>1. CASE known
      BY <1>2, <1>3, <1>5, <2>1, <3>1, AppendLast
    <3>2. CASE ~known
      BY <1>2, <1>4, <3>2 DEF IsFirst, IsLast, IsNext, IsPrev
    <3>3. QED
      BY <3>1, <3>2
  <2>4. ASSUME NEW K \in DOMAIN limit'
        PROVE  IsFirst(At(K)', limit'[K].head) /\ IsLast(At(K)', limit'[K].tail)
    <3>1. CASE K = L
      BY <1>9, <1>10, <2>3, <3>1
    <3>2. CASE K # L
      BY <1>9, <1>10, <3>2 DEF QueueOrder
    <3>3. QED
      BY <3>1, <3>2
  <2>5. ASSUME NEW x \in DOMAIN order'
        PROVE  /\ IsNext(At(LevelOf(x))', x, order'[x].next)
               /\ IsPrev(At(LevelOf(x))', x, order'[x].prev)
    <3>1. CASE x = m
      <4>1. At(LevelOf(x))' = S \cup {m}
        BY <1>8, <1>9, <3>1
      <4>2. QED
        BY <1>7, <2>3, <3>1, <4>1
    <3>2. CASE x # m /\ LevelOf(x) = L
      <4>1. x \in DOMAIN order /\ x \in S /\ At(LevelOf(x))' = S \cup {m}
        BY <1>7, <1>8, <1>9, <3>2 DEF At
      <4>2. known
        BY <1>4, <4>1
      <4>3. /\ IsNext(S, x, order[x].next) /\ IsPrev(S, x, order[x].prev)
            /\ order[x].next \in Nat /\ order[x].prev \in Nat
        BY <3>2, <4>1 DEF QueueOrder, BookTypeOK, Pointer
      <4>4. /\ IsNext(S \cup {m}, x, IF x = t THEN m ELSE order[x].next)
            /\ IsPrev(S \cup {m}, x, order[x].prev)
        BY <1>2, <1>3, <1>5, <2>1, <4>1, <4>2, <4>3, AppendNeighbours
      <4>5. QED
        BY <1>7, <4>1, <4>4
    <3>3. CASE x # m /\ LevelOf(x) # L
      <4>1. x \in DOMAIN order /\ At(LevelOf(x))' = At(LevelOf(x))
        BY <1>7, <1>8, <1>9, <3>3
      <4>2. x # t
        BY <1>2, <1>3, <1>4, <3>3, <4>1 DEF At
      <4>3. QED
        BY <1>7, <4>1, <4>2 DEF QueueOrder
    <3>4. QED
      BY <3>1, <3>2, <3>3
  <2>6. QED
    BY <2>2, <2>4, <2>5 DEF QueueOrder
<1>13. LevelCounts'
  <2>1. IsFiniteSet(S)
    BY AddressesAtLevel
  <2>2. m \notin S
    BY <1>2 DEF At
  <2>3. Cardinality(S \cup {m}) = Cardinality(S) + 1 /\ Cardinality(S) \in Nat
    BY <2>1, <2>2, FS_AddElement, FS_CardinalityType
  <2>4. ~known => Cardinality(S) = 0
    BY <1>4, FS_EmptySet
  <2>5. limit'[L].count = Cardinality(S \cup {m}) /\ limit'[L].count > 0
    BY <1>10, <2>3, <2>4 DEF LevelCounts
  <2>6. ASSUME NEW K \in DOMAIN limit'
        PROVE  limit'[K].count = Cardinality(At(K)') /\ limit'[K].count > 0
    <3>1. CASE K = L
      BY <1>9, <2>5, <3>1
    <3>2. CASE K # L
      BY <1>9, <1>10, <3>2 DEF LevelCounts
    <3>3. QED
      BY <3>1, <3>2
  <2>7. \A x \in DOMAIN order' : order'[x].volume > 0
    BY <1>1, <1>7 DEF LevelCounts
  <2>8. QED
    BY <2>6, <2>7 DEF LevelCounts
<1>14. NotCrossed'
  <2> SUFFICES ASSUME NEW p \in Prices, NEW q \in Prices,
                      <<Sell, p>> \in DOMAIN limit', <<Buy, q>> \in DOMAIN limit'
               PROVE  p > q
    BY DEF NotCrossed
  <2>1. \A r \in Prices : <<Opposite(taker.side), r>> \in DOMAIN limit => ~Crosses(r)
    BY DEF RestRemainder
  <2>2. p \in Int /\ q \in Int
    BY PricesAssumption
  <2>3. CASE taker.side = Sell
    <3>1. <<Buy, q>> \in DOMAIN limit /\ ~(q >= taker.price)
      BY <1>10, <2>1, <2>3 DEF Opposite, Crosses, Sell, Buy
    <3>2. CASE p = taker.price
      BY <1>1, <2>2, <3>1, <3>2, PricesAssumption
    <3>3. CASE p # taker.price
      BY <1>10, <3>1, <3>3 DEF NotCrossed
    <3>4. QED
      BY <3>2, <3>3
  <2>4. CASE taker.side = Buy
    <3>1. <<Sell, p>> \in DOMAIN limit /\ ~(p <= taker.price)
      BY <1>10, <2>1, <2>4 DEF Opposite, Crosses, Sell, Buy
    <3>2. CASE q = taker.price
      BY <1>1, <2>2, <3>1, <3>2, PricesAssumption
    <3>3. CASE q # taker.price
      BY <1>10, <3>1, <3>3 DEF NotCrossed
    <3>4. QED
      BY <3>2, <3>3
  <2>5. QED
    BY <1>1, <2>3, <2>4 DEF Sides
<1>15. IndexSound'
  BY <1>2, <1>7 DEF IndexSound, RestRemainder, Remember, Assign
<1>16. QED
  BY <1>11, <1>12, <1>13, <1>14, <1>15

\* A partial fill shrinks the head of its level by what the taker wants.
LEMMA FillPartialResizes ==
  ASSUME BookInv, CallTypeOK, NEW p \in Prices, FillPartial(p)
  PROVE  LET a == limit[<<Opposite(taker.side), p>>].head
             n == order[a].volume - taker.volume
         IN  a \in DOMAIN order /\ n \in Int /\ n > 0 /\ Resized(a, n)
<1> DEFINE L == <<Opposite(taker.side), p>>
           a == limit[L].head
           n == order[a].volume - taker.volume
<1>1. L \in DOMAIN limit
  BY DEF FillPartial, Matching, Best
<1>2. a \in DOMAIN order /\ LevelOf(a) = L
  BY <1>1, HeadOfLevel
<1>3. order[a].volume \in Int /\ taker.volume \in Int /\ limit[L].totalVolume \in Int
  BY <1>1, <1>2 DEF BookInv, BookTypeOK, CallTypeOK, FillPartial, Matching, Idle
<1>4. n \in Int /\ n > 0 /\ order[a].volume - n = taker.volume
  BY <1>3 DEF FillPartial
<1>5. /\ order' = [order EXCEPT ![a].volume = n]
      /\ limit' = [limit EXCEPT ![L].totalVolume = @ - taker.volume]
      /\ UNCHANGED <<global_map, allocated>>
  BY DEF FillPartial
<1>6. QED
  BY <1>2, <1>4, <1>5 DEF Resized

\* A modify that is not rejected gives the order of that id a smaller, positive volume.
LEMMA ModifyResizes ==
  ASSUME BookInv, NEW id \in Ids, NEW n \in Volumes, ModifyReduced(id, n)
  PROVE  /\ global_map[id] \in DOMAIN order
         /\ n \in Int /\ n > 0
         /\ Resized(global_map[id], n)
BY VolumesAssumption
   DEF BookInv, IndexSound, ModifyReduced, LevelsReduced, Reducible, Resized, LevelOf

-----------------------------------------------------------------------------
(* The invariant of the whole component and its consequences.              *)

Inv == BookInv /\ CallTypeOK

\* The book begins empty.
LEMMA InitInv == Init => Inv
<1> SUFFICES ASSUME Init
             PROVE  Inv
  OBVIOUS
<1>1. DOMAIN order = {} /\ DOMAIN limit = {} /\ DOMAIN global_map = {}
  BY DEF Init, NoEntries
<1>2. BookTypeOK
  BY <1>1 DEF Init, BookTypeOK, NoEntries
<1>3. QueueOrder /\ LevelCounts /\ NotCrossed /\ IndexSound
  BY <1>1 DEF QueueOrder, LevelCounts, NotCrossed, IndexSound
<1>4. CallTypeOK
  BY DEF Init, CallTypeOK
<1>5. QED
  BY <1>2, <1>3, <1>4 DEF Inv, BookInv

\* A call that touches nothing of the book keeps it well formed.
LEMMA BookUnchanged ==
  ASSUME BookInv, UNCHANGED book
  PROVE  BookInv'
BY DEF book, BookInv, BookTypeOK, QueueOrder, LevelCounts, NotCrossed, IndexSound, At, LevelOf

\* Every turn of match, every cancel and every modify keeps the book well formed.
LEMMA BookInvStep ==
  ASSUME Inv, [Next]_vars
  PROVE  BookInv'
<1> USE DEF Inv
<1>1. ASSUME NEW id \in Ids, NEW p \in Prices, NEW v \in Volumes, NEW s \in Sides,
             PlaceOrder(id, p, v, s)
      PROVE  BookInv'
  BY <1>1, BookUnchanged DEF PlaceOrder
<1>2. ASSUME NEW p \in Prices, FillPartial(p)
      PROVE  BookInv'
  BY <1>2, FillPartialResizes, ResizePreserves
<1>3. ASSUME NEW p \in Prices, FillWhole(p)
      PROVE  BookInv'
  BY <1>3, FillWholeUnlinks, UnlinkPreserves
<1>4. CASE RestRemainder
  BY <1>4, RestPreserves
<1>5. CASE ReturnFilled
  BY <1>5, BookUnchanged DEF ReturnFilled
<1>6. ASSUME NEW id \in Ids, CancelUnknown(id)
      PROVE  BookInv'
  BY <1>6, BookUnchanged DEF CancelUnknown
<1>7. ASSUME NEW id \in Ids, CancelResting(id)
      PROVE  BookInv'
  BY <1>7, CancelUnlinks, UnlinkPreserves
<1>8. ASSUME NEW id \in Ids, NEW n \in Volumes, ModifyRejected(id, n)
      PROVE  BookInv'
  BY <1>8, BookUnchanged DEF ModifyRejected
<1>9. ASSUME NEW id \in Ids, NEW n \in Volumes, ModifyReduced(id, n)
      PROVE  BookInv'
  BY <1>9, ModifyResizes, ResizePreserves
<1>10. CASE UNCHANGED vars
  BY <1>10, BookUnchanged DEF vars, book
<1>11. QED
  BY <1>1, <1>2, <1>3, <1>4, <1>5, <1>6, <1>7, <1>8, <1>9, <1>10 DEF Next, MatchStep

\* What a fill adds to the answer has the type of a trade.
LEMMA FillAnswer ==
  ASSUME Inv, NEW p \in Prices, FillPartial(p) \/ FillWhole(p)
  PROVE  CallTypeOK'
<1> DEFINE L == <<Opposite(taker.side), p>>
           a == limit[L].head
<1>1. L \in DOMAIN limit
  BY DEF FillPartial, FillWhole, Matching, Best
<1>2. a \in DOMAIN order
  BY <1>1, HeadOfLevel DEF Inv
<1>3. /\ order[a].price \in Prices /\ order[a].volume \in Int
      /\ taker \in [orderID : Ids, price : Prices, volume : Int, side : Sides]
      /\ taker.volume \in Int
  BY <1>2 DEF Inv, BookInv, BookTypeOK, CallTypeOK, FillPartial, FillWhole, Matching, Idle
<1>4. ASSUME NEW q \in Int
      PROVE  Append(res.trades, [price |-> order[a].price, volume |-> q])
               \in Seq([price : Prices, volume : Int])
  BY <1>3 DEF Inv, CallTypeOK
<1>5. CASE FillPartial(p)
  <2> DEFINE t == Append(res.trades, [price |-> order[a].price, volume |-> taker.volume])
  <2>1. t \in Seq([price : Prices, volume : Int])
    BY <1>3, <1>4
  <2>2. res' = [res EXCEPT !.fulfilled = TRUE, !.remainingQty = 0, !.trades = t]
    BY <1>5 DEF FillPartial
  <2> HIDE DEF t
  <2>3. res' \in [orderID : Ids \cup {NoId}, fulfilled : BOOLEAN, remainingQty : Int,
                 trades : Seq([price : Prices, volume : Int])]
    <3>1. res \in [orderID : Ids \cup {NoId}, fulfilled : BOOLEAN, remainingQty : Int,
                  trades : Seq([price : Prices, volume : Int])]
      BY DEF Inv, CallTypeOK
    <3>2. ASSUME NEW f \in BOOLEAN, NEW r \in Int,
                 res' = [res EXCEPT !.fulfilled = f, !.remainingQty = r, !.trades = t]
          PROVE  res' \in [orderID : Ids \cup {NoId}, fulfilled : BOOLEAN, remainingQty : Int,
                          trades : Seq([price : Prices, volume : Int])]
      BY <2>1, <3>1, <3>2
    <3>3. TRUE \in BOOLEAN /\ 0 \in Int
      OBVIOUS
    <3>4. QED
      BY <2>2, <3>2, <3>3, Zenon
  <2>4. taker' = NoTaker /\ UNCHANGED <<ok, asked, usedIds, placed>>
    BY <1>5 DEF FillPartial, history
  <2>5. QED
    BY <2>3, <2>4 DEF Inv, CallTypeOK
<1>6. CASE FillWhole(p)
  <2> DEFINE t == Append(res.trades, [price |-> order[a].price, volume |-> order[a].volume])
             r == res.remainingQty - order[a].volume
  <2>1. t \in Seq([price : Prices, volume : Int]) /\ r \in Int
    BY <1>3, <1>4 DEF Inv, CallTypeOK
  <2>2. res' = [res EXCEPT !.remainingQty = r, !.trades = t]
    BY <1>6 DEF FillWhole
  <2>3. taker' \in [orderID : Ids, price : Prices, volume : Int, side : Sides]
    BY <1>3, <1>6 DEF FillWhole
  <2> HIDE DEF t, r
  <2>4. res' \in [orderID : Ids \cup {NoId}, fulfilled : BOOLEAN, remainingQty : Int,
                 trades : Seq([price : Prices, volume : Int])]
    BY <2>1, <2>2 DEF Inv, CallTypeOK
  <2>5. QED
    BY <1>6, <2>3, <2>4 DEF Inv, CallTypeOK, FillWhole, history
<1>7. QED
  BY <1>5, <1>6

\* Every step keeps the types of the arguments and of the answers.
LEMMA CallTypeStep ==
  ASSUME Inv, [Next]_vars
  PROVE  CallTypeOK'
<1> USE DEF Inv
<1>1. ASSUME NEW id \in Ids, NEW p \in Prices, NEW v \in Volumes, NEW s \in Sides,
             PlaceOrder(id, p, v, s)
      PROVE  CallTypeOK'
  BY <1>1, VolumesAssumption DEF PlaceOrder, CallTypeOK
<1>2. ASSUME NEW p \in Prices, FillPartial(p) \/ FillWhole(p)
      PROVE  CallTypeOK'
  BY <1>2, FillAnswer
<1>3. CASE RestRemainder
  BY <1>3 DEF RestRemainder, CallTypeOK, history
<1>4. CASE ReturnFilled
  BY <1>4 DEF ReturnFilled, CallTypeOK, history
<1>5. ASSUME NEW id \in Ids, CancelUnknown(id) \/ CancelResting(id)
      PROVE  CallTypeOK'
  BY <1>5 DEF CancelUnknown, CancelResting, CallTypeOK, history
<1>6. ASSUME NEW id \in Ids, NEW n \in Volumes, ModifyRejected(id, n) \/ ModifyReduced(id, n)
      PROVE  CallTypeOK'
  BY <1>6 DEF ModifyRejected, ModifyReduced, CallTypeOK, history
<1>7. CASE UNCHANGED vars
  BY <1>7 DEF vars, CallTypeOK
<1>8. QED
  BY <1>1, <1>2, <1>3, <1>4, <1>5, <1>6, <1>7 DEF Next, MatchStep

\* The book is well formed (its lists, counts, prices and index agree) in every
\* state of any sequence of placeOrder, cancel and modify.
THEOREM InvHolds == Spec => []Inv
<1>1. Inv /\ [Next]_vars => Inv'
  BY BookInvStep, CallTypeStep DEF Inv
<1>2. QED
  BY InitInv, <1>1, PTL DEF Spec

\* Every variable keeps its type.
THEOREM TypeCorrect == Spec => []TypeOK
<1>1. Inv => TypeOK
  BY DEF Inv, BookInv, TypeOK
<1>2. QED
  BY InvHolds, <1>1, PTL

\* Every level of the book is one doubly linked list in order of arrival.
THEOREM QueuesInOrder == Spec => []QueueOrder
<1>1. Inv => QueueOrder
  BY DEF Inv, BookInv
<1>2. QED
  BY InvHolds, <1>1, PTL

\* Every level counts its orders, and no level and no order is empty.
THEOREM LevelsCount == Spec => []LevelCounts
<1>1. Inv => LevelCounts
  BY DEF Inv, BookInv
<1>2. QED
  BY InvHolds, <1>1, PTL

\* The book never holds a buyer and a seller who would trade with one another.
THEOREM BookNeverCrossed == Spec => []NotCrossed
<1>1. Inv => NotCrossed
  BY DEF Inv, BookInv
<1>2. QED
  BY InvHolds, <1>1, PTL

\* The index never leads to freed memory or to an order of another id, whether
\* or not ids are used twice.
THEOREM IndexIsSound == Spec => []IndexSound
<1>1. Inv => IndexSound
  BY DEF Inv, BookInv
<1>2. QED
  BY InvHolds, <1>1, PTL

-----------------------------------------------------------------------------
(* The volume of a level, as the sum over its orders.                      *)

\* The volumes of the orders of a level.
VolumesAt(L) == [a \in At(L) |-> order[a].volume]

LEMMA VolumesAtType ==
  ASSUME BookTypeOK, NEW L
  PROVE  IsFiniteSet(At(L)) /\ VolumesAt(L) \in [At(L) -> Int]
<1>1. IsFiniteSet(At(L))
  BY AddressesAtLevel
<1>2. \A a \in At(L) : order[a].volume \in Int
  BY DEF At, BookTypeOK
<1>3. QED
  BY <1>1, <1>2 DEF VolumesAt

\* A level loses exactly the volume of the order that is taken out of it.
LEMMA UnlinkVolumes ==
  ASSUME BookInv, LevelVolumes, NEW a \in DOMAIN order, Unlinked(a)
  PROVE  LevelVolumes'
<1> DEFINE L == LevelOf(a)
<1> USE DEF BookInv
<1>1. /\ DOMAIN order' = DOMAIN order \ {a}
      /\ \A x \in DOMAIN order' : /\ order'[x].volume = order[x].volume
                                  /\ LevelOf(x)' = LevelOf(x)
  BY DEF Unlinked, BookTypeOK, LevelOf
<1>2. \A K : At(K)' = At(K) \ {a}
  BY <1>1 DEF At
<1>3. L \in DOMAIN limit /\ a \in At(L)
  BY DEF QueueOrder, At
<1>4. \A K \in DOMAIN limit' :
        /\ K \in DOMAIN limit
        /\ limit'[K].totalVolume = IF K = L THEN limit[L].totalVolume - order[a].volume
                                            ELSE limit[K].totalVolume
  <2>1. CASE limit[L].count - 1 = 0
    <3>1. limit' = EraseKey(limit, L)
      BY <2>1 DEF Unlinked
    <3>2. QED
      BY <3>1 DEF EraseKey, Restrict
  <2>2. CASE limit[L].count - 1 # 0
    <3>1. limit' = [limit EXCEPT ![L] =
                      [head |-> IF @.head = a THEN order[a].next ELSE @.head,
                       tail |-> IF @.tail = a THEN order[a].prev ELSE @.tail,
                       count |-> @.count - 1,
                       totalVolume |-> @.totalVolume - order[a].volume]]
      BY <2>2 DEF Unlinked
    <3>2. QED
      BY <1>3, <3>1
  <2>3. QED
    BY <2>1, <2>2
<1>5. ASSUME NEW K \in DOMAIN limit'
      PROVE  limit'[K].totalVolume = SumFunction(VolumesAt(K)')
  <2>1. limit[K].totalVolume = SumFunction(VolumesAt(K))
    BY <1>4 DEF LevelVolumes, VolumesAt
  <2>2. CASE K = L
    <3> DEFINE fun == VolumesAt(K)
               gun == VolumesAt(K)'
               S == At(K)
    <3>1. IsFiniteSet(S) /\ fun \in [S -> Int] /\ a \in S
      BY <1>3, <2>2, VolumesAtType
    <3>2. gun = Without(fun, a) /\ fun[a] = order[a].volume
      <4>1. /\ gun = [x \in S \ {a} |-> order'[x].volume]
            /\ fun = [x \in S |-> order[x].volume]
        BY <1>2 DEF VolumesAt
      <4>2. \A x \in S \ {a} : order'[x].volume = order[x].volume
        BY <1>1 DEF At
      <4> HIDE DEF fun, gun, S
      <4>3. QED
        BY <3>1, <4>1, <4>2 DEF Without, Restrict
    <3> HIDE DEF fun, gun, S
    <3>3. /\ fun[a] \in Int /\ SumFunction(gun) \in Int
          /\ SumFunction(fun) = fun[a] + SumFunction(gun)
      BY <3>1, <3>2, SumSplit
    <3> USE DEF fun, gun
    <3>4. QED
      BY <1>4, <2>1, <2>2, <3>2, <3>3
  <2>3. CASE K # L
    <3>1. At(K)' = At(K)
      BY <1>2, <2>3 DEF At
    <3>2. VolumesAt(K)' = VolumesAt(K)
      BY <1>1, <1>2, <3>1 DEF VolumesAt, At
    <3>3. QED
      BY <1>4, <2>1, <2>3, <3>2
  <2>4. QED
    BY <2>2, <2>3
<1>6. QED
  BY <1>5 DEF LevelVolumes, VolumesAt

\* A level loses exactly what one of its orders loses.
LEMMA ResizeVolumes ==
  ASSUME BookInv, LevelVolumes, NEW a \in DOMAIN order, NEW n \in Int, Resized(a, n)
  PROVE  LevelVolumes'
<1> DEFINE L == LevelOf(a)
<1> USE DEF BookInv
<1>1. /\ DOMAIN order' = DOMAIN order
      /\ \A x \in DOMAIN order :
           /\ order'[x].volume = IF x = a THEN n ELSE order[x].volume
           /\ LevelOf(x)' = LevelOf(x)
  BY DEF Resized, BookTypeOK, LevelOf
<1>2. \A K : At(K)' = At(K)
  BY <1>1 DEF At
<1>3. L \in DOMAIN limit /\ a \in At(L)
  BY DEF QueueOrder, At
<1>4. \A K \in DOMAIN limit' :
        /\ K \in DOMAIN limit
        /\ limit'[K].totalVolume = IF K = L THEN limit[L].totalVolume - (order[a].volume - n)
                                            ELSE limit[K].totalVolume
  BY <1>3 DEF Resized, BookTypeOK
<1>5. ASSUME NEW K \in DOMAIN limit'
      PROVE  limit'[K].totalVolume = SumFunction(VolumesAt(K)')
  <2>1. limit[K].totalVolume = SumFunction(VolumesAt(K))
    BY <1>4 DEF LevelVolumes, VolumesAt
  <2>2. CASE K = L
    <3> DEFINE fun == VolumesAt(K)
               gun == VolumesAt(K)'
               S == At(K)
    <3>1. IsFiniteSet(S) /\ fun \in [S -> Int] /\ a \in S /\ order[a].volume \in Int
      BY <1>3, <2>2, VolumesAtType DEF BookTypeOK
    <3>2. /\ fun = [x \in S |-> order[x].volume]
          /\ gun = [x \in S |-> order'[x].volume]
      BY <1>2 DEF VolumesAt
    <3>3. \A x \in S : /\ order'[x].volume = IF x = a THEN n ELSE order[x].volume
                       /\ order[x].volume \in Int
      BY <1>1 DEF At, BookTypeOK
    <3> HIDE DEF fun, gun, S
    <3>4. /\ Without(gun, a) = Without(fun, a)
          /\ gun \in [S -> Int]
          /\ fun[a] = order[a].volume /\ gun[a] = n
      BY <3>1, <3>2, <3>3 DEF Without, Restrict
    <3> DEFINE w == SumFunction(Without(fun, a))
    <3>5. SumFunction(fun) = fun[a] + w /\ w \in Int
      BY <3>1, SumSplit
    <3>6. SumFunction(gun) = gun[a] + w
      BY <3>1, <3>4, SumSplit
    <3> HIDE DEF w
    <3> USE DEF fun, gun
    <3>7. limit'[K].totalVolume = SumFunction(fun) - (order[a].volume - n)
      BY <1>4, <2>1, <2>2
    <3> HIDE DEF fun
    <3>8. QED
      BY <2>2, <3>1, <3>4, <3>5, <3>6, <3>7
  <2>3. CASE K # L
    <3>1. \A x \in At(K) : x # a
      BY <2>3 DEF At
    <3>2. VolumesAt(K)' = VolumesAt(K)
      BY <1>1, <1>2, <3>1 DEF VolumesAt, At
    <3>3. QED
      BY <1>4, <2>1, <2>3, <3>2
  <2>4. QED
    BY <2>2, <2>3
<1>6. QED
  BY <1>5 DEF LevelVolumes, VolumesAt

\* A level gains exactly what comes to rest in it; a new one begins with it.
LEMMA RestVolumes ==
  ASSUME BookInv, CallTypeOK, LevelVolumes, RestRemainder
  PROVE  LevelVolumes'
<1> SUFFICES ASSUME NEW L, L = <<taker.side, taker.price>>,
                    NEW m, m = allocated + 1
             PROVE  LevelVolumes'
  OBVIOUS
<1> DEFINE known == L \in DOMAIN limit
           v == taker.volume
<1> USE DEF BookInv
<1>1. v \in Int
  BY DEF RestRemainder, CallTypeOK, Idle
<1>2. m \notin DOMAIN order
  BY DEF BookTypeOK
<1>3. /\ DOMAIN order' = DOMAIN order \cup {m}
      /\ LevelOf(m)' = L /\ order'[m].volume = v
      /\ \A x \in DOMAIN order : /\ order'[x].volume = order[x].volume
                                 /\ LevelOf(x)' = LevelOf(x)
  BY <1>2 DEF RestRemainder, BookTypeOK, LevelOf
<1>4. At(L)' = At(L) \cup {m} /\ \A K : K # L => At(K)' = At(K)
  BY <1>2, <1>3 DEF At
<1>5. \A K \in DOMAIN limit' :
        /\ K # L => K \in DOMAIN limit /\ limit'[K].totalVolume = limit[K].totalVolume
        /\ K = L => limit'[K].totalVolume = IF known THEN limit[L].totalVolume + v ELSE v
  BY DEF RestRemainder, Assign
<1>6. ASSUME NEW K \in DOMAIN limit'
      PROVE  limit'[K].totalVolume = SumFunction(VolumesAt(K)')
  <2>1. CASE K = L
    <3> DEFINE fun == VolumesAt(L)
               gun == VolumesAt(L)'
               S == At(L)
               T == S \cup {m}
    <3>1. IsFiniteSet(S) /\ fun \in [S -> Int] /\ m \notin S
      BY <1>2, VolumesAtType DEF At
    <3>2. /\ gun = [x \in T |-> order'[x].volume]
          /\ fun = [x \in S |-> order[x].volume]
      BY <1>4 DEF VolumesAt
    <3>3. \A x \in S : order'[x].volume = order[x].volume /\ order[x].volume \in Int
      BY <1>3 DEF At, BookTypeOK
    <3>4. ~known => DOMAIN fun = {}
      BY <3>2 DEF QueueOrder, At
    <3>5. known => limit[L].totalVolume = SumFunction(fun)
      BY DEF LevelVolumes, VolumesAt
    <3>6. ~known => SumFunction(fun) = 0
      BY <3>4, SumOfNone
    <3> HIDE DEF fun, gun, S
    <3>7. /\ T \ {m} = S /\ IsFiniteSet(T) /\ m \in T
          /\ gun \in [T -> Int] /\ gun[m] = v
          /\ fun = Without(gun, m)
      BY <1>1, <1>3, <3>1, <3>2, <3>3, FS_AddElement DEF Without, Restrict
    <3> HIDE DEF T
    <3>8. /\ SumFunction(gun) = gun[m] + SumFunction(fun)
          /\ SumFunction(fun) \in Int
      BY <3>7, SumSplit
    <3>10. limit'[K].totalVolume = v + SumFunction(fun)
      BY <1>1, <1>5, <2>1, <3>5, <3>6, <3>8
    <3> USE DEF gun
    <3>11. QED
      BY <2>1, <3>7, <3>8, <3>10
  <2>2. CASE K # L
    <3>1. VolumesAt(K)' = VolumesAt(K)
      BY <1>3, <1>4, <2>2 DEF VolumesAt, At
    <3>2. limit'[K].totalVolume = limit[K].totalVolume /\ K \in DOMAIN limit
      BY <1>5, <2>2
    <3>3. QED
      BY <3>1, <3>2 DEF LevelVolumes, VolumesAt
  <2>3. QED
    BY <2>1, <2>2
<1>7. QED
  BY <1>6 DEF LevelVolumes, VolumesAt

\* Every turn of match, every cancel and every modify keeps the levels' volumes right.
LEMMA LevelVolumesStep ==
  ASSUME Inv, LevelVolumes, [Next]_vars
  PROVE  LevelVolumes'
<1> USE DEF Inv
<1>1. ASSUME NEW p \in Prices, FillPartial(p)
      PROVE  LevelVolumes'
  BY <1>1, FillPartialResizes, ResizeVolumes
<1>2. ASSUME NEW p \in Prices, FillWhole(p)
      PROVE  LevelVolumes'
  BY <1>2, FillWholeUnlinks, UnlinkVolumes
<1>3. CASE RestRemainder
  BY <1>3, RestVolumes
<1>4. ASSUME NEW id \in Ids, CancelResting(id)
      PROVE  LevelVolumes'
  BY <1>4, CancelUnlinks, UnlinkVolumes
<1>5. ASSUME NEW id \in Ids, NEW n \in Volumes, ModifyReduced(id, n)
      PROVE  LevelVolumes'
  BY <1>5, ModifyResizes, ResizeVolumes
<1>6. ASSUME UNCHANGED book
      PROVE  LevelVolumes'
  BY <1>6 DEF book, LevelVolumes, At, LevelOf
<1>7. ASSUME NEW id \in Ids, NEW p \in Prices, NEW v \in Volumes, NEW s \in Sides,
             PlaceOrder(id, p, v, s)
      PROVE  LevelVolumes'
  BY <1>6, <1>7 DEF PlaceOrder
<1>8. ASSUME NEW id \in Ids, \/ CancelUnknown(id)
                             \/ \E n \in Volumes : ModifyRejected(id, n)
      PROVE  LevelVolumes'
  BY <1>6, <1>8 DEF CancelUnknown, ModifyRejected
<1>9. CASE ReturnFilled \/ UNCHANGED vars
  BY <1>6, <1>9 DEF ReturnFilled, vars, book
<1>10. QED
  BY <1>1, <1>2, <1>3, <1>4, <1>5, <1>7, <1>8, <1>9 DEF Next, MatchStep

\* A level's totalVolume is always the sum of the volumes of its orders.
THEOREM LevelsHoldTheirVolume == Spec => []LevelVolumes
<1>1. Init => LevelVolumes
  BY DEF Init, LevelVolumes, NoEntries
<1>2. Inv /\ LevelVolumes /\ [Next]_vars => LevelVolumes'
  BY LevelVolumesStep
<1>3. QED
  BY InvHolds, <1>1, <1>2, PTL DEF Spec

-----------------------------------------------------------------------------
(* The answer and the volume that was asked for.                           *)

TradeSeq == Seq([price : Prices, volume : Int])
\* While an order is matched, its answer is not fulfilled yet.
AnswerInv == Accounted /\ (~Idle => ~res.fulfilled)

\* Every fill moves volume from what remains to the trades, and the answer says
\* fulfilled only when nothing is left.
LEMMA AnswerStep ==
  ASSUME Inv, AnswerInv, [Next]_vars
  PROVE  AnswerInv'
<1> DEFINE R == [orderID : Ids \cup {NoId}, fulfilled : BOOLEAN, remainingQty : Int,
                 trades : TradeSeq]
<1>1. /\ res \in R /\ asked \in Int
      /\ res.trades \in TradeSeq /\ res.remainingQty \in Int
      /\ ~Idle => taker.volume \in Int /\ taker.orderID # NoId
  BY IdsAssumption DEF Inv, CallTypeOK, TradeSeq, Idle
<1>2. asked = res.remainingQty + SumFunction(VolumesOf(res.trades))
  BY DEF AnswerInv, Accounted, VolumesOf
<1>3. ASSUME asked' = res'.remainingQty + SumFunction(VolumesOf(res'.trades)),
             Idle' => (res'.fulfilled <=> res'.remainingQty <= 0),
             ~Idle' => taker'.volume = res'.remainingQty /\ ~res'.fulfilled
      PROVE  AnswerInv'
  BY <1>3 DEF AnswerInv, Accounted, VolumesOf
<1>4. ASSUME NEW id \in Ids, NEW p \in Prices, NEW v \in Volumes, NEW s \in Sides,
             PlaceOrder(id, p, v, s)
      PROVE  AnswerInv'
  <2>1. /\ taker' = [orderID |-> id, price |-> p, volume |-> v, side |-> s]
        /\ res' = [orderID |-> id, fulfilled |-> FALSE, remainingQty |-> v, trades |-> <<>>]
        /\ asked' = v
    BY <1>4 DEF PlaceOrder
  <2>2. ~Idle'
    BY <2>1, IdsAssumption DEF Idle, NoTaker
  <2>3. SumFunction(VolumesOf(<<>>)) = 0
    BY SumOfEmpty
  <2>4. v + 0 = v
    BY VolumesAssumption
  <2>5. QED
    BY <1>3, <2>1, <2>2, <2>3, <2>4
<1>5. ASSUME NEW p \in Prices, FillPartial(p) \/ FillWhole(p)
      PROVE  AnswerInv'
  <2> DEFINE L == <<Opposite(taker.side), p>>
             a == limit[L].head
  <2>1. a \in DOMAIN order
    BY <1>5, HeadOfLevel DEF Inv, FillPartial, FillWhole, Matching, Best
  <2>2. order[a].price \in Prices /\ order[a].volume \in Int
    BY <2>1 DEF Inv, BookInv, BookTypeOK
  <2>3. ~Idle /\ taker.volume = res.remainingQty /\ ~res.fulfilled
    BY <1>5 DEF FillPartial, FillWhole, Matching, AnswerInv, Accounted
  <2>4. asked' = asked
    BY <1>5 DEF FillPartial, FillWhole, history
  <2>5. ASSUME NEW q \in Int, NEW e, e = [price |-> order[a].price, volume |-> q]
        PROVE  /\ SumFunction(VolumesOf(Append(res.trades, e)))
                    = SumFunction(VolumesOf(res.trades)) + q
               /\ SumFunction(VolumesOf(res.trades)) \in Int
    <3>1. e \in [price : Prices, volume : Int] /\ e.volume = q
      BY <2>2, <2>5
    <3>2. \A x \in [price : Prices, volume : Int] : x.volume \in Int
      OBVIOUS
    <3>3. QED
      BY <1>1, <3>1, <3>2, SumOfAppend DEF TradeSeq
  <2> DEFINE old == SumFunction(VolumesOf(res.trades))
             new == SumFunction(VolumesOf(res'.trades))
  <2>6. CASE FillPartial(p)
    <3>1. /\ res'.fulfilled = TRUE /\ res'.remainingQty = 0
          /\ res'.trades = Append(res.trades, [price |-> order[a].price, volume |-> taker.volume])
          /\ taker' = NoTaker
      BY <1>1, <2>6 DEF FillPartial
    <3>2. new = old + taker.volume /\ old \in Int
      BY <1>1, <2>3, <2>5, <3>1
    <3> HIDE DEF old, new
    <3>3. asked' = res'.remainingQty + new
      BY <1>1, <1>2, <2>3, <2>4, <3>1, <3>2 DEF old
    <3>4. Idle'
      BY <3>1 DEF Idle
    <3>5. QED
      BY <1>3, <3>1, <3>3, <3>4 DEF new
  <2>7. CASE FillWhole(p)
    <3>1. /\ res'.fulfilled = res.fulfilled
          /\ res'.remainingQty = res.remainingQty - order[a].volume
          /\ res'.trades = Append(res.trades, [price |-> order[a].price,
                                               volume |-> order[a].volume])
      BY <1>1, <2>7 DEF FillWhole
    <3>2. taker'.volume = taker.volume - order[a].volume /\ ~Idle'
      <4>1. taker \in [orderID : Ids, price : Prices, volume : Int, side : Sides]
        BY <2>3 DEF Inv, CallTypeOK, Idle
      <4>2. taker' = [taker EXCEPT !.volume = @ - order[a].volume]
        BY <2>7 DEF FillWhole
      <4>3. QED
        BY <4>1, <4>2, IdsAssumption DEF Idle, NoTaker
    <3>3. new = old + order[a].volume /\ old \in Int
      BY <2>2, <2>5, <3>1
    <3> HIDE DEF old, new
    <3>4. asked' = res'.remainingQty + new
      BY <1>1, <1>2, <2>2, <2>4, <3>1, <3>3 DEF old
    <3>5. QED
      BY <1>3, <2>3, <3>1, <3>2, <3>4 DEF new
  <2>8. QED
    BY <1>5, <2>6, <2>7
<1>6. CASE RestRemainder
  <2>1. ~Idle /\ taker.volume > 0 /\ Idle' /\ res' = res /\ asked' = asked
    BY <1>6 DEF RestRemainder, Idle, history
  <2>2. ~res.fulfilled /\ ~(res.remainingQty <= 0)
    BY <1>1, <2>1 DEF AnswerInv, Accounted
  <2>3. QED
    BY <1>2, <1>3, <2>1, <2>2
<1>7. CASE ReturnFilled
  <2>1. ~Idle /\ taker.volume <= 0 /\ Idle' /\ asked' = asked
    BY <1>7 DEF ReturnFilled, Idle, history
  <2>2. /\ res'.fulfilled = TRUE /\ res'.remainingQty = res.remainingQty
        /\ res'.trades = res.trades
    BY <1>1, <1>7 DEF ReturnFilled
  <2>3. res.remainingQty <= 0
    BY <2>1 DEF AnswerInv, Accounted
  <2>4. QED
    BY <1>2, <1>3, <2>1, <2>2, <2>3
<1>8. ASSUME UNCHANGED <<asked, taker, res>>
      PROVE  AnswerInv'
  BY <1>8 DEF AnswerInv, Accounted, Idle
<1>9. ASSUME NEW id \in Ids, \/ CancelUnknown(id) \/ CancelResting(id)
                             \/ \E n \in Volumes : ModifyRejected(id, n) \/ ModifyReduced(id, n)
      PROVE  AnswerInv'
  BY <1>8, <1>9 DEF CancelUnknown, CancelResting, ModifyRejected, ModifyReduced, history
<1>10. CASE UNCHANGED vars
  BY <1>8, <1>10 DEF vars
<1>11. QED
  BY <1>4, <1>5, <1>6, <1>7, <1>9, <1>10 DEF Next, MatchStep

LEMMA AnswerInvInit == Init => AnswerInv
<1> SUFFICES ASSUME Init
             PROVE  AnswerInv
  OBVIOUS
<1>1. SumFunction([i \in DOMAIN res.trades |-> res.trades[i].volume]) = 0
  BY SumOfNone DEF Init
<1>2. QED
  BY <1>1 DEF Init, AnswerInv, Accounted, Idle

\* The answer of placeOrder accounts for the whole volume of the order.
THEOREM AnswersAccount == Spec => []Accounted
<1>1. Init => AnswerInv
  BY AnswerInvInit
<1>2. Inv /\ AnswerInv /\ [Next]_vars => AnswerInv'
  BY AnswerStep
<1>3. AnswerInv => Accounted
  BY DEF AnswerInv
<1>4. QED
  BY InvHolds, <1>1, <1>2, <1>3, PTL DEF Spec

-----------------------------------------------------------------------------
(* Priority.                                                               *)

\* The head of the best level goes before every other order of its side.
LEMMA HeadGoesFirst ==
  ASSUME Inv, NEW s \in Sides, NEW p \in Prices, Best(s, p),
         NEW b \in DOMAIN order \ {limit[<<s, p>>].head}, order[b].side = s
  PROVE  Before(limit[<<s, p>>].head, b)
<1> DEFINE a == limit[<<s, p>>].head
<1>1. /\ a \in DOMAIN order /\ LevelOf(a) = <<s, p>>
      /\ \A x \in At(<<s, p>>) : a <= x
  BY HeadOfLevel DEF Inv, Best
<1>2. order[a].side = s /\ order[a].price = p
  BY <1>1 DEF LevelOf
<1>3. order[b].price \in Prices /\ a \in Int /\ b \in Int
  BY <1>1 DEF Inv, BookInv, BookTypeOK
<1>4. p \in Int /\ order[b].price \in Int
  BY <1>3, PricesAssumption
<1>5. <<s, order[b].price>> \in DOMAIN limit
  BY DEF Inv, BookInv, QueueOrder, LevelOf
<1>6. IF s = Sell THEN p <= order[b].price ELSE p >= order[b].price
  BY <1>3, <1>5 DEF Best
<1>7. CASE order[b].price = p
  <2>1. b \in At(<<s, p>>)
    BY <1>7 DEF At, LevelOf
  <2>2. a < b
    BY <1>1, <1>3, <2>1
  <2>3. QED
    BY <1>2, <1>7, <2>2 DEF Before
<1>8. CASE order[b].price # p
  BY <1>2, <1>4, <1>6, <1>8 DEF Before, Sides, Sell, Buy
<1>9. QED
  BY <1>7, <1>8

\* A step in which an order loses volume to a taker is a fill of the head of the
\* best level, which goes before all the others.
LEMMA PriorityStep ==
  ASSUME Inv, [Next]_vars
  PROVE  PriceTimePriority
<1> USE DEF Inv
<1> SUFFICES ASSUME NEW a \in DOMAIN order, ~Idle,
                    a \notin DOMAIN order' \/ order'[a].volume # order[a].volume,
                    NEW b \in DOMAIN order \ {a}, order[b].side = order[a].side
             PROVE  Before(a, b)
  BY DEF PriceTimePriority
<1>1. ASSUME NEW p \in Prices, FillPartial(p) \/ FillWhole(p)
      PROVE  Before(a, b)
  <2> DEFINE s == Opposite(taker.side)
             h == limit[<<s, p>>].head
  <2>1. s \in Sides /\ Best(s, p)
    BY <1>1 DEF FillPartial, FillWhole, Matching, Sides, Opposite
  <2>2. h \in DOMAIN order /\ order[h].side = s
    <3>1. <<s, p>> \in DOMAIN limit
      BY <2>1 DEF Best
    <3>2. QED
      BY <3>1, HeadOfLevel DEF LevelOf
  <2>3. a = h
    <3>1. CASE FillPartial(p)
      BY <2>2, <3>1 DEF FillPartial
    <3>2. CASE FillWhole(p)
      <4>1. DOMAIN order' = DOMAIN order \ {h}
        BY <3>2 DEF FillWhole
      <4>2. \A x \in DOMAIN order \ {h} : order'[x].volume = order[x].volume
        BY <3>2 DEF FillWhole, BookInv, BookTypeOK
      <4>3. QED
        BY <4>1, <4>2
    <3>3. QED
      BY <1>1, <3>1, <3>2
  <2>4. QED
    BY <2>1, <2>2, <2>3, HeadGoesFirst
<1>2. CASE RestRemainder
  <2>1. \A x \in DOMAIN order : x # allocated + 1
    BY DEF BookInv, BookTypeOK
  <2>2. DOMAIN order \subseteq DOMAIN order'
    BY <1>2 DEF RestRemainder
  <2>3. order'[a].volume = order[a].volume
    BY <1>2, <2>1 DEF RestRemainder, BookInv, BookTypeOK
  <2>4. QED
    BY <2>2, <2>3
<1>3. CASE ReturnFilled \/ UNCHANGED vars
  BY <1>3 DEF ReturnFilled, book, vars
<1>4. QED
  BY <1>1, <1>2, <1>3
     DEF Next, MatchStep, PlaceOrder, CancelUnknown, CancelResting, ModifyRejected, ModifyReduced

\* No fill ever overtakes a better price, or an earlier order at the same price.
THEOREM FillsKeepPriority == Spec => NoFillOvertakes
<1>1. Inv /\ [Next]_vars => PriceTimePriority
  BY PriorityStep
<1>2. QED
  BY InvHolds, <1>1, PTL DEF Spec, NoFillOvertakes

-----------------------------------------------------------------------------
(* The index, when no id is used twice.                                    *)

\* Every order that rests or is being matched has its id for itself.
IdsInUse ==
  /\ \A a \in DOMAIN order : order[a].orderID \in usedIds
  /\ ~Idle => /\ taker.orderID \in usedIds
              /\ \A a \in DOMAIN order : order[a].orderID # taker.orderID

IndexInv == IndexComplete /\ IdsInUse

\* Erasing the id of the order that is taken out erases no other order from the index.
LEMMA UnlinkKeepsIndex ==
  ASSUME Inv, IndexInv, NEW a \in DOMAIN order, Unlinked(a),
         usedIds' = usedIds, taker'.orderID = taker.orderID
  PROVE  IndexComplete' /\ \A x \in DOMAIN order' : /\ x \in DOMAIN order
                                                    /\ order'[x].orderID = order[x].orderID
<1>1. /\ DOMAIN order' = DOMAIN order \ {a}
      /\ \A x \in DOMAIN order' : order'[x].orderID = order[x].orderID
  BY DEF Unlinked, Inv, BookInv, BookTypeOK
<1>2. \A x \in DOMAIN order' : order[x].orderID # order[a].orderID
  BY <1>1 DEF IndexInv, IndexComplete
<1>3. \A x \in DOMAIN order' : /\ order[x].orderID \in DOMAIN global_map'
                               /\ global_map'[order[x].orderID] = x
  BY <1>1, <1>2 DEF Unlinked, EraseKey, Restrict, IndexInv, IndexComplete
<1>4. QED
  BY <1>1, <1>3 DEF IndexComplete

\* A new volume leaves the index alone.
LEMMA ResizeKeepsIndex ==
  ASSUME Inv, IndexInv, NEW a \in DOMAIN order, NEW n \in Int, Resized(a, n)
  PROVE  IndexComplete' /\ \A x \in DOMAIN order' : /\ x \in DOMAIN order
                                                    /\ order'[x].orderID = order[x].orderID
<1>1. /\ DOMAIN order' = DOMAIN order
      /\ \A x \in DOMAIN order' : order'[x].orderID = order[x].orderID
  BY DEF Resized, Inv, BookInv, BookTypeOK
<1>2. QED
  BY <1>1 DEF Resized, IndexInv, IndexComplete

\* With an id for every order, the new entry of global_map replaces no other, so
\* the index stays complete.
LEMMA IndexInvStep ==
  ASSUME Inv, IndexInv, [Next]_vars, placed' = placed \/ usedIds' # usedIds
  PROVE  IndexInv'
<1>1. ASSUME NEW id \in Ids, NEW p \in Prices, NEW v \in Volumes, NEW s \in Sides,
             PlaceOrder(id, p, v, s)
      PROVE  IndexInv'
  <2>1. id \notin usedIds /\ usedIds' = usedIds \cup {id} /\ taker'.orderID = id
    <3>1. /\ placed' = placed + 1 /\ placed \in Nat
          /\ usedIds' = usedIds \cup {id} /\ taker'.orderID = id
      BY <1>1 DEF PlaceOrder, Inv, CallTypeOK
    <3>2. usedIds' # usedIds
      BY <3>1
    <3>3. QED
      BY <3>1, <3>2
  <2>2. UNCHANGED <<order, global_map>>
    BY <1>1 DEF PlaceOrder, book
  <2>3. QED
    BY <2>1, <2>2 DEF IndexInv, IndexComplete, IdsInUse
<1>2. ASSUME NEW p \in Prices, FillPartial(p)
      PROVE  IndexInv'
  <2>1. usedIds' = usedIds /\ Idle'
    BY <1>2 DEF FillPartial, history, Idle
  <2>2. PICK a \in DOMAIN order : \E n \in Int : Resized(a, n)
    BY <1>2, FillPartialResizes DEF Inv
  <2>3. IndexComplete' /\ \A x \in DOMAIN order' : /\ x \in DOMAIN order
                                                   /\ order'[x].orderID = order[x].orderID
    BY <2>2, ResizeKeepsIndex
  <2>4. QED
    BY <2>1, <2>3 DEF IndexInv, IdsInUse
<1>3. ASSUME NEW p \in Prices, FillWhole(p)
      PROVE  IndexInv'
  <2>1. usedIds' = usedIds /\ ~Idle
    BY <1>3 DEF FillWhole, history, Matching
  <2>2. taker'.orderID = taker.orderID
    BY <1>3, <2>1 DEF FillWhole, Idle, Inv, CallTypeOK
  <2>3. PICK a \in DOMAIN order : Unlinked(a)
    BY <1>3, FillWholeUnlinks DEF Inv
  <2>4. IndexComplete' /\ \A x \in DOMAIN order' : /\ x \in DOMAIN order
                                                   /\ order'[x].orderID = order[x].orderID
    BY <2>1, <2>2, <2>3, UnlinkKeepsIndex
  <2>5. QED
    BY <2>1, <2>2, <2>4 DEF IndexInv, IdsInUse
<1>4. CASE RestRemainder
  <2> SUFFICES ASSUME NEW m, m = allocated + 1
               PROVE  IndexInv'
    OBVIOUS
  <2>1. /\ m \notin DOMAIN order
        /\ DOMAIN order' = DOMAIN order \cup {m}
        /\ order'[m].orderID = taker.orderID
        /\ \A x \in DOMAIN order : order'[x].orderID = order[x].orderID
    BY <1>4 DEF RestRemainder, Inv, BookInv, BookTypeOK
  <2>2. /\ DOMAIN global_map' = DOMAIN global_map \cup {taker.orderID}
        /\ global_map'[taker.orderID] = m
        /\ \A id \in DOMAIN global_map \ {taker.orderID} : global_map'[id] = global_map[id]
    BY <1>4 DEF RestRemainder, Remember, Assign
  <2>3. ~Idle /\ Idle' /\ usedIds' = usedIds
    BY <1>4 DEF RestRemainder, history, Idle
  <2>4. IndexComplete'
    BY <2>1, <2>2, <2>3 DEF IndexInv, IndexComplete, IdsInUse
  <2>5. QED
    BY <2>1, <2>3, <2>4 DEF IndexInv, IdsInUse
<1>5. CASE ReturnFilled
  BY <1>5 DEF ReturnFilled, book, history, IndexInv, IndexComplete, IdsInUse, Idle
<1>6. ASSUME NEW id \in Ids, CancelResting(id)
      PROVE  IndexInv'
  <2>1. usedIds' = usedIds /\ taker' = taker
    BY <1>6 DEF CancelResting, history
  <2>2. PICK a \in DOMAIN order : Unlinked(a)
    BY <1>6, CancelUnlinks DEF Inv
  <2>3. IndexComplete' /\ \A x \in DOMAIN order' : /\ x \in DOMAIN order
                                                   /\ order'[x].orderID = order[x].orderID
    BY <2>1, <2>2, UnlinkKeepsIndex
  <2>4. QED
    BY <2>1, <2>3 DEF IndexInv, IdsInUse, Idle
<1>7. ASSUME NEW id \in Ids, NEW n \in Volumes, ModifyReduced(id, n)
      PROVE  IndexInv'
  <2>1. usedIds' = usedIds /\ taker' = taker
    BY <1>7 DEF ModifyReduced, history
  <2>2. PICK a \in DOMAIN order : \E k \in Int : Resized(a, k)
    BY <1>7, ModifyResizes DEF Inv
  <2>3. IndexComplete' /\ \A x \in DOMAIN order' : /\ x \in DOMAIN order
                                                   /\ order'[x].orderID = order[x].orderID
    BY <2>2, ResizeKeepsIndex
  <2>4. QED
    BY <2>1, <2>3 DEF IndexInv, IdsInUse, Idle
<1>8. ASSUME UNCHANGED <<order, global_map, taker, usedIds>>
      PROVE  IndexInv'
  BY <1>8 DEF IndexInv, IndexComplete, IdsInUse, Idle
<1>9. ASSUME NEW id \in Ids, \/ CancelUnknown(id)
                             \/ \E n \in Volumes : ModifyRejected(id, n)
      PROVE  IndexInv'
  BY <1>8, <1>9 DEF CancelUnknown, ModifyRejected, book, history
<1>10. CASE UNCHANGED vars
  BY <1>8, <1>10 DEF vars
<1>11. QED
  BY <1>1, <1>2, <1>3, <1>4, <1>5, <1>6, <1>7, <1>9, <1>10 DEF Next, MatchStep

\* A caller who uses every id once places no order under an id in use.
LEMMA FreshIds ==
  ASSUME ~ReuseIds, [Next]_vars
  PROVE  placed' = placed \/ usedIds' # usedIds
<1>1. ASSUME NEW id \in Ids, NEW p \in Prices, NEW v \in Volumes, NEW s \in Sides,
             PlaceOrder(id, p, v, s)
      PROVE  usedIds' # usedIds
  BY <1>1 DEF PlaceOrder
<1>2. CASE MatchStep
  BY <1>2 DEF MatchStep, FillPartial, FillWhole, RestRemainder, ReturnFilled, history
<1>3. ASSUME NEW id \in Ids, CancelUnknown(id) \/ CancelResting(id)
      PROVE  placed' = placed
  BY <1>3 DEF CancelUnknown, CancelResting, history
<1>4. ASSUME NEW id \in Ids, NEW n \in Volumes, ModifyRejected(id, n) \/ ModifyReduced(id, n)
      PROVE  placed' = placed
  BY <1>4 DEF ModifyRejected, ModifyReduced, history
<1>5. QED
  BY <1>1, <1>2, <1>3, <1>4 DEF Next, vars

LEMMA IndexInvInit == Init => IndexInv
BY DEF Init, IndexInv, IndexComplete, IdsInUse, NoEntries, Idle

\* When callers use every id once, every order that rests can be cancelled by its id.
THEOREM IndexIsComplete ==
  ASSUME ~ReuseIds
  PROVE  Spec => []IndexComplete
<1>1. Init => IndexInv
  BY IndexInvInit
<1>2. Inv /\ IndexInv /\ [Next]_vars => IndexInv'
  BY IndexInvStep, FreshIds
<1>3. IndexInv => IndexComplete
  BY DEF IndexInv
<1>4. QED
  BY InvHolds, <1>1, <1>2, <1>3, PTL DEF Spec

-----------------------------------------------------------------------------
(* What a step does to an order, for those who call the book.              *)

\* No step makes an order larger or gives it another id, and the only order that is
\* new is what remains of the one that was matched.
LEMMA OrdersShrink ==
  ASSUME Inv, [Next]_vars, NEW x \in DOMAIN order'
  PROVE  \/ /\ x \in DOMAIN order
            /\ order'[x].orderID = order[x].orderID
            /\ order'[x].volume <= order[x].volume
         \/ /\ ~Idle /\ Idle' /\ res' = res
            /\ order'[x].orderID = taker.orderID
            /\ order'[x].volume = taker.volume
<1> DEFINE Kept == /\ x \in DOMAIN order
                   /\ order'[x].orderID = order[x].orderID
                   /\ order'[x].volume <= order[x].volume
<1>0. \A y \in DOMAIN order : order[y].volume \in Int
  BY DEF Inv, BookInv, BookTypeOK
<1>1. ASSUME NEW a \in DOMAIN order, Unlinked(a)
      PROVE  Kept
  <2>1. /\ DOMAIN order' = DOMAIN order \ {a}
        /\ \A y \in DOMAIN order' : /\ order'[y].orderID = order[y].orderID
                                    /\ order'[y].volume = order[y].volume
    BY <1>1 DEF Unlinked, Inv, BookInv, BookTypeOK
  <2>2. QED
    BY <1>0, <2>1
<1>2. ASSUME NEW a \in DOMAIN order, NEW n \in Int, n <= order[a].volume, Resized(a, n)
      PROVE  Kept
  BY <1>0, <1>2 DEF Resized, Inv, BookInv, BookTypeOK
<1>3. CASE UNCHANGED order
  BY <1>0, <1>3
<1>4. ASSUME NEW p \in Prices, FillPartial(p)
      PROVE  Kept
  <2> DEFINE a == limit[<<Opposite(taker.side), p>>].head
             n == order[a].volume - taker.volume
  <2>1. a \in DOMAIN order /\ n \in Int /\ Resized(a, n)
    BY <1>4, FillPartialResizes DEF Inv
  <2>2. taker.volume > 0 /\ taker.volume \in Int
    BY <1>4 DEF FillPartial, Matching, Idle, Inv, CallTypeOK
  <2>3. n <= order[a].volume
    BY <1>0, <2>1, <2>2
  <2>4. QED
    BY <1>2, <2>1, <2>3
<1>5. ASSUME NEW p \in Prices, FillWhole(p)
      PROVE  Kept
  BY <1>1, <1>5, FillWholeUnlinks DEF Inv
<1>6. CASE RestRemainder
  <2> SUFFICES ASSUME NEW m, m = allocated + 1
               PROVE  Kept \/ /\ ~Idle /\ Idle' /\ res' = res
                              /\ order'[x].orderID = taker.orderID
                              /\ order'[x].volume = taker.volume
    OBVIOUS
  <2>1. /\ DOMAIN order' = DOMAIN order \cup {m}
        /\ order'[m].orderID = taker.orderID /\ order'[m].volume = taker.volume
        /\ \A y \in DOMAIN order : y # m => /\ order'[y].orderID = order[y].orderID
                                            /\ order'[y].volume = order[y].volume
    BY <1>6 DEF RestRemainder, Inv, BookInv, BookTypeOK
  <2>2. ~Idle /\ Idle' /\ res' = res
    BY <1>6 DEF RestRemainder, Idle
  <2>3. QED
    BY <1>0, <2>1, <2>2
<1>7. ASSUME NEW id \in Ids, CancelResting(id)
      PROVE  Kept
  BY <1>1, <1>7, CancelUnlinks DEF Inv
<1>8. ASSUME NEW id \in Ids, NEW n \in Volumes, ModifyReduced(id, n)
      PROVE  Kept
  <2>1. n <= order[global_map[id]].volume
    <3>1. global_map[id] \in DOMAIN order /\ n \in Int
      BY <1>8, ModifyResizes DEF Inv
    <3>2. n < order[global_map[id]].volume
      BY <1>8 DEF ModifyReduced, Reducible
    <3>3. QED
      BY <1>0, <3>1, <3>2
  <2>2. QED
    BY <1>2, <1>8, <2>1, ModifyResizes DEF Inv
<1>9. ASSUME NEW id \in Ids, \/ CancelUnknown(id)
                             \/ \E n \in Volumes : ModifyRejected(id, n)
                             \/ \E p \in Prices, v \in Volumes, s \in Sides : PlaceOrder(id, p, v, s)
      PROVE  UNCHANGED order
  BY <1>9 DEF CancelUnknown, ModifyRejected, PlaceOrder, book
<1>10. CASE ReturnFilled \/ UNCHANGED vars
  BY <1>3, <1>10 DEF ReturnFilled, book, vars
<1>11. QED
  BY <1>3, <1>4, <1>5, <1>6, <1>7, <1>8, <1>9, <1>10 DEF Next, MatchStep

\* Every trade of an answer has a positive volume.
TradesPositive == \A k \in DOMAIN res.trades : res.trades[k].volume > 0

LEMMA TradesPositiveInit == Init => TradesPositive
BY DEF Init, TradesPositive

LEMMA TradesPositiveStep ==
  ASSUME Inv, TradesPositive, [Next]_vars
  PROVE  TradesPositive'
<1> DEFINE T == [price : Prices, volume : Int]
<1>0. res.trades \in Seq(T)
  BY DEF Inv, CallTypeOK
<1>1. ASSUME NEW e, e.volume > 0, res'.trades = Append(res.trades, e)
      PROVE  TradesPositive'
  <2>1. \A k \in DOMAIN res'.trades :
          (k \in DOMAIN res.trades /\ res'.trades[k] = res.trades[k]) \/ res'.trades[k] = e
    BY <1>0, <1>1
  <2>2. QED
    BY <1>1, <2>1 DEF TradesPositive
<1>2. ASSUME NEW p \in Prices, FillPartial(p)
      PROVE  TradesPositive'
  <2> DEFINE a == limit[<<Opposite(taker.side), p>>].head
             e == [price |-> order[a].price, volume |-> taker.volume]
  <2>1. res'.trades = Append(res.trades, e)
    BY <1>2 DEF FillPartial, Inv, CallTypeOK
  <2>2. e.volume > 0
    BY <1>2 DEF FillPartial, Matching
  <2>3. QED
    BY <1>1, <2>1, <2>2
<1>3. ASSUME NEW p \in Prices, FillWhole(p)
      PROVE  TradesPositive'
  <2> DEFINE a == limit[<<Opposite(taker.side), p>>].head
             e == [price |-> order[a].price, volume |-> order[a].volume]
  <2>1. res'.trades = Append(res.trades, e)
    BY <1>3 DEF FillWhole, Inv, CallTypeOK
  <2>2. e.volume > 0
    <3>1. <<Opposite(taker.side), p>> \in DOMAIN limit
      BY <1>3 DEF FillWhole, Matching, Best
    <3>2. a \in DOMAIN order
      BY <3>1, HeadOfLevel DEF Inv
    <3>3. QED
      BY <3>2 DEF Inv, BookInv, LevelCounts
  <2>3. QED
    BY <1>1, <2>1, <2>2
<1>4. CASE ReturnFilled
  BY <1>4 DEF ReturnFilled, Inv, CallTypeOK, TradesPositive
<1>5. ASSUME NEW id \in Ids, \E p \in Prices, v \in Volumes, s \in Sides : PlaceOrder(id, p, v, s)
      PROVE  TradesPositive'
  BY <1>5 DEF PlaceOrder, TradesPositive
<1>6. ASSUME UNCHANGED res
      PROVE  TradesPositive'
  BY <1>6 DEF TradesPositive
<1>7. ASSUME NEW id \in Ids, \/ CancelUnknown(id) \/ CancelResting(id)
                             \/ \E n \in Volumes : ModifyRejected(id, n) \/ ModifyReduced(id, n)
      PROVE  UNCHANGED res
  BY <1>7 DEF CancelUnknown, CancelResting, ModifyRejected, ModifyReduced
<1>8. CASE RestRemainder \/ UNCHANGED vars
  BY <1>6, <1>8 DEF RestRemainder, vars
<1>9. QED
  BY <1>2, <1>3, <1>4, <1>5, <1>6, <1>7, <1>8 DEF Next, MatchStep

-----------------------------------------------------------------------------
(* The book does what the plain book does.                                 *)

Entry(a) == [seq |-> a, id |-> order[a].orderID, side |-> order[a].side,
             price |-> order[a].price, volume |-> order[a].volume]
Resting  == {Entry(a) : a \in DOMAIN order}
PlainTaker  == IF taker.volume > 0 THEN taker ELSE NoTaker
PlainAnswer == [res EXCEPT !.fulfilled = @ \/ (~Idle /\ taker.volume <= 0)]

\* An entry of the plain book tells its order, and all there is to know of it.
LEMMA EntryFields ==
  ASSUME NEW a
  PROVE  /\ Entry(a).seq = a
         /\ Entry(a).id = order[a].orderID
         /\ Entry(a).side = order[a].side
         /\ Entry(a).price = order[a].price
         /\ Entry(a).volume = order[a].volume
         /\ \A b : Entry(a) = Entry(b) => a = b
<1>1. \A b : Entry(b).seq = b
  BY DEF Entry
<1>2. ASSUME NEW b, Entry(a) = Entry(b)
      PROVE  a = b
  BY <1>1, <1>2
<1>3. QED
  BY <1>2 DEF Entry

\* To unlink an order is to take its entry out of the plain book.
LEMMA UnlinkedEntry ==
  ASSUME BookInv, NEW a \in DOMAIN order, Unlinked(a)
  PROVE  Resting' = Resting \ {Entry(a)}
<1>1. /\ DOMAIN order' = DOMAIN order \ {a}
      /\ \A x \in DOMAIN order' : Entry(x)' = Entry(x)
  BY DEF BookInv, BookTypeOK, Unlinked, Entry
<1>2. \A x \in DOMAIN order' : Entry(x) # Entry(a)
  BY <1>1, EntryFields
<1>3. Resting' = {Entry(x) : x \in DOMAIN order'}
  BY <1>1 DEF Resting
<1>4. QED
  BY <1>1, <1>2, <1>3 DEF Resting

\* To resize an order is to replace its entry in the plain book.
LEMMA ResizedEntry ==
  ASSUME BookInv, NEW a \in DOMAIN order, NEW n \in Int, Resized(a, n)
  PROVE  Resting' = (Resting \ {Entry(a)}) \cup {[Entry(a) EXCEPT !.volume = n]}
<1> DEFINE new == [Entry(a) EXCEPT !.volume = n]
<1>1. /\ DOMAIN order' = DOMAIN order
      /\ \A x \in DOMAIN order : Entry(x)' = IF x = a THEN new ELSE Entry(x)
  BY DEF BookInv, BookTypeOK, Resized, Entry
<1>2. \A x \in DOMAIN order : x # a => Entry(x) # Entry(a)
  BY EntryFields
<1>3. Resting' = {IF x = a THEN new ELSE Entry(x) : x \in DOMAIN order}
  BY <1>1 DEF Resting
<1> HIDE DEF new
<1>4. Resting = {Entry(x) : x \in DOMAIN order}
  BY DEF Resting
<1>5. QED
  BY <1>2, <1>3, <1>4 DEF new

\* An order that is matched is the taker of the plain book while it has volume.
LEMMA TakerMapped ==
  ASSUME Inv
  PROVE  /\ Idle => PlainTaker = NoTaker
         /\ ~Idle /\ taker.volume > 0 => PlainTaker = taker /\ PlainTaker # NoTaker
BY DEF PlainTaker, Idle, NoTaker

\* An answer with all but its order's id replaced.
LEMMA AnswerExcept ==
  ASSUME NEW S, NEW B, NEW N, NEW T,
         NEW r \in [orderID : S, fulfilled : B, remainingQty : N, trades : T],
         NEW f \in BOOLEAN, NEW n, NEW t
  PROVE  [r EXCEPT !.fulfilled = f, !.remainingQty = n, !.trades = t]
           = [orderID |-> r.orderID, fulfilled |-> f, remainingQty |-> n, trades |-> t]
<1> DEFINE z == [r EXCEPT !.fulfilled = f, !.remainingQty = n, !.trades = t]
<1>1. z.orderID = r.orderID /\ z.remainingQty = n /\ z.trades = t
  OBVIOUS
<1>2. z.fulfilled = f
  OBVIOUS
<1>3. DOMAIN z = {"orderID", "fulfilled", "remainingQty", "trades"}
  OBVIOUS
<1>4. z = [x \in DOMAIN z |-> z[x]]
  OBVIOUS
<1> HIDE DEF z
<1>5. z = [orderID |-> r.orderID, fulfilled |-> f, remainingQty |-> n, trades |-> t]
  BY <1>1, <1>2, <1>3, <1>4
<1>6. QED
  BY <1>5 DEF z

\* A trade is told in the plain answer as match tells it.
LEMMA TradeAnswer ==
  ASSUME Inv, NEW f \in BOOLEAN, NEW g \in BOOLEAN, NEW n \in Int, NEW e,
         res' = [res EXCEPT !.fulfilled = f, !.remainingQty = n, !.trades = Append(@, e)],
         g = (f \/ (~Idle' /\ taker'.volume <= 0))
  PROVE  PlainAnswer' = [PlainAnswer EXCEPT !.fulfilled = g,
                                            !.remainingQty = n,
                                            !.trades = Append(@, e)]
<1> DEFINE b == res.fulfilled \/ (~Idle /\ taker.volume <= 0)
           t == Append(res.trades, e)
           R == [orderID : Ids \cup {NoId}, fulfilled : BOOLEAN, remainingQty : Int,
                 trades : Seq([price : Prices, volume : Int])]
<1>1. res \in R
  BY DEF Inv, CallTypeOK
<1>2. PlainAnswer = [res EXCEPT !.fulfilled = b]
  BY DEF PlainAnswer
<1>3. b \in BOOLEAN
  OBVIOUS
<1> HIDE DEF b
<1>4. PlainAnswer \in R /\ PlainAnswer.orderID = res.orderID /\ PlainAnswer.trades = res.trades
  BY <1>1, <1>2, <1>3
<1>5. res' = [res EXCEPT !.fulfilled = f, !.remainingQty = n, !.trades = t]
  OBVIOUS
<1>6. [PlainAnswer EXCEPT !.fulfilled = g, !.remainingQty = n, !.trades = Append(@, e)]
        = [PlainAnswer EXCEPT !.fulfilled = g, !.remainingQty = n, !.trades = t]
  BY <1>4
<1> HIDE DEF t
<1>7. res' = [orderID |-> res.orderID, fulfilled |-> f, remainingQty |-> n, trades |-> t]
  BY <1>1, <1>5, AnswerExcept
<1>8. [PlainAnswer EXCEPT !.fulfilled = g, !.remainingQty = n, !.trades = t]
        = [orderID |-> res.orderID, fulfilled |-> g, remainingQty |-> n, trades |-> t]
  <2>1. ASSUME NEW r \in R, NEW z,
               z = [r EXCEPT !.fulfilled = g, !.remainingQty = n, !.trades = t]
        PROVE  z = [orderID |-> r.orderID, fulfilled |-> g, remainingQty |-> n, trades |-> t]
    BY <2>1, AnswerExcept
  <2>2. QED
    BY <1>4, <2>1
<1>9. PlainAnswer' = [orderID |-> res.orderID, fulfilled |-> g, remainingQty |-> n, trades |-> t]
  <2> DEFINE b2 == res'.fulfilled \/ (~Idle' /\ taker'.volume <= 0)
  <2>1. PlainAnswer' = [res' EXCEPT !.fulfilled = b2]
    BY DEF PlainAnswer
  <2>2. res'.fulfilled = f
    BY <1>7
  <2>3. b2 = g
    BY <2>2
  <2> HIDE DEF b2
  <2>4. QED
    BY <1>7, <2>1, <2>3
<1>10. QED
  BY <1>6, <1>8, <1>9

LEMMA PlaceOrderPlain ==
  ASSUME Inv, NEW id \in Ids, NEW p \in Prices, NEW v \in Volumes, NEW s \in Sides,
         PlaceOrder(id, p, v, s)
  PROVE  Plain!Submit(id, p, v, s)
<1> DEFINE new == [orderID |-> id, price |-> p, volume |-> v, side |-> s]
<1>1. PlainTaker = NoTaker
  BY TakerMapped DEF PlaceOrder
<1>2. taker' = new /\ new.volume = v
  BY DEF PlaceOrder
<1>3. PlainTaker' = IF v > 0 THEN new ELSE NoTaker
  BY <1>2 DEF PlainTaker
<1>4. PlainAnswer' = [orderID |-> id, fulfilled |-> v <= 0, remainingQty |-> v, trades |-> <<>>]
  <2>1. ~Idle'
    BY <1>2, IdsAssumption DEF Idle, NoTaker
  <2>2. res' = [orderID |-> id, fulfilled |-> FALSE, remainingQty |-> v, trades |-> <<>>]
    BY DEF PlaceOrder
  <2>3. (FALSE \/ (~Idle' /\ v <= 0)) = (v <= 0)
    BY <2>1
  <2>4. QED
    BY <1>2, <2>2, <2>3 DEF PlainAnswer
<1>5. Resting' = Resting /\ allocated' = allocated /\ ok' = ok
  BY DEF PlaceOrder, book, Resting, Entry
<1>6. QED
  BY <1>1, <1>3, <1>4, <1>5
     DEF Plain!Submit, Plain!NoTaker, NoTaker, Plain!Buy, Buy, PlainTaker, PlainAnswer,
         Resting, Entry

\* The head of the best level is the candidate that goes before all others.
LEMMA HeadIsTraded ==
  ASSUME Inv, NEW p \in Prices, Matching(p),
         NEW a, a = limit[<<Opposite(taker.side), p>>].head
  PROVE  /\ a \in DOMAIN order
         /\ order[a].price = p /\ order[a].volume \in Int
         /\ taker.volume \in Int /\ PlainTaker = taker /\ PlainTaker # NoTaker
         /\ Entry(a) \in Plain!Candidates
         /\ \A o \in Plain!Candidates \ {Entry(a)} : Plain!Before(Entry(a), o)
<1> DEFINE s == Opposite(taker.side)
<1>1. s \in Sides /\ Best(s, p) /\ <<s, p>> \in DOMAIN limit
  BY DEF Matching, Sides, Opposite, Best
<1>2. a \in DOMAIN order /\ order[a].side = s /\ order[a].price = p
  BY <1>1, HeadOfLevel DEF Inv, LevelOf
<1>3. PlainTaker = taker /\ PlainTaker # NoTaker
  BY TakerMapped DEF Matching
<1>4. order[a].volume \in Int /\ taker.volume \in Int
  BY <1>2 DEF Inv, BookInv, BookTypeOK, CallTypeOK, Matching, Idle
<1>5. Plain!Candidates = {o \in Resting : /\ o.side = s
                                          /\ IF taker.side = Sell THEN o.price >= taker.price
                                                                  ELSE o.price <= taker.price}
  BY <1>3 DEF Plain!Candidates, Plain!Opposite, Plain!Acceptable, Plain!Sell, Plain!Buy,
              Opposite, Sell, Buy, Resting, Entry, PlainTaker
<1>6. Entry(a) \in Plain!Candidates
  <2>1. Entry(a) \in Resting
    BY <1>2 DEF Resting
  <2>2. Crosses(p)
    BY DEF Matching
  <2>3. QED
    BY <1>2, <1>5, <2>1, <2>2, EntryFields DEF Crosses
<1>7. ASSUME NEW o \in Plain!Candidates \ {Entry(a)}
      PROVE  Plain!Before(Entry(a), o)
  <2>1. PICK b \in DOMAIN order : o = Entry(b)
    BY <1>5 DEF Resting
  <2>2. b # a /\ order[b].side = s
    BY <1>5, <2>1, EntryFields
  <2>3. Before(a, b)
    BY <1>1, <2>2, HeadGoesFirst
  <2>4. QED
    BY <2>1, <2>3, EntryFields DEF Before, Plain!Before, Plain!Sell, Plain!Buy, Sell, Buy
<1>8. QED
  BY <1>2, <1>3, <1>4, <1>6, <1>7

\* A partial fill trades all that is left of the taker.
LEMMA FillPartialPlain ==
  ASSUME Inv, AnswerInv, NEW p \in Prices, FillPartial(p)
  PROVE  \E m \in Resting : \E q \in {m.volume, PlainTaker.volume} : Plain!Trade(m, q)
<1> SUFFICES ASSUME NEW a, a = limit[<<Opposite(taker.side), p>>].head,
                    NEW m, m = Entry(a), NEW q, q = taker.volume
             PROVE  m \in Resting /\ q \in {m.volume, PlainTaker.volume} /\ Plain!Trade(m, q)
  OBVIOUS
<1>1. /\ a \in DOMAIN order
      /\ order[a].price = p /\ order[a].volume \in Int
      /\ q \in Int /\ PlainTaker = taker /\ PlainTaker # NoTaker
      /\ m \in Plain!Candidates
      /\ \A o \in Plain!Candidates \ {m} : Plain!Before(m, o)
  BY HeadIsTraded DEF FillPartial
<1>2. order[a].volume > q /\ ~(q > q)
  BY <1>1 DEF FillPartial
<1>3. m \in Resting /\ m.price = order[a].price /\ m.volume = order[a].volume
  BY <1>1, EntryFields DEF Resting
<1>4. Resting' = (Resting \ {m}) \cup {[m EXCEPT !.volume = order[a].volume - q]}
  BY <1>1, FillPartialResizes, ResizedEntry DEF Inv
<1>5. PlainTaker' = NoTaker
  BY DEF FillPartial, PlainTaker, NoTaker
<1>6. PlainAnswer' = [PlainAnswer EXCEPT !.fulfilled = (q = q),
                                         !.remainingQty = @ - q,
                                         !.trades = Append(@, [price |-> m.price, volume |-> q])]
  <2> DEFINE e == [price |-> order[a].price, volume |-> q]
  <2>1. PlainAnswer.remainingQty - q = 0
    BY <1>1 DEF FillPartial, Matching, AnswerInv, Accounted, PlainAnswer, Inv, CallTypeOK
  <2>2. res' = [res EXCEPT !.fulfilled = TRUE, !.remainingQty = 0, !.trades = Append(@, e)]
    BY DEF FillPartial
  <2> HIDE DEF e
  <2>3. PlainAnswer' = [PlainAnswer EXCEPT !.fulfilled = TRUE,
                                           !.remainingQty = 0,
                                           !.trades = Append(@, e)]
    <3> DEFINE g == TRUE
               n == 0
    <3>1. /\ g \in BOOLEAN /\ n \in Int
          /\ g = (TRUE \/ (~Idle' /\ taker'.volume <= 0))
      OBVIOUS
    <3>2. res' = [res EXCEPT !.fulfilled = TRUE, !.remainingQty = n, !.trades = Append(@, e)]
      BY <2>2
    <3> HIDE DEF g, n
    <3>3. PlainAnswer' = [PlainAnswer EXCEPT !.fulfilled = g,
                                             !.remainingQty = n,
                                             !.trades = Append(@, e)]
      BY <3>1, <3>2, TradeAnswer
    <3>4. QED
      BY <3>3 DEF g, n
  <2>4. e = [price |-> m.price, volume |-> q] /\ (q = q) = TRUE
    BY <1>3 DEF e
  <2>5. QED
    BY <2>1, <2>3, <2>4
<1>7. allocated' = allocated /\ ok' = ok
  BY DEF FillPartial
<1>8. Plain!Trade(m, q)
  <2>1. /\ PlainTaker.volume = q
        /\ q = IF m.volume < PlainTaker.volume THEN m.volume ELSE PlainTaker.volume
    BY <1>1, <1>2, <1>3
  <2>2. /\ m.volume > q
        /\ Resting' = (Resting \ {m}) \cup {[m EXCEPT !.volume = @ - q]}
    BY <1>2, <1>3, <1>4
  <2>3. PlainAnswer' = [PlainAnswer EXCEPT !.fulfilled = (PlainTaker.volume = q),
                                           !.remainingQty = @ - q,
                                           !.trades = Append(@, [price |-> m.price, volume |-> q])]
    BY <1>6, <2>1
  <2>4. QED
    BY <1>1, <1>2, <1>5, <1>7, <2>1, <2>2, <2>3
       DEF Plain!Trade, Plain!NoTaker, NoTaker, Plain!Buy, Buy, PlainTaker, PlainAnswer,
           Resting, Entry
<1>9. q \in {m.volume, PlainTaker.volume}
  BY <1>1
<1>10. QED
  BY <1>3, <1>8, <1>9

\* A whole fill trades all of the resting order.
LEMMA FillWholePlain ==
  ASSUME Inv, AnswerInv, NEW p \in Prices, FillWhole(p)
  PROVE  \E m \in Resting : \E q \in {m.volume, PlainTaker.volume} : Plain!Trade(m, q)
<1> SUFFICES ASSUME NEW a, a = limit[<<Opposite(taker.side), p>>].head,
                    NEW m, m = Entry(a), NEW q, q = order[a].volume
             PROVE  m \in Resting /\ q \in {m.volume, PlainTaker.volume} /\ Plain!Trade(m, q)
  OBVIOUS
<1> DEFINE v == taker.volume
<1>1. /\ a \in DOMAIN order
      /\ order[a].price = p /\ q \in Int
      /\ v \in Int /\ PlainTaker = taker /\ PlainTaker # NoTaker
      /\ m \in Plain!Candidates
      /\ \A o \in Plain!Candidates \ {m} : Plain!Before(m, o)
  BY HeadIsTraded DEF FillWhole
<1>2. q <= v /\ ~Idle
  BY <1>1 DEF FillWhole, Matching
<1>3. m \in Resting /\ m.price = order[a].price /\ m.volume = q
  BY <1>1, EntryFields DEF Resting
<1>4. Resting' = Resting \ {m}
  BY <1>1, FillWholeUnlinks, UnlinkedEntry DEF Inv
<1>5. /\ taker' = [taker EXCEPT !.volume = v - q]
      /\ taker'.volume = v - q /\ ~Idle'
  <2>1. taker \in [orderID : Ids, price : Prices, volume : Int, side : Sides]
    BY <1>2 DEF Inv, CallTypeOK, Idle
  <2>2. taker' = [taker EXCEPT !.volume = v - q]
    BY DEF FillWhole
  <2>3. QED
    BY <2>1, <2>2, IdsAssumption DEF Idle, NoTaker
<1>6. PlainTaker' = IF v > q THEN [taker EXCEPT !.volume = v - q] ELSE NoTaker
  BY <1>1, <1>5 DEF PlainTaker
<1>7. PlainAnswer' = [PlainAnswer EXCEPT !.fulfilled = (v = q),
                                         !.remainingQty = @ - q,
                                         !.trades = Append(@, [price |-> m.price, volume |-> q])]
  <2> DEFINE e == [price |-> order[a].price, volume |-> q]
             n == res.remainingQty - q
  <2>1. PlainAnswer.remainingQty - q = n /\ n \in Int /\ res.fulfilled = FALSE
    BY <1>1, <1>2 DEF AnswerInv, PlainAnswer, Inv, CallTypeOK
  <2>2. res' = [res EXCEPT !.fulfilled = FALSE, !.remainingQty = n, !.trades = Append(@, e)]
    BY <2>1 DEF FillWhole, Inv, CallTypeOK
  <2>3. (v = q) = (FALSE \/ (~Idle' /\ taker'.volume <= 0))
    BY <1>1, <1>2, <1>5
  <2> HIDE DEF e, n
  <2>4. PlainAnswer' = [PlainAnswer EXCEPT !.fulfilled = (v = q),
                                           !.remainingQty = n,
                                           !.trades = Append(@, e)]
    <3>1. (v = q) \in BOOLEAN
      OBVIOUS
    <3> DEFINE g == v = q
    <3>2. g \in BOOLEAN /\ g = (FALSE \/ (~Idle' /\ taker'.volume <= 0))
      BY <2>3, <3>1
    <3> HIDE DEF g
    <3>3. PlainAnswer' = [PlainAnswer EXCEPT !.fulfilled = g,
                                             !.remainingQty = n,
                                             !.trades = Append(@, e)]
      BY <2>1, <2>2, <3>2, TradeAnswer
    <3>4. QED
      BY <3>3 DEF g
  <2>5. e = [price |-> m.price, volume |-> q]
    BY <1>3 DEF e
  <2> HIDE DEF v
  <2>6. QED
    BY <2>1, <2>4, <2>5
<1>8. allocated' = allocated /\ ok' = ok
  BY DEF FillWhole
<1>9. /\ PlainTaker.volume = v
      /\ q = IF m.volume < v THEN m.volume ELSE v
      /\ ~(m.volume > q)
  BY <1>1, <1>2, <1>3
<1> HIDE DEF v
<1>10. Plain!Trade(m, q)
  <2>1. Resting' = (Resting \ {m}) \cup (IF m.volume > q THEN {[m EXCEPT !.volume = @ - q]}
                                                         ELSE {})
    BY <1>4, <1>9
  <2>2. /\ PlainTaker' = IF PlainTaker.volume > q THEN [PlainTaker EXCEPT !.volume = @ - q]
                                                  ELSE NoTaker
        /\ q = IF m.volume < PlainTaker.volume THEN m.volume ELSE PlainTaker.volume
    BY <1>1, <1>6, <1>9
  <2>3. PlainAnswer' = [PlainAnswer EXCEPT !.fulfilled = (PlainTaker.volume = q),
                                           !.remainingQty = @ - q,
                                           !.trades = Append(@, [price |-> m.price, volume |-> q])]
    BY <1>7, <1>9
  <2>4. QED
    BY <1>1, <1>8, <2>1, <2>2, <2>3
       DEF Plain!Trade, Plain!NoTaker, NoTaker, Plain!Buy, Buy, PlainTaker, PlainAnswer,
           Resting, Entry
<1>11. q \in {m.volume, PlainTaker.volume}
  BY <1>3
<1>12. QED
  BY <1>3, <1>10, <1>11

\* What rests in the book rests in the plain book, when nothing there is acceptable.
LEMMA RestPlain ==
  ASSUME Inv, RestRemainder
  PROVE  Plain!Rest
<1> SUFFICES ASSUME NEW m, m = allocated + 1
             PROVE  Plain!Rest
  OBVIOUS
<1> DEFINE new == [seq |-> m, id |-> taker.orderID, side |-> taker.side,
                   price |-> taker.price, volume |-> taker.volume]
<1>1. PlainTaker = taker /\ PlainTaker # NoTaker
  BY TakerMapped DEF RestRemainder
<1>2. taker \in [orderID : Ids, price : Prices, volume : Int, side : Sides]
  BY DEF RestRemainder, Inv, CallTypeOK, Idle
<1>3. Plain!Candidates = {}
  <2> SUFFICES ASSUME NEW b \in DOMAIN order, order[b].side = Opposite(taker.side),
                      Crosses(order[b].price)
               PROVE  FALSE
    BY <1>1, EntryFields
       DEF Plain!Candidates, Plain!Opposite, Plain!Acceptable, Plain!Sell, Plain!Buy,
           Opposite, Sell, Buy, Crosses, Resting, Entry, PlainTaker
  <2>1. order[b].price \in Prices /\ <<order[b].side, order[b].price>> \in DOMAIN limit
    BY DEF Inv, BookInv, BookTypeOK, QueueOrder, LevelOf
  <2>2. QED
    BY <2>1 DEF RestRemainder
<1>4. Resting' = Resting \cup {new}
  <2>1. m \notin DOMAIN order
    BY DEF Inv, BookInv, BookTypeOK
  <2>2. /\ DOMAIN order' = DOMAIN order \cup {m}
        /\ Entry(m)' = new
        /\ \A x \in DOMAIN order : Entry(x)' = Entry(x)
    BY <2>1 DEF RestRemainder, Inv, BookInv, BookTypeOK, Entry
  <2>3. Resting' = {Entry(x)' : x \in DOMAIN order \cup {m}}
    BY <2>2 DEF Resting
  <2> HIDE DEF new
  <2>4. QED
    BY <2>1, <2>2, <2>3 DEF Resting
<1>5. PlainTaker' = NoTaker /\ allocated' = m /\ ok' = ok
  BY DEF RestRemainder, PlainTaker, NoTaker
<1>6. PlainAnswer' = PlainAnswer
  <2>1. (res.fulfilled \/ (~Idle' /\ taker'.volume <= 0))
          = (res.fulfilled \/ (~Idle /\ taker.volume <= 0))
    BY <1>2 DEF RestRemainder, Idle
  <2>2. res' = res
    BY DEF RestRemainder
  <2>3. QED
    BY <2>1, <2>2, Zenon DEF PlainAnswer
<1>7. QED
  BY <1>1, <1>3, <1>4, <1>5, <1>6
     DEF Plain!Rest, Plain!NoTaker, NoTaker, Plain!Buy, Buy, PlainTaker, PlainAnswer,
         Resting, Entry

\* match only tells what the plain book knows already.
LEMMA ReturnPlain ==
  ASSUME Inv, ReturnFilled
  PROVE  UNCHANGED <<Resting, allocated, PlainTaker, PlainAnswer, ok>>
<1>1. PlainTaker = NoTaker /\ PlainTaker' = NoTaker
  <2>1. taker.volume \in Int
    BY DEF ReturnFilled, Inv, CallTypeOK, Idle
  <2>2. QED
    BY <2>1 DEF ReturnFilled, PlainTaker, NoTaker
<1>2. PlainAnswer' = PlainAnswer
  <2>1. res' = [res EXCEPT !.fulfilled = TRUE] /\ ~Idle /\ taker.volume <= 0
    BY DEF ReturnFilled
  <2>2. res \in [orderID : Ids \cup {NoId}, fulfilled : BOOLEAN, remainingQty : Int,
                 trades : Seq([price : Prices, volume : Int])]
    BY DEF Inv, CallTypeOK
  <2>3. /\ (res.fulfilled \/ (~Idle /\ taker.volume <= 0)) = TRUE
        /\ (TRUE \/ (~Idle' /\ taker'.volume <= 0)) = TRUE
    BY <2>1
  <2>4. QED
    BY <2>1, <2>2, <2>3 DEF PlainAnswer
<1>3. Resting' = Resting /\ allocated' = allocated /\ ok' = ok
  BY DEF ReturnFilled, book, Resting, Entry
<1>4. QED
  BY <1>1, <1>2, <1>3

\* The index leads to the one order of an id, if there is one.
LEMMA IndexedOrder ==
  ASSUME Inv, IndexInv, NEW id
  PROVE  /\ id \in DOMAIN global_map => /\ global_map[id] \in DOMAIN order
                                        /\ order[global_map[id]].orderID = id
         /\ \A a \in DOMAIN order : order[a].orderID = id =>
              id \in DOMAIN global_map /\ a = global_map[id]
BY DEF Inv, BookInv, IndexSound, IndexInv, IndexComplete

\* A cancel takes the order of that id out of the plain book, or finds none.
LEMMA CancelPlain ==
  ASSUME Inv, IndexInv, NEW id \in Ids, CancelUnknown(id) \/ CancelResting(id)
  PROVE  Plain!Cancel(id)
<1>1. PlainTaker = NoTaker
  BY TakerMapped DEF CancelUnknown, CancelResting
<1>2. /\ taker' = taker /\ res' = res /\ allocated' = allocated
  BY DEF CancelUnknown, CancelResting, book
<1>3. /\ ok' = (\E o \in Resting : o.id = id)
      /\ Resting' = {o \in Resting : o.id # id}
  <2>1. CASE CancelUnknown(id)
    <3>1. \A o \in Resting : o.id # id
      BY <2>1, IndexedOrder, EntryFields DEF CancelUnknown, Resting
    <3>2. Resting' = Resting /\ ok' = FALSE
      BY <2>1 DEF CancelUnknown, book, Resting, Entry
    <3>3. QED
      BY <3>1, <3>2
  <2>2. CASE CancelResting(id)
    <3> SUFFICES ASSUME NEW a, a = global_map[id]
                 PROVE  /\ ok' = (\E o \in Resting : o.id = id)
                        /\ Resting' = {o \in Resting : o.id # id}
      OBVIOUS
    <3>1. a \in DOMAIN order /\ order[a].orderID = id
      BY <2>2, IndexedOrder DEF CancelResting
    <3>2. Entry(a) \in Resting /\ Entry(a).id = id
      BY <3>1, EntryFields DEF Resting
    <3>3. ASSUME NEW o \in Resting, o.id = id
          PROVE  o = Entry(a)
      <4>1. PICK b \in DOMAIN order : o = Entry(b)
        BY DEF Resting
      <4>2. b = a
        BY <3>3, <4>1, IndexedOrder, EntryFields
      <4>3. QED
        BY <4>1, <4>2
    <3>4. Resting' = Resting \ {Entry(a)} /\ ok' = TRUE
      BY <2>2, CancelUnlinks, UnlinkedEntry DEF Inv, CancelResting
    <3>5. QED
      BY <3>2, <3>3, <3>4
  <2>3. QED
    BY <2>1, <2>2
<1>4. QED
  BY <1>1, <1>2, <1>3
     DEF Plain!Cancel, Plain!NoTaker, NoTaker, Plain!Buy, Buy, PlainTaker, PlainAnswer, Idle,
         Resting, Entry

\* A modify makes the order of that id smaller in the plain book, or changes nothing.
LEMMA ModifyPlain ==
  ASSUME Inv, IndexInv, NEW id \in Ids, NEW n \in Volumes,
         ModifyRejected(id, n) \/ ModifyReduced(id, n)
  PROVE  Plain!Modify(id, n)
<1> DEFINE smaller(o) == o.id = id /\ 0 < n /\ n < o.volume
<1>1. PlainTaker = NoTaker
  BY TakerMapped DEF ModifyRejected, ModifyReduced
<1>2. taker' = taker /\ res' = res /\ allocated' = allocated
  BY DEF ModifyRejected, ModifyReduced, book
<1>3. n \in Int
  BY VolumesAssumption
<1>4. /\ ok' = (\E o \in Resting : smaller(o))
      /\ Resting' = {IF smaller(o) THEN [o EXCEPT !.volume = n] ELSE o : o \in Resting}
  <2>1. CASE ModifyRejected(id, n)
    <3>1. ASSUME NEW o \in Resting
          PROVE  ~smaller(o)
      <4>1. PICK b \in DOMAIN order : o = Entry(b)
        BY DEF Resting
      <4>2. order[b].orderID = id => id \in DOMAIN global_map /\ b = global_map[id]
        BY IndexedOrder
      <4>3. QED
        BY <1>3, <2>1, <4>1, <4>2, EntryFields DEF ModifyRejected, Reducible
    <3>2. Resting' = Resting /\ ok' = FALSE
      BY <2>1 DEF ModifyRejected, book, Resting, Entry
    <3> HIDE DEF smaller
    <3>3. QED
      BY <3>1, <3>2
  <2>2. CASE ModifyReduced(id, n)
    <3> SUFFICES ASSUME NEW a, a = global_map[id]
                 PROVE  /\ ok' = (\E o \in Resting : smaller(o))
                        /\ Resting' = {IF smaller(o) THEN [o EXCEPT !.volume = n] ELSE o
                                         : o \in Resting}
      OBVIOUS
    <3>1. a \in DOMAIN order /\ order[a].orderID = id /\ 0 < n /\ n < order[a].volume
      BY <1>3, <2>2, IndexedOrder DEF ModifyReduced, Reducible
    <3>2. Entry(a) \in Resting /\ smaller(Entry(a))
      BY <3>1, EntryFields DEF Resting
    <3>3. ASSUME NEW o \in Resting, smaller(o)
          PROVE  o = Entry(a)
      <4>1. PICK b \in DOMAIN order : o = Entry(b)
        BY DEF Resting
      <4>2. b = a
        BY <3>3, <4>1, IndexedOrder, EntryFields
      <4>3. QED
        BY <4>1, <4>2
    <3>4. /\ Resting' = (Resting \ {Entry(a)}) \cup {[Entry(a) EXCEPT !.volume = n]}
          /\ ok' = TRUE
      BY <1>3, <2>2, ModifyResizes, ResizedEntry DEF Inv, ModifyReduced
    <3> HIDE DEF smaller
    <3>5. \A o \in Resting : smaller(o) <=> o = Entry(a)
      BY <3>2, <3>3
    <3>6. QED
      BY <3>2, <3>4, <3>5
  <2>3. QED
    BY <2>1, <2>2
<1>5. QED
  BY <1>1, <1>2, <1>4
     DEF Plain!Modify, Plain!NoTaker, NoTaker, Plain!Buy, Buy, PlainTaker, PlainAnswer, Idle,
         Resting, Entry

\* Every step of the book is one of the plain book, or changes nothing there.
LEMMA PlainStep ==
  ASSUME Inv, AnswerInv, IndexInv, [Next]_vars
  PROVE  [Plain!Next]_Plain!vars
<1>1. ASSUME NEW id \in Ids, NEW p \in Prices, NEW v \in Volumes, NEW s \in Sides,
             PlaceOrder(id, p, v, s)
      PROVE  Plain!Next
  <2>1. Plain!Submit(id, p, v, s)
    BY <1>1, PlaceOrderPlain
  <2>2. s \in {Plain!Sell, Plain!Buy}
    BY DEF Sides, Sell, Buy, Plain!Sell, Plain!Buy
  <2>3. QED
    BY <2>1, <2>2 DEF Plain!Next
<1>2. ASSUME NEW p \in Prices, FillPartial(p) \/ FillWhole(p)
      PROVE  Plain!Next
  <2>1. \E m \in Resting : \E q \in {m.volume, PlainTaker.volume} : Plain!Trade(m, q)
    BY <1>2, FillPartialPlain, FillWholePlain
  <2>2. QED
    BY <2>1 DEF Plain!Next, Resting, Entry, PlainTaker
<1>3. CASE RestRemainder
  BY <1>3, RestPlain DEF Plain!Next
<1>4. CASE ReturnFilled
  BY <1>4, ReturnPlain DEF Plain!vars, Resting, Entry, PlainTaker, PlainAnswer
<1>5. ASSUME NEW id \in Ids, CancelUnknown(id) \/ CancelResting(id)
      PROVE  Plain!Next
  BY <1>5, CancelPlain DEF Plain!Next
<1>6. ASSUME NEW id \in Ids, NEW n \in Volumes, ModifyRejected(id, n) \/ ModifyReduced(id, n)
      PROVE  Plain!Next
  BY <1>6, ModifyPlain DEF Plain!Next
<1>7. CASE UNCHANGED vars
  BY <1>7 DEF vars, Plain!vars, Idle
<1>8. QED
  BY <1>1, <1>2, <1>3, <1>4, <1>5, <1>6, <1>7 DEF Next, MatchStep

\* When callers use every id once, the lists, the levels and the index together do
\* what the plain book of price-time priority promises: nothing more, nothing less.
THEOREM ImplementsPlainBook ==
  ASSUME ~ReuseIds
  PROVE  Spec => PlainSpec
<1>1. Init => Plain!Init
  <2> SUFFICES ASSUME Init PROVE Plain!Init
    OBVIOUS
  <2>1. Resting = {}
    BY DEF Init, NoEntries, Resting
  <2>2. PlainTaker = NoTaker
    BY DEF Init, PlainTaker, NoTaker
  <2>3. PlainAnswer = [orderID |-> NoId, fulfilled |-> TRUE, remainingQty |-> 0,
                       trades |-> <<>>]
    <3>1. res = [orderID |-> NoId, fulfilled |-> TRUE, remainingQty |-> 0, trades |-> <<>>]
      BY DEF Init
    <3>2. (res.fulfilled \/ (~Idle /\ taker.volume <= 0)) = TRUE
      BY <3>1
    <3>3. PlainAnswer = [res EXCEPT !.fulfilled = TRUE]
      BY <3>2, Zenon DEF PlainAnswer
    <3>4. QED
      BY <3>1, <3>3
  <2>4. allocated = 0 /\ ok = TRUE
    BY DEF Init
  <2>5. QED
    BY <2>1, <2>2, <2>3, <2>4
       DEF Plain!Init, Plain!NoTaker, NoTaker, Plain!Buy, Buy, PlainTaker, PlainAnswer,
           Resting, Entry
<1>2. Init => AnswerInv /\ IndexInv
  BY AnswerInvInit, IndexInvInit
<1>3. Inv /\ AnswerInv /\ IndexInv /\ [Next]_vars => AnswerInv' /\ IndexInv'
  BY AnswerStep, IndexInvStep, FreshIds
<1>4. Inv /\ AnswerInv /\ IndexInv /\ [Next]_vars => [Plain!Next]_Plain!vars
  BY PlainStep
<1>5. QED
  BY InvHolds, <1>1, <1>2, <1>3, <1>4, PTL DEF Spec, PlainSpec, Plain!Spec


-----------------------------------------------------------------------------
(* What rests of an order as the index has it, when ids may be used again. *)

VolumeOf(id) == IF id \in DOMAIN global_map THEN order[global_map[id]].volume ELSE 0

\* An order that is taken out is gone from the index, and the others are not.
LEMMA UnlinkVolumeOf ==
  ASSUME Inv, NEW a \in DOMAIN order, Unlinked(a), NEW id
  PROVE  VolumeOf(id)' = IF id = order[a].orderID THEN 0 ELSE VolumeOf(id)
<1>1. /\ DOMAIN order' = DOMAIN order \ {a}
      /\ \A x \in DOMAIN order' : order'[x].volume = order[x].volume
  BY DEF Unlinked, Inv, BookInv, BookTypeOK
<1>2. /\ DOMAIN global_map' = DOMAIN global_map \ {order[a].orderID}
      /\ \A x \in DOMAIN global_map' : global_map'[x] = global_map[x]
  BY DEF Unlinked, EraseKey, Restrict
<1>3. \A x \in DOMAIN global_map : global_map[x] \in DOMAIN order
                                   /\ order[global_map[x]].orderID = x
  BY DEF Inv, BookInv, IndexSound
<1>4. CASE id = order[a].orderID \/ id \notin DOMAIN global_map
  BY <1>2, <1>4 DEF VolumeOf
<1>5. CASE id # order[a].orderID /\ id \in DOMAIN global_map
  <2>1. global_map'[id] = global_map[id] /\ global_map[id] \in DOMAIN order'
    BY <1>1, <1>2, <1>3, <1>5
  <2>2. QED
    BY <1>1, <1>2, <1>5, <2>1 DEF VolumeOf
<1>6. QED
  BY <1>4, <1>5

\* A new volume of one order is the volume of that order only.
LEMMA ResizeVolumeOf ==
  ASSUME Inv, NEW a \in DOMAIN order, NEW n \in Int, Resized(a, n), NEW id
  PROVE  VolumeOf(id)' = IF id \in DOMAIN global_map /\ global_map[id] = a THEN n ELSE VolumeOf(id)
<1>1. /\ \A x \in DOMAIN order : order'[x].volume = IF x = a THEN n ELSE order[x].volume
      /\ global_map' = global_map
  BY DEF Resized, Inv, BookInv, BookTypeOK
<1>2. \A x \in DOMAIN global_map : global_map[x] \in DOMAIN order
  BY DEF Inv, BookInv, IndexSound
<1>3. QED
  BY <1>1, <1>2 DEF VolumeOf

\* What rests of the taker is entered under its id.
LEMMA RestVolumeOf ==
  ASSUME Inv, RestRemainder, NEW id
  PROVE  VolumeOf(id)' = IF id = taker.orderID THEN taker.volume ELSE VolumeOf(id)
<1> SUFFICES ASSUME NEW m, m = allocated + 1
             PROVE  VolumeOf(id)' = IF id = taker.orderID THEN taker.volume ELSE VolumeOf(id)
  OBVIOUS
<1>1. /\ order'[m].volume = taker.volume
      /\ \A y \in DOMAIN order : y # m => y \in DOMAIN order' /\ order'[y].volume = order[y].volume
  BY DEF RestRemainder, Inv, BookInv, BookTypeOK
<1>2. m \notin DOMAIN order
  BY DEF Inv, BookInv, BookTypeOK
<1>3. /\ DOMAIN global_map' = DOMAIN global_map \cup {taker.orderID}
      /\ \A x \in DOMAIN global_map' :
           global_map'[x] = IF x = taker.orderID THEN m ELSE global_map[x]
  BY DEF RestRemainder, Remember, Assign
<1>4. \A x \in DOMAIN global_map : global_map[x] \in DOMAIN order
  BY DEF Inv, BookInv, IndexSound
<1>5. CASE id = taker.orderID
  BY <1>1, <1>3, <1>5 DEF VolumeOf
<1>6. CASE id # taker.orderID
  BY <1>1, <1>2, <1>3, <1>4, <1>6 DEF VolumeOf
<1>7. QED
  BY <1>5, <1>6

\* A match makes no order of the index larger, and one that it makes smaller is
\* one that trades.
LEMMA FillVolumeOf ==
  ASSUME Inv, NEW p \in Prices, FillPartial(p) \/ FillWhole(p)
  PROVE  \E a \in DOMAIN order :
           /\ a \notin DOMAIN order' \/ order'[a].volume < order[a].volume
           /\ DOMAIN global_map' \subseteq DOMAIN global_map
           /\ \A id : VolumeOf(id)' <= VolumeOf(id)
           /\ \A id : id # order[a].orderID => VolumeOf(id)' = VolumeOf(id)
<1> SUFFICES ASSUME NEW a, a = limit[<<Opposite(taker.side), p>>].head
             PROVE  /\ a \in DOMAIN order
                    /\ a \notin DOMAIN order' \/ order'[a].volume < order[a].volume
                    /\ DOMAIN global_map' \subseteq DOMAIN global_map
                    /\ \A id : VolumeOf(id)' <= VolumeOf(id)
                    /\ \A id : id # order[a].orderID => VolumeOf(id)' = VolumeOf(id)
  OBVIOUS
<1>1. /\ \A x \in DOMAIN order : order[x].volume \in Int /\ order[x].volume > 0
      /\ \A x \in DOMAIN global_map : global_map[x] \in DOMAIN order
                                      /\ order[global_map[x]].orderID = x
  BY DEF Inv, BookInv, BookTypeOK, LevelCounts, IndexSound
<1>2. \A id : VolumeOf(id) \in Int /\ VolumeOf(id) >= 0
  BY <1>1 DEF VolumeOf
<1>3. CASE FillWhole(p)
  <2>1. a \in DOMAIN order /\ Unlinked(a)
    BY <1>3, FillWholeUnlinks DEF Inv
  <2>2. a \notin DOMAIN order' /\ DOMAIN global_map' \subseteq DOMAIN global_map
    BY <2>1 DEF Unlinked, EraseKey, Restrict
  <2>3. \A id : VolumeOf(id)' = IF id = order[a].orderID THEN 0 ELSE VolumeOf(id)
    BY <2>1, UnlinkVolumeOf
  <2>4. QED
    BY <1>2, <2>1, <2>2, <2>3
<1>4. CASE FillPartial(p)
  <2> SUFFICES ASSUME NEW n, n = order[a].volume - taker.volume
               PROVE  /\ a \in DOMAIN order
                      /\ order'[a].volume < order[a].volume
                      /\ DOMAIN global_map' \subseteq DOMAIN global_map
                      /\ \A id : VolumeOf(id)' <= VolumeOf(id)
                      /\ \A id : id # order[a].orderID => VolumeOf(id)' = VolumeOf(id)
    OBVIOUS
  <2>1. a \in DOMAIN order /\ n \in Int /\ n > 0 /\ Resized(a, n)
    BY <1>4, FillPartialResizes DEF Inv
  <2>2. taker.volume > 0 /\ taker.volume \in Int
    BY <1>4 DEF FillPartial, Matching, Idle, Inv, CallTypeOK
  <2>3. n < order[a].volume
    BY <1>1, <2>1, <2>2
  <2>4. order'[a].volume = n /\ global_map' = global_map
    BY <2>1 DEF Resized, Inv, BookInv, BookTypeOK
  <2>5. \A id : VolumeOf(id)' = IF id \in DOMAIN global_map /\ global_map[id] = a
                                 THEN n ELSE VolumeOf(id)
    BY <2>1, ResizeVolumeOf
  <2>6. ASSUME NEW id
        PROVE  /\ VolumeOf(id)' <= VolumeOf(id)
               /\ id # order[a].orderID => VolumeOf(id)' = VolumeOf(id)
    <3>1. CASE id \in DOMAIN global_map /\ global_map[id] = a
      <4>1. VolumeOf(id) = order[a].volume /\ VolumeOf(id)' = n /\ id = order[a].orderID
        BY <1>1, <2>5, <3>1 DEF VolumeOf
      <4>2. QED
        BY <1>1, <2>1, <2>3, <4>1
    <3>2. CASE ~(id \in DOMAIN global_map /\ global_map[id] = a)
      BY <1>2, <2>5, <3>2
    <3>3. QED
      BY <3>1, <3>2
  <2>7. QED
    BY <2>1, <2>3, <2>4, <2>6
<1>5. QED
  BY <1>3, <1>4
==============================================================================
