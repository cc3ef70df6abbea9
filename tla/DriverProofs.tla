---------------------------- MODULE DriverProofs ----------------------------
(***************************************************************************)
(* Theorems about the two programs: about main_replay.cpp, for any file    *)
(* and any size of the ring, and in the second half about main.cpp, for    *)
(* any size of the ring and any order in which its threads run.            *)
(***************************************************************************)
EXTENDS ReplayDriver, DemoDriver, MatchingSystemProofs, NumberTheorems

\* Every row that counts as processed is an event of the ring, and there are never
\* more of them unreleased than it has slots.
RowsInv ==
  /\ CursorInv
  /\ Len(inbound) <= read_p + Slots
  /\ rows_processed_ = Len(inbound)

\* What main knows: the slots before i were seen released, and stay so, as nothing is
\* put in after the file is read.
ScanInv ==
  /\ i \in 0..Slots - 1
  /\ main = "open" => rows_processed_ = 0
  /\ main = "scan" => ~gaveUp /\ \A s \in 0..i - 1 : ~IsReady(s)
  /\ main \in {"open", "stream"} => ~gaveUp /\ i = 0
  /\ main \in {"report", "returned"} /\ ~gaveUp => read_p = Len(inbound)

DriverInv == RowsInv /\ ScanInv

LEMMA ReportFollows == DriverInv => ReportIsTrue
BY LenProperties, LimitsAssumption DEF DriverInv, RowsInv, ScanInv, CursorInv, ReportIsTrue

LEMMA InitDriver == DriverInit => DriverInv
<1>1. Len(<<>>) = 0
  OBVIOUS
<1>2. DriverInit => CursorInv
  BY InitCursor DEF DriverInit, ReplayInit
<1>3. QED
  BY <1>1, <1>2, LimitsAssumption
     DEF DriverInit, ReplayInit, Init, DriverInv, RowsInv, ScanInv

\* The adapter puts an event in for every row it counts as processed.
LEMMA AdapterPosts ==
  ASSUME Adapter
  PROVE  /\ UNCHANGED <<read_p, engine>>
         /\ \/ UNCHANGED <<inbound, rows_processed_>>
            \/ /\ Len(inbound) - read_p < Slots
               /\ \E e : inbound' = Append(inbound, e)
               /\ rows_processed_' = rows_processed_ + 1
BY DEF Adapter, ReadRow, Dispatch, Submit, CancelPart, Delete, Skip, Fail, Processed,
       PlaceReplay, Cancel, Modify, Post, system, calls, counters

LEMMA RowsAfterAdapter ==
  ASSUME RowsInv, Adapter
  PROVE  RowsInv'
<1>0. Len(inbound) \in Nat /\ read_p \in 0..Len(inbound)
  BY LenProperties DEF RowsInv, CursorInv
<1>1. CASE UNCHANGED <<inbound, rows_processed_>>
  BY <1>1, AdapterPosts DEF RowsInv, CursorInv
<1>2. ASSUME NEW e, inbound' = Append(inbound, e), Len(inbound) - read_p < Slots,
             rows_processed_' = rows_processed_ + 1
      PROVE  RowsInv'
  <2>1. UNCHANGED <<read_p, engine>>
    BY AdapterPosts
  <2>2. CursorInv'
    BY <1>2, <2>1, CursorAfterPost DEF RowsInv
  <2>3. Len(inbound') = Len(inbound) + 1
    BY <1>2, AppendBehind DEF RowsInv, CursorInv
  <2>4. QED
    BY <1>0, <1>2, <2>1, <2>2, <2>3, LimitsAssumption DEF RowsInv
<1>3. QED
  BY <1>1, <1>2, AdapterPosts

\* The engine releases events, and a slot that was released stays so.
LEMMA EngineReleases ==
  ASSUME RowsInv, EngineStep
  PROVE  /\ RowsInv'
         /\ UNCHANGED <<inbound, rows_processed_>>
         /\ \A s : IsReady(s)' => IsReady(s)
         /\ read_p = Len(inbound) => read_p' = Len(inbound)
<1>0. Len(inbound) \in Nat /\ read_p \in 0..Len(inbound)
  BY LenProperties DEF RowsInv, CursorInv
<1>1. UNCHANGED rows_processed_ /\ Engine
  BY DEF EngineStep, TradeStep, Engine, adapter, counters
<1>2. CursorInv'
  BY <1>1, CursorAfterEngine DEF RowsInv
<1>3. /\ UNCHANGED inbound
      /\ read_p' \in {read_p, read_p + 1}
  BY <1>1, EngineMoves
<1>4. RowsInv'
  BY <1>0, <1>1, <1>2, <1>3, LimitsAssumption DEF RowsInv
<1>5. \A s : IsReady(s)' => IsReady(s)
  BY <1>0, <1>3 DEF IsReady
<1>6. read_p' <= Len(inbound)
  BY <1>0, <1>2, <1>3 DEF CursorInv
<1>7. QED
  BY <1>0, <1>1, <1>3, <1>4, <1>5, <1>6

\* When no slot is ready, every event is released.
LEMMA NoneReady ==
  ASSUME RowsInv, \A s \in 0..Slots - 1 : ~IsReady(s)
  PROVE  read_p = Len(inbound)
<1>0. Len(inbound) \in Nat /\ read_p \in 0..Len(inbound)
  BY LenProperties DEF RowsInv, CursorInv
<1>1. SUFFICES ASSUME read_p < Len(inbound)
               PROVE  FALSE
  BY <1>0
<1>2. read_p \in read_p..Len(inbound) - 1 /\ read_p \in Nat
  BY <1>0, <1>1
<1>3. read_p % Slots \in 0..Slots - 1
  BY <1>2, RemainderRange, LimitsAssumption
<1>4. QED
  BY <1>2, <1>3 DEF IsReady

LEMMA DriverStep == DriverInv /\ [DriverNext]_vars => DriverInv'
<1> SUFFICES ASSUME DriverInv, [DriverNext]_vars
             PROVE  DriverInv'
  OBVIOUS
<1>0. Len(inbound) \in Nat /\ read_p \in 0..Len(inbound) /\ Slots \in Nat \ {0}
  BY LenProperties, LimitsAssumption DEF DriverInv, RowsInv, CursorInv
<1>1. ASSUME UNCHANGED replay
      PROVE  RowsInv' /\ UNCHANGED <<inbound, read_p, rows_processed_>> /\ \A s : IsReady(s)' = IsReady(s)
  BY <1>1 DEF replay, system, calls, adapter, counters, DriverInv, RowsInv, CursorInv, IsReady
<1>2. CASE Open
  BY <1>0, <1>1, <1>2 DEF Open, DriverInv, RowsInv, ScanInv, CursorInv
<1>3. CASE Stream
  BY <1>3, RowsAfterAdapter DEF Stream, driver, DriverInv, ScanInv
<1>4. CASE EndOfFile
  BY <1>0, <1>1, <1>4 DEF EndOfFile, DriverInv, ScanInv
<1>5. CASE SeeReady
  BY <1>0, <1>1, <1>5 DEF SeeReady, DriverInv, ScanInv
<1>6. CASE SeeReleased
  <2>1. CASE i + 1 = Slots
    <3>1. \A s \in 0..Slots - 1 : ~IsReady(s)
      BY <1>0, <1>6, <2>1 DEF SeeReleased, DriverInv, ScanInv
    <3>2. read_p = Len(inbound)
      BY <3>1, NoneReady DEF DriverInv
    <3>3. i' \in 0..Slots - 1
      BY <1>0, <1>6, <2>1, RemainderRange DEF SeeReleased
    <3>4. QED
      BY <1>1, <1>6, <2>1, <3>2, <3>3 DEF SeeReleased, DriverInv, ScanInv
  <2>2. CASE i + 1 # Slots
    <3>1. i + 1 \in 0..Slots - 1 /\ i \in Nat
      BY <1>0, <2>2 DEF DriverInv, ScanInv
    <3>2. i' = i + 1
      BY <1>0, <1>6, <3>1 DEF SeeReleased
    <3>3. \A s \in 0..i' - 1 : ~IsReady(s)
      BY <1>6, <3>1, <3>2 DEF SeeReleased, DriverInv, ScanInv
    <3>4. QED
      BY <1>1, <1>6, <2>2, <3>1, <3>2, <3>3 DEF SeeReleased, DriverInv, ScanInv
  <2>3. QED
    BY <2>1, <2>2
<1>7. CASE Return
  BY <1>1, <1>7 DEF Return, DriverInv, ScanInv
<1>8. CASE Deadline
  BY <1>1, <1>8 DEF Deadline, DriverInv, ScanInv
<1>9. CASE Run
  BY <1>9, EngineReleases DEF Run, driver, DriverInv, ScanInv
<1>10. CASE UNCHANGED vars
  BY <1>1, <1>10 DEF vars, driver, DriverInv, ScanInv
<1>11. QED
  BY <1>2, <1>3, <1>4, <1>5, <1>6, <1>7, <1>8, <1>9, <1>10
     DEF DriverNext, Main, Spin, Exit

\* What main_replay.cpp reports as processed the engine has processed, for any file and
\* any ring, when it did not give up; and when it did, all but at most a ring's events.
THEOREM ReportsAreTrue == DriverSpec => []ReportIsTrue
BY InitDriver, DriverStep, ReportFollows, PTL DEF DriverSpec

-----------------------------------------------------------------------------
(* The sizes an adapter believes in, and what it puts into the ring.       *)

\* The size an order of the file has once the first n events are done, if it does not
\* trade.
Touching(id, n) == {k \in 1..n : inbound[k].id = id}
SizeAt(k) == IF inbound[k].op = "CANCEL" THEN 0 ELSE inbound[k].volume
SizeBy(id, n) == IF Touching(id, n) = {} THEN 0 ELSE SizeAt(Max(Touching(id, n)))

\* An order comes with a size and once only, and each reduction leaves something of it.
FileInv ==
  /\ \A k \in DOMAIN inbound : inbound[k].gateway = Feed /\ inbound[k].id \in ExternalIds
  /\ \A id \in ExternalIds, k \in DOMAIN inbound : inbound[k].id = id =>
       /\ inbound[k].op = "NEW" => inbound[k].volume > 0 /\ SizeBy(id, k - 1) = 0
       /\ inbound[k].op = "MODIFY" => inbound[k].volume > 0 /\ inbound[k].volume < SizeBy(id, k - 1)

\* The adapter knows what its orders have been reduced to.
TrackInv ==
  /\ DOMAIN live_sizes_ \subseteq ExternalIds
  /\ live_sizes_ \in [DOMAIN live_sizes_ -> Volumes]
  /\ \A id \in ExternalIds : LiveSize(id) = SizeBy(id, Len(inbound))
  /\ \A id \in DOMAIN live_sizes_ : id \in Placed(Feed)

\* The row in hand is not counted yet, and is no order that was put in before.
RowInv ==
  /\ row \in Rows \cup {NoRow}
  /\ rows_processed_ \in Nat /\ rows_skipped_ \in Nat /\ rows_failed_ \in Nat
  /\ RowsRead <= MaxRows
  /\ row # NoRow => RowsRead < MaxRows /\ (row.type = 1 => row.order_id \notin Placed(Feed))

\* The sizes after a number of events that is known.
LEMMA SizesAre ==
  \A id, n : /\ Len(inbound) = n => SizeBy(id, Len(inbound)) = SizeBy(id, n)
             /\ Taken = n => SizeBy(id, Taken) = SizeBy(id, n)
OBVIOUS

LEMMA SizesAreAfter ==
  (\A id, n : /\ Len(inbound) = n => SizeBy(id, Len(inbound)) = SizeBy(id, n)
              /\ Taken = n => SizeBy(id, Taken) = SizeBy(id, n))'
BY SizesAre, PTL

\* One event more is the last of its order.
LEMMA SizeNext ==
  ASSUME NEW id, NEW n \in Nat
  PROVE  SizeBy(id, n + 1) = IF inbound[n + 1].id = id THEN SizeAt(n + 1) ELSE SizeBy(id, n)
<1>1. \A k \in 1..n + 1 : k \in 1..n \/ k = n + 1
  OBVIOUS
<1>2. n + 1 \in 1..n + 1 /\ n + 1 \notin 1..n /\ \A k \in 1..n : k \in 1..n + 1
  OBVIOUS
<1>3. CASE inbound[n + 1].id # id
  <2>1. Touching(id, n + 1) = Touching(id, n)
    BY <1>1, <1>2, <1>3 DEF Touching
  <2>2. QED
    BY <1>3, <2>1 DEF SizeBy
<1>4. CASE inbound[n + 1].id = id
  <2>1. Touching(id, n + 1) \subseteq 1..n + 1 /\ n + 1 \in Touching(id, n + 1) /\ n + 1 \in Nat
    BY <1>2, <1>4 DEF Touching
  <2>2. Max(Touching(id, n + 1)) \in 1..n + 1 /\ n + 1 <= Max(Touching(id, n + 1))
    BY <2>1, MaxIsIn
  <2>3. Max(Touching(id, n + 1)) = n + 1
    BY <2>2
  <2>4. QED
    BY <1>4, <2>1, <2>3 DEF SizeBy
<1>5. QED
  BY <1>3, <1>4

LEMMA SizeAtStart == ASSUME NEW id PROVE SizeBy(id, 0) = 0
BY DEF SizeBy, Touching

\* The last of the events of an order is one of them.
LEMMA SizeIs ==
  ASSUME NEW id, NEW n \in Nat
  PROVE  SizeBy(id, n) = 0 \/ \E k \in 1..n : inbound[k].id = id /\ SizeBy(id, n) = SizeAt(k)
<1>1. CASE Touching(id, n) # {}
  <2>1. Max(Touching(id, n)) \in Touching(id, n)
    BY <1>1, MaxIsIn, Touching(id, n) \subseteq 1..n DEF Touching
  <2>2. QED
    BY <1>1, <2>1 DEF SizeBy, Touching
<1>2. QED
  BY <1>1 DEF SizeBy

\* No size is negative.
LEMMA SizeType ==
  ASSUME CoreInv, FileInv, NEW id, NEW n \in 0..Len(inbound)
  PROVE  SizeBy(id, n) \in Nat
<1>1. n \in Nat /\ \A k \in 1..n : k \in 1..Len(inbound)
  BY RingEvents
<1>2. ASSUME NEW k \in 1..n
      PROVE  SizeAt(k) \in Nat
  <2>1. inbound[k] \in Events /\ k \in DOMAIN inbound
    BY <1>1, RingEvents
  <2>2. inbound[k].op \in {"NEW", "CANCEL", "MODIFY"}
        /\ (inbound[k].op # "CANCEL" => inbound[k].volume \in Int)
    BY <2>1, EventFields, BookAssumption
  <2>3. inbound[k].op # "CANCEL" => inbound[k].volume > 0
    BY <2>1, <2>2 DEF FileInv
  <2>4. QED
    BY <2>2, <2>3 DEF SizeAt
<1>3. QED
  BY <1>1, <1>2, SizeIs

\* What is put in comes behind the events that are there.
LEMMA SizeStays ==
  ASSUME CoreInv, NEW e, inbound' = Append(inbound, e), NEW id, NEW n \in 0..Len(inbound)
  PROVE  SizeBy(id, n)' = SizeBy(id, n)
<1>1. n \in Nat /\ \A k \in 1..n : inbound'[k] = inbound[k]
  BY PutBehind, RingEvents
<1>2. Touching(id, n)' = Touching(id, n)
  BY <1>1 DEF Touching
<1>3. CASE Touching(id, n) = {}
  BY <1>2, <1>3 DEF SizeBy
<1>4. CASE Touching(id, n) # {}
  <2> SUFFICES ASSUME NEW m, m = Max(Touching(id, n))
               PROVE  SizeBy(id, n)' = SizeBy(id, n)
    OBVIOUS
  <2>1. m \in 1..n
    BY <1>1, <1>4, MaxIsIn, Touching(id, n) \subseteq 1..n DEF Touching
  <2>2. SizeBy(id, n)' = SizeAt(m)' /\ SizeBy(id, n) = SizeAt(m)
    BY <1>2, <1>4 DEF SizeBy
  <2>3. QED
    BY <1>1, <2>1, <2>2 DEF SizeAt
<1>5. QED
  BY <1>3, <1>4

\* What the fields of a row are.
LEMMA RowFields ==
  ASSUME NEW r \in Rows
  PROVE  /\ r.type = 1 => /\ r.order_id \in ExternalIds /\ r.size \in Volumes
                          /\ r.price \in Prices /\ r.side \in Book!Sides
         /\ r.type = 2 => r.order_id \in ExternalIds /\ r.size \in Volumes
         /\ r.type = 3 => r.order_id \in ExternalIds
         /\ r # NoRow
<1>1. \/ r \in [type : {1}, order_id : ExternalIds, size : Volumes, price : Prices, side : Book!Sides]
      \/ r \in [type : {2}, order_id : ExternalIds, size : Volumes]
      \/ r \in [type : {3}, order_id : ExternalIds]
      \/ r \in [type : {0} \cup 4..8]
  BY DEF Rows
<1>2. r.type \in {1, 2, 3} \cup {0} \cup 4..8
  BY <1>1
<1>3. r # NoRow
  <2>1. r.type # NoRow.type
    BY <1>2 DEF NoRow
  <2>2. QED
    BY <2>1
<1>4. QED
  BY <1>1, <1>3

LEMMA SizesPositive == \A v \in Volumes : v \in Nat /\ v > 0
BY FileAssumption

\* What is left of a size is a smaller one.
LEMMA WhatIsLeft ==
  ASSUME NEW v \in Volumes, NEW w \in Volumes, v - w > 0
  PROVE  v - w \in Volumes /\ v - w < v
<1>1. v \in Nat /\ w \in Nat \ {0}
  BY FileAssumption
<1>2. v > w /\ v - w < v
  BY <1>1
<1>3. QED
  BY <1>2, FileAssumption

\* A row leaves the ring alone, or puts one event in and what the adapter knows up to
\* date with it.
Reports(e) ==
  /\ e.gateway = Feed /\ e.id \in ExternalIds /\ (e.silent <=> e.gateway \notin Noisy)
  /\ inbound' = Append(inbound, e)
  /\ UNCHANGED <<internal_id_counter, minting, read_p, engine, outbound, book, traded>>
  /\ row' = NoRow
  /\ \/ /\ e.op = "NEW" /\ e.id \notin Placed(Feed)
        /\ live_sizes_' = Book!Assign(live_sizes_, e.id, e.volume)
     \/ /\ e.op = "MODIFY" /\ e.id \in DOMAIN live_sizes_ /\ e.volume > 0
        /\ e.volume < live_sizes_[e.id]
        /\ live_sizes_' = [live_sizes_ EXCEPT ![e.id] = e.volume]
     \/ e.op = "CANCEL" /\ live_sizes_' = Book!EraseKey(live_sizes_, e.id)

LEMMA AdapterIs ==
  ASSUME CoreInv, TrackInv, RowInv, Adapter
  PROVE  \/ UNCHANGED <<inbound, internal_id_counter, minting, read_p, engine, outbound, book,
                        live_sizes_, traded>>
         \/ \E e \in Events : Reports(e)
<1>0. /\ Feed \in Gateways /\ Feed \notin Live /\ Silent(Feed) /\ Feed \notin Noisy
  BY FeedAssumption DEF Silent, Noisy
<1>1. CASE ReadRow
  BY <1>1 DEF ReadRow, system, calls, book
<1>2. CASE Dispatch
  <2>0. /\ row \in Rows /\ row' = NoRow /\ traded' = traded
    BY <1>2 DEF Dispatch, RowInv
  <2>1. CASE Submit(row)
    <3>1. /\ row.type = 1 /\ row.order_id \in ExternalIds /\ row.size \in Volumes
          /\ row.price \in Prices /\ row.side \in Book!Sides /\ row.order_id \notin Placed(Feed)
          /\ row.order_id \in Ids
      BY <2>0, <2>1, RowFields DEF Submit, RowInv, Ids
    <3> DEFINE e == New(Feed, row.order_id, row.price, row.size, row.side)
    <3>2. /\ e \in Events /\ e.gateway = Feed /\ e.id = row.order_id /\ e.op = "NEW"
          /\ e.volume = row.size /\ (e.silent <=> e.gateway \notin Noisy)
      BY <1>0, <3>1, SilentOrNoisy DEF New, Events
    <3>3. /\ inbound' = Append(inbound, e) /\ UNCHANGED minting
          /\ UNCHANGED <<internal_id_counter, read_p, engine, outbound, book>>
          /\ live_sizes_' = Book!Assign(live_sizes_, row.order_id, row.size)
      BY <2>1 DEF Submit, PlaceReplay, Post
    <3> HIDE DEF e
    <3>4. QED
      BY <2>0, <3>1, <3>2, <3>3 DEF Reports
  <2>2. CASE CancelPart(row)
    <3> DEFINE id == row.order_id
               n == live_sizes_[id] - row.size
    <3>1. /\ row.type = 2 /\ id \in ExternalIds /\ row.size \in Volumes
          /\ id \in DOMAIN live_sizes_ /\ n > 0 /\ id \in Ids
      BY <2>0, <2>2, RowFields DEF CancelPart, Tracked, Ids
    <3>2. live_sizes_[id] \in Volumes
      BY <3>1 DEF TrackInv
    <3>3. n \in Volumes /\ n < live_sizes_[id]
      BY <3>1, <3>2, WhatIsLeft
    <3> DEFINE e == [op |-> "MODIFY", id |-> id, gateway |-> Feed, silent |-> Silent(Feed),
                     volume |-> n]
    <3>4. /\ inbound' = Append(inbound, e) /\ UNCHANGED minting
          /\ UNCHANGED <<internal_id_counter, read_p, engine, outbound, book>>
          /\ live_sizes_' = [live_sizes_ EXCEPT ![id] = n]
      BY <2>2 DEF CancelPart, Modify, Post
    <3> HIDE DEF n, id
    <3>5. /\ e \in Events /\ e.gateway = Feed /\ e.id = id /\ e.op = "MODIFY"
          /\ e.volume = n /\ (e.silent <=> e.gateway \notin Noisy)
      BY <1>0, <3>1, <3>3, SilentOrNoisy DEF Events
    <3> HIDE DEF e
    <3>6. QED
      BY <2>0, <3>1, <3>3, <3>4, <3>5 DEF Reports
  <2>3. CASE Delete(row)
    <3>1. /\ row.type = 3 /\ row.order_id \in ExternalIds /\ row.order_id \in Ids
      BY <2>0, <2>3, RowFields DEF Delete, Ids
    <3> DEFINE e == [op |-> "CANCEL", id |-> row.order_id, gateway |-> Feed, silent |-> Silent(Feed)]
    <3>2. /\ e \in Events /\ e.gateway = Feed /\ e.id = row.order_id /\ e.op = "CANCEL"
          /\ (e.silent <=> e.gateway \notin Noisy)
      BY <1>0, <3>1, SilentOrNoisy DEF Events
    <3>3. /\ inbound' = Append(inbound, e) /\ UNCHANGED minting
          /\ UNCHANGED <<internal_id_counter, read_p, engine, outbound, book>>
          /\ live_sizes_' = Book!EraseKey(live_sizes_, row.order_id)
      BY <2>3 DEF Delete, Cancel, Post
    <3> HIDE DEF e
    <3>4. QED
      BY <2>0, <3>1, <3>2, <3>3 DEF Reports
  <2>4. CASE Skip(row) \/ Fail(row)
    BY <2>0, <2>4 DEF Skip, Fail, system, calls, book
  <2>5. QED
    BY <1>2, <2>1, <2>2, <2>3, <2>4 DEF Dispatch
<1>3. QED
  BY <1>1, <1>2 DEF Adapter

\* The same after a step.
LEMMA SizesNext ==
  \A id : \A n \in Nat :
    SizeBy(id, n + 1) = IF inbound[n + 1].id = id THEN SizeAt(n + 1) ELSE SizeBy(id, n)
BY SizeNext

LEMMA SizesNextAfter ==
  (\A id : \A n \in Nat :
    SizeBy(id, n + 1) = IF inbound[n + 1].id = id THEN SizeAt(n + 1) ELSE SizeBy(id, n))'
BY SizesNext, PTL

\* What is left of an order after one event more.
LEMMA ReportsSize ==
  ASSUME CoreInv, FileInv, TrackInv, NEW e \in Events, Reports(e), NEW id \in ExternalIds,
         NEW n, n = Len(inbound)
  PROVE  /\ SizeBy(id, n + 1)' = IF id # e.id THEN SizeBy(id, n)
                                 ELSE IF e.op = "CANCEL" THEN 0 ELSE e.volume
         /\ LiveSize(id)' = IF id # e.id THEN LiveSize(id)
                            ELSE IF e.op = "CANCEL" THEN 0 ELSE e.volume
<1>1. /\ n \in Nat /\ n \in 0..Len(inbound) /\ inbound' = Append(inbound, e)
      /\ inbound'[n + 1] = e
  BY PutBehind, RingEvents DEF Reports
<1>2. SizeBy(id, n)' = SizeBy(id, n)
  BY <1>1, SizeStays
<1>3. SizeAt(n + 1)' = IF e.op = "CANCEL" THEN 0 ELSE e.volume
  BY <1>1 DEF SizeAt
<1>4. SizeBy(id, n + 1)' = IF inbound'[n + 1].id = id THEN SizeAt(n + 1)' ELSE SizeBy(id, n)'
  BY <1>1, SizesNextAfter
<1>5. SizeBy(id, n + 1)' = IF id # e.id THEN SizeBy(id, n)
                          ELSE IF e.op = "CANCEL" THEN 0 ELSE e.volume
  BY <1>1, <1>2, <1>3, <1>4
<1>6. LiveSize(id)' = IF id # e.id THEN LiveSize(id)
                     ELSE IF e.op = "CANCEL" THEN 0 ELSE e.volume
  <2>1. CASE e.op = "NEW" /\ live_sizes_' = Book!Assign(live_sizes_, e.id, e.volume)
    <3>1. /\ DOMAIN live_sizes_' = DOMAIN live_sizes_ \cup {e.id}
          /\ \A x \in DOMAIN live_sizes_' :
               live_sizes_'[x] = IF x = e.id THEN e.volume ELSE live_sizes_[x]
      BY <2>1 DEF Book!Assign
    <3>2. QED
      BY <2>1, <3>1 DEF LiveSize
  <2>2. CASE /\ e.op = "MODIFY" /\ e.id \in DOMAIN live_sizes_
             /\ live_sizes_' = [live_sizes_ EXCEPT ![e.id] = e.volume]
    <3>1. /\ DOMAIN live_sizes_' = DOMAIN live_sizes_
          /\ \A x \in DOMAIN live_sizes_' :
               live_sizes_'[x] = IF x = e.id THEN e.volume ELSE live_sizes_[x]
      BY <2>2 DEF TrackInv
    <3>2. QED
      BY <2>2, <3>1 DEF LiveSize
  <2>3. CASE e.op = "CANCEL" /\ live_sizes_' = Book!EraseKey(live_sizes_, e.id)
    <3>1. /\ DOMAIN live_sizes_' = DOMAIN live_sizes_ \ {e.id}
          /\ \A x \in DOMAIN live_sizes_' : live_sizes_'[x] = live_sizes_[x]
      BY <2>3 DEF Book!EraseKey, Book!Restrict
    <3>2. QED
      BY <2>3, <3>1 DEF LiveSize
  <2>4. QED
    BY <2>1, <2>2, <2>3 DEF Reports
<1>7. QED
  BY <1>5, <1>6

\* What the adapter puts in goes with what the file has and with what it believes.
LEMMA ReportsKeeps ==
  ASSUME CoreInv, FileInv, TrackInv, NEW e \in Events, Reports(e)
  PROVE  FileInv' /\ TrackInv'
<1> SUFFICES ASSUME NEW n, n = Len(inbound)
             PROVE  FileInv' /\ TrackInv'
  OBVIOUS
<1>1. /\ n \in Nat /\ DOMAIN inbound = 1..n /\ DOMAIN inbound' = 1..n + 1
      /\ Len(inbound') = n + 1 /\ inbound'[n + 1] = e
      /\ \A k \in 1..n : inbound'[k] = inbound[k]
      /\ inbound' = Append(inbound, e) /\ e.gateway = Feed /\ e.id \in ExternalIds
  BY PutBehind, RingEvents DEF Reports
<1>2. \A k \in 1..n + 1 : k \in 1..n \/ k = n + 1
  BY <1>1
<1>3. \A k \in 1..n + 1 : k - 1 \in 0..n
  BY <1>1
<1>4. \A k \in 1..n + 1 : \A id : SizeBy(id, k - 1)' = SizeBy(id, k - 1)
  BY <1>1, <1>3, SizeStays
<1>5. \A id \in ExternalIds : LiveSize(id) = SizeBy(id, n)
  BY DEF TrackInv
<1>6. /\ e.op = "NEW" => e.volume > 0 /\ SizeBy(e.id, n) = 0
      /\ e.op = "MODIFY" => e.volume > 0 /\ e.volume < SizeBy(e.id, n)
  <2>1. CASE e.op = "NEW"
    <3>1. e.id \notin DOMAIN live_sizes_
      BY <2>1 DEF Reports, TrackInv
    <3>2. e.volume > 0
      <4>1. e.volume \in Volumes
        BY <2>1, EventFields
      <4>2. QED
        BY <4>1, SizesPositive
    <3>3. QED
      BY <1>1, <1>5, <2>1, <3>1, <3>2 DEF LiveSize
  <2>2. CASE e.op = "MODIFY"
    <3>1. e.id \in DOMAIN live_sizes_ /\ e.volume > 0 /\ e.volume < live_sizes_[e.id]
      BY <2>2 DEF Reports
    <3>2. QED
      BY <1>1, <1>5, <2>2, <3>1 DEF LiveSize
  <2>3. QED
    BY <2>1, <2>2
<1>7. FileInv'
  <2>1. \A k \in 1..n + 1 : inbound'[k].gateway = Feed /\ inbound'[k].id \in ExternalIds
    BY <1>1, <1>2 DEF FileInv
  <2>2. ASSUME NEW id \in ExternalIds, NEW k \in 1..n + 1, inbound'[k].id = id
        PROVE  /\ inbound'[k].op = "NEW" => inbound'[k].volume > 0 /\ SizeBy(id, k - 1)' = 0
               /\ inbound'[k].op = "MODIFY" => /\ inbound'[k].volume > 0
                                               /\ inbound'[k].volume < SizeBy(id, k - 1)'
    <3>1. SizeBy(id, k - 1)' = SizeBy(id, k - 1)
      BY <1>4
    <3>2. CASE k \in 1..n
      BY <1>1, <2>2, <3>1, <3>2 DEF FileInv
    <3>3. CASE k = n + 1
      <4>1. k - 1 = n /\ inbound'[k] = e /\ id = e.id
        BY <1>1, <2>2, <3>3
      <4>2. QED
        BY <1>6, <3>1, <4>1
    <3>4. QED
      BY <1>2, <3>2, <3>3
  <2>3. QED
    BY <1>1, <2>1, <2>2 DEF FileInv
<1>8. TrackInv'
  <2>1. /\ DOMAIN live_sizes_' \subseteq ExternalIds
        /\ live_sizes_' \in [DOMAIN live_sizes_' -> Volumes]
        /\ \A id \in DOMAIN live_sizes_' : id \in DOMAIN live_sizes_ \/ (e.op = "NEW" /\ id = e.id)
    <3>1. e.op \in {"NEW", "MODIFY"} => e.volume \in Volumes
      BY EventFields
    <3>2. CASE e.op = "NEW" /\ live_sizes_' = Book!Assign(live_sizes_, e.id, e.volume)
      BY <1>1, <3>1, <3>2 DEF TrackInv, Book!Assign
    <3>3. CASE e.op = "MODIFY" /\ live_sizes_' = [live_sizes_ EXCEPT ![e.id] = e.volume]
      BY <3>1, <3>3 DEF TrackInv
    <3>4. CASE e.op = "CANCEL" /\ live_sizes_' = Book!EraseKey(live_sizes_, e.id)
      BY <3>4 DEF TrackInv, Book!EraseKey, Book!Restrict
    <3>5. QED
      BY <3>2, <3>3, <3>4 DEF Reports
  <2>2. \A id \in ExternalIds : LiveSize(id)' = SizeBy(id, Len(inbound))'
    <3> SUFFICES ASSUME NEW id \in ExternalIds
                 PROVE  LiveSize(id)' = SizeBy(id, Len(inbound))'
      OBVIOUS
    <3>1. SizeBy(id, Len(inbound))' = SizeBy(id, n + 1)'
      BY <1>1, SizesAreAfter
    <3>2. QED
      BY <1>5, <3>1, ReportsSize
  <2>3. \A id \in DOMAIN live_sizes_' : id \in Placed(Feed)'
    <3>1. Range(inbound') = Range(inbound) \cup {e}
      BY <1>1, <1>2 DEF Range
    <3>2. Placed(Feed) \subseteq Placed(Feed)' /\ (e.op = "NEW" => e.id \in Placed(Feed)')
      BY <1>1, <3>1 DEF Placed
    <3>3. QED
      BY <2>1, <3>2 DEF TrackInv
  <2>4. QED
    BY <2>1, <2>2, <2>3 DEF TrackInv
<1>9. QED
  BY <1>7, <1>8

\* What the book has of an order: what is left of it while it is matched, or what rests.
Held(id) == IF ~Book!Idle /\ taker.orderID = id THEN taker.volume ELSE Resting(id)

\* The book holds, of an order that never traded, what the events that were taken left
\* of it, and of one that did no more.
HeldInv ==
  /\ \A id \in ExternalIds : Held(id) <= SizeBy(id, Taken)
  /\ \A id \in ExternalIds \ traded : Held(id) = SizeBy(id, Taken)
  /\ ~Book!Idle => taker.orderID \notin DOMAIN global_map /\ taker.orderID \in ExternalIds
  /\ traded \subseteq Ids

ReplayInv == CoreInv /\ FileInv /\ TrackInv /\ RowInv /\ HeldInv

\* What is put in behind the events that were taken is nothing to the book.
LEMMA HeldStays ==
  ASSUME HeldInv, UNCHANGED book, traded' = traded, Taken' = Taken,
         \A id \in ExternalIds : SizeBy(id, Taken)' = SizeBy(id, Taken)
  PROVE  HeldInv'
<1>1. Book!Idle' = Book!Idle /\ UNCHANGED <<taker, global_map>>
      /\ \A id : Resting(id)' = Resting(id)
  BY DEF book, Book!Idle, Book!NoTaker, Book!Buy, Resting
<1>2. \A id : Held(id)' = Held(id)
  BY <1>1 DEF Held
<1>3. QED
  BY <1>1, <1>2 DEF HeldInv

\* Each row is counted once, and an order that is read was not put in before.
LEMMA RowAfterAdapter ==
  ASSUME RowInv, Adapter, Placed(Feed)' = Placed(Feed) \/ row' = NoRow
  PROVE  RowInv'
<1>0. rows_processed_ \in Nat /\ rows_skipped_ \in Nat /\ rows_failed_ \in Nat /\ MaxRows \in Nat
  BY RowsAssumption DEF RowInv
<1>1. CASE ReadRow
  <2>1. /\ row' \in Rows /\ UNCHANGED <<rows_processed_, rows_skipped_, rows_failed_>>
        /\ RowsRead < MaxRows /\ RowsRead' = RowsRead
        /\ row'.type = 1 => row'.order_id \notin Placed(Feed)
    BY <1>1 DEF ReadRow, counters, RowsRead
  <2>2. QED
    BY <1>0, <2>1 DEF RowInv
<1>2. CASE Dispatch
  <2>1. /\ row' = NoRow /\ RowsRead < MaxRows
        /\ \/ rows_processed_' = rows_processed_ + 1 /\ UNCHANGED <<rows_skipped_, rows_failed_>>
           \/ rows_skipped_' = rows_skipped_ + 1 /\ UNCHANGED <<rows_processed_, rows_failed_>>
           \/ rows_failed_' = rows_failed_ + 1 /\ UNCHANGED <<rows_processed_, rows_skipped_>>
    BY <1>2 DEF Dispatch, RowInv, Submit, CancelPart, Delete, Skip, Fail, Processed
  <2>2. /\ rows_processed_' \in Nat /\ rows_skipped_' \in Nat /\ rows_failed_' \in Nat
        /\ RowsRead' <= MaxRows
    BY <1>0, <2>1 DEF RowsRead
  <2>3. QED
    BY <2>1, <2>2 DEF RowInv
<1>3. QED
  BY <1>1, <1>2 DEF Adapter

\* A row leaves the book what it is, and the adapter knows what it has put in.
LEMMA AdapterKeeps ==
  ASSUME ReplayInv, Adapter
  PROVE  ReplayInv'
<1>0. /\ CoreInv /\ FileInv /\ TrackInv /\ RowInv /\ HeldInv
      /\ internal_id_counter \in [Gateways -> Nat]
      /\ minting \in [Threads -> [gateway : Gateways, id : Ids] \cup {Free}]
  BY DEF ReplayInv, CoreInv, TypeOK
<1>1. CASE UNCHANGED <<inbound, internal_id_counter, minting, read_p, engine, outbound, book,
                       live_sizes_, traded>>
  <2>1. CoreInv'
    BY <1>0, <1>1, RingStays
  <2>2. Taken' = Taken /\ \A id, n : SizeBy(id, n)' = SizeBy(id, n)
    BY <1>1 DEF Taken, SizeBy, Touching, SizeAt
  <2>3. Placed(Feed)' = Placed(Feed) /\ \A id : LiveSize(id)' = LiveSize(id)
    BY <1>1 DEF Placed, Range, LiveSize
  <2>4. \A id : /\ SizeBy(id, Taken)' = SizeBy(id, Taken)
                /\ SizeBy(id, Len(inbound))' = SizeBy(id, Len(inbound))
    BY <1>1, <2>2, SizesAreAfter
  <2>5. FileInv'
    BY <1>0, <1>1, <2>2 DEF FileInv
  <2>6. TrackInv'
    BY <1>0, <1>1, <2>3, <2>4 DEF TrackInv
  <2>7. HeldInv'
    BY <1>0, <1>1, <2>2, <2>4, HeldStays
  <2>8. QED
    BY <1>0, <2>1, <2>3, <2>5, <2>6, <2>7, RowAfterAdapter DEF ReplayInv
<1>2. ASSUME NEW e \in Events, Reports(e)
      PROVE  ReplayInv'
  <2>1. /\ inbound' = Append(inbound, e)
        /\ e.silent <=> e.gateway \notin Noisy
        /\ UNCHANGED <<internal_id_counter, minting, read_p, engine, outbound, book, traded>>
        /\ row' = NoRow
    BY <1>2 DEF Reports
  <2>2. CoreInv'
    BY <1>0, <2>1, PostKeeps
  <2>3. Taken' = Taken /\ Taken \in 0..Len(inbound)
    BY <1>0, <2>1, TakenInRing DEF Taken
  <2>4. \A id : SizeBy(id, Taken)' = SizeBy(id, Taken)
    <3> SUFFICES ASSUME NEW id, NEW m, m = Taken
                 PROVE  SizeBy(id, Taken)' = SizeBy(id, Taken)
      OBVIOUS
    <3>1. SizeBy(id, Taken)' = SizeBy(id, m)'
      BY <2>3, SizesAreAfter
    <3>2. QED
      BY <1>0, <2>1, <2>3, <3>1, SizeStays
  <2>5. HeldInv'
    BY <1>0, <2>1, <2>3, <2>4, HeldStays
  <2>6. FileInv' /\ TrackInv'
    BY <1>0, <1>2, ReportsKeeps
  <2>7. QED
    BY <1>0, <2>1, <2>2, <2>5, <2>6, RowAfterAdapter DEF ReplayInv
<1>3. QED
  BY <1>0, <1>1, <1>2, AdapterIs

\* What rests of an order is what the theorems about the book say.
LEMMA RestingIs ==
  ASSUME CoreInv, NEW id
  PROVE  /\ Resting(id) = B!VolumeOf(id) /\ Resting(id)' = B!VolumeOf(id)'
         /\ Resting(id) \in Nat
         /\ id \in DOMAIN global_map => /\ Resting(id) = order[global_map[id]].volume
                                        /\ Resting(id) > 0
<1>1. /\ \A a \in DOMAIN order : order[a].volume \in Int /\ order[a].volume > 0
      /\ \A x \in DOMAIN global_map : global_map[x] \in DOMAIN order
  BY DEF CoreInv, BookInv, B!Inv, B!BookInv, B!BookTypeOK, B!LevelCounts, B!IndexSound
<1>2. Resting(id) = B!VolumeOf(id) /\ Resting(id)' = B!VolumeOf(id)'
  BY DEF Resting, B!VolumeOf
<1>3. QED
  BY <1>1, <1>2 DEF Resting

\* What the book's answers to the event in hand do to what rests.
LEMMA TakeRests ==
  ASSUME CoreInv, Take, NEW id
  PROVE  /\ Event.op = "NEW" => Resting(id)' = Resting(id)
         /\ Event.op = "CANCEL" => Resting(id)' = IF id = Event.id THEN 0 ELSE Resting(id)
         /\ Event.op = "MODIFY" => Resting(id)' = IF id = Event.id /\ B!Reducible(id, Event.volume)
                                                    THEN Event.volume ELSE Resting(id)
<1>0. /\ B!Inv /\ B!BookInv /\ Event.id \in Ids
      /\ Resting(id) = B!VolumeOf(id) /\ Resting(id)' = B!VolumeOf(id)'
  BY TakeIs, EventFields, RestingIs DEF CoreInv, BookInv, B!Inv
<1>1. ASSUME UNCHANGED <<order, global_map>>
      PROVE  Resting(id)' = Resting(id)
  BY <1>1 DEF Resting
<1>2. CASE Event.op = "NEW"
  <2>1. UNCHANGED <<order, global_map>>
    BY <1>2, TakeIs DEF B!PlaceOrder, B!book
  <2>2. QED
    BY <1>1, <1>2, <2>1
<1>3. CASE Event.op = "CANCEL"
  <2>1. CASE B!CancelUnknown(Event.id)
    <3>1. UNCHANGED <<order, global_map>> /\ Event.id \notin DOMAIN global_map
      BY <2>1 DEF B!CancelUnknown, B!book
    <3>2. QED
      BY <1>1, <1>3, <3>1 DEF Resting
  <2>2. CASE B!CancelResting(Event.id)
    <3>1. /\ global_map[Event.id] \in DOMAIN order /\ B!Unlinked(global_map[Event.id])
          /\ order[global_map[Event.id]].orderID = Event.id
      BY <1>0, <2>2, B!CancelUnlinks, BookAssumption, LimitsAssumption
         DEF B!CancelResting, B!BookInv, B!IndexSound
    <3>2. B!VolumeOf(id)' = IF id = Event.id THEN 0 ELSE B!VolumeOf(id)
      BY <1>0, <3>1, B!UnlinkVolumeOf, BookAssumption, LimitsAssumption
    <3>3. QED
      BY <1>0, <1>3, <3>2
  <2>3. QED
    BY <1>3, <2>1, <2>2, TakeIs
<1>4. CASE Event.op = "MODIFY"
  <2>1. CASE B!ModifyRejected(Event.id, Event.volume)
    <3>1. UNCHANGED <<order, global_map>> /\ ~B!Reducible(Event.id, Event.volume)
      BY <2>1 DEF B!ModifyRejected, B!book
    <3>2. QED
      BY <1>1, <1>4, <3>1
  <2>2. CASE B!ModifyReduced(Event.id, Event.volume)
    <3>1. /\ Event.volume \in Volumes /\ B!Reducible(Event.id, Event.volume)
          /\ Event.id \in DOMAIN global_map
      BY <1>4, <2>2, TakeIs DEF B!ModifyReduced, B!Reducible
    <3>2. /\ global_map[Event.id] \in DOMAIN order /\ Event.volume \in Int
          /\ B!Resized(global_map[Event.id], Event.volume)
      BY <1>0, <2>2, <3>1, B!ModifyResizes, BookAssumption, LimitsAssumption
    <3>3. B!VolumeOf(id)' = IF id \in DOMAIN global_map /\ global_map[id] = global_map[Event.id]
                              THEN Event.volume ELSE B!VolumeOf(id)
      BY <1>0, <3>2, B!ResizeVolumeOf, BookAssumption, LimitsAssumption
    <3>4. (id \in DOMAIN global_map /\ global_map[id] = global_map[Event.id]) <=> id = Event.id
      BY <1>0, <3>1 DEF B!BookInv, B!IndexSound
    <3>5. QED
      BY <1>0, <1>4, <3>1, <3>3, <3>4
  <2>3. QED
    BY <1>4, <2>1, <2>2, TakeIs
<1>5. QED
  BY <1>2, <1>3, <1>4

\* An event that is taken leaves of its order what the file says; what the book turns
\* down was no reduction of an order that never traded.
LEMMA HeldAfterTake ==
  ASSUME ReplayInv, Take, traded' = traded
  PROVE  HeldInv'
<1> SUFFICES ASSUME NEW m, m = read_p, NEW e, e = Event
             PROVE  HeldInv'
  OBVIOUS
<1>0. /\ CoreInv /\ FileInv /\ HeldInv
      /\ m \in Nat /\ m \in 0..Len(inbound) /\ m + 1 \in DOMAIN inbound
      /\ e = inbound[m + 1] /\ e \in Events /\ e.id \in Ids /\ e.id \in ExternalIds
      /\ e.op \in {"NEW", "CANCEL", "MODIFY"}
      /\ Book!Idle /\ UNCHANGED inbound /\ Taken = m /\ Taken' = m + 1
  BY TakeIs, RingEvents, EventFields DEF ReplayInv, FileInv, Event, Taken
<1>1. /\ e.op = "NEW" => e.volume > 0 /\ SizeBy(e.id, m) = 0
      /\ e.op = "MODIFY" => e.volume > 0 /\ e.volume < SizeBy(e.id, m) /\ e.volume \in Int
  <2>1. m + 1 - 1 = m
    BY <1>0
  <2>2. e.op = "MODIFY" => e.volume \in Int
    BY <1>0, EventFields, BookAssumption
  <2>3. QED
    BY <1>0, <2>1, <2>2 DEF FileInv
<1>2. ASSUME NEW id
      PROVE  /\ SizeBy(id, Taken) = SizeBy(id, m) /\ SizeBy(id, m) \in Nat
             /\ SizeBy(id, Taken)' = IF id # e.id THEN SizeBy(id, m)
                                     ELSE IF e.op = "CANCEL" THEN 0 ELSE e.volume
  <2>1. SizeBy(id, Taken)' = SizeBy(id, m + 1)'
    BY <1>0, SizesAreAfter
  <2>2. SizeBy(id, m + 1)' = SizeBy(id, m + 1)
    BY <1>0 DEF SizeBy, Touching, SizeAt
  <2>3. SizeBy(id, m + 1) = IF e.id = id THEN SizeAt(m + 1) ELSE SizeBy(id, m)
    BY <1>0, SizeNext
  <2>4. SizeBy(id, Taken) = SizeBy(id, m) /\ SizeBy(id, m) \in Nat
    BY <1>0, SizesAre, SizeType
  <2>5. QED
    BY <1>0, <2>1, <2>2, <2>3, <2>4 DEF SizeAt
<1>3. /\ \A id : Held(id) = Resting(id) /\ Resting(id) \in Nat
      /\ \A id \in DOMAIN global_map : Resting(id) > 0
  BY <1>0, RestingIs DEF Held
<1>4. /\ \A id \in ExternalIds : Resting(id) <= SizeBy(id, m)
      /\ \A id \in ExternalIds \ traded : Resting(id) = SizeBy(id, m)
      /\ traded' \subseteq Ids
  BY <1>0, <1>2, <1>3 DEF HeldInv
<1>5. SUFFICES /\ \A id \in ExternalIds \ {e.id} : Held(id)' = Resting(id)
               /\ Held(e.id)' <= IF e.op = "CANCEL" THEN 0 ELSE e.volume
               /\ e.id \notin traded => Held(e.id)' = IF e.op = "CANCEL" THEN 0 ELSE e.volume
               /\ ~Book!Idle' => taker'.orderID \notin DOMAIN global_map' /\ taker'.orderID = e.id
  BY <1>0, <1>2, <1>4 DEF HeldInv
<1>6. CASE e.op = "NEW"
  <2>1. B!PlaceOrder(e.id, e.price, e.volume, e.side)
    BY <1>0, <1>6, TakeIs
  <2>2. taker'.orderID = e.id /\ taker'.volume = e.volume /\ UNCHANGED global_map
    BY <2>1 DEF B!PlaceOrder, B!book
  <2>3. ~Book!Idle'
    BY <1>0, <2>2, BookAssumption DEF Book!Idle, Book!NoTaker
  <2>4. e.id \notin DOMAIN global_map
    BY <1>0, <1>1, <1>3, <1>4, <1>6
  <2>5. \A id : Held(id)' = IF id = e.id THEN e.volume ELSE Resting(id)
    BY <1>0, <1>6, <2>2, <2>3, TakeRests DEF Held
  <2>6. e.volume <= e.volume
    BY <1>0, <1>6, EventFields, SizesPositive
  <2>7. QED
    BY <1>6, <2>2, <2>4, <2>5, <2>6
<1>7. CASE e.op # "NEW"
  <2>1. Book!Idle'
    <3>1. taker' = taker
      BY <1>0, <1>7, TakeIs DEF B!CancelUnknown, B!CancelResting, B!ModifyRejected, B!ModifyReduced
    <3>2. QED
      BY <1>0, <3>1 DEF Book!Idle, Book!NoTaker, Book!Buy
  <2>2. \A id : Held(id)' = Resting(id)'
    BY <2>1 DEF Held
  <2>3. CASE e.op = "CANCEL"
    BY <1>0, <2>1, <2>2, <2>3, TakeRests
  <2>4. CASE e.op = "MODIFY"
    <3>1. \A id : Resting(id)' = IF id = e.id /\ B!Reducible(id, e.volume)
                                   THEN e.volume ELSE Resting(id)
      BY <1>0, <2>4, TakeRests
    <3>2. CASE B!Reducible(e.id, e.volume)
      BY <1>1, <2>1, <2>2, <2>4, <3>1, <3>2
    <3>3. CASE ~B!Reducible(e.id, e.volume)
      <4>1. e.id \in DOMAIN global_map => Resting(e.id) <= e.volume
        BY <1>0, <1>1, <1>3, <2>4, <3>3, RestingIs DEF B!Reducible
      <4>2. e.id \notin DOMAIN global_map => Resting(e.id) = 0
        BY DEF Resting
      <4>3. Resting(e.id) <= e.volume
        BY <1>1, <2>4, <4>1, <4>2
      <4>4. e.id \in traded
        BY <1>0, <1>1, <1>2, <1>3, <1>4, <2>4, <4>3
      <4>5. QED
        BY <2>1, <2>2, <2>4, <3>1, <3>3, <4>3, <4>4
    <3>4. QED
      BY <3>2, <3>3
  <2>5. QED
    BY <1>0, <1>7, <2>3, <2>4
<1>8. QED
  BY <1>6, <1>7

\* A turn of match makes no order larger than the file has it, and changes none that
\* did not trade: what is left of a taker is what comes to rest.
LEMMA HeldAfterTrade ==
  ASSUME ReplayInv, TradeStep
  PROVE  HeldInv'
<1> SUFFICES ASSUME NEW t, t = taker.orderID, NEW m, m = Taken
             PROVE  HeldInv'
  OBVIOUS
<1>0. /\ CoreInv /\ FileInv /\ HeldInv /\ B!Inv /\ B!BookInv
      /\ UNCHANGED <<inbound, read_p, engine>> /\ Taken' = Taken /\ m \in 0..Len(inbound)
      /\ Book!MatchStep /\ B!MatchStep /\ ~Book!Idle
      /\ taker.volume \in Int /\ t \in Ids /\ t \in ExternalIds /\ t \notin DOMAIN global_map
  <2>1. CoreInv /\ FileInv /\ HeldInv /\ B!Inv /\ B!BookInv
    BY DEF ReplayInv, CoreInv, BookInv, B!Inv
  <2>2. UNCHANGED <<inbound, read_p, engine>> /\ Book!MatchStep
    BY DEF TradeStep, Match, calls
  <2>3. ~Book!Idle /\ B!MatchStep
    BY <2>1, <2>2, MatchAnswers, BookCalls DEF CoreInv, TypeOK
  <2>4. taker.volume \in Int /\ taker.orderID \in Ids
    BY <2>1, <2>3 DEF CoreInv, TypeOK, Book!TypeOK, Book!CallTypeOK, Book!Idle
  <2>5. Taken' = Taken /\ m \in 0..Len(inbound)
    BY <2>1, <2>2, TakenInRing DEF Taken
  <2>6. QED
    BY <2>1, <2>2, <2>3, <2>4, <2>5 DEF HeldInv
<1>1. \A id : SizeBy(id, Taken)' = SizeBy(id, Taken) /\ SizeBy(id, Taken) \in Nat
  <2> SUFFICES ASSUME NEW id
               PROVE  SizeBy(id, Taken)' = SizeBy(id, Taken) /\ SizeBy(id, Taken) \in Nat
    OBVIOUS
  <2>1. SizeBy(id, Taken)' = SizeBy(id, m)' /\ SizeBy(id, Taken) = SizeBy(id, m)
    BY <1>0, SizesAre, SizesAreAfter
  <2>2. SizeBy(id, m)' = SizeBy(id, m)
    BY <1>0 DEF SizeBy, Touching, SizeAt
  <2>3. QED
    BY <1>0, <2>1, <2>2, SizeType
<1>2. \A id : /\ Resting(id) = B!VolumeOf(id) /\ Resting(id)' = B!VolumeOf(id)'
              /\ Resting(id) \in Nat
  BY <1>0, RestingIs
<1>3. /\ Held(t) = taker.volume /\ Resting(t) = 0
      /\ \A id : id # t => Held(id) = Resting(id)
  BY <1>0 DEF Held, Resting
<1>4. \A x \in DOMAIN order : order[x].volume \in Int /\ order[x].volume > 0 /\ order[x].orderID \in Ids
  BY <1>0 DEF B!BookInv, B!BookTypeOK, B!LevelCounts
<1>5. ASSUME NEW p \in Prices, B!FillPartial(p) \/ B!FillWhole(p)
      PROVE  HeldInv'
  <2>1. PICK a \in DOMAIN order :
          /\ a \notin DOMAIN order' \/ order'[a].volume < order[a].volume
          /\ DOMAIN global_map' \subseteq DOMAIN global_map
          /\ \A id : B!VolumeOf(id)' <= B!VolumeOf(id)
          /\ \A id : id # order[a].orderID => B!VolumeOf(id)' = B!VolumeOf(id)
    BY <1>0, <1>5, B!FillVolumeOf, BookAssumption, LimitsAssumption
  <2>2. \A id : Resting(id)' <= Resting(id)
    BY <1>2, <2>1
  <2>3. \A id : id # order[a].orderID => Resting(id)' = Resting(id)
    BY <1>2, <2>1
  <2>4. /\ order[a].orderID \in traded' /\ t \in traded' /\ traded \subseteq traded'
        /\ traded' \subseteq Ids
    <3>1. order[a].orderID \in Trading
      BY <2>1 DEF Trading
    <3>2. Trading \subseteq Ids
      BY <1>4 DEF Trading
    <3>3. QED
      BY <1>0, <3>1, <3>2 DEF TradeStep, HeldInv
  <2>5. /\ taker.volume > 0
        /\ Book!Idle' \/ (taker'.orderID = t /\ taker'.volume <= taker.volume)
    <3>1. taker.volume > 0
      BY <1>5 DEF B!FillPartial, B!FillWhole, B!Matching
    <3>2. CASE B!FillPartial(p)
      <4>1. taker' = B!NoTaker
        BY <3>2 DEF B!FillPartial
      <4>2. Book!Idle'
        BY <4>1 DEF Book!Idle, B!NoTaker, Book!NoTaker, B!Buy, Book!Buy
      <4>3. QED
        BY <3>1, <4>2
    <3>3. CASE B!FillWhole(p)
      <4> SUFFICES ASSUME NEW h, h = limit[<<B!Opposite(taker.side), p>>].head
                   PROVE  taker'.orderID = t /\ taker'.volume <= taker.volume
        BY <3>1
      <4>1. h \in DOMAIN order
        BY <1>0, <3>3, B!FillWholeUnlinks, BookAssumption, LimitsAssumption DEF B!Inv
      <4>2. taker' = [taker EXCEPT !.volume = @ - order[h].volume]
        BY <3>3 DEF B!FillWhole
      <4>3. taker \in [orderID : Ids, price : Prices, volume : Int, side : Book!Sides]
        BY <1>0 DEF CoreInv, TypeOK, Book!TypeOK, Book!CallTypeOK, Book!Idle
      <4>4. taker'.orderID = t /\ taker'.volume = taker.volume - order[h].volume
        BY <4>2, <4>3
      <4>5. QED
        BY <1>0, <1>4, <4>1, <4>4
    <3>4. QED
      BY <1>5, <3>1, <3>2, <3>3
  <2>6. \A id : id # t => Held(id)' = Resting(id)'
    BY <2>5 DEF Held
  <2>7. Held(t)' <= Held(t)
    <3>1. CASE Book!Idle'
      <4>1. Held(t)' = Resting(t)'
        BY <3>1 DEF Held
      <4>2. Resting(t)' = 0
        BY <1>0, <2>1 DEF Resting
      <4>3. QED
        BY <1>0, <1>3, <2>5, <4>1, <4>2
    <3>2. CASE ~Book!Idle'
      <4>1. taker'.orderID = t /\ Held(t)' = taker'.volume
        BY <2>5, <3>2 DEF Held
      <4>2. QED
        BY <1>3, <2>5, <3>2, <4>1
    <3>3. QED
      BY <3>1, <3>2
  <2>8. \A id \in ExternalIds : Held(id)' <= SizeBy(id, Taken)'
    <3> SUFFICES ASSUME NEW id \in ExternalIds
                 PROVE  Held(id)' <= SizeBy(id, Taken)'
      OBVIOUS
    <3>1. Held(id) <= SizeBy(id, Taken) /\ SizeBy(id, Taken)' = SizeBy(id, Taken)
          /\ SizeBy(id, Taken) \in Nat
      BY <1>0, <1>1 DEF HeldInv
    <3>2. Held(id)' <= Held(id)
      BY <1>3, <2>2, <2>6, <2>7
    <3>3. Held(id) \in Int /\ Held(id)' \in Int
      <4>1. Held(id) \in Int
        BY <1>0, <1>2, <1>3
      <4>2. CoreInv'
        BY <1>0, MatchKeeps DEF TradeStep
      <4>3. taker'.volume \in Int /\ Resting(id)' \in Int
        <5>1. taker'.volume \in Int
          BY <4>2 DEF CoreInv, TypeOK, Book!TypeOK, Book!CallTypeOK, Book!NoTaker
        <5>2. \A x \in DOMAIN order' : order'[x].volume \in Int
          BY <4>2 DEF CoreInv, TypeOK, Book!TypeOK, Book!BookTypeOK
        <5>3. \A x \in DOMAIN global_map' : global_map'[x] \in DOMAIN order'
          BY <4>2 DEF CoreInv, BookInv, B!Inv, B!BookInv, B!IndexSound
        <5>4. QED
          BY <5>1, <5>2, <5>3 DEF Resting
      <4>4. QED
        BY <4>1, <4>3 DEF Held
    <3>4. QED
      BY <3>1, <3>2, <3>3
  <2>9. \A id \in ExternalIds \ traded' : Held(id)' = SizeBy(id, Taken)'
    BY <1>0, <1>1, <1>3, <2>3, <2>4, <2>6 DEF HeldInv
  <2>10. ~Book!Idle' => taker'.orderID \notin DOMAIN global_map' /\ taker'.orderID \in ExternalIds
    BY <1>0, <2>1, <2>5
  <2>11. QED
    BY <2>4, <2>8, <2>9, <2>10 DEF HeldInv
<1>6. ASSUME B!RestRemainder \/ B!ReturnFilled
      PROVE  HeldInv'
  <2>1. Book!Idle'
    BY <1>6 DEF B!RestRemainder, B!ReturnFilled, Book!Idle, B!NoTaker, Book!NoTaker, B!Buy, Book!Buy
  <2>2. Trading = {}
    <3>1. \A x \in DOMAIN order : x \in DOMAIN order' /\ order'[x].volume = order[x].volume
      <4>1. CASE B!ReturnFilled
        BY <4>1 DEF B!ReturnFilled, B!book
      <4>2. CASE B!RestRemainder
        <5> SUFFICES ASSUME NEW k, k = allocated + 1
                     PROVE  \A x \in DOMAIN order : x \in DOMAIN order' /\ order'[x].volume = order[x].volume
          OBVIOUS
        <5>1. k \notin DOMAIN order
          BY <1>0 DEF B!BookInv, B!BookTypeOK
        <5>2. \A x \in DOMAIN order : x # k => x \in DOMAIN order' /\ order'[x].volume = order[x].volume
          BY <1>0, <4>2 DEF B!RestRemainder, B!BookInv, B!BookTypeOK
        <5>3. QED
          BY <5>1, <5>2
      <4>3. QED
        BY <1>6, <4>1, <4>2
    <3>2. QED
      BY <1>4, <3>1 DEF Trading
  <2>3. traded' = traded /\ traded \subseteq Ids
    BY <1>0, <2>2 DEF TradeStep, HeldInv
  <2>4. \A id : Held(id)' = Resting(id)'
    BY <2>1 DEF Held
  <2>5. CASE B!RestRemainder
    <3>1. \A id : Resting(id)' = IF id = t THEN taker.volume ELSE Resting(id)
      BY <1>0, <1>2, <2>5, B!RestVolumeOf, BookAssumption, LimitsAssumption
    <3>2. \A id : Held(id)' = Held(id)
      BY <1>3, <2>4, <3>1
    <3>3. QED
      BY <1>0, <1>1, <2>1, <2>3, <3>2 DEF HeldInv
  <2>6. CASE B!ReturnFilled
    <3>1. taker.volume <= 0 /\ \A id : Resting(id)' = Resting(id)
      BY <2>6 DEF B!ReturnFilled, B!book, Resting
    <3>2. /\ \A id : id # t => Held(id)' = Held(id)
          /\ Held(t)' = 0
      BY <1>3, <2>4, <3>1
    <3>3. SizeBy(t, Taken) \in Nat /\ (t \notin traded => SizeBy(t, Taken) = 0)
      <4>1. t \notin traded => SizeBy(t, Taken) = taker.volume
        BY <1>0, <1>3 DEF HeldInv
      <4>2. QED
        BY <1>0, <1>1, <3>1, <4>1
    <3>4. 0 <= SizeBy(t, Taken)
      BY <3>3
    <3>5. QED
      BY <1>0, <1>1, <2>1, <2>3, <3>2, <3>3, <3>4 DEF HeldInv
  <2>7. QED
    BY <1>6, <2>5, <2>6
<1>7. QED
  BY <1>0, <1>5, <1>6 DEF B!MatchStep

\* The engine keeps what the file and the adapter say.
LEMMA EngineStepKeeps ==
  ASSUME ReplayInv, EngineStep
  PROVE  ReplayInv'
<1>0. CoreInv /\ FileInv /\ TrackInv /\ RowInv /\ HeldInv /\ Engine
  BY DEF ReplayInv, EngineStep, TradeStep, Engine
<1>1. UNCHANGED <<inbound, row, live_sizes_, rows_processed_, rows_skipped_, rows_failed_>>
  BY <1>0, TakenGrows DEF EngineStep, TradeStep, adapter, counters
<1>2. CoreInv'
  BY <1>0, EngineKeeps
<1>3. \A id, n : SizeBy(id, n)' = SizeBy(id, n)
  BY <1>1 DEF SizeBy, Touching, SizeAt
<1>4. Placed(Feed)' = Placed(Feed) /\ \A id : LiveSize(id)' = LiveSize(id)
  BY <1>1 DEF Placed, Range, LiveSize
<1>5. \A id : SizeBy(id, Len(inbound))' = SizeBy(id, Len(inbound))
  <2> SUFFICES ASSUME NEW id, NEW n, n = Len(inbound)
               PROVE  SizeBy(id, Len(inbound))' = SizeBy(id, Len(inbound))
    OBVIOUS
  <2>1. SizeBy(id, Len(inbound))' = SizeBy(id, n)'
    BY <1>1, SizesAreAfter
  <2>2. QED
    BY <1>3, <2>1
<1>6. FileInv'
  BY <1>0, <1>1, <1>3 DEF FileInv
<1>7. TrackInv'
  BY <1>0, <1>1, <1>4, <1>5 DEF TrackInv
<1>8. RowInv'
  BY <1>0, <1>1, <1>4 DEF RowInv, RowsRead
<1>9. HeldInv'
  <2>1. CASE Take /\ traded' = traded
    BY <2>1, HeldAfterTake
  <2>2. CASE TradeStep
    BY <2>2, HeldAfterTrade
  <2>3. CASE (Acknowledge \/ Discard) /\ traded' = traded
    <3>1. Taken' = Taken /\ UNCHANGED book
      <4>1. Taken' = Taken
        BY <1>0, <2>3, TakenGrows DEF Take, Acknowledge, Discard
      <4>2. QED
        BY <2>3, <4>1 DEF Acknowledge, Discard
    <3>2. \A id : SizeBy(id, Taken)' = SizeBy(id, Taken)
      <4> SUFFICES ASSUME NEW id, NEW n, n = Taken
                   PROVE  SizeBy(id, Taken)' = SizeBy(id, Taken)
        OBVIOUS
      <4>1. SizeBy(id, Taken)' = SizeBy(id, n)'
        BY <3>1, SizesAreAfter
      <4>2. QED
        BY <1>3, <4>1
    <3>3. QED
      BY <1>0, <2>3, <3>1, <3>2, HeldStays
  <2>4. QED
    BY <2>1, <2>2, <2>3 DEF EngineStep
<1>10. QED
  BY <1>2, <1>6, <1>7, <1>8, <1>9 DEF ReplayInv

LEMMA ReplayInvInit == ReplayInit => ReplayInv
<1> SUFFICES ASSUME ReplayInit
             PROVE  ReplayInv
  OBVIOUS
<1>1. /\ Init /\ row = NoRow /\ live_sizes_ = Book!NoEntries /\ traded = {}
      /\ rows_processed_ = 0 /\ rows_skipped_ = 0 /\ rows_failed_ = 0
  BY DEF ReplayInit
<1>2. /\ inbound = <<>> /\ Len(inbound) = 0 /\ DOMAIN inbound = {} /\ engine = "poll" /\ Taken = 0
      /\ Book!Init
  BY <1>1 DEF Init, Taken
<1>3. CoreInv
  BY <1>1, SystemInvInit DEF SystemInv
<1>4. FileInv
  BY <1>2 DEF FileInv
<1>5. DOMAIN live_sizes_ = {} /\ \A id : LiveSize(id) = 0
  BY <1>1 DEF Book!NoEntries, LiveSize
<1>6. \A id : SizeBy(id, Len(inbound)) = 0 /\ SizeBy(id, Taken) = 0
  BY <1>2, SizeAtStart
<1>7. TrackInv
  BY <1>5, <1>6 DEF TrackInv
<1>8. RowInv
  BY <1>1, RowsAssumption DEF RowInv, RowsRead
<1>9. HeldInv
  <2>1. Book!Idle /\ DOMAIN global_map = {}
    BY <1>2 DEF Book!Init, Book!Idle, Book!NoEntries
  <2>2. \A id : Held(id) = 0
    BY <2>1 DEF Held, Resting
  <2>3. QED
    BY <1>1, <1>6, <2>1, <2>2 DEF HeldInv
<1>10. QED
  BY <1>3, <1>4, <1>7, <1>8, <1>9 DEF ReplayInv

LEMMA ReplayInvStep ==
  ASSUME ReplayInv, [DriverNext]_vars
  PROVE  ReplayInv'
<1>1. CASE UNCHANGED replay
  <2>1. /\ UNCHANGED <<inbound, read_p, engine, outbound, book, internal_id_counter, minting>>
        /\ UNCHANGED <<row, live_sizes_, rows_processed_, rows_skipped_, rows_failed_, traded>>
    BY <1>1 DEF replay, system, calls, adapter, counters
  <2>2. CoreInv'
    BY <2>1, RingStays DEF ReplayInv, CoreInv, TypeOK
  <2>3. Taken' = Taken /\ \A id, n : SizeBy(id, n)' = SizeBy(id, n)
    BY <2>1 DEF Taken, SizeBy, Touching, SizeAt
  <2>4. Placed(Feed)' = Placed(Feed) /\ \A id : LiveSize(id)' = LiveSize(id)
    BY <2>1 DEF Placed, Range, LiveSize
  <2>5. \A id : /\ SizeBy(id, Taken)' = SizeBy(id, Taken)
                /\ SizeBy(id, Len(inbound))' = SizeBy(id, Len(inbound))
    BY <2>1, <2>3, SizesAreAfter
  <2>6. FileInv' /\ TrackInv' /\ RowInv'
    BY <2>1, <2>3, <2>4, <2>5 DEF ReplayInv, FileInv, TrackInv, RowInv, RowsRead
  <2>7. HeldInv'
    BY <2>1, <2>3, <2>5, HeldStays DEF ReplayInv
  <2>8. QED
    BY <2>2, <2>6, <2>7 DEF ReplayInv
<1>2. CASE Adapter
  BY <1>2, AdapterKeeps
<1>3. CASE EngineStep
  BY <1>3, EngineStepKeeps
<1>4. Adapter \/ EngineStep \/ UNCHANGED replay
  BY DEF DriverNext, Main, Open, Stream, EndOfFile, SeeReady, SeeReleased, Return, Deadline,
     Run, Spin, Exit, vars
<1>5. QED
  BY <1>1, <1>2, <1>3, <1>4

\* What the ring holds, what the adapter believes and what the book has stay in step.
THEOREM ReplayInvHolds == DriverSpec => []ReplayInv
<1>1. DriverInit => ReplayInv
  BY ReplayInvInit DEF DriverInit
<1>2. ReplayInv /\ [DriverNext]_vars => ReplayInv'
  BY ReplayInvStep
<1>3. QED
  BY <1>1, <1>2, PTL DEF DriverSpec

\* Once the engine has taken all events, the last of an order is what the adapter
\* believes.
LEMMA DrainedSizes ==
  ASSUME ReplayInv, Drained, NEW id \in ExternalIds
  PROVE  Held(id) = Resting(id) /\ SizeBy(id, Taken) = LiveSize(id)
<1>1. Book!Idle
  BY DEF ReplayInv, CoreInv, BusyInv, Drained
<1>2. Taken = Len(inbound)
  BY DEF Drained, Taken
<1>3. QED
  BY <1>1, <1>2 DEF Held, ReplayInv, TrackInv

\* When the engine has caught up, the book holds no more of an order than the adapter
\* believes, for any file and any sizes: a reduction the book turns down, and the
\* silent gateway never reports, is one of an order that traded away more.
THEOREM TrackedIsEnough == DriverSpec => []NoMoreRestsThanTracked
<1>1. ReplayInv => NoMoreRestsThanTracked
  BY DrainedSizes DEF NoMoreRestsThanTracked, ReplayInv, HeldInv
<1>2. QED
  BY ReplayInvHolds, <1>1, PTL

\* ... and exactly as much when the order never traded, so no row that the file means
\* is ever lost on the way.
THEOREM TrackedIsExact == DriverSpec => []AgreesUntilTraded
<1>1. ReplayInv => AgreesUntilTraded
  BY DrainedSizes DEF AgreesUntilTraded, ReplayInv, HeldInv
<1>2. QED
  BY ReplayInvHolds, <1>1, PTL

\* Where main stands, and what it knows of the deadline.
StageInv ==
  /\ main \in {"open", "stream", "scan", "report", "returned"}
  /\ overdue \in BOOLEAN /\ gaveUp \in BOOLEAN

LEMMA StageStep == StageInv /\ [DriverNext]_vars => StageInv'
BY DEF StageInv, DriverNext, Main, Open, Stream, EndOfFile, SeeReady, SeeReleased, Return,
       Deadline, Run, Spin, Exit, vars, driver

\* Every variable of the driver, its adapter and the system keeps its type.
THEOREM DriverTypes == DriverSpec => []DriverTypeOK
<1>1. DriverInit => StageInv
  BY DEF DriverInit, StageInv
<1>2. ASSUME ReplayInv, StageInv, DriverInv
      PROVE  DriverTypeOK
  <2>1. /\ TypeOK /\ row \in Rows \cup {NoRow}
        /\ rows_processed_ \in Nat /\ rows_skipped_ \in Nat /\ rows_failed_ \in Nat
        /\ RowsRead <= MaxRows /\ traded \subseteq Ids /\ DOMAIN live_sizes_ \subseteq ExternalIds
    BY <1>2 DEF ReplayInv, CoreInv, RowInv, HeldInv, TrackInv
  <2>2. live_sizes_ \in [DOMAIN live_sizes_ -> Nat \ {0}]
    BY <1>2, FileAssumption DEF ReplayInv, TrackInv
  <2>3. i \in 0..Slots - 1
    BY <1>2 DEF DriverInv, ScanInv
  <2>4. QED
    BY <1>2, <2>1, <2>2, <2>3 DEF DriverTypeOK, ReplayTypeOK, StageInv
<1>3. QED
  BY <1>1, <1>2, StageStep, InitDriver, DriverStep, ReplayInvHolds, PTL DEF DriverSpec

-----------------------------------------------------------------------------
(* main.cpp.  The scripts fix what each thread calls, and not how the      *)
(* calls of the two come to follow one another; the invariant says what    *)
(* rests after so many calls of each gateway, which is what the answers    *)
(* depend on.                                                              *)

\* How many of the first n events are calls of the gateway.
Count(g, n) == Cardinality(Calls(g, n))

\* The c-th call of each gateway, as an event.
Asks(e, c) ==
  \/ /\ e.op = "NEW" /\ c = 1
     /\ \/ e.gateway = 0 /\ e.id = 0 /\ e.price = 100 /\ e.volume = 10 /\ e.side = Book!Sell
        \/ e.gateway = 1 /\ e.id = 0 /\ e.price = 110 /\ e.volume = 5 /\ e.side = Book!Buy
        \/ e.gateway = 2 /\ e.id = 0 /\ e.price = 90 /\ e.volume = 7 /\ e.side = Book!Buy
        \/ e.gateway = 3 /\ e.id = 88421 /\ e.price = 95 /\ e.volume = 10 /\ e.side = Book!Buy
  \/ e.op = "CANCEL" /\ e.gateway = 2 /\ e.id = 0 /\ c \in {2, 3}
  \/ e.op = "MODIFY" /\ e.gateway = 3 /\ e.id = 88421 /\ e.volume = 6 /\ c = 2
  \/ e.op = "MODIFY" /\ e.gateway = 3 /\ e.id = 88421 /\ e.volume = 100 /\ c = 3
  \/ e.op = "CANCEL" /\ e.gateway = 3 /\ e.id = 88421 /\ c = 4

\* The calls whose answer is positive.
Succeeds(g, c) == (g = 1 /\ c = 1) \/ (g = 2 /\ c = 2) \/ (g = 3 /\ c \in {2, 4})

\* How many calls of the gateways there can be together: DemoThread makes its own one
\* after another.
Together(c0, c1, c2, c3) ==
  /\ c0 \in 0..1 /\ c1 \in 0..1 /\ c2 \in 0..3 /\ c3 \in 0..4
  /\ c1 = 1 => c0 = 1
  /\ c2 > 0 => c1 = 1

Posted(g) == Count(g, Len(inbound))
Holds(g) == [gateway |-> g, id |-> 0]

\* The scripts say how many calls there are, and what the threads hold.
ScriptInv ==
  LET d == pc[DemoThread]
      f == pc[FeedThread]
  IN  /\ pc \in [Threads -> 1..13] /\ f <= 9
      /\ returned \in [Threads -> Ids \cup {NoId}]
      /\ Posted(0) = IF d >= 3 THEN 1 ELSE 0
      /\ Posted(1) = IF d >= 5 THEN 1 ELSE 0
      /\ Posted(2) = IF d >= 12 THEN 3 ELSE IF d >= 10 THEN 2 ELSE IF d >= 8 THEN 1 ELSE 0
      /\ Posted(3) = IF f >= 8 THEN 4 ELSE IF f >= 6 THEN 3
                     ELSE IF f >= 4 THEN 2 ELSE IF f >= 2 THEN 1 ELSE 0
      /\ minting[FeedThread] = Free
      /\ d = 2 => minting[DemoThread] = Holds(0)
      /\ d = 4 => minting[DemoThread] = Holds(1)
      /\ d = 7 => minting[DemoThread] = Holds(2)
      /\ d <= 1 => internal_id_counter[0] = 0
      /\ d <= 3 => internal_id_counter[1] = 0
      /\ d <= 6 => internal_id_counter[2] = 0
      /\ d >= 8 => returned[DemoThread] = 0
      /\ f >= 2 => returned[FeedThread] = 88421

\* What is in the ring are the calls of the scripts, those of each thread in its order.
PlannedCalls ==
  /\ \A k \in DOMAIN inbound : Asks(inbound[k], Count(inbound[k].gateway, k))
  /\ \A n \in 0..Len(inbound) : Together(Count(0, n), Count(1, n), Count(2, n), Count(3, n))

IsLot(a, s, p, v, id) == /\ order[a].side = s /\ order[a].price = p
                         /\ order[a].volume = v /\ order[a].orderID = id

\* What rests, and under which ids it is found, after so many calls of each gateway.
BookAfter(c0, c1, c2, c3) ==
  /\ \A a \in DOMAIN order :
       \/ c0 = 1 /\ IsLot(a, Book!Sell, 100, IF c1 = 1 THEN 5 ELSE 10, 0)
       \/ c2 > 0 /\ IsLot(a, Book!Buy, 90, 7, 0)
       \/ c3 > 0 /\ IsLot(a, Book!Buy, 95, IF c3 = 1 THEN 10 ELSE 6, 88421)
  /\ \A a, b \in DOMAIN order : order[a].price = order[b].price => a = b
  /\ c0 = 1 => \E a \in DOMAIN order : order[a].side = Book!Sell
  /\ 0 \in DOMAIN global_map <=> c0 = 1 /\ c2 <= 1
  /\ 88421 \in DOMAIN global_map <=> c3 \in 1..3
  /\ c2 = 1 => order[global_map[0]].side = Book!Buy

Reached(n) == BookAfter(Count(0, n), Count(1, n), Count(2, n), Count(3, n))
Fulfilled == IF Event.op = "NEW" THEN res.fulfilled ELSE ok

\* The engine is before its work on an event, or has done it.
WorkInv ==
  /\ engine = "poll" \/ ~Book!Idle => Reached(read_p)
  /\ ~Book!Idle => /\ taker.price = Event.price /\ taker.volume = Event.volume
                   /\ taker.side = Event.side /\ ~res.fulfilled
  /\ engine = "busy" /\ Book!Idle =>
       /\ Reached(read_p + 1)
       /\ Fulfilled <=> Succeeds(Event.gateway, Count(Event.gateway, read_p + 1))

AnswersInv == \A g \in 0..3 : \A j \in DOMAIN outbound[g] : outbound[g][j].fulfilled <=> Succeeds(g, j)

\* The two sides, here and where the theorems about the book are.
LEMMA Sells == /\ Book!Sell = "sell" /\ Book!Buy = "buy" /\ B!Sell = "sell" /\ B!Buy = "buy"
               /\ Book!Sides = {"sell", "buy"} /\ B!Sides = {"sell", "buy"}
BY DEF Book!Sell, Book!Buy, B!Sell, B!Buy, Book!Sides, B!Sides

\* The orders of a level that exists, and the level of an order.
LEMMA OrdersAndLevels ==
  ASSUME BookInv
  PROVE  /\ \A a \in DOMAIN order : /\ <<order[a].side, order[a].price>> \in DOMAIN limit
                                    /\ order[a].side \in {"sell", "buy"} /\ order[a].price \in Prices
                                    /\ order[a].volume \in Int
         /\ \A s, p : <<s, p>> \in DOMAIN limit =>
              /\ limit[<<s, p>>].head \in DOMAIN order
              /\ order[limit[<<s, p>>].head].side = s /\ order[limit[<<s, p>>].head].price = p
         /\ \A id \in DOMAIN global_map :
              global_map[id] \in DOMAIN order /\ order[global_map[id]].orderID = id
<1>1. B!BookInv
  BY DEF BookInv, B!Inv
<1>2. ASSUME NEW a \in DOMAIN order
      PROVE  /\ <<order[a].side, order[a].price>> \in DOMAIN limit
             /\ order[a].side \in {"sell", "buy"} /\ order[a].price \in Prices
             /\ order[a].volume \in Int
  BY <1>1, Sells DEF B!BookInv, B!QueueOrder, B!LevelOf, B!BookTypeOK
<1>3. ASSUME NEW s, NEW p, <<s, p>> \in DOMAIN limit
      PROVE  /\ limit[<<s, p>>].head \in DOMAIN order
             /\ order[limit[<<s, p>>].head].side = s /\ order[limit[<<s, p>>].head].price = p
  <2>1. /\ limit[<<s, p>>].head \in DOMAIN order
        /\ B!LevelOf(limit[<<s, p>>].head) = <<s, p>>
    BY <1>1, <1>3, B!HeadOfLevel, BookAssumption, LimitsAssumption
  <2>2. QED
    BY <2>1 DEF B!LevelOf
<1>4. ASSUME NEW id \in DOMAIN global_map
      PROVE  global_map[id] \in DOMAIN order /\ order[global_map[id]].orderID = id
  BY <1>1 DEF B!BookInv, B!IndexSound
<1>5. QED
  BY <1>2, <1>3, <1>4

\* What the book says of an order that rests, but for its place in the list.
SameLot(a) == /\ order'[a].side = order[a].side /\ order'[a].price = order[a].price
              /\ order'[a].volume = order[a].volume /\ order'[a].orderID = order[a].orderID

\* The order at a is gone.
Removed(a) ==
  /\ DOMAIN order' = DOMAIN order \ {a}
  /\ \A b \in DOMAIN order \ {a} : SameLot(b)
  /\ DOMAIN global_map' = DOMAIN global_map \ {order[a].orderID}
  /\ \A id \in DOMAIN global_map \ {order[a].orderID} : global_map'[id] = global_map[id]

\* What is unlinked is gone, and the rest is as it was.
LEMMA UnlinkedLots ==
  ASSUME BookInv, NEW a \in DOMAIN order, B!Unlinked(a)
  PROVE  Removed(a)
<1>1. order \in [DOMAIN order -> [price : Prices, volume : Int, orderID : Ids, side : B!Sides,
                                  next : B!Pointer, prev : B!Pointer]]
  BY DEF BookInv, B!Inv, B!BookInv, B!BookTypeOK
<1>2. /\ DOMAIN order' = DOMAIN order \ {a}
      /\ \A b \in DOMAIN order \ {a} : SameLot(b)
  BY <1>1 DEF B!Unlinked, SameLot
<1>3. /\ DOMAIN global_map' = DOMAIN global_map \ {order[a].orderID}
      /\ \A id \in DOMAIN global_map \ {order[a].orderID} : global_map'[id] = global_map[id]
  BY DEF B!Unlinked, B!EraseKey, B!Restrict
<1>4. QED
  BY <1>2, <1>3 DEF Removed

\* The order at a has the volume n.
GivenSize(a, n) ==
  /\ DOMAIN order' = DOMAIN order /\ global_map' = global_map
  /\ \A b \in DOMAIN order \ {a} : SameLot(b)
  /\ order'[a].side = order[a].side /\ order'[a].price = order[a].price
  /\ order'[a].orderID = order[a].orderID /\ order'[a].volume = n

\* What is resized has its new volume, and the rest is as it was.
LEMMA ResizedLots ==
  ASSUME BookInv, NEW a \in DOMAIN order, NEW n \in Int, B!Resized(a, n)
  PROVE  GivenSize(a, n)
<1>1. order \in [DOMAIN order -> [price : Prices, volume : Int, orderID : Ids, side : B!Sides,
                                  next : B!Pointer, prev : B!Pointer]]
  BY DEF BookInv, B!Inv, B!BookInv, B!BookTypeOK
<1>2. QED
  BY <1>1 DEF B!Resized, SameLot, GivenSize

\* The taker is the order at m.
Rested(m) ==
  /\ m \notin DOMAIN order /\ DOMAIN order' = DOMAIN order \cup {m}
  /\ \A b \in DOMAIN order : SameLot(b)
  /\ order'[m].side = taker.side /\ order'[m].price = taker.price
  /\ order'[m].orderID = taker.orderID /\ order'[m].volume = taker.volume
  /\ DOMAIN global_map' = DOMAIN global_map \cup {taker.orderID}
  /\ global_map'[taker.orderID] = m
  /\ \A id \in DOMAIN global_map \ {taker.orderID} : global_map'[id] = global_map[id]
  /\ res' = res /\ (Book!Idle)'

\* A remainder that comes to rest is one order more.
LEMMA RestedLots ==
  ASSUME BookInv, Book!RestRemainder
  PROVE  \E m : Rested(m)
<1> SUFFICES ASSUME NEW m, m = allocated + 1
             PROVE  Rested(m)
  OBVIOUS
<1>1. /\ order \in [DOMAIN order -> [price : Prices, volume : Int, orderID : Ids, side : B!Sides,
                                     next : B!Pointer, prev : B!Pointer]]
      /\ allocated \in Nat /\ DOMAIN order \subseteq 1..allocated
  BY DEF BookInv, B!Inv, B!BookInv, B!BookTypeOK
<1>2. m \notin DOMAIN order /\ DOMAIN order' = DOMAIN order \cup {m}
  BY <1>1 DEF Book!RestRemainder
<1>3. \A b \in DOMAIN order : SameLot(b)
  BY <1>1, <1>2 DEF Book!RestRemainder, SameLot
<1>4. /\ order'[m].side = taker.side /\ order'[m].price = taker.price
      /\ order'[m].orderID = taker.orderID /\ order'[m].volume = taker.volume
  BY DEF Book!RestRemainder
<1>5. /\ DOMAIN global_map' = DOMAIN global_map \cup {taker.orderID}
      /\ global_map'[taker.orderID] = m
      /\ \A id \in DOMAIN global_map \ {taker.orderID} : global_map'[id] = global_map[id]
  BY DEF Book!RestRemainder, Book!Remember, Book!Assign
<1>6. res' = res /\ (Book!Idle)'
  BY DEF Book!RestRemainder, Book!Idle, Book!NoTaker, Book!Buy
<1>7. QED
  BY <1>2, <1>3, <1>4, <1>5, <1>6 DEF Rested

\* A taker that no order of the other side is good enough for comes to rest at once.
LEMMA OnlyRests ==
  ASSUME BookInv, Book!MatchStep, taker.volume \in Int, taker.volume > 0,
         \A a \in DOMAIN order :
           order[a].side = Book!Opposite(taker.side) => ~Book!Crosses(order[a].price)
  PROVE  Book!RestRemainder
<1>1. \A p : ~Book!Matching(p)
  BY OrdersAndLevels DEF Book!Matching, Book!Best
<1>2. \A p : ~Book!FillPartial(p) /\ ~Book!FillWhole(p)
  BY <1>1 DEF Book!FillPartial, Book!FillWhole
<1>3. ~Book!ReturnFilled
  BY DEF Book!ReturnFilled
<1>4. QED
  BY <1>2, <1>3 DEF Book!MatchStep

\* A taker that is smaller than every order good enough for it is filled at once, by one
\* of them.
LEMMA OnlyFills ==
  ASSUME BookInv, Book!MatchStep, taker.volume \in Int, taker.volume > 0,
         \A a \in DOMAIN order : order[a].side = Book!Opposite(taker.side) =>
           order[a].volume > taker.volume,
         \E a \in DOMAIN order :
           order[a].side = Book!Opposite(taker.side) /\ Book!Crosses(order[a].price)
  PROVE  \E a \in DOMAIN order :
           /\ order[a].side = Book!Opposite(taker.side)
           /\ GivenSize(a, order[a].volume - taker.volume)
           /\ res'.fulfilled /\ (Book!Idle)'
<1>1. ~Book!RestRemainder
  BY OrdersAndLevels DEF Book!RestRemainder
<1>2. \A p : ~Book!FillWhole(p)
  <2> SUFFICES ASSUME NEW p, Book!FillWhole(p), NEW a, a = limit[<<Book!Opposite(taker.side), p>>].head
               PROVE  FALSE
    OBVIOUS
  <2>1. <<Book!Opposite(taker.side), p>> \in DOMAIN limit /\ order[a].volume <= taker.volume
    BY DEF Book!FillWhole, Book!Matching, Book!Best
  <2>2. a \in DOMAIN order /\ order[a].side = Book!Opposite(taker.side) /\ order[a].volume \in Int
    BY <2>1, OrdersAndLevels
  <2>3. QED
    BY <2>1, <2>2
<1>3. PICK p \in Prices : Book!FillPartial(p)
  BY <1>1, <1>2 DEF Book!MatchStep, Book!ReturnFilled
<1> DEFINE a == limit[<<Book!Opposite(taker.side), p>>].head
<1>4. <<Book!Opposite(taker.side), p>> \in DOMAIN limit
  BY <1>3 DEF Book!FillPartial, Book!Matching, Book!Best
<1>5. a \in DOMAIN order /\ order[a].side = Book!Opposite(taker.side)
  BY <1>4, OrdersAndLevels
<1>6. order' = [order EXCEPT ![a].volume = @ - taker.volume] /\ global_map' = global_map
  BY <1>3 DEF Book!FillPartial
<1>7. res'.fulfilled /\ (Book!Idle)'
  <2>1. res \in [orderID : Ids \cup {NoId}, fulfilled : BOOLEAN, remainingQty : Int,
                 trades : Seq([price : Prices, volume : Int])]
    BY DEF BookInv, B!Inv, B!CallTypeOK
  <2>2. QED
    BY <1>3, <2>1 DEF Book!FillPartial, Book!Idle, Book!NoTaker, Book!Buy
<1>8. order \in [DOMAIN order -> [price : Prices, volume : Int, orderID : Ids, side : B!Sides,
                                  next : B!Pointer, prev : B!Pointer]]
  BY DEF BookInv, B!Inv, B!BookInv, B!BookTypeOK
<1>9. GivenSize(a, order[a].volume - taker.volume)
  BY <1>5, <1>6, <1>8 DEF SameLot, GivenSize
<1>10. QED
  BY <1>5, <1>6, <1>7, <1>9

-----------------------------------------------------------------------------
(* The work on each event.                                                 *)

\* The sell of 100 rests: only the feed's buy of 95 can be there.
LEMMA SellRests ==
  ASSUME BookInv, Book!MatchStep, NEW c3 \in Nat, BookAfter(0, 0, 0, c3),
         taker.side = "sell", taker.price = 100, taker.volume = 10, taker.orderID = 0
  PROVE  BookAfter(1, 0, 0, c3)' /\ res' = res /\ (Book!Idle)'
<1>1. \A a \in DOMAIN order : IsLot(a, "buy", 95, IF c3 = 1 THEN 10 ELSE 6, 88421) /\ c3 > 0
  BY Sells DEF BookAfter
<1>2. Book!RestRemainder
  <2>1. \A a \in DOMAIN order :
          order[a].side = Book!Opposite(taker.side) => ~Book!Crosses(order[a].price)
    BY <1>1, Sells DEF Book!Crosses, IsLot
  <2>2. QED
    BY <2>1, OnlyRests
<1>3. PICK m : Rested(m)
  BY <1>2, RestedLots
<1>4. \A a \in DOMAIN order' : \/ a = m /\ IsLot(a, "sell", 100, 10, 0)'
                               \/ a \in DOMAIN order /\ SameLot(a) /\ c3 > 0
                                  /\ IsLot(a, "buy", 95, IF c3 = 1 THEN 10 ELSE 6, 88421)'
  BY <1>1, <1>3 DEF Rested, IsLot, SameLot
<1>5. \A a, b \in DOMAIN order' : order'[a].price = order'[b].price => a = b
  BY <1>1, <1>3, <1>4 DEF Rested, BookAfter, IsLot, SameLot
<1>6. QED
  BY <1>3, <1>4, <1>5, Sells DEF Rested, BookAfter, IsLot

\* The buy of 110 takes 5 of the sell of 10.
LEMMA BuyIsFilled ==
  ASSUME BookInv, Book!MatchStep, NEW c3 \in Nat, BookAfter(1, 0, 0, c3),
         taker.side = "buy", taker.price = 110, taker.volume = 5
  PROVE  BookAfter(1, 1, 0, c3)' /\ res'.fulfilled /\ (Book!Idle)'
<1>1. \A a \in DOMAIN order :
        \/ IsLot(a, "sell", 100, 10, 0)
        \/ c3 > 0 /\ IsLot(a, "buy", 95, IF c3 = 1 THEN 10 ELSE 6, 88421)
  BY Sells DEF BookAfter
<1>2. /\ \A a \in DOMAIN order : order[a].side = Book!Opposite(taker.side) =>
           order[a].volume > taker.volume
      /\ \E a \in DOMAIN order :
           order[a].side = Book!Opposite(taker.side) /\ Book!Crosses(order[a].price)
  BY <1>1, Sells DEF BookAfter, Book!Crosses, Book!Opposite, IsLot
<1>3. PICK a \in DOMAIN order :
        /\ order[a].side = Book!Opposite(taker.side)
        /\ GivenSize(a, order[a].volume - taker.volume)
        /\ res'.fulfilled /\ (Book!Idle)'
  BY <1>2, OnlyFills
<1>4. IsLot(a, "sell", 100, 10, 0)
  BY <1>1, <1>3, Sells DEF Book!Opposite, IsLot
<1>5. \A b \in DOMAIN order' :
        \/ IsLot(b, "sell", 100, 5, 0)'
        \/ c3 > 0 /\ IsLot(b, "buy", 95, IF c3 = 1 THEN 10 ELSE 6, 88421)'
  <2>1. IsLot(a, "sell", 100, 5, 0)'
    BY <1>3, <1>4 DEF GivenSize, IsLot
  <2>2. ASSUME NEW b \in DOMAIN order, b # a
        PROVE  c3 > 0 /\ IsLot(b, "buy", 95, IF c3 = 1 THEN 10 ELSE 6, 88421)
    BY <1>1, <1>4, <2>2 DEF BookAfter, IsLot
  <2>3. QED
    BY <1>3, <2>1, <2>2 DEF GivenSize, IsLot, SameLot
<1>6. \A b, c \in DOMAIN order' : order'[b].price = order'[c].price => b = c
  BY <1>3 DEF GivenSize, BookAfter, SameLot
<1>7. order'[a].side = Book!Sell
  BY <1>3, <1>4, Sells DEF GivenSize, IsLot
<1>8. QED
  BY <1>3, <1>5, <1>6, <1>7, Sells DEF GivenSize, BookAfter, IsLot

\* The buy of 90 rests, next to the sell and whatever rests at 95.
LEMMA BuyRests ==
  ASSUME BookInv, Book!MatchStep, NEW c3 \in Nat, BookAfter(1, 1, 0, c3),
         taker.side = "buy", taker.price = 90, taker.volume = 7, taker.orderID = 0
  PROVE  BookAfter(1, 1, 1, c3)' /\ res' = res /\ (Book!Idle)'
<1>1. \A a \in DOMAIN order :
        \/ IsLot(a, "sell", 100, 5, 0)
        \/ c3 > 0 /\ IsLot(a, "buy", 95, IF c3 = 1 THEN 10 ELSE 6, 88421)
  BY Sells DEF BookAfter
<1>2. Book!RestRemainder
  <2>1. \A a \in DOMAIN order :
          order[a].side = Book!Opposite(taker.side) => ~Book!Crosses(order[a].price)
    BY <1>1, Sells DEF Book!Crosses, Book!Opposite, IsLot
  <2>2. QED
    BY <2>1, OnlyRests
<1>3. PICK m : Rested(m)
  BY <1>2, RestedLots
<1>4. \A a \in DOMAIN order' :
        \/ a = m /\ IsLot(a, "buy", 90, 7, 0)'
        \/ a \in DOMAIN order /\ IsLot(a, "sell", 100, 5, 0)'
        \/ a \in DOMAIN order /\ c3 > 0 /\ IsLot(a, "buy", 95, IF c3 = 1 THEN 10 ELSE 6, 88421)'
  BY <1>1, <1>3 DEF Rested, IsLot, SameLot
<1>5. \A a, b \in DOMAIN order' : order'[a].price = order'[b].price => a = b
  BY <1>1, <1>3, <1>4 DEF Rested, BookAfter, IsLot, SameLot
<1>6. \E a \in DOMAIN order' : order'[a].side = Book!Sell
  BY <1>3, Sells DEF Rested, BookAfter, SameLot
<1>7. QED
  BY <1>3, <1>4, <1>5, <1>6, Sells DEF Rested, BookAfter, IsLot

\* The buy of 95 rests, whatever rests beside it.
LEMMA FeedRests ==
  ASSUME BookInv, Book!MatchStep, NEW c0 \in Nat, NEW c1 \in Nat, NEW c2 \in Nat,
         c2 > 0 => c0 = 1, BookAfter(c0, c1, c2, 0),
         taker.side = "buy", taker.price = 95, taker.volume = 10, taker.orderID = 88421
  PROVE  BookAfter(c0, c1, c2, 1)' /\ res' = res /\ (Book!Idle)'
<1>1. \A a \in DOMAIN order :
        \/ c0 = 1 /\ IsLot(a, "sell", 100, IF c1 = 1 THEN 5 ELSE 10, 0)
        \/ c2 > 0 /\ IsLot(a, "buy", 90, 7, 0)
  BY Sells DEF BookAfter
<1>2. Book!RestRemainder
  <2>1. \A a \in DOMAIN order :
          order[a].side = Book!Opposite(taker.side) => ~Book!Crosses(order[a].price)
    BY <1>1, Sells DEF Book!Crosses, Book!Opposite, IsLot
  <2>2. QED
    BY <2>1, OnlyRests
<1>3. PICK m : Rested(m)
  BY <1>2, RestedLots
<1>4. \A a \in DOMAIN order' :
        \/ a = m /\ IsLot(a, "buy", 95, 10, 88421)'
        \/ a \in DOMAIN order /\ c0 = 1 /\ IsLot(a, "sell", 100, IF c1 = 1 THEN 5 ELSE 10, 0)'
        \/ a \in DOMAIN order /\ c2 > 0 /\ IsLot(a, "buy", 90, 7, 0)'
  BY <1>1, <1>3 DEF Rested, IsLot, SameLot
<1>5. \A a, b \in DOMAIN order' : order'[a].price = order'[b].price => a = b
  BY <1>1, <1>3, <1>4 DEF Rested, BookAfter, IsLot, SameLot
<1>6. c0 = 1 => \E a \in DOMAIN order' : order'[a].side = Book!Sell
  BY <1>3, Sells DEF Rested, BookAfter, SameLot
<1>7. c2 = 1 => order'[global_map'[0]].side = Book!Buy
  BY <1>3, OrdersAndLevels DEF Rested, BookAfter, SameLot
<1>8. QED
  BY <1>3, <1>4, <1>5, <1>6, <1>7, Sells DEF Rested, BookAfter, IsLot

\* What a cancel does, known id or not.
LEMMA Cancelled ==
  ASSUME BookInv, NEW id, B!CancelUnknown(id) \/ B!CancelResting(id)
  PROVE  /\ taker' = taker
         /\ IF id \in DOMAIN global_map THEN ok' /\ Removed(global_map[id])
                                        ELSE ~ok' /\ UNCHANGED <<order, global_map>>
<1>1. CASE B!CancelUnknown(id)
  BY <1>1 DEF B!CancelUnknown, B!book
<1>2. CASE B!CancelResting(id)
  <2>1. id \in DOMAIN global_map /\ ok' /\ taker' = taker
    BY <1>2 DEF B!CancelResting
  <2>2. B!BookInv /\ id \in Ids
    BY <2>1 DEF BookInv, B!Inv, B!BookInv, B!BookTypeOK
  <2>3. global_map[id] \in DOMAIN order /\ B!Unlinked(global_map[id])
    BY <1>2, <2>2, B!CancelUnlinks, BookAssumption, LimitsAssumption
  <2>4. QED
    BY <2>1, <2>3, UnlinkedLots
<1>3. QED
  BY <1>1, <1>2

\* What a modify does.
LEMMA Modified ==
  ASSUME BookInv, NEW id, NEW n \in Volumes, B!ModifyRejected(id, n) \/ B!ModifyReduced(id, n)
  PROVE  /\ taker' = taker
         /\ IF id \in DOMAIN global_map /\ n > 0 /\ n < order[global_map[id]].volume
              THEN ok' /\ GivenSize(global_map[id], n)
              ELSE ~ok' /\ UNCHANGED <<order, global_map>>
<1>1. CASE B!ModifyRejected(id, n)
  BY <1>1 DEF B!ModifyRejected, B!Reducible, B!book
<1>2. CASE B!ModifyReduced(id, n)
  <2>1. /\ id \in DOMAIN global_map /\ n > 0 /\ n < order[global_map[id]].volume
        /\ ok' /\ taker' = taker
    BY <1>2 DEF B!ModifyReduced, B!Reducible
  <2>2. B!BookInv /\ id \in Ids
    BY <2>1 DEF BookInv, B!Inv, B!BookInv, B!BookTypeOK
  <2>3. global_map[id] \in DOMAIN order /\ n \in Int /\ B!Resized(global_map[id], n)
    BY <1>2, <2>2, B!ModifyResizes, BookAssumption, LimitsAssumption
  <2>4. QED
    BY <2>1, <2>3, ResizedLots
<1>3. QED
  BY <1>1, <1>2

\* The first cancel of 0 finds the buy of 90: the sell, of the same id, is no longer indexed.
LEMMA BuyIsCancelled ==
  ASSUME BookInv, B!CancelUnknown(0) \/ B!CancelResting(0), NEW c3 \in Nat, BookAfter(1, 1, 1, c3)
  PROVE  BookAfter(1, 1, 2, c3)' /\ ok' /\ taker' = taker
<1>1. 0 \in DOMAIN global_map /\ order[global_map[0]].side = "buy"
  BY Sells DEF BookAfter
<1>2. ok' /\ Removed(global_map[0]) /\ taker' = taker
  BY <1>1, Cancelled
<1>3. global_map[0] \in DOMAIN order /\ order[global_map[0]].orderID = 0
  BY <1>1, OrdersAndLevels
<1>4. \A b \in DOMAIN order' :
        \/ IsLot(b, "sell", 100, 5, 0)'
        \/ IsLot(b, "buy", 90, 7, 0)'
        \/ c3 > 0 /\ IsLot(b, "buy", 95, IF c3 = 1 THEN 10 ELSE 6, 88421)'
  BY <1>2, Sells DEF BookAfter, Removed, IsLot, SameLot
<1>5. \A b, c \in DOMAIN order' : order'[b].price = order'[c].price => b = c
  BY <1>2 DEF BookAfter, Removed, SameLot
<1>6. \E b \in DOMAIN order' : order'[b].side = Book!Sell
  BY <1>1, <1>2, Sells DEF BookAfter, Removed, SameLot
<1>7. QED
  BY <1>2, <1>3, <1>4, <1>5, <1>6, Sells DEF BookAfter, Removed, IsLot

\* The second one finds nothing.
LEMMA CancelIsLate ==
  ASSUME BookInv, B!CancelUnknown(0) \/ B!CancelResting(0), NEW c3 \in Nat, BookAfter(1, 1, 2, c3)
  PROVE  BookAfter(1, 1, 3, c3)' /\ ~ok' /\ taker' = taker
<1>1. 0 \notin DOMAIN global_map
  BY DEF BookAfter
<1>2. ~ok' /\ UNCHANGED <<order, global_map>> /\ taker' = taker
  BY <1>1, Cancelled
<1>3. QED
  BY <1>2 DEF BookAfter, IsLot

\* The buy of 95 is found, and is of 10.
LEMMA FeedIsReduced ==
  ASSUME BookInv, B!ModifyRejected(88421, 6) \/ B!ModifyReduced(88421, 6), 6 \in Volumes,
         NEW c0 \in Nat, NEW c1 \in Nat, NEW c2 \in Nat, c2 > 0 => c0 = 1, BookAfter(c0, c1, c2, 1)
  PROVE  BookAfter(c0, c1, c2, 2)' /\ ok' /\ taker' = taker
<1>0. PICK a : a = global_map[88421]
  OBVIOUS
<1>1. 88421 \in DOMAIN global_map /\ a \in DOMAIN order /\ order[a].orderID = 88421
  BY <1>0, OrdersAndLevels DEF BookAfter
<1>2. IsLot(a, "buy", 95, 10, 88421)
  BY <1>1, Sells DEF BookAfter, IsLot
<1>3. ok' /\ GivenSize(a, 6) /\ taker' = taker
  BY <1>0, <1>1, <1>2, Modified DEF IsLot
<1>4. IsLot(a, "buy", 95, 6, 88421)'
  BY <1>2, <1>3 DEF GivenSize, IsLot
<1>5. \A b \in DOMAIN order' :
        \/ c0 = 1 /\ IsLot(b, "sell", 100, IF c1 = 1 THEN 5 ELSE 10, 0)'
        \/ c2 > 0 /\ IsLot(b, "buy", 90, 7, 0)'
        \/ IsLot(b, "buy", 95, 6, 88421)'
  <2>1. ASSUME NEW b \in DOMAIN order, b # a
        PROVE  \/ c0 = 1 /\ IsLot(b, "sell", 100, IF c1 = 1 THEN 5 ELSE 10, 0)
               \/ c2 > 0 /\ IsLot(b, "buy", 90, 7, 0)
    BY <1>1, <1>2, <2>1, Sells DEF BookAfter, IsLot
  <2>2. QED
    BY <1>3, <1>4, <2>1 DEF GivenSize, IsLot, SameLot
<1>6. \A b, c \in DOMAIN order' : order'[b].price = order'[c].price => b = c
  BY <1>3 DEF BookAfter, GivenSize, SameLot
<1>7. c0 = 1 => \E b \in DOMAIN order' : order'[b].side = Book!Sell
  BY <1>3 DEF BookAfter, GivenSize, SameLot
<1>8. c2 = 1 => order'[global_map'[0]].side = Book!Buy
  BY <1>3, OrdersAndLevels DEF BookAfter, GivenSize, SameLot
<1>9. QED
  BY <1>3, <1>5, <1>6, <1>7, <1>8, Sells DEF BookAfter, GivenSize, IsLot

\* It does not grow.
LEMMA FeedStays ==
  ASSUME BookInv, B!ModifyRejected(88421, 100) \/ B!ModifyReduced(88421, 100), 100 \in Volumes,
         NEW c0 \in Nat, NEW c1 \in Nat, NEW c2 \in Nat, BookAfter(c0, c1, c2, 2)
  PROVE  BookAfter(c0, c1, c2, 3)' /\ ~ok' /\ taker' = taker
<1>0. PICK a : a = global_map[88421]
  OBVIOUS
<1>1. a \in DOMAIN order /\ order[a].orderID = 88421
  BY <1>0, OrdersAndLevels DEF BookAfter
<1>2. order[a].volume = 6
  BY <1>1 DEF BookAfter, IsLot
<1>3. ~ok' /\ UNCHANGED <<order, global_map>> /\ taker' = taker
  BY <1>0, <1>2, Modified
<1>4. QED
  BY <1>3 DEF BookAfter, IsLot

\* It is found once more, and goes.
LEMMA FeedIsCancelled ==
  ASSUME BookInv, B!CancelUnknown(88421) \/ B!CancelResting(88421),
         NEW c0 \in Nat, NEW c1 \in Nat, NEW c2 \in Nat, c2 > 0 => c0 = 1, BookAfter(c0, c1, c2, 3)
  PROVE  BookAfter(c0, c1, c2, 4)' /\ ok' /\ taker' = taker
<1>0. PICK a : a = global_map[88421]
  OBVIOUS
<1>1. 88421 \in DOMAIN global_map /\ a \in DOMAIN order /\ order[a].orderID = 88421
  BY <1>0, OrdersAndLevels DEF BookAfter
<1>2. ok' /\ Removed(a) /\ taker' = taker
  BY <1>0, <1>1, Cancelled
<1>3. order[a].side = "buy"
  BY <1>1, Sells DEF BookAfter, IsLot
<1>4. \A b \in DOMAIN order' :
        \/ c0 = 1 /\ IsLot(b, "sell", 100, IF c1 = 1 THEN 5 ELSE 10, 0)'
        \/ c2 > 0 /\ IsLot(b, "buy", 90, 7, 0)'
        \/ IsLot(b, "buy", 95, 6, 88421)'
  BY <1>2, Sells DEF BookAfter, Removed, IsLot, SameLot
<1>5. \A b, c \in DOMAIN order' : order'[b].price = order'[c].price => b = c
  BY <1>2 DEF BookAfter, Removed, SameLot
<1>6. c0 = 1 => \E b \in DOMAIN order' : order'[b].side = Book!Sell
  BY <1>2, <1>3, Sells DEF BookAfter, Removed, SameLot
<1>7. c2 = 1 => order'[global_map'[0]].side = Book!Buy
  <2> SUFFICES ASSUME c2 = 1
               PROVE  order'[global_map'[0]].side = Book!Buy
    OBVIOUS
  <2>1. 0 \in DOMAIN global_map /\ order[global_map[0]].side = Book!Buy
    BY DEF BookAfter
  <2>2. global_map[0] \in DOMAIN order /\ global_map[0] # a
    BY <1>1, <2>1, OrdersAndLevels
  <2>3. QED
    BY <1>1, <1>2, <2>1, <2>2 DEF Removed, SameLot
<1>8. QED
  BY <1>1, <1>2, <1>4, <1>5, <1>6, <1>7, Sells DEF BookAfter, Removed, IsLot

-----------------------------------------------------------------------------
(* What the threads put into the ring.                                     *)

\* An event that is put in is one call more of its gateway.
LEMMA OnePostedMore ==
  ASSUME CoreInv, NEW e, inbound' = Append(inbound, e), NEW n, n = Len(inbound)
  PROVE  /\ \A g : Posted(g)' = IF e.gateway = g THEN Posted(g) + 1 ELSE Posted(g)
         /\ \A g : Posted(g) \in Nat
         /\ \A g : \A m \in 0..n : Count(g, m)' = Count(g, m)
         /\ \A g : Posted(g)' = Count(g, n + 1)'
<1>1. /\ Len(inbound) \in Nat /\ Len(inbound') = Len(inbound) + 1
      /\ inbound'[Len(inbound) + 1] = e
      /\ \A g : \A m \in 0..Len(inbound) : Calls(g, m)' = Calls(g, m)
      /\ \A k \in 1..Len(inbound) : inbound'[k] = inbound[k]
  BY PutBehind, RingEvents
<1>2. \A g : \A m \in 0..n : Count(g, m)' = Count(g, m)
  BY <1>1 DEF Count
<1>3. \A g : Posted(g) \in Nat
  BY <1>1, CallsCount DEF Posted, Count
<1>4. ASSUME NEW g
      PROVE  Posted(g)' = IF e.gateway = g THEN Posted(g) + 1 ELSE Posted(g)
  <2>1. Posted(g) = Cardinality(Calls(g, n)) /\ Posted(g)' = Cardinality(Calls(g, n + 1)')
    BY <1>1 DEF Posted, Count
  <2>2. IsFiniteSet(Calls(g, n)) /\ n + 1 \notin Calls(g, n) /\ n \in Nat
    <3>1. n \in Nat /\ n + 1 \notin 1..n
      BY <1>1
    <3>2. QED
      BY <3>1, CallsCount DEF Calls
  <2>3. \A k \in 1..n + 1 : k \in 1..n \/ k = n + 1
    BY <1>1
  <2>4. CASE e.gateway = g
    <3>1. Calls(g, n + 1)' = Calls(g, n) \cup {n + 1}
      BY <1>1, <2>2, <2>3, <2>4 DEF Calls
    <3>2. QED
      BY <2>1, <2>2, <2>4, <3>1, FS_AddElement
  <2>5. CASE e.gateway # g
    <3>1. Calls(g, n + 1)' = Calls(g, n)
      BY <1>1, <2>2, <2>3, <2>5 DEF Calls
    <3>2. QED
      BY <2>1, <2>5, <3>1
  <2>6. QED
    BY <2>4, <2>5
<1>5. \A g : Posted(g)' = Count(g, n + 1)'
  BY <1>1 DEF Posted, Count
<1>6. QED
  BY <1>2, <1>3, <1>4, <1>5

\* The next call of a script is put in behind the others.
LEMMA NextCallIsPut ==
  ASSUME CoreInv, PlannedCalls, NEW e, inbound' = Append(inbound, e),
         Asks(e, Posted(e.gateway) + 1),
         Together(Posted(0)', Posted(1)', Posted(2)', Posted(3)')
  PROVE  PlannedCalls'
<1>1. /\ DOMAIN inbound' = 1..Len(inbound) + 1 /\ Len(inbound') = Len(inbound) + 1
      /\ inbound'[Len(inbound) + 1] = e
      /\ \A k \in 1..Len(inbound) : inbound'[k] = inbound[k]
      /\ Len(inbound) \in Nat /\ DOMAIN inbound = 1..Len(inbound)
  BY PutBehind, RingEvents
<1> SUFFICES ASSUME NEW n, n = Len(inbound)
             PROVE  PlannedCalls'
  OBVIOUS
<1>2. /\ \A g : \A m \in 0..n : Count(g, m)' = Count(g, m)
      /\ \A g : Posted(g)' = Count(g, n + 1)'
      /\ Posted(e.gateway)' = Posted(e.gateway) + 1
  BY OnePostedMore
<1>3. ASSUME NEW k \in 1..n + 1
      PROVE  Asks(inbound[k], Count(inbound[k].gateway, k))'
  <2>1. CASE k \in 1..n
    <3> SUFFICES ASSUME NEW h, h = inbound[k].gateway
                 PROVE  Asks(inbound[k], Count(inbound[k].gateway, k))'
      OBVIOUS
    <3>1. Asks(inbound[k], Count(h, k)) /\ inbound'[k] = inbound[k] /\ k \in 0..n
      BY <1>1, <2>1 DEF PlannedCalls
    <3>2. Count(h, k)' = Count(h, k)
      BY <1>2, <3>1
    <3>3. QED
      BY <3>1, <3>2
  <2>2. CASE k = n + 1
    BY <1>1, <1>2, <2>2
  <2>3. QED
    BY <1>1, <2>1, <2>2
<1>4. ASSUME NEW m \in 0..n + 1
      PROVE  Together(Count(0, m), Count(1, m), Count(2, m), Count(3, m))'
  <2>1. CASE m \in 0..n
    BY <1>2, <2>1 DEF PlannedCalls, Together
  <2>2. CASE m = n + 1
    BY <1>2, <2>2 DEF Together
  <2>3. QED
    BY <1>1, <2>1, <2>2
<1>5. QED
  BY <1>1, <1>3, <1>4 DEF PlannedCalls

\* The lines of the scripts.
LEMMA DemoLines ==
  LET s == Script[DemoThread] IN
  /\ Len(s) = 12
  /\ s[1] = Mints(0) /\ s[2] = Places(0, 100, 10, "sell")
  /\ s[3] = Mints(1) /\ s[4] = Places(1, 110, 5, "buy") /\ s[5] = Awaits(1)
  /\ s[6] = Mints(2) /\ s[7] = Places(2, 90, 7, "buy") /\ s[8] = Awaits(2)
  /\ s[9] = Cancels(2) /\ s[10] = Awaits(2) /\ s[11] = Cancels(2) /\ s[12] = Awaits(2)
<1>1. Script[DemoThread] =
        <<Mints(0), Places(0, 100, 10, Book!Sell), Mints(1), Places(1, 110, 5, Book!Buy),
          Awaits(1), Mints(2), Places(2, 90, 7, Book!Buy), Awaits(2),
          Cancels(2), Awaits(2), Cancels(2), Awaits(2)>>
  BY DemoAssumption DEF Script
<1>2. QED
  BY <1>1, Sells

LEMMA FeedLines ==
  LET s == Script[FeedThread] IN
  /\ Len(s) = 8
  /\ s[1] = Places(3, 95, 10, "buy") /\ s[2] = Awaits(3) /\ s[3] = Modifies(3, 6) /\ s[4] = Awaits(3)
  /\ s[5] = Modifies(3, 100) /\ s[6] = Awaits(3) /\ s[7] = Cancels(3) /\ s[8] = Awaits(3)
<1>1. Script[FeedThread] =
         <<Places(3, 95, 10, Book!Buy), Awaits(3), Modifies(3, 6), Awaits(3),
           Modifies(3, 100), Awaits(3), Cancels(3), Awaits(3)>>
  BY DemoAssumption DEF Script
<1>2. QED
  BY <1>1, Sells

\* What a thread does at each kind of line.
LEMMA LineDoes ==
  ASSUME NEW t \in Threads, Step(t), NEW l, l = Script[t][pc[t]]
  PROVE  /\ pc' = [pc EXCEPT ![t] = @ + 1] /\ ~(pc[t] > Len(Script[t]))
         /\ \A g : l = Mints(g) => Mint(t, g) /\ UNCHANGED returned
         /\ \A g, p, v, s : l = Places(g, p, v, s) =>
              \/ /\ g \in Live /\ PlaceLive(t, p, v, s)
                 /\ returned' = [returned EXCEPT ![t] = minting[t].id]
              \/ \E id \in ExternalIds : /\ PlaceReplay(t, g, id, p, v, s)
                                         /\ returned' = [returned EXCEPT ![t] = id]
         /\ \A g : l = Awaits(g) => UNCHANGED <<system, returned>>
         /\ \A g : l = Cancels(g) => Cancel(t, g, returned[t]) /\ UNCHANGED returned
         /\ \A g, n : l = Modifies(g, n) => Modify(t, g, returned[t], n) /\ UNCHANGED returned
<1>1. /\ pc' = [pc EXCEPT ![t] = @ + 1] /\ ~(pc[t] > Len(Script[t]))
      /\ Place(t, l) \/ CallAgain(t, l) \/ Await(t, l)
  BY DEF Step, Finished, Line
<1>2. ASSUME NEW g, l = Mints(g)
      PROVE  Mint(t, g) /\ UNCHANGED returned
  <2>1. l.do = "mint" /\ l.gateway = g
    BY <1>2 DEF Mints
  <2>2. QED
    BY <1>1, <2>1 DEF Place, CallAgain, Await
<1>3. ASSUME NEW g, NEW p, NEW v, NEW s, l = Places(g, p, v, s)
      PROVE  \/ /\ g \in Live /\ PlaceLive(t, p, v, s)
                /\ returned' = [returned EXCEPT ![t] = minting[t].id]
             \/ \E id \in ExternalIds : /\ PlaceReplay(t, g, id, p, v, s)
                                        /\ returned' = [returned EXCEPT ![t] = id]
  <2>1. l.do = "place" /\ l.gateway = g /\ l.price = p /\ l.volume = v /\ l.side = s
    BY <1>3 DEF Places
  <2>2. QED
    BY <1>1, <2>1 DEF Place, CallAgain, Await
<1>4. ASSUME NEW g, l = Awaits(g)
      PROVE  UNCHANGED <<system, returned>>
  <2>1. l.do = "await"
    BY <1>4 DEF Awaits
  <2>2. QED
    BY <1>1, <2>1 DEF Place, CallAgain, Await
<1>5. ASSUME NEW g, l = Cancels(g)
      PROVE  Cancel(t, g, returned[t]) /\ UNCHANGED returned
  <2>1. l.do = "cancel" /\ l.gateway = g
    BY <1>5 DEF Cancels
  <2>2. QED
    BY <1>1, <2>1 DEF Place, CallAgain, Await
<1>6. ASSUME NEW g, NEW n, l = Modifies(g, n)
      PROVE  Modify(t, g, returned[t], n) /\ UNCHANGED returned
  <2>1. l.do = "modify" /\ l.gateway = g /\ l.volume = n
    BY <1>6 DEF Modifies
  <2>2. QED
    BY <1>1, <2>1 DEF Place, CallAgain, Await
<1>7. QED
  BY <1>1, <1>2, <1>3, <1>4, <1>5, <1>6

\* What the configuration says of the gateways and the ids.
LEMMA ConfigurationIs ==
  ASSUME Configuration
  PROVE  /\ 0 \in Ids /\ 88421 \in Ids /\ Holds(0) # Free /\ Holds(1) # Free /\ Holds(2) # Free
         /\ \A g \in 0..3 : g \in Gateways /\ g \in Noisy /\ (g \in Live <=> g # 3)
         /\ 0 \in 0..3 /\ 1 \in 0..3 /\ 2 \in 0..3 /\ 3 \in 0..3
<1>1. 0 \in Ids /\ 88421 \in Ids
  BY LimitsAssumption DEF Configuration, Ids
<1>2. 0 # NoId
  BY <1>1, BookAssumption
<1>3. \A g : Holds(g) # Free
  <2>1. \A g : Holds(g).id = 0 /\ Free.id = NoId
    BY DEF Holds, Free
  <2>2. QED
    BY <1>2, <2>1
<1>4. \A g \in 0..3 : g \in Gateways /\ g \in Noisy /\ (g \in Live <=> g # 3)
  BY DEF Configuration, Noisy
<1>5. QED
  BY <1>1, <1>3, <1>4

\* The event e is the next call of its gateway, and is handed over.
PutsNext(e) ==
  /\ e \in Events /\ e.gateway \in 0..3 /\ (e.silent <=> e.gateway \notin Noisy)
  /\ Asks(e, Posted(e.gateway) + 1)
  /\ inbound' = Append(inbound, e)
  /\ UNCHANGED <<read_p, engine, outbound, book>>

\* A place, a cancel and a modify, in the order of the script, are the next call.
LEMMA PutsNew ==
  ASSUME Configuration, NEW g \in 0..3, NEW id \in Ids, NEW p, NEW v, NEW s,
         Post(New(g, id, p, v, s)), Asks(New(g, id, p, v, s), Posted(g) + 1)
  PROVE  \E e : PutsNext(e) /\ e.gateway = g
<1> SUFFICES ASSUME NEW e, e = New(g, id, p, v, s)
             PROVE  PutsNext(e) /\ e.gateway = g
  OBVIOUS
<1>1. /\ e.op = "NEW" /\ e.id = id /\ e.gateway = g /\ e.silent = Silent(g)
      /\ e.price = p /\ e.volume = v /\ e.side = s
  BY DEF New
<1>2. Silent(g) \in BOOLEAN /\ (Silent(g) <=> g \notin Noisy) /\ g \in Gateways
  BY ConfigurationIs, SilentOrNoisy
<1>3. p \in Prices /\ v \in Volumes /\ s \in Book!Sides
  BY <1>1, Sells DEF Asks, Configuration
<1>4. e \in Events
  BY <1>2, <1>3 DEF New, Events
<1>5. QED
  BY <1>1, <1>2, <1>4 DEF Post, PutsNext

LEMMA PutsCancel ==
  ASSUME Configuration, NEW g \in 0..3, NEW id \in Ids, NEW t, Cancel(t, g, id),
         \A e : e.op = "CANCEL" /\ e.gateway = g /\ e.id = id => Asks(e, Posted(g) + 1)
  PROVE  \E e : PutsNext(e) /\ e.gateway = g
<1> SUFFICES ASSUME NEW e, e = [op |-> "CANCEL", id |-> id, gateway |-> g, silent |-> Silent(g)]
             PROVE  PutsNext(e) /\ e.gateway = g
  OBVIOUS
<1>1. e.op = "CANCEL" /\ e.id = id /\ e.gateway = g /\ e.silent = Silent(g)
  OBVIOUS
<1>2. Silent(g) \in BOOLEAN /\ (Silent(g) <=> g \notin Noisy) /\ g \in Gateways
  BY ConfigurationIs, SilentOrNoisy
<1>3. e \in Events
  BY <1>2 DEF Events
<1>4. Asks(e, Posted(g) + 1)
  BY <1>1
<1>5. QED
  BY <1>1, <1>2, <1>3, <1>4 DEF Cancel, Post, PutsNext

LEMMA PutsModify ==
  ASSUME Configuration, NEW g \in 0..3, NEW id \in Ids, NEW n \in Volumes, NEW t, Modify(t, g, id, n),
         \A e : e.op = "MODIFY" /\ e.gateway = g /\ e.id = id /\ e.volume = n => Asks(e, Posted(g) + 1)
  PROVE  \E e : PutsNext(e) /\ e.gateway = g
<1> SUFFICES ASSUME NEW e, e = [op |-> "MODIFY", id |-> id, gateway |-> g, silent |-> Silent(g),
                                volume |-> n]
             PROVE  PutsNext(e) /\ e.gateway = g
  OBVIOUS
<1>1. e.op = "MODIFY" /\ e.id = id /\ e.gateway = g /\ e.silent = Silent(g) /\ e.volume = n
  OBVIOUS
<1>2. Silent(g) \in BOOLEAN /\ (Silent(g) <=> g \notin Noisy) /\ g \in Gateways
  BY ConfigurationIs, SilentOrNoisy
<1>3. e \in Events
  BY <1>2 DEF Events
<1>4. Asks(e, Posted(g) + 1)
  BY <1>1
<1>5. QED
  BY <1>1, <1>2, <1>3, <1>4 DEF Modify, Post, PutsNext

\* The ids a thread holds and those still to come keep their type.
HandsTyped ==
  /\ internal_id_counter \in [Gateways -> Nat]
  /\ minting \in [Threads -> [gateway : Gateways, id : Ids] \cup {Free}]

\* Nothing is put in.
Quiet == UNCHANGED <<inbound, read_p, engine, outbound, book>>

\* What a line means for the calls: one more of gateway g, or none.
LEMMA OnePut ==
  ASSUME CoreInv, NEW e, PutsNext(e)
  PROVE  \A h : Posted(h)' = IF e.gateway = h THEN Posted(h) + 1 ELSE Posted(h)
<1>1. PICK n : n = Len(inbound)
  OBVIOUS
<1>2. QED
  BY <1>1, OnePostedMore DEF PutsNext

\* No call more.
LEMMA NonePut ==
  ASSUME Quiet
  PROVE  \A h : Posted(h)' = Posted(h)
BY DEF Quiet, Posted, Count, Calls

\* Whatever the line, the system and the calls in the ring go on as planned.
LEMMA LineKeeps ==
  ASSUME CoreInv, PlannedCalls, HandsTyped', ScriptInv', Quiet \/ \E e : PutsNext(e)
  PROVE  CoreInv' /\ PlannedCalls'
<1>1. CASE Quiet
  <2>1. CoreInv'
    BY <1>1, RingStays DEF HandsTyped, Quiet
  <2>2. \A g, n : Count(g, n)' = Count(g, n)
    BY <1>1 DEF Count, Calls, Quiet
  <2>3. PlannedCalls'
    BY <1>1, <2>2 DEF PlannedCalls, Quiet
  <2>4. QED
    BY <2>1, <2>3
<1>2. ASSUME NEW e, PutsNext(e)
      PROVE  CoreInv' /\ PlannedCalls'
  <2>1. CoreInv'
    BY <1>2, PostKeeps DEF HandsTyped, PutsNext
  <2>2. Together(Posted(0), Posted(1), Posted(2), Posted(3))'
    <3>1. ScriptInv' => pc'[DemoThread] \in 1..13 /\ pc'[FeedThread] \in 1..13
      BY DemoAssumption DEF ScriptInv
    <3>2. QED
      BY <3>1 DEF ScriptInv, Together
  <2>3. PlannedCalls'
    BY <1>2, <2>2, NextCallIsPut DEF PutsNext, Together
  <2>4. QED
    BY <2>1, <2>3
<1>3. QED
  BY <1>1, <1>2

\* A thread that takes an id holds the first one of its gateway.
LEMMA MintLine ==
  ASSUME CoreInv, Configuration, NEW t \in Threads, NEW g \in 0..2, Mint(t, g), internal_id_counter[g] = 0
  PROVE  /\ Quiet /\ HandsTyped' /\ minting' = [minting EXCEPT ![t] = Holds(g)]
         /\ \A h \in 0..2 : h # g => internal_id_counter'[h] = internal_id_counter[h]
<1>1. g \in Gateways /\ 0 \in Ids /\ 0..2 \subseteq Gateways
  BY ConfigurationIs DEF Configuration
<1>2. minting' = [minting EXCEPT ![t] = Holds(g)]
  BY DEF Mint, Holds
<1>3. Holds(g) \in [gateway : Gateways, id : Ids]
  BY <1>1 DEF Holds
<1>4. HandsTyped'
  BY <1>2, <1>3 DEF Mint, HandsTyped, CoreInv, TypeOK
<1>5. QED
  BY <1>1, <1>2, <1>4 DEF Mint, Quiet, CoreInv, TypeOK

\* A thread that has an id places an order under it.
LEMMA PlaceLine ==
  ASSUME CoreInv, Configuration, NEW t \in Threads, NEW g \in 0..2, NEW p, NEW v, NEW s,
         minting[t] = Holds(g), PlaceLive(t, p, v, s), Posted(g) = 0, Asks(New(g, 0, p, v, s), 1)
  PROVE  /\ (\E e : PutsNext(e) /\ e.gateway = g) /\ HandsTyped'
         /\ minting' = [minting EXCEPT ![t] = Free] /\ UNCHANGED internal_id_counter
<1>1. Holds(g).gateway = g /\ Holds(g).id = 0
  BY DEF Holds
<1>2. /\ Post(New(g, 0, p, v, s)) /\ minting' = [minting EXCEPT ![t] = Free]
      /\ UNCHANGED internal_id_counter
  BY <1>1 DEF PlaceLive, Post
<1>3. \E e : PutsNext(e) /\ e.gateway = g
  BY <1>2, PutsNew, ConfigurationIs, g \in 0..3
<1>4. HandsTyped'
  BY <1>2 DEF HandsTyped, CoreInv, TypeOK
<1>5. QED
  BY <1>2, <1>3, <1>4

\* A thread that takes no id and uses none.
LEMMA TypedHands == CoreInv /\ UNCHANGED <<minting, internal_id_counter>> => HandsTyped'
BY DEF HandsTyped, CoreInv, TypeOK

\* A line of the thread that places, cancels and cancels again.
LEMMA DemoThreadStep ==
  ASSUME CoreInv, Configuration, ScriptInv, Step(DemoThread)
  PROVE  ScriptInv' /\ HandsTyped' /\ (Quiet \/ \E e : PutsNext(e))
<1> DEFINE d == pc[DemoThread]
           l == Script[DemoThread][pc[DemoThread]]
<1>1. /\ DemoThread \in Threads /\ FeedThread \in Threads /\ DemoThread # FeedThread
      /\ pc \in [Threads -> 1..13] /\ returned \in [Threads -> Ids \cup {NoId}]
      /\ minting \in [Threads -> [gateway : Gateways, id : Ids] \cup {Free}]
  BY DemoAssumption DEF ScriptInv, CoreInv, TypeOK
<1>2. /\ pc' = [pc EXCEPT ![DemoThread] = d + 1] /\ ~(d > Len(Script[DemoThread]))
      /\ \A g : l = Mints(g) => Mint(DemoThread, g) /\ UNCHANGED returned
      /\ \A g, p, v, s : l = Places(g, p, v, s) =>
           \/ /\ g \in Live /\ PlaceLive(DemoThread, p, v, s)
              /\ returned' = [returned EXCEPT ![DemoThread] = minting[DemoThread].id]
           \/ \E id \in ExternalIds : /\ PlaceReplay(DemoThread, g, id, p, v, s)
                                      /\ returned' = [returned EXCEPT ![DemoThread] = id]
      /\ \A g : l = Awaits(g) => UNCHANGED <<system, returned>>
      /\ \A g : l = Cancels(g) => Cancel(DemoThread, g, returned[DemoThread]) /\ UNCHANGED returned
  BY <1>1, LineDoes
<1>3. d \in 1..12
  BY <1>1, <1>2, DemoLines
<1>4. ASSUME NEW g \in 0..2, d = IF g = 0 THEN 1 ELSE IF g = 1 THEN 3 ELSE 6
      PROVE  ScriptInv' /\ HandsTyped' /\ (Quiet \/ \E e : PutsNext(e))
  <2>1. l = Mints(g)
    BY <1>4, DemoLines
  <2>2. Mint(DemoThread, g) /\ UNCHANGED returned
    BY <1>2, <2>1
  <2>3. internal_id_counter[g] = 0
    BY <1>4 DEF ScriptInv
  <2>4. /\ Quiet /\ HandsTyped' /\ minting' = [minting EXCEPT ![DemoThread] = Holds(g)]
        /\ \A h \in 0..2 : h # g => internal_id_counter'[h] = internal_id_counter[h]
    BY <1>1, <2>2, <2>3, MintLine
  <2>5. \A h : Posted(h)' = Posted(h)
    BY <2>4, NonePut
  <2>6. ScriptInv'
    BY <1>1, <1>2, <1>4, <2>2, <2>4, <2>5 DEF ScriptInv
  <2>7. QED
    BY <2>4, <2>6
<1>5. ASSUME NEW g \in 0..2, d = IF g = 0 THEN 2 ELSE IF g = 1 THEN 4 ELSE 7
      PROVE  ScriptInv' /\ HandsTyped' /\ (Quiet \/ \E e : PutsNext(e))
  <2>1. PICK p, v, s : l = Places(g, p, v, s) /\ Asks(New(g, 0, p, v, s), 1)
    BY <1>5, DemoLines, Sells DEF Asks, New
  <2>2. minting[DemoThread] = Holds(g) /\ Posted(g) = 0 /\ Holds(g).id = 0
    BY <1>5 DEF ScriptInv, Holds
  <2>3. /\ PlaceLive(DemoThread, p, v, s)
        /\ returned' = [returned EXCEPT ![DemoThread] = 0]
    BY <1>2, <2>1, <2>2, ConfigurationIs DEF PlaceReplay, Configuration
  <2>4. /\ (\E e : PutsNext(e) /\ e.gateway = g) /\ HandsTyped'
        /\ minting' = [minting EXCEPT ![DemoThread] = Free] /\ UNCHANGED internal_id_counter
    BY <1>1, <2>1, <2>2, <2>3, PlaceLine
  <2>5. \A h : Posted(h)' = IF g = h THEN Posted(h) + 1 ELSE Posted(h)
    BY <2>4, OnePut
  <2>6. ScriptInv'
    BY <1>1, <1>2, <1>5, <2>3, <2>4, <2>5, ConfigurationIs DEF ScriptInv
  <2>7. QED
    BY <2>4, <2>6
<1>6. CASE d \in {5, 8, 10, 12}
  <2>1. \E g : l = Awaits(g)
    BY <1>6, DemoLines
  <2>2. Quiet /\ UNCHANGED <<minting, internal_id_counter, returned>>
    BY <1>2, <2>1 DEF system, calls, book, Quiet
  <2>3. (\A h : Posted(h)' = Posted(h)) /\ HandsTyped'
    BY <2>2, NonePut, TypedHands
  <2>4. ScriptInv'
    BY <1>1, <1>2, <1>6, <2>2, <2>3 DEF ScriptInv
  <2>5. QED
    BY <2>2, <2>3, <2>4
<1>7. CASE d \in {9, 11}
  <2>1. l = Cancels(2)
    BY <1>7, DemoLines
  <2>2. Cancel(DemoThread, 2, 0) /\ UNCHANGED returned
    BY <1>2, <1>7, <2>1 DEF ScriptInv
  <2>3. UNCHANGED <<minting, internal_id_counter>>
    BY <2>2 DEF Cancel, Post
  <2>4. Posted(2) \in {1, 2}
    BY <1>7 DEF ScriptInv
  <2>5. \E e : PutsNext(e) /\ e.gateway = 2
    <3>1. \A e : e.op = "CANCEL" /\ e.gateway = 2 /\ e.id = 0 => Asks(e, Posted(2) + 1)
      BY <2>4 DEF Asks
    <3>2. QED
      BY <2>2, <3>1, PutsCancel, ConfigurationIs
  <2>6. (\A h : Posted(h)' = IF h = 2 THEN Posted(h) + 1 ELSE Posted(h)) /\ HandsTyped'
    BY <2>3, <2>5, OnePut, TypedHands
  <2>7. ScriptInv'
    BY <1>1, <1>2, <1>7, <2>2, <2>3, <2>6 DEF ScriptInv
  <2>8. QED
    BY <2>5, <2>6, <2>7
<1>8. QED
  <2>1. \/ d \in {5, 8, 10, 12} \/ d \in {9, 11}
        \/ \E g \in 0..2 : d = IF g = 0 THEN 1 ELSE IF g = 1 THEN 3 ELSE 6
        \/ \E g \in 0..2 : d = IF g = 0 THEN 2 ELSE IF g = 1 THEN 4 ELSE 7
    <3>1. 0 \in 0..2 /\ 1 \in 0..2 /\ 2 \in 0..2
      OBVIOUS
    <3>2. QED
      BY <1>3, <3>1
  <2>2. QED
    BY <2>1, <1>4, <1>5, <1>6, <1>7

\* A line of the thread of the feed.
LEMMA FeedThreadStep ==
  ASSUME CoreInv, Configuration, ScriptInv, Step(FeedThread)
  PROVE  ScriptInv' /\ HandsTyped' /\ (Quiet \/ \E e : PutsNext(e))
<1> DEFINE f == pc[FeedThread]
           l == Script[FeedThread][pc[FeedThread]]
<1>1. /\ DemoThread \in Threads /\ FeedThread \in Threads /\ DemoThread # FeedThread
      /\ pc \in [Threads -> 1..13] /\ returned \in [Threads -> Ids \cup {NoId}]
      /\ minting \in [Threads -> [gateway : Gateways, id : Ids] \cup {Free}]
      /\ minting[FeedThread] = Free
  BY DemoAssumption DEF ScriptInv, CoreInv, TypeOK
<1>2. /\ pc' = [pc EXCEPT ![FeedThread] = f + 1] /\ ~(f > Len(Script[FeedThread]))
      /\ \A g, p, v, s : l = Places(g, p, v, s) =>
           \/ /\ g \in Live /\ PlaceLive(FeedThread, p, v, s)
              /\ returned' = [returned EXCEPT ![FeedThread] = minting[FeedThread].id]
           \/ \E id \in ExternalIds : /\ PlaceReplay(FeedThread, g, id, p, v, s)
                                      /\ returned' = [returned EXCEPT ![FeedThread] = id]
      /\ \A g : l = Awaits(g) => UNCHANGED <<system, returned>>
      /\ \A g : l = Cancels(g) => Cancel(FeedThread, g, returned[FeedThread]) /\ UNCHANGED returned
      /\ \A g, n : l = Modifies(g, n) =>
           Modify(FeedThread, g, returned[FeedThread], n) /\ UNCHANGED returned
  BY <1>1, LineDoes
<1>3. f \in 1..8
  BY <1>1, <1>2, FeedLines
<1>4. CASE f \in {2, 4, 6, 8}
  <2>1. \E g : l = Awaits(g)
    BY <1>4, FeedLines
  <2>2. Quiet /\ UNCHANGED <<minting, internal_id_counter, returned>>
    BY <1>2, <2>1 DEF system, calls, book, Quiet
  <2>3. (\A h : Posted(h)' = Posted(h)) /\ HandsTyped'
    BY <2>2, NonePut, TypedHands
  <2>4. ScriptInv'
    BY <1>1, <1>2, <1>4, <2>2, <2>3 DEF ScriptInv
  <2>5. QED
    BY <2>2, <2>3, <2>4
<1>5. CASE f \in {1, 3, 5, 7}
  <2>1. /\ \E e : PutsNext(e) /\ e.gateway = 3
        /\ UNCHANGED <<minting, internal_id_counter>>
        /\ IF f = 1 THEN returned' = [returned EXCEPT ![FeedThread] = 88421] ELSE UNCHANGED returned
    <3>1. CASE f = 1
      <4>1. l = Places(3, 95, 10, "buy") /\ Posted(3) = 0
        BY <3>1, FeedLines DEF ScriptInv
      <4>2. /\ PlaceReplay(FeedThread, 3, 88421, 95, 10, "buy")
            /\ returned' = [returned EXCEPT ![FeedThread] = 88421]
        BY <1>1, <1>2, <4>1 DEF PlaceLive, Configuration
      <4>3. Asks(New(3, 88421, 95, 10, "buy"), 1)
        BY Sells DEF Asks, New
      <4>4. \E e : PutsNext(e) /\ e.gateway = 3
        BY <4>1, <4>2, <4>3, PutsNew, ConfigurationIs DEF PlaceReplay
      <4>5. QED
        BY <3>1, <4>2, <4>4 DEF PlaceReplay, Post
    <3>2. ASSUME NEW n \in {6, 100}, f = IF n = 6 THEN 3 ELSE 5
          PROVE  /\ \E e : PutsNext(e) /\ e.gateway = 3
                 /\ UNCHANGED <<minting, internal_id_counter, returned>>
      <4>1. l = Modifies(3, n) /\ Posted(3) = (IF n = 6 THEN 1 ELSE 2)
        BY <3>2, FeedLines DEF ScriptInv
      <4>2. Modify(FeedThread, 3, 88421, n) /\ UNCHANGED returned
        BY <1>2, <3>2, <4>1 DEF ScriptInv
      <4>3. \A e : e.op = "MODIFY" /\ e.gateway = 3 /\ e.id = 88421 /\ e.volume = n => Asks(e, Posted(3) + 1)
        BY <3>2, <4>1 DEF Asks
      <4>4. n \in Volumes
        BY <3>2 DEF Configuration
      <4>5. \E e : PutsNext(e) /\ e.gateway = 3
        BY <4>2, <4>3, <4>4, PutsModify, ConfigurationIs
      <4>6. QED
        BY <4>2, <4>5 DEF Modify, Post
    <3>3. CASE f = 7
      <4>1. l = Cancels(3) /\ Posted(3) = 3
        BY <3>3, FeedLines DEF ScriptInv
      <4>2. Cancel(FeedThread, 3, 88421) /\ UNCHANGED returned
        BY <1>2, <3>3, <4>1 DEF ScriptInv
      <4>3. \A e : e.op = "CANCEL" /\ e.gateway = 3 /\ e.id = 88421 => Asks(e, Posted(3) + 1)
        BY <4>1 DEF Asks
      <4>4. \E e : PutsNext(e) /\ e.gateway = 3
        BY <4>2, <4>3, PutsCancel, ConfigurationIs
      <4>5. QED
        BY <3>3, <4>2, <4>4 DEF Cancel, Post
    <3>4. QED
      BY <1>5, <3>1, <3>2, <3>3
  <2>2. (\A h : Posted(h)' = IF h = 3 THEN Posted(h) + 1 ELSE Posted(h)) /\ HandsTyped'
    BY <2>1, OnePut, TypedHands
  <2>3. ScriptInv'
    BY <1>1, <1>2, <1>5, <2>1, <2>2, ConfigurationIs DEF ScriptInv
  <2>4. QED
    BY <2>1, <2>2, <2>3
<1>6. QED
  BY <1>3, <1>4, <1>5

-----------------------------------------------------------------------------
(* The engine answers the calls.                                           *)

\* What the threads put in changes nothing for the work on the events before it.
LEMMA WorkStays ==
  ASSUME CoreInv, WorkInv, AnswersInv, Quiet \/ \E e : PutsNext(e)
  PROVE  WorkInv' /\ AnswersInv'
<1>1. /\ Len(inbound) \in Nat /\ read_p \in 0..Len(inbound) /\ read_p \in Nat
      /\ engine = "busy" => read_p + 1 \in 1..Len(inbound)
  BY RingEvents
<1>2. UNCHANGED <<read_p, engine, outbound, book>>
  BY DEF Quiet, PutsNext
<1>3. /\ \A k \in 1..Len(inbound) : inbound'[k] = inbound[k]
      /\ \A g : \A n \in 0..Len(inbound) : Count(g, n)' = Count(g, n)
  <2>1. CASE Quiet
    BY <2>1 DEF Quiet, Count, Calls
  <2>2. ASSUME NEW e, PutsNext(e)
        PROVE  /\ \A k \in 1..Len(inbound) : inbound'[k] = inbound[k]
               /\ \A g : \A n \in 0..Len(inbound) : Count(g, n)' = Count(g, n)
    BY <2>2, PutBehind DEF PutsNext, Count
  <2>3. QED
    BY <2>1, <2>2
<1>4. \A c0, c1, c2, c3 : BookAfter(c0, c1, c2, c3)' = BookAfter(c0, c1, c2, c3)
  BY <1>2 DEF book, BookAfter, IsLot
<1>5. \A n \in 0..Len(inbound) : Reached(n)' = Reached(n)
  BY <1>3, <1>4 DEF Reached
<1>6. (Book!Idle)' = Book!Idle /\ UNCHANGED <<taker, res, ok>>
  BY <1>2 DEF book, Book!Idle
<1>7. AnswersInv'
  BY <1>2 DEF AnswersInv
<1>8. engine = "busy" => Event' = Event /\ Reached(read_p + 1)' = Reached(read_p + 1)
  <2> SUFFICES ASSUME engine = "busy", NEW n, n = read_p + 1
               PROVE  Event' = Event /\ Reached(read_p + 1)' = Reached(read_p + 1)
    OBVIOUS
  <2>1. n \in 1..Len(inbound) /\ n \in 0..Len(inbound) /\ read_p' + 1 = n
    BY <1>1, <1>2
  <2>2. Reached(n)' = Reached(n) /\ inbound'[n] = inbound[n]
    BY <1>3, <1>5, <2>1
  <2>3. QED
    BY <2>1, <2>2 DEF Event
<1>9. Reached(read_p)' = Reached(read_p)
  <2> SUFFICES ASSUME NEW n, n = read_p
               PROVE  Reached(read_p)' = Reached(read_p)
    OBVIOUS
  <2>1. n \in 0..Len(inbound) /\ read_p' = n
    BY <1>1, <1>2
  <2>2. QED
    BY <1>5, <2>1
<1>10. engine = "busy" => Count(Event.gateway, read_p + 1)' = Count(Event.gateway, read_p + 1)
  <2> SUFFICES ASSUME engine = "busy", NEW n, n = read_p + 1, NEW g, g = Event.gateway
               PROVE  Count(Event.gateway, read_p + 1)' = Count(Event.gateway, read_p + 1)
    OBVIOUS
  <2>1. n \in 0..Len(inbound) /\ read_p' + 1 = n /\ Event' = Event
    BY <1>1, <1>2, <1>8
  <2>2. Count(g, n)' = Count(g, n)
    BY <1>3, <2>1
  <2>3. QED
    BY <2>1, <2>2
<1>11. ~Book!Idle => engine = "busy"
  BY DEF CoreInv, BusyInv
<1>12. engine' = engine
  BY <1>2
<1>13. WorkInv'
  BY <1>6, <1>8, <1>9, <1>10, <1>11, <1>12 DEF WorkInv, Fulfilled
<1>14. QED
  BY <1>7, <1>13

\* The event in hand is the next call of its gateway.
LEMMA InHand ==
  ASSUME CoreInv, PlannedCalls, read_p < Len(inbound), NEW r, r = read_p
  PROVE  /\ \A g : Count(g, r) \in Nat
         /\ \A g : Count(g, r + 1) = IF g = Event.gateway THEN Count(g, r) + 1 ELSE Count(g, r)
         /\ Together(Count(0, r), Count(1, r), Count(2, r), Count(3, r))
         /\ Together(Count(0, r + 1), Count(1, r + 1), Count(2, r + 1), Count(3, r + 1))
         /\ Asks(Event, Count(Event.gateway, r) + 1)
         /\ Event.gateway \in 0..3
<1>1. r \in Nat /\ r + 1 \in 1..Len(inbound) /\ r \in 0..Len(inbound) /\ Event = inbound[r + 1]
  BY RingEvents DEF Event
<1>2. \A g : Count(g, r) \in Nat
  BY <1>1, CallsCount DEF Count
<1>3. \A g : Count(g, r + 1) = IF g = Event.gateway THEN Count(g, r) + 1 ELSE Count(g, r)
  BY <1>1, OneCallMore DEF Count
<1>4. /\ Together(Count(0, r), Count(1, r), Count(2, r), Count(3, r))
      /\ Together(Count(0, r + 1), Count(1, r + 1), Count(2, r + 1), Count(3, r + 1))
  BY <1>1 DEF PlannedCalls
<1>5. Asks(Event, Count(Event.gateway, r + 1))
  BY <1>1, RingEvents DEF PlannedCalls
<1>6. Event.gateway \in 0..3
  BY <1>5 DEF Asks
<1>7. QED
  BY <1>2, <1>3, <1>4, <1>5, <1>6

\* What is true of the work when it is done, at the event in hand.
Answered(r) ==
  /\ Reached(r + 1)
  /\ Fulfilled <=> Succeeds(Event.gateway, Count(Event.gateway, r + 1))

\* Reached, with the counts named.
LEMMA ReachedIs ==
  ASSUME NEW r, NEW c0, NEW c1, NEW c2, NEW c3,
         Count(0, r) = c0, Count(1, r) = c1, Count(2, r) = c2, Count(3, r) = c3
  PROVE  Reached(r) = BookAfter(c0, c1, c2, c3)
BY DEF Reached

\* An order in hand is done with at one go.
LEMMA MatchAnswersCall ==
  ASSUME CoreInv, Configuration, PlannedCalls, WorkInv, Match, NEW r, r = read_p
  PROVE  Answered(r)' /\ (Book!Idle)'
<1>1. /\ ~Book!Idle /\ Book!MatchStep /\ engine = "busy" /\ Event.op = "NEW"
      /\ UNCHANGED <<inbound, read_p, engine, outbound>>
  BY MatchAnswers DEF Match, calls, CoreInv, TypeOK, BusyInv
<1>2. /\ taker.price = Event.price /\ taker.volume = Event.volume /\ taker.side = Event.side
      /\ ~res.fulfilled /\ Reached(r) /\ taker.orderID = Event.id
  BY <1>1 DEF WorkInv, CoreInv, BusyInv
<1>3. /\ \A g : Count(g, r) \in Nat
      /\ \A g : Count(g, r + 1) = IF g = Event.gateway THEN Count(g, r) + 1 ELSE Count(g, r)
      /\ Together(Count(0, r), Count(1, r), Count(2, r), Count(3, r))
      /\ Together(Count(0, r + 1), Count(1, r + 1), Count(2, r + 1), Count(3, r + 1))
      /\ Asks(Event, Count(Event.gateway, r) + 1)
      /\ Event.gateway \in 0..3
  BY <1>1, InHand, RingEvents
<1>4. \A g, n : Count(g, n)' = Count(g, n)
  BY <1>1 DEF Count, Calls
<1>5. Event' = Event
  BY <1>1 DEF Event
<1>6. PICK c0 \in Nat, c1 \in Nat, c2 \in Nat, c3 \in Nat, g \in 0..3 :
        /\ Count(0, r) = c0 /\ Count(1, r) = c1 /\ Count(2, r) = c2 /\ Count(3, r) = c3
        /\ g = Event.gateway
  BY <1>3
<1>7. BookAfter(c0, c1, c2, c3) /\ Together(c0, c1, c2, c3) /\ BookInv
  BY <1>2, <1>3, <1>6, ReachedIs DEF CoreInv
<1>8. /\ BookAfter(IF g = 0 THEN c0 + 1 ELSE c0, IF g = 1 THEN c1 + 1 ELSE c1,
                   IF g = 2 THEN c2 + 1 ELSE c2, IF g = 3 THEN c3 + 1 ELSE c3)'
      /\ (res'.fulfilled <=> g = 1) /\ (Book!Idle)'
      /\ Count(g, r) = 0
  <2>1. CASE g = 0
    <3>1. c0 = 0 /\ c1 = 0 /\ c2 = 0
      BY <1>1, <1>3, <1>6, <1>7, <2>1 DEF Asks, Together
    <3>2. taker.side = "sell" /\ taker.price = 100 /\ taker.volume = 10 /\ taker.orderID = 0
      BY <1>1, <1>2, <1>3, <1>6, <2>1, Sells DEF Asks
    <3>3. BookAfter(1, 0, 0, c3)' /\ res' = res /\ (Book!Idle)'
      BY <1>1, <1>7, <3>1, <3>2, SellRests
    <3>4. QED
      BY <1>2, <1>6, <2>1, <3>1, <3>3
  <2>2. CASE g = 1
    <3>1. c0 = 1 /\ c1 = 0 /\ c2 = 0
      <4>1. Asks(Event, c1 + 1)
        BY <1>3, <1>6, <2>2
      <4>2. Together(c0, c1 + 1, c2, c3)
        BY <1>3, <1>6, <2>2
      <4>3. c1 = 0
        BY <1>1, <4>1, <1>6 DEF Asks
      <4>4. QED
        BY <1>6, <1>7, <4>2, <4>3 DEF Together
    <3>2. taker.side = "buy" /\ taker.price = 110 /\ taker.volume = 5
      BY <1>1, <1>2, <1>3, <1>6, <2>2, Sells DEF Asks
    <3>3. BookAfter(1, 1, 0, c3)' /\ res'.fulfilled /\ (Book!Idle)'
      BY <1>1, <1>7, <3>1, <3>2, BuyIsFilled
    <3>4. QED
      BY <1>2, <1>6, <2>2, <3>1, <3>3
  <2>3. CASE g = 2
    <3>1. c0 = 1 /\ c1 = 1 /\ c2 = 0
      <4>1. Asks(Event, c2 + 1)
        BY <1>3, <1>6, <2>3
      <4>2. Together(c0, c1, c2 + 1, c3)
        BY <1>3, <1>6, <2>3
      <4>3. c2 = 0
        BY <1>1, <4>1, <1>6 DEF Asks
      <4>4. QED
        BY <1>6, <4>2, <4>3 DEF Together
    <3>2. taker.side = "buy" /\ taker.price = 90 /\ taker.volume = 7 /\ taker.orderID = 0
      BY <1>1, <1>2, <1>3, <1>6, <2>3, Sells DEF Asks
    <3>3. BookAfter(1, 1, 1, c3)' /\ res' = res /\ (Book!Idle)'
      BY <1>1, <1>7, <3>1, <3>2, BuyRests
    <3>4. QED
      BY <1>2, <1>6, <2>3, <3>1, <3>3
  <2>4. CASE g = 3
    <3>1. c3 = 0 /\ (c2 > 0 => c0 = 1)
      BY <1>1, <1>3, <1>6, <1>7, <2>4 DEF Asks, Together
    <3>2. taker.side = "buy" /\ taker.price = 95 /\ taker.volume = 10 /\ taker.orderID = 88421
      BY <1>1, <1>2, <1>3, <1>6, <2>4, Sells DEF Asks
    <3>3. BookAfter(c0, c1, c2, 1)' /\ res' = res /\ (Book!Idle)'
      BY <1>1, <1>7, <3>1, <3>2, FeedRests
    <3>4. QED
      BY <1>2, <1>6, <2>4, <3>1, <3>3
  <2>5. QED
    BY <1>3, <1>6, <2>1, <2>2, <2>3, <2>4
<1>9. Reached(r + 1)'
  BY <1>3, <1>4, <1>6, <1>8 DEF Reached
<1>10. Count(g, r + 1)' = 1 /\ Event'.gateway = g
  BY <1>3, <1>4, <1>5, <1>6, <1>8
<1>11. Fulfilled' <=> Succeeds(g, 1)
  BY <1>1, <1>3, <1>5, <1>6, <1>8 DEF Fulfilled, Succeeds
<1>12. QED
  BY <1>8, <1>9, <1>10, <1>11 DEF Answered

\* An event whose answer is known at once leaves the engine with it.
LEMMA AnsweredWorks ==
  ASSUME NEW r, read_p' = r, engine' = "busy", Answered(r)', (Book!Idle)'
  PROVE  WorkInv'
<1>1. Reached(read_p + 1)' /\ engine' # "poll"
  BY DEF Answered
<1>2. Fulfilled' <=> Succeeds(Event.gateway, Count(Event.gateway, read_p + 1))'
  BY DEF Answered
<1>3. QED
  BY <1>1, <1>2 DEF WorkInv

\* A new order is begun, and nothing of the book has changed.
LEMMA TakeBegins ==
  ASSUME CoreInv, WorkInv, Take, Event.op = "NEW"
  PROVE  WorkInv'
<1> SUFFICES ASSUME NEW r, r = read_p
             PROVE  WorkInv'
  OBVIOUS
<1>1. /\ engine = "poll" /\ engine' = "busy" /\ read_p' = r /\ UNCHANGED inbound
      /\ B!PlaceOrder(Event.id, Event.price, Event.volume, Event.side) /\ Event.id \in Ids
  BY TakeIs, EventFields
<1>2. /\ taker' = [orderID |-> Event.id, price |-> Event.price, volume |-> Event.volume,
                   side |-> Event.side]
      /\ ~res'.fulfilled /\ UNCHANGED <<order, limit, global_map, allocated>>
  BY <1>1 DEF B!PlaceOrder, B!book
<1>3. ~(Book!Idle)'
  <2>1. taker'.orderID # NoId
    BY <1>1, <1>2, BookAssumption
  <2>2. QED
    BY <2>1 DEF Book!Idle, Book!NoTaker
<1>4. Event' = Event
  BY <1>1 DEF Event
<1>5. Reached(r)'
  <2>1. Reached(r)
    BY <1>1 DEF WorkInv
  <2>2. \A g, n : Count(g, n)' = Count(g, n)
    BY <1>1 DEF Count, Calls
  <2>3. QED
    BY <1>2, <2>1, <2>2 DEF Reached, BookAfter, IsLot
<1>6. Reached(read_p)'
  BY <1>1, <1>5
<1>7. QED
  BY <1>2, <1>3, <1>4, <1>6 DEF WorkInv

\* A cancel or a modify is done with at one go.
LEMMA TakeAnswersCall ==
  ASSUME CoreInv, Configuration, PlannedCalls, WorkInv, Take, Event.op # "NEW", NEW r, r = read_p
  PROVE  Answered(r)' /\ (Book!Idle)'
<1>1. /\ engine = "poll" /\ read_p < Len(inbound) /\ UNCHANGED <<inbound, read_p>> /\ Book!Idle
      /\ \/ Event.op = "CANCEL" /\ (B!CancelUnknown(Event.id) \/ B!CancelResting(Event.id))
         \/ /\ Event.op = "MODIFY"
            /\ B!ModifyRejected(Event.id, Event.volume) \/ B!ModifyReduced(Event.id, Event.volume)
  BY TakeIs
<1>2. /\ \A g : Count(g, r) \in Nat
      /\ \A g : Count(g, r + 1) = IF g = Event.gateway THEN Count(g, r) + 1 ELSE Count(g, r)
      /\ Together(Count(0, r), Count(1, r), Count(2, r), Count(3, r))
      /\ Asks(Event, Count(Event.gateway, r) + 1)
      /\ Event.gateway \in 0..3
  BY <1>1, InHand
<1>3. \A g, n : Count(g, n)' = Count(g, n)
  BY <1>1 DEF Count, Calls
<1>4. Event' = Event
  BY <1>1 DEF Event
<1>5. PICK c0 \in Nat, c1 \in Nat, c2 \in Nat, c3 \in Nat, g \in 0..3 :
        /\ Count(0, r) = c0 /\ Count(1, r) = c1 /\ Count(2, r) = c2 /\ Count(3, r) = c3
        /\ g = Event.gateway
  BY <1>2
<1>6. Reached(r)
  BY <1>1 DEF WorkInv
<1>7. BookAfter(c0, c1, c2, c3) /\ Together(c0, c1, c2, c3) /\ BookInv
  BY <1>2, <1>5, <1>6, ReachedIs DEF CoreInv
<1>8. /\ BookAfter(c0, c1, IF g = 2 THEN c2 + 1 ELSE c2, IF g = 3 THEN c3 + 1 ELSE c3)'
      /\ (ok' <=> Succeeds(g, Count(g, r) + 1)) /\ taker' = taker
      /\ g # 0 /\ g # 1
  <2>1. CASE Event.op = "CANCEL" /\ g = 2
    <3>1. Event.id = 0 /\ c2 \in {1, 2} /\ c0 = 1 /\ c1 = 1
      <4>1. Asks(Event, c2 + 1)
        BY <1>2, <1>5, <2>1
      <4>2. Event.id = 0 /\ c2 \in {1, 2}
        BY <1>5, <2>1, <4>1 DEF Asks
      <4>3. QED
        BY <1>7, <4>2 DEF Together
    <3>2. B!CancelUnknown(0) \/ B!CancelResting(0)
      BY <1>1, <2>1, <3>1
    <3>3. CASE c2 = 1
      <4>1. BookAfter(1, 1, 2, c3)' /\ ok' /\ taker' = taker
        BY <1>7, <3>1, <3>2, <3>3, BuyIsCancelled
      <4>2. QED
        BY <1>5, <2>1, <3>1, <3>3, <4>1 DEF Succeeds
    <3>4. CASE c2 = 2
      <4>1. BookAfter(1, 1, 3, c3)' /\ ~ok' /\ taker' = taker
        BY <1>7, <3>1, <3>2, <3>4, CancelIsLate
      <4>2. QED
        BY <1>5, <2>1, <3>1, <3>4, <4>1 DEF Succeeds
    <3>5. QED
      BY <3>1, <3>3, <3>4
  <2>2. CASE g = 3
    <3>1. Asks(Event, c3 + 1) /\ (c2 > 0 => c0 = 1) /\ 6 \in Volumes /\ 100 \in Volumes
      BY <1>2, <1>5, <1>7, <2>2 DEF Together, Configuration
    <3>2. CASE Event.op = "MODIFY" /\ c3 = 1
      <4>1. Event.id = 88421 /\ Event.volume = 6
        BY <3>1, <3>2 DEF Asks
      <4>2. BookAfter(c0, c1, c2, 2)' /\ ok' /\ taker' = taker
        BY <1>1, <1>7, <3>1, <3>2, <4>1, FeedIsReduced
      <4>3. QED
        BY <1>5, <2>2, <3>2, <4>2 DEF Succeeds
    <3>3. CASE Event.op = "MODIFY" /\ c3 = 2
      <4>1. Event.id = 88421 /\ Event.volume = 100
        BY <3>1, <3>3 DEF Asks
      <4>2. BookAfter(c0, c1, c2, 3)' /\ ~ok' /\ taker' = taker
        BY <1>1, <1>7, <3>1, <3>3, <4>1, FeedStays
      <4>3. QED
        BY <1>5, <2>2, <3>3, <4>2 DEF Succeeds
    <3>4. CASE Event.op = "CANCEL" /\ c3 = 3
      <4>1. Event.id = 88421
        BY <1>5, <2>2, <3>1, <3>4 DEF Asks
      <4>2. BookAfter(c0, c1, c2, 4)' /\ ok' /\ taker' = taker
        BY <1>1, <1>7, <3>1, <3>4, <4>1, FeedIsCancelled
      <4>3. QED
        BY <1>5, <2>2, <3>4, <4>2 DEF Succeeds
    <3>5. \/ Event.op = "MODIFY" /\ c3 \in {1, 2}
          \/ Event.op = "CANCEL" /\ c3 = 3
      BY <1>1, <1>5, <2>2, <3>1 DEF Asks
    <3>6. QED
      BY <3>2, <3>3, <3>4, <3>5
  <2>3. (Event.op = "CANCEL" /\ g = 2) \/ g = 3
    BY <1>1, <1>2, <1>5 DEF Asks
  <2>4. QED
    BY <2>1, <2>2, <2>3
<1>9. Reached(r + 1)'
  BY <1>2, <1>3, <1>5, <1>8 DEF Reached
<1>10. Count(g, r + 1)' = Count(g, r) + 1 /\ Event'.gateway = g
  BY <1>2, <1>3, <1>4, <1>5
<1>11. Fulfilled' <=> ok'
  BY <1>4 DEF Fulfilled
<1>12. (Book!Idle)'
  BY <1>1, <1>8 DEF Book!Idle, Book!NoTaker, Book!Buy
<1>13. QED
  BY <1>8, <1>9, <1>10, <1>11, <1>12 DEF Answered

\* Each acknowledgement tells of the call it answers.
LEMMA AcknowledgeTells ==
  ASSUME CoreInv, Configuration, PlannedCalls, WorkInv, AnswersInv, Acknowledge
  PROVE  WorkInv' /\ AnswersInv'
<1> SUFFICES ASSUME NEW h, h = Event.gateway, NEW n, n = read_p + 1
             PROVE  WorkInv' /\ AnswersInv'
  OBVIOUS
<1>1. /\ engine = "busy" /\ Book!Idle /\ read_p' = n /\ engine' = "poll"
      /\ outbound' = [outbound EXCEPT ![h] = Append(@, Ack)]
      /\ UNCHANGED <<inbound, book>>
  BY DEF Acknowledge, calls
<1>2. Reached(n) /\ (Fulfilled <=> Succeeds(h, Count(h, n)))
  BY <1>1 DEF WorkInv
<1>3. WorkInv'
  <2>1. (Book!Idle)' /\ ~(engine' = "busy")
    BY <1>1 DEF book, Book!Idle
  <2>2. Reached(n)'
    <3>1. \A g : Count(g, n)' = Count(g, n)
      BY <1>1 DEF Count, Calls
    <3>2. UNCHANGED <<order, global_map>>
      BY <1>1 DEF book
    <3>3. QED
      BY <1>2, <3>1, <3>2 DEF Reached, BookAfter, IsLot
  <2>3. Reached(read_p)'
    BY <1>1, <2>2
  <2>4. QED
    BY <2>1, <2>3 DEF WorkInv
<1>4. h \in Noisy /\ h \in Gateways
  BY AckArrives
<1>5. /\ outbound \in [Gateways -> Seq(Acks)] /\ Ack \in Acks
      /\ Len(outbound[h]) \in Nat /\ Len(outbound[h]) + 1 = Count(h, n)
  <2>1. outbound \in [Gateways -> Seq(Acks)] /\ Ack \in Acks
    BY <1>1, AckFacts DEF CoreInv, TypeOK
  <2>2. Len(outbound[h]) = Cardinality(Done(h))
    BY <1>4 DEF CoreInv, AcksAnswerCalls
  <2>3. Cardinality(Calls(h, n)) = Cardinality(Done(h)) + 1
    BY <1>1, ReleaseCounts
  <2>4. QED
    BY <1>4, <2>1, <2>2, <2>3, LenProperties DEF Count
<1>6. Ack.fulfilled <=> Fulfilled
  BY DEF Ack, Fulfilled
<1>7. AnswersInv'
  <2> SUFFICES ASSUME NEW g \in 0..3, NEW j \in DOMAIN outbound'[g]
               PROVE  outbound'[g][j].fulfilled <=> Succeeds(g, j)
    BY DEF AnswersInv
  <2>1. g \in Gateways
    BY DEF Configuration
  <2>2. CASE g # h
    <3>1. outbound'[g] = outbound[g]
      BY <1>1, <1>5, <2>1, <2>2
    <3>2. QED
      BY <3>1 DEF AnswersInv
  <2>3. CASE g = h
    <3>1. outbound'[g] = Append(outbound[g], Ack) /\ outbound[g] \in Seq(Acks)
      BY <1>1, <1>5, <2>1, <2>3
    <3>2. CASE j = Len(outbound[g]) + 1
      <4>1. outbound'[g][j] = Ack
        BY <1>5, <3>1, <3>2
      <4>2. QED
        BY <1>2, <1>5, <1>6, <2>3, <3>2, <4>1
    <3>3. CASE j \in DOMAIN outbound[g]
      <4>1. outbound'[g][j] = outbound[g][j]
        BY <1>5, <3>1, <3>3
      <4>2. QED
        BY <3>3, <4>1 DEF AnswersInv
    <3>4. j = Len(outbound[g]) + 1 \/ j \in DOMAIN outbound[g]
      BY <1>5, <3>1
    <3>5. QED
      BY <3>2, <3>3, <3>4
  <2>4. QED
    BY <2>2, <2>3
<1>8. QED
  BY <1>3, <1>7

\* The engine goes on with the scripts' calls.
LEMMA EngineWorks ==
  ASSUME CoreInv, Configuration, PlannedCalls, WorkInv, AnswersInv, Engine
  PROVE  WorkInv' /\ AnswersInv' /\ UNCHANGED calls
<1> SUFFICES ASSUME NEW r, r = read_p
             PROVE  WorkInv' /\ AnswersInv' /\ UNCHANGED calls
  OBVIOUS
<1>1. UNCHANGED calls
  BY DEF Engine, Take, Match, Acknowledge, Discard
<1>2. CASE Take
  <2>1. engine' = "busy" /\ read_p' = r /\ UNCHANGED outbound
    BY <1>2, TakeIs
  <2>2. WorkInv'
    BY <1>2, <2>1, TakeBegins, TakeAnswersCall, AnsweredWorks
  <2>3. QED
    BY <1>1, <2>1, <2>2 DEF AnswersInv
<1>3. CASE Match
  <2>1. ~Book!Idle
    BY <1>3, MatchAnswers DEF Match, CoreInv, TypeOK
  <2>2. engine' = "busy" /\ read_p' = r /\ UNCHANGED outbound
    BY <1>3, <2>1 DEF Match, CoreInv, BusyInv
  <2>3. WorkInv'
    BY <1>3, <2>2, MatchAnswersCall, AnsweredWorks
  <2>4. QED
    BY <1>1, <2>2, <2>3 DEF AnswersInv
<1>4. CASE Acknowledge
  BY <1>1, <1>4, AcknowledgeTells
<1>5. ASSUME Discard
      PROVE  FALSE
  <2>1. engine = "busy" /\ Event.silent
    BY <1>5 DEF Discard
  <2>2. read_p < Len(inbound) /\ Event = inbound[r + 1] /\ r + 1 \in DOMAIN inbound
    BY <2>1, RingEvents DEF Event
  <2>3. Event.gateway \in 0..3
    BY <2>2, InHand
  <2>4. Event.gateway \in Noisy
    BY <2>3, ConfigurationIs
  <2>5. QED
    BY <2>1, <2>2, <2>4 DEF CoreInv, EventInv
<1>6. QED
  BY <1>2, <1>3, <1>4, <1>5 DEF Engine

-----------------------------------------------------------------------------
(* What holds of the program, and the answers it gets.                     *)

\* What holds of main.cpp at every step.
DemoInv == CoreInv /\ ScriptInv /\ PlannedCalls /\ WorkInv /\ AnswersInv

\* It holds when nothing is called,
LEMMA DemoInvInit ==
  ASSUME Configuration, DemoInit
  PROVE  DemoInv
<1>1. /\ internal_id_counter = [g \in Gateways |-> 0] /\ minting = [t \in Threads |-> Free]
      /\ inbound = <<>> /\ read_p = 0 /\ engine = "poll"
      /\ outbound = [g \in Gateways |-> <<>>] /\ Book!Init
      /\ pc = [t \in Threads |-> 1] /\ returned = [t \in Threads |-> NoId]
  BY DEF DemoInit, Init
<1>2. CoreInv
  BY SystemInvInit DEF DemoInit, SystemInv
<1>3. \A g : Posted(g) = 0 /\ Count(g, 0) = 0
  <2>1. \A g : Calls(g, 0) = {}
    BY DEF Calls
  <2>2. Len(inbound) = 0
    BY <1>1
  <2>3. QED
    BY <2>1, <2>2, FS_EmptySet DEF Posted, Count
<1>4. ScriptInv
  <2>1. DemoThread \in Threads /\ FeedThread \in Threads
    BY DemoAssumption
  <2>2. 0 \in Gateways /\ 1 \in Gateways /\ 2 \in Gateways
    BY ConfigurationIs
  <2>3. QED
    BY <1>1, <1>3, <2>1, <2>2 DEF ScriptInv
<1>5. PlannedCalls
  <2>1. DOMAIN inbound = {} /\ 0..Len(inbound) = {0}
    BY <1>1
  <2>2. Together(0, 0, 0, 0)
    BY DEF Together
  <2>3. QED
    BY <1>3, <2>1, <2>2 DEF PlannedCalls
<1>6. WorkInv
  <2>1. DOMAIN order = {} /\ DOMAIN global_map = {} /\ Book!Idle
    BY <1>1 DEF Book!Init, Book!NoEntries, Book!Idle
  <2>2. BookAfter(0, 0, 0, 0)
    BY <2>1 DEF BookAfter
  <2>3. QED
    BY <1>1, <1>3, <2>1, <2>2 DEF WorkInv, Reached
<1>7. AnswersInv
  <2>1. \A g \in 0..3 : outbound[g] = <<>>
    BY <1>1, ConfigurationIs
  <2>2. QED
    BY <2>1 DEF AnswersInv
<1>8. QED
  BY <1>2, <1>4, <1>5, <1>6, <1>7 DEF DemoInv

\* and each step of a thread, of main and of the engine keeps it.
LEMMA DemoInvStep ==
  ASSUME Configuration, DemoInv, [DemoNext]_demo_vars
  PROVE  DemoInv'
<1>1. CoreInv /\ ScriptInv /\ PlannedCalls /\ WorkInv /\ AnswersInv
  BY DEF DemoInv
<1>2. ASSUME NEW t \in Threads, Step(t)
      PROVE  DemoInv'
  <2>1. ScriptInv' /\ HandsTyped' /\ (Quiet \/ \E e : PutsNext(e))
    BY <1>1, <1>2, DemoAssumption, DemoThreadStep, FeedThreadStep
  <2>2. CoreInv' /\ PlannedCalls'
    BY <1>1, <2>1, LineKeeps
  <2>3. WorkInv' /\ AnswersInv'
    BY <1>1, <2>1, WorkStays
  <2>4. QED
    BY <2>1, <2>2, <2>3 DEF DemoInv
<1>3. ASSUME UNCHANGED calls, UNCHANGED threads
      PROVE  ScriptInv' /\ PlannedCalls'
  <2>1. UNCHANGED <<internal_id_counter, minting, inbound, pc, returned>>
    BY <1>3 DEF calls, threads
  <2>2. \A g, n : Count(g, n)' = Count(g, n)
    BY <2>1 DEF Count, Calls
  <2>3. \A g : Posted(g)' = Posted(g)
    BY <2>1 DEF Posted, Count, Calls
  <2>4. ScriptInv'
    BY <1>1, <2>1, <2>3 DEF ScriptInv
  <2>5. PlannedCalls'
    BY <1>1, <2>1, <2>2 DEF PlannedCalls
  <2>6. QED
    BY <2>4, <2>5
<1>4. CASE Engine /\ UNCHANGED threads
  <2>1. CoreInv' /\ WorkInv' /\ AnswersInv' /\ UNCHANGED calls
    BY <1>1, <1>4, EngineKeeps, EngineWorks
  <2>2. QED
    BY <1>3, <1>4, <2>1 DEF DemoInv
<1>5. CASE UNCHANGED <<system, threads>>
  <2>1. Quiet /\ UNCHANGED calls
    BY <1>5 DEF system, calls, Quiet
  <2>2. CoreInv' /\ WorkInv' /\ AnswersInv'
    BY <1>1, <1>5, <2>1, EngineKeeps, WorkStays
  <2>3. QED
    BY <1>3, <1>5, <2>1, <2>2 DEF DemoInv
<1>6. QED
  BY <1>2, <1>4, <1>5 DEF DemoNext, JoinAll, EndProcess, EngineRuns, PollAgain, Exited, demo_vars

\* A gateway has no more answers than its thread asks for.
LEMMA AnswersCount ==
  ASSUME Configuration, DemoInv, NEW g \in 0..3
  PROVE  /\ outbound[g] \in Seq(Acks) /\ Len(outbound[g]) \in Nat
         /\ Len(outbound[g]) <= Len(Expected[g])
<1>1. outbound[g] \in Seq(Acks) /\ Len(outbound[g]) \in Nat
  BY ConfigurationIs, LenProperties DEF DemoInv, CoreInv, TypeOK
<1> SUFFICES ASSUME NEW r, r = read_p
             PROVE  Len(outbound[g]) <= Len(Expected[g])
  BY <1>1
<1>2. Len(outbound[g]) = Count(g, r)
  BY ConfigurationIs DEF DemoInv, CoreInv, AcksAnswerCalls, Done, Count
<1>3. r \in 0..Len(inbound)
  BY RingEvents DEF DemoInv
<1>4. Together(Count(0, r), Count(1, r), Count(2, r), Count(3, r))
  BY <1>3 DEF DemoInv, PlannedCalls
<1>5. Count(g, r) <= CASE g = 0 -> 1 [] g = 1 -> 1 [] g = 2 -> 3 [] g = 3 -> 4
  BY <1>4 DEF Together
<1>6. Len(Expected[g]) = CASE g = 0 -> 1 [] g = 1 -> 1 [] g = 2 -> 3 [] g = 3 -> 4
  BY DEF Expected
<1>7. QED
  BY <1>2, <1>5, <1>6

\* What it says of the answers is what is expected of them.
LEMMA AnswersFollow ==
  ASSUME Configuration, DemoInv
  PROVE  AnswersAsExpected
<1> SUFFICES ASSUME NEW g \in 0..3,
                    NEW s, s = [k \in DOMAIN outbound[g] |-> outbound[g][k].fulfilled],
                    NEW x, x = Expected[g]
             PROVE  IsPrefix(s, x)
  BY DEF AnswersAsExpected
<1>1. /\ outbound[g] \in Seq(Acks) /\ Len(outbound[g]) \in Nat
      /\ Len(outbound[g]) <= Len(x)
  BY AnswersCount
<1>2. /\ DOMAIN outbound[g] = 1..Len(outbound[g])
      /\ \A k \in 1..Len(outbound[g]) : outbound[g][k] \in Acks
  BY <1>1, LenProperties
<1>3. \A k \in 1..Len(outbound[g]) : outbound[g][k].fulfilled \in BOOLEAN
  BY <1>2 DEF Acks
<1>4. s \in Seq(BOOLEAN) /\ Len(s) = Len(outbound[g])
  BY <1>1, <1>2, <1>3
<1>5. x \in Seq(BOOLEAN) /\ \A k \in 1..Len(x) : x[k] \in BOOLEAN /\ (x[k] <=> Succeeds(g, k))
  <2>1. CASE g = 0
    <3>1. x \in Seq(BOOLEAN) /\ Len(x) = 1 /\ ~x[1]
      BY <2>1 DEF Expected
    <3>2. QED
      BY <2>1, <3>1 DEF Succeeds
  <2>2. CASE g = 1
    <3>1. x \in Seq(BOOLEAN) /\ Len(x) = 1 /\ x[1]
      BY <2>2 DEF Expected
    <3>2. QED
      BY <2>2, <3>1 DEF Succeeds
  <2>3. CASE g = 2
    <3>1. x \in Seq(BOOLEAN) /\ Len(x) = 3 /\ ~x[1] /\ x[2] /\ ~x[3]
      BY <2>3 DEF Expected
    <3>2. QED
      BY <2>3, <3>1 DEF Succeeds
  <2>4. CASE g = 3
    <3>1. x \in Seq(BOOLEAN) /\ Len(x) = 4 /\ ~x[1] /\ x[2] /\ ~x[3] /\ x[4]
      BY <2>4 DEF Expected
    <3>2. QED
      BY <2>4, <3>1 DEF Succeeds
  <2>5. QED
    BY <2>1, <2>2, <2>3, <2>4
<1>6. ASSUME NEW k \in 1..Len(s)
      PROVE  s[k] = x[k]
  <2>1. k \in 1..Len(x) /\ k \in 1..Len(outbound[g]) /\ k \in DOMAIN outbound[g]
    BY <1>1, <1>2, <1>4, <1>5
  <2>2. s[k] = outbound[g][k].fulfilled
    BY <2>1
  <2>3. outbound[g][k].fulfilled <=> Succeeds(g, k)
    BY <2>1 DEF DemoInv, AnswersInv
  <2>4. s[k] \in BOOLEAN /\ x[k] \in BOOLEAN /\ (s[k] <=> x[k])
    BY <1>3, <1>5, <2>1, <2>2, <2>3
  <2>5. QED
    BY <2>4, Zenon
<1>7. SubSeq(s, 1, Len(s)) = SubSeq(x, 1, Len(s))
  <2> SUFFICES ASSUME NEW n, n = Len(s)
               PROVE  SubSeq(s, 1, n) = SubSeq(x, 1, n)
    OBVIOUS
  <2>1. n \in Nat /\ Len(x) \in Nat /\ n <= Len(x)
    BY <1>1, <1>4, <1>5, LenProperties
  <2>2. \A k \in 1..n : s[k] \in BOOLEAN /\ x[k] \in BOOLEAN
    BY <1>4, <1>5, <2>1
  <2>3. /\ SubSeq(s, 1, n) \in Seq(BOOLEAN) /\ Len(SubSeq(s, 1, n)) = n
        /\ \A k \in 1..n : SubSeq(s, 1, n)[k] = s[k]
    BY <2>1, <2>2, SubSeqProperties
  <2>4. /\ SubSeq(x, 1, n) \in Seq(BOOLEAN) /\ Len(SubSeq(x, 1, n)) = n
        /\ \A k \in 1..n : SubSeq(x, 1, n)[k] = x[k]
    BY <2>1, <2>2, SubSeqProperties
  <2>5. \A k \in 1..n : SubSeq(s, 1, n)[k] = SubSeq(x, 1, n)[k]
    BY <1>6, <2>3, <2>4
  <2>6. QED
    BY <2>1, <2>3, <2>4, <2>5, SeqEqual
<1>8. QED
  BY <1>1, <1>4, <1>7 DEF IsPrefix

\* Whatever the order in which the calls of the two threads reach the engine, the sell
\* of 10 is not filled, the buy of 5 is, each gateway's cancel finds its order, the
\* second cancel does not, and an order can be made smaller and not larger.
THEOREM DemoAnswersAsExpected ==
  ASSUME Configuration
  PROVE  DemoSpec => []AnswersAsExpected
<1>1. DemoInit => DemoInv
  BY DemoInvInit
<1>2. DemoInv /\ [DemoNext]_demo_vars => DemoInv'
  BY DemoInvStep
<1>3. DemoInv => AnswersAsExpected
  BY AnswersFollow
<1>4. QED
  BY <1>1, <1>2, <1>3, PTL DEF DemoSpec
=============================================================================
