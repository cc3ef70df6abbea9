------------------------ MODULE MatchingSystemProofs ------------------------
(***************************************************************************)
(* Theorems about gateways and engine together, for any gateways, threads, *)
(* ids, prices, volumes and any size of the ring.                          *)
(***************************************************************************)
EXTENDS MatchingSystem, NumberTheorems, FiniteSetTheorems, SequenceTheorems, TLAPS

\* The book with its invariants.
B == INSTANCE OrderbookProofs WITH MaxOrders <- MaxCalls, ReuseIds <- TRUE

\* Where the engine stands in the events handed over: one that is in hand has not
\* been released.
CursorInv ==
  /\ inbound \in Seq(Range(inbound))
  /\ read_p \in 0..Len(inbound)
  /\ engine \in {"poll", "busy"}
  /\ engine = "busy" => read_p < Len(inbound)

\* Appending puts an element behind the others and leaves what is in front of it.
LEMMA AppendBehind ==
  ASSUME NEW s, s \in Seq(Range(s)), NEW e
  PROVE  /\ Append(s, e) \in Seq(Range(Append(s, e)))
         /\ Len(s) \in Nat /\ Len(Append(s, e)) = Len(s) + 1
         /\ \A n \in 0..Len(s) : SubSeq(Append(s, e), 1, n) = SubSeq(s, 1, n)
         /\ SubSeq(Append(s, e), 1, Len(s)) = s
<1> DEFINE S == Range(s) \cup {e}
           t == Append(s, e)
<1>1. s \in Seq(S)
  BY SeqMonotonic, Range(s) \subseteq S
<1>2. e \in S
  OBVIOUS
<1> HIDE DEF S
<1>3. /\ t \in Seq(S) /\ Len(t) = Len(s) + 1 /\ Len(s) \in Nat
      /\ \A k \in 1..Len(s) : t[k] = s[k]
  BY <1>1, <1>2
<1>4. t \in Seq(Range(t))
  BY <1>3, SeqOfRange
<1>5. ASSUME NEW n \in 0..Len(s)
      PROVE  SubSeq(t, 1, n) = SubSeq(s, 1, n)
  <2>1. SubSeq(t, 1, n) = [k \in 1..n |-> t[k]] /\ SubSeq(s, 1, n) = [k \in 1..n |-> s[k]]
    BY <1>1, <1>3
  <2>2. QED
    BY <1>3, <2>1
<1>6. SubSeq(s, 1, Len(s)) = s
  BY <1>1
<1>7. QED
  BY <1>3, <1>4, <1>5, <1>6

\* Every call that hands an event over puts it behind the others, and there was room.
LEMMA CallPosts ==
  ASSUME CursorInv, NEW t, Call(t)
  PROVE  /\ UNCHANGED <<read_p, engine>>
         /\ \/ UNCHANGED inbound
            \/ Len(inbound) - read_p < Slots /\ \E e : inbound' = Append(inbound, e)
BY DEF Call, Begin, GoOn, Mint, PlaceLive, PlaceReplay, Cancel, Modify, Post

\* A step of the engine takes the next event, releases the one in hand, or moves
\* nothing in the ring.
LEMMA EngineMoves ==
  ASSUME Engine \/ PollAgain
  PROVE  /\ UNCHANGED inbound
         /\ \/ engine = "poll" /\ read_p < Len(inbound) /\ engine' = "busy" /\ read_p' = read_p
            \/ engine = "busy" /\ engine' = "poll" /\ read_p' = read_p + 1
            \/ UNCHANGED <<engine, read_p>>
BY DEF Engine, Take, Match, Acknowledge, Discard, PollAgain, system, calls

LEMMA InitCursor == Init => CursorInv
<1>1. <<>> \in Seq(Range(<<>>)) /\ Len(<<>>) = 0
  BY EmptySeq
<1>2. QED
  BY <1>1 DEF Init, CursorInv

LEMMA CursorAfterPost ==
  ASSUME CursorInv, UNCHANGED <<read_p, engine>>, NEW e, inbound' = Append(inbound, e)
  PROVE  CursorInv'
<1>1. /\ inbound' \in Seq(Range(inbound'))
      /\ Len(inbound) \in Nat /\ Len(inbound') = Len(inbound) + 1
  BY AppendBehind DEF CursorInv
<1>2. QED
  BY <1>1 DEF CursorInv

LEMMA CursorAfterEngine ==
  ASSUME CursorInv, Engine \/ PollAgain
  PROVE  CursorInv'
<1>1. Len(inbound) \in Nat
  BY LenProperties DEF CursorInv
<1>2. QED
  BY <1>1, EngineMoves DEF CursorInv

LEMMA CursorStep == CursorInv /\ [Next]_system => CursorInv'
<1> SUFFICES ASSUME CursorInv, [Next]_system
             PROVE  CursorInv'
  OBVIOUS
<1>1. ASSUME NEW t \in Threads, Call(t)
      PROVE  CursorInv'
  <2>1. CASE UNCHANGED inbound
    BY <1>1, <2>1, CallPosts DEF CursorInv
  <2>2. CASE \E e : inbound' = Append(inbound, e)
    BY <1>1, <2>2, CallPosts, CursorAfterPost
  <2>3. QED
    BY <1>1, <2>1, <2>2, CallPosts
<1>2. CASE UNCHANGED system
  BY <1>2 DEF system, calls, CursorInv
<1>3. QED
  BY <1>1, <1>2, CursorAfterEngine DEF Next

\* What was given does not change when events are put in behind it.
LEMMA GivenStays ==
  ASSUME CursorInv, UNCHANGED <<read_p, engine>>, NEW e, inbound' = Append(inbound, e)
  PROVE  Given' = Given
<1> DEFINE n == IF engine = "busy" THEN read_p + 1 ELSE read_p
<1>1. n \in 0..Len(inbound) /\ n' = n
  BY LenProperties DEF CursorInv
<1>2. SubSeq(inbound', 1, n) = SubSeq(inbound, 1, n)
  BY <1>1, AppendBehind DEF CursorInv
<1>3. QED
  BY <1>1, <1>2 DEF Given

\* The calls and the engine do what the queue does, or leave it alone.
LEMMA SystemRefines ==
  ASSUME CursorInv, [Next]_system
  PROVE  [Queue!Next]_Queue!queueVars
<1>0. Len(inbound) \in Nat /\ read_p \in 0..Len(inbound)
  BY LenProperties DEF CursorInv
<1>1. ASSUME NEW t \in Threads, Call(t)
      PROVE  Queue!Put \/ UNCHANGED Queue!queueVars
  <2>1. CASE UNCHANGED inbound
    BY <1>1, <2>1, CallPosts DEF Given, Queue!queueVars
  <2>2. ASSUME NEW e, inbound' = Append(inbound, e), ~UNCHANGED inbound
        PROVE  Queue!Put
    <3>1. /\ UNCHANGED <<read_p, engine>>
          /\ Len(inbound) - read_p < Slots
      BY <1>1, <2>2, CallPosts
    <3>2. Len(inbound') = Len(inbound) + 1 /\ SubSeq(inbound', 1, Len(inbound)) = inbound
      BY <2>2, AppendBehind DEF CursorInv
    <3>3. Given' = Given
      BY <2>2, <3>1, GivenStays
    <3>4. QED
      BY <3>1, <3>2, <3>3 DEF Queue!Put
  <2>3. QED
    BY <1>1, <2>1, <2>2, CallPosts
<1>2. CASE Engine \/ PollAgain
  <2>0. UNCHANGED inbound
    BY <1>2, EngineMoves
  <2>1. CASE engine = "poll" /\ read_p < Len(inbound) /\ engine' = "busy" /\ read_p' = read_p
    <3> DEFINE S == Range(inbound)
    <3>1. inbound \in Seq(S)
      BY DEF CursorInv
    <3> HIDE DEF S
    <3>2. read_p + 1 \in 1..Len(inbound)
      BY <1>0, <2>1
    <3>3. /\ Len(SubSeq(inbound, 1, read_p)) = read_p
          /\ SubSeq(inbound, 1, read_p + 1) = Append(SubSeq(inbound, 1, read_p), inbound[read_p + 1])
      BY <1>0, <3>1, <3>2
    <3>4. Given = SubSeq(inbound, 1, read_p) /\ Given' = SubSeq(inbound, 1, read_p + 1)
      BY <2>0, <2>1 DEF Given
    <3>5. Queue!Give
      BY <2>0, <2>1, <3>3, <3>4 DEF Queue!Give
    <3>6. QED
      BY <3>5 DEF Queue!Next
  <2>2. CASE engine = "busy" /\ engine' = "poll" /\ read_p' = read_p + 1
    <3>1. read_p + 1 \in 1..Len(inbound)
      BY <1>0, <2>2 DEF CursorInv
    <3>2. Given = SubSeq(inbound, 1, read_p + 1) /\ Given' = Given
      BY <2>0, <2>2 DEF Given
    <3> DEFINE S == Range(inbound)
    <3>3. inbound \in Seq(S)
      BY DEF CursorInv
    <3> HIDE DEF S
    <3>4. Len(SubSeq(inbound, 1, read_p + 1)) = read_p + 1
      BY <1>0, <3>1, <3>3
    <3>5. Queue!Release
      BY <2>0, <2>2, <3>2, <3>4 DEF Queue!Release
    <3>6. QED
      BY <3>5 DEF Queue!Next
  <2>3. CASE UNCHANGED <<engine, read_p>>
    BY <2>0, <2>3 DEF Given, Queue!queueVars
  <2>4. QED
    BY <1>2, <2>1, <2>2, <2>3, EngineMoves
<1>3. CASE UNCHANGED system
  BY <1>3 DEF system, calls, Given, Queue!queueVars
<1>4. QED
  BY <1>1, <1>2, <1>3 DEF Next, Queue!Next

\* Gateways and engine together use the inbound ring as the queue that InboundRing
\* is shown to be: they ask nothing more of it.
THEOREM SystemUsesAQueue == Spec => QueueSpec
<1>1. Init => Queue!Init
  <2>1. SubSeq(<<>>, 1, 0) = <<>>
    BY SubSeqEmpty
  <2>2. QED
    BY <2>1 DEF Init, Given, Queue!Init
<1>2. CursorInv /\ [Next]_system => [Queue!Next]_Queue!queueVars
  BY SystemRefines
<1>3. QED
  BY InitCursor, CursorStep, <1>1, <1>2, PTL DEF Spec, QueueSpec, Queue!Spec

-----------------------------------------------------------------------------
(* What the engine does to the book are steps of the book.                 *)

\* The calls of the engine are the calls the theorems about the book speak of.
LEMMA BookCalls ==
  /\ \A id, p, v, s : Book!PlaceOrder(id, p, v, s) => B!PlaceOrder(id, p, v, s)
  /\ \A id : Book!CancelUnknown(id) => B!CancelUnknown(id)
  /\ \A id : Book!CancelResting(id) => B!CancelResting(id)
  /\ \A id, n : Book!ModifyRejected(id, n) => B!ModifyRejected(id, n)
  /\ \A id, n : Book!ModifyReduced(id, n) => B!ModifyReduced(id, n)
  /\ Book!MatchStep => B!MatchStep
  /\ Book!Idle <=> B!Idle
  /\ Book!Init => B!Init
<1> USE DEF Book!Idle, B!Idle, Book!NoTaker, B!NoTaker, Book!Buy, B!Buy, Book!Sell, B!Sell,
            Book!NULL, B!NULL, Book!book, B!book, Book!history, B!history
<1>1. ASSUME NEW id, NEW p, NEW v, NEW s, Book!PlaceOrder(id, p, v, s)
      PROVE  B!PlaceOrder(id, p, v, s)
  BY <1>1 DEF Book!PlaceOrder, B!PlaceOrder
<1>2. ASSUME NEW id, Book!CancelUnknown(id)
      PROVE  B!CancelUnknown(id)
  BY <1>2 DEF Book!CancelUnknown, B!CancelUnknown
<1>3. ASSUME NEW id, Book!CancelResting(id)
      PROVE  B!CancelResting(id)
  BY <1>3 DEF Book!CancelResting, B!CancelResting, Book!Spliced, B!Spliced,
     Book!LevelsWithout, B!LevelsWithout, Book!Forget, B!Forget, Book!EraseKey, B!EraseKey, Book!Restrict, B!Restrict
<1>4. ASSUME NEW id, NEW n, Book!ModifyRejected(id, n)
      PROVE  B!ModifyRejected(id, n)
  BY <1>4 DEF Book!ModifyRejected, B!ModifyRejected, Book!Reducible, B!Reducible
<1>5. ASSUME NEW id, NEW n, Book!ModifyReduced(id, n)
      PROVE  B!ModifyReduced(id, n)
  BY <1>5 DEF Book!ModifyReduced, B!ModifyReduced, Book!Reducible, B!Reducible,
     Book!LevelsReduced, B!LevelsReduced
<1> USE DEF Book!Opposite, B!Opposite, Book!Best, B!Best, Book!Crosses, B!Crosses,
            Book!Matching, B!Matching
<1>6. ASSUME NEW p, Book!FillPartial(p)
      PROVE  B!FillPartial(p)
  BY <1>6 DEF Book!FillPartial, B!FillPartial
<1>7. ASSUME NEW p, Book!FillWhole(p)
      PROVE  B!FillWhole(p)
  BY <1>7 DEF Book!FillWhole, B!FillWhole, Book!Forget, B!Forget, Book!EraseKey, B!EraseKey, Book!Restrict, B!Restrict
<1>8. Book!RestRemainder => B!RestRemainder
  BY DEF Book!RestRemainder, B!RestRemainder, Book!Remember, B!Remember, Book!Assign, B!Assign
<1>9. Book!ReturnFilled => B!ReturnFilled
  BY DEF Book!ReturnFilled, B!ReturnFilled
<1>10. Book!MatchStep => B!MatchStep
  BY <1>6, <1>7, <1>8, <1>9 DEF Book!MatchStep, B!MatchStep
<1>11. Book!Init => B!Init
  BY DEF Book!Init, B!Init, Book!NoEntries, B!NoEntries
<1>12. QED
  BY <1>1, <1>2, <1>3, <1>4, <1>5, <1>10, <1>11

\* Sums are the same in the book as here.
LEMMA SameSum == \A fun : B!SumFunction(fun) = SumFunction(fun)
BY Zenon DEF B!SumFunction, SumFunction, B!SumFunctionOnSet, SumFunctionOnSet,
   B!FoldFunctionOnSet, FoldFunctionOnSet, B!MapThenFoldSet, MapThenFoldSet

-----------------------------------------------------------------------------
(* The invariant of the system.                                            *)

IsNew(k) == inbound[k].op = "NEW"

\* The events are of their gateways, and silent when those are.
EventInv ==
  /\ CursorInv
  /\ \A k \in DOMAIN inbound : inbound[k].silent <=> inbound[k].gateway \notin Noisy

\* A gateway hands out no more ids than calls were begun.
MintInv ==
  /\ Begun <= MaxCalls
  /\ \A g \in Gateways : internal_id_counter[g] <= Begun
  /\ \A t \in Threads : minting[t] # Free => minting[t].gateway \in Live

\* The book is at work on the event in hand, and on no other.
BusyInv ==
  /\ engine = "poll" => Book!Idle
  /\ engine = "busy" /\ Event.op = "NEW" => res.orderID = Event.id /\ asked = Event.volume
  /\ ~Book!Idle => engine = "busy" /\ Event.op = "NEW" /\ taker.orderID = Event.id

BookInv == B!Inv /\ B!AnswerInv /\ B!TradesPositive

\* What holds whoever puts the events into the ring.
CoreInv ==
  /\ TypeOK /\ EventInv /\ BusyInv /\ BookInv
  /\ AcksAnswerCalls /\ FillsExplainRemainder

SystemInv == CoreInv /\ MintInv

-----------------------------------------------------------------------------
(* Events, and the calls of one gateway among them.                        *)

\* What the fields of an event are.
LEMMA EventFields ==
  ASSUME NEW e \in Events
  PROVE  /\ e.op \in {"NEW", "CANCEL", "MODIFY"}
         /\ e.id \in Ids /\ e.gateway \in Gateways /\ e.silent \in BOOLEAN
         /\ e.op = "NEW" => e.price \in Prices /\ e.volume \in Volumes /\ e.side \in Book!Sides
         /\ e.op = "MODIFY" => e.volume \in Volumes
<1>1. \/ e \in [op : {"NEW"}, id : Ids, gateway : Gateways, silent : BOOLEAN,
               price : Prices, volume : Volumes, side : Book!Sides]
      \/ e \in [op : {"CANCEL"}, id : Ids, gateway : Gateways, silent : BOOLEAN]
      \/ e \in [op : {"MODIFY"}, id : Ids, gateway : Gateways, silent : BOOLEAN,
               volume : Volumes]
  BY DEF Events
<1>2. QED
  BY <1>1

\* The events in the ring, and the one in hand.
LEMMA RingEvents ==
  ASSUME CoreInv
  PROVE  /\ Len(inbound) \in Nat /\ DOMAIN inbound = 1..Len(inbound)
         /\ \A k \in 1..Len(inbound) : inbound[k] \in Events
         /\ read_p \in 0..Len(inbound) /\ read_p \in Nat
         /\ read_p < Len(inbound) => read_p + 1 \in 1..Len(inbound) /\ Event \in Events
         /\ engine = "busy" => read_p < Len(inbound)
<1>1. inbound \in Seq(Events)
  BY DEF CoreInv, TypeOK
<1>2. /\ Len(inbound) \in Nat /\ DOMAIN inbound = 1..Len(inbound)
      /\ \A k \in 1..Len(inbound) : inbound[k] \in Events
  BY <1>1, LenProperties
<1>3. read_p \in 0..Len(inbound) /\ (engine = "busy" => read_p < Len(inbound))
  BY DEF CoreInv, EventInv, CursorInv
<1>4. QED
  BY <1>2, <1>3 DEF Event

\* The calls of a gateway can be counted, and each has its place among them.
LEMMA CallsCount ==
  ASSUME NEW g, NEW n \in Nat
  PROVE  /\ IsFiniteSet(Calls(g, n)) /\ Cardinality(Calls(g, n)) \in Nat
         /\ \A k \in Calls(g, n) :
              /\ k \in 1..n /\ k \in Nat /\ inbound[k].gateway = g
              /\ Cardinality(Calls(g, k)) \in 1..Cardinality(Calls(g, n))
<1>1. ASSUME NEW m \in Nat
      PROVE  IsFiniteSet(Calls(g, m)) /\ Cardinality(Calls(g, m)) \in Nat
  <2>1. IsFiniteSet(1..m) /\ Calls(g, m) \subseteq 1..m
    BY FS_Interval DEF Calls
  <2>2. QED
    BY <2>1, FS_Subset, FS_CardinalityType
<1>2. ASSUME NEW k \in Calls(g, n)
      PROVE  Cardinality(Calls(g, k)) \in 1..Cardinality(Calls(g, n))
  <2>1. k \in Nat /\ k \in 1..n /\ k \in Calls(g, k) /\ Calls(g, k) \subseteq Calls(g, n)
    BY DEF Calls
  <2>2. Cardinality(Calls(g, k)) <= Cardinality(Calls(g, n))
    BY <1>1, <2>1, FS_Subset
  <2>3. Cardinality(Calls(g, k)) # 0
    BY <1>1, <2>1, FS_EmptySet
  <2>4. QED
    BY <1>1, <2>1, <2>2, <2>3
<1>3. QED
  BY <1>1, <1>2 DEF Calls

\* One event more is one call more of its gateway, and none of another.
LEMMA OneCallMore ==
  ASSUME NEW g, NEW n \in Nat
  PROVE  IF inbound[n + 1].gateway = g
           THEN /\ Calls(g, n + 1) = Calls(g, n) \cup {n + 1}
                /\ Cardinality(Calls(g, n + 1)) = Cardinality(Calls(g, n)) + 1
           ELSE Calls(g, n + 1) = Calls(g, n)
<1>1. \A k \in 1..n + 1 : k \in 1..n \/ k = n + 1
  OBVIOUS
<1>2. n + 1 \in 1..n + 1 /\ n + 1 \notin 1..n /\ \A k \in 1..n : k \in 1..n + 1
  OBVIOUS
<1>3. CASE inbound[n + 1].gateway = g
  <2>1. Calls(g, n + 1) = Calls(g, n) \cup {n + 1} /\ n + 1 \notin Calls(g, n)
    BY <1>1, <1>2, <1>3 DEF Calls
  <2>2. QED
    BY <1>3, <2>1, CallsCount, FS_AddElement
<1>4. CASE inbound[n + 1].gateway # g
  BY <1>1, <1>2, <1>4 DEF Calls
<1>5. QED
  BY <1>3, <1>4

\* An event that is put in leaves the events before it as they are.
LEMMA PutBehind ==
  ASSUME CoreInv, NEW e, inbound' = Append(inbound, e)
  PROVE  /\ Len(inbound') = Len(inbound) + 1 /\ DOMAIN inbound' = 1..Len(inbound) + 1
         /\ inbound'[Len(inbound) + 1] = e
         /\ \A k \in 1..Len(inbound) : inbound'[k] = inbound[k]
         /\ \A g : \A n \in 0..Len(inbound) : Calls(g, n)' = Calls(g, n)
<1>1. inbound \in Seq(Range(inbound)) /\ Len(inbound) \in Nat
  BY RingEvents DEF CoreInv, EventInv, CursorInv
<1> DEFINE S == Range(inbound) \cup {e}
<1>2. inbound \in Seq(S) /\ e \in S
  BY <1>1, SeqMonotonic, Range(inbound) \subseteq S
<1> HIDE DEF S
<1>3. /\ Len(inbound') = Len(inbound) + 1 /\ DOMAIN inbound' = 1..Len(inbound) + 1
      /\ inbound'[Len(inbound) + 1] = e
      /\ \A k \in 1..Len(inbound) : inbound'[k] = inbound[k]
  BY <1>2, AppendProperties, LenProperties
<1>4. ASSUME NEW g, NEW n \in 0..Len(inbound)
      PROVE  Calls(g, n)' = Calls(g, n)
  <2>1. \A k \in 1..n : inbound'[k] = inbound[k]
    BY <1>1, <1>3
  <2>2. QED
    BY <2>1 DEF Calls
<1>5. QED
  BY <1>3, <1>4

\* A noisy gateway finds the acknowledgements of its calls where they were, when what
\* is new comes behind the old.
LEMMA AnswersStay ==
  ASSUME CoreInv, Len(inbound) \in Nat,
         \A k \in 1..Len(inbound) : inbound'[k] = inbound[k],
         \A g \in Gateways : \A m \in 1..Len(outbound[g]) : outbound'[g][m] = outbound[g][m],
         NEW g \in Noisy, NEW k \in Done(g)
  PROVE  Answer(k)' = Answer(k) /\ inbound'[k] = inbound[k] /\ inbound[k] \in Events
<1>1. g \in Gateways
  BY GatewaysAssumption DEF Noisy
<1>2. /\ k \in 1..read_p /\ k \in Nat /\ inbound[k].gateway = g
      /\ Cardinality(Calls(g, k)) \in 1..Cardinality(Done(g))
  BY RingEvents, CallsCount DEF Done
<1>3. k \in 1..Len(inbound) /\ inbound'[k] = inbound[k] /\ inbound[k] \in Events
  BY <1>2, RingEvents
<1>4. Calls(g, k)' = Calls(g, k)
  <2>1. \A j \in 1..k : inbound'[j] = inbound[j]
    BY <1>2, <1>3
  <2>2. QED
    BY <2>1 DEF Calls
<1>5. Len(outbound[g]) = Cardinality(Done(g))
  BY <1>1 DEF CoreInv, AcksAnswerCalls
<1>6. outbound'[g][Cardinality(Calls(g, k))] = outbound[g][Cardinality(Calls(g, k))]
  BY <1>1, <1>2, <1>5
<1>7. QED
  BY <1>2, <1>3, <1>4, <1>6 DEF Answer

-----------------------------------------------------------------------------
(* The calls keep the invariant.                                           *)

\* The invariants of the book go on when the book takes a step, or none.
LEMMA BookGoesOn ==
  ASSUME BookInv, [B!Next]_B!vars
  PROVE  BookInv' /\ Book!TypeOK'
<1>1. B!BookInv' /\ B!CallTypeOK' /\ B!AnswerInv' /\ B!TradesPositive'
  BY B!BookInvStep, B!CallTypeStep, B!AnswerStep, B!TradesPositiveStep,
     BookAssumption, LimitsAssumption DEF BookInv
<1>2. BookInv'
  BY <1>1 DEF BookInv, B!Inv
<1>3. Book!TypeOK'
  BY <1>1 DEF B!BookInv, B!CallTypeOK, B!BookTypeOK, Book!TypeOK, Book!CallTypeOK, Book!BookTypeOK,
     B!Sides, Book!Sides, B!Sell, B!Buy, Book!Sell, Book!Buy, B!Pointer, Book!Pointer,
     B!NoTaker, Book!NoTaker
<1>4. QED
  BY <1>2, <1>3

LEMMA BookStays ==
  ASSUME BookInv, UNCHANGED book
  PROVE  BookInv' /\ Book!TypeOK' /\ (Book!Idle)' = Book!Idle
<1>1. UNCHANGED B!vars
  BY DEF book, B!vars
<1>2. QED
  BY <1>1, BookGoesOn DEF book, Book!Idle, Book!NoTaker, Book!Buy

\* An event that is put in, by a gateway that says truly whether it is silent, changes
\* nothing for the calls that are done.
LEMMA PostKeeps ==
  ASSUME CoreInv, NEW e \in Events, e.silent <=> e.gateway \notin Noisy,
         inbound' = Append(inbound, e), UNCHANGED <<read_p, engine, outbound, book>>,
         internal_id_counter' \in [Gateways -> Nat],
         minting' \in [Threads -> [gateway : Gateways, id : Ids] \cup {Free}]
  PROVE  CoreInv'
<1>0. /\ Len(inbound) \in Nat /\ read_p \in 0..Len(inbound) /\ read_p \in Nat
      /\ DOMAIN inbound = 1..Len(inbound)
      /\ engine = "busy" => read_p + 1 \in 1..Len(inbound)
  BY RingEvents
<1>1. /\ DOMAIN inbound' = 1..Len(inbound) + 1
      /\ inbound'[Len(inbound) + 1] = e
      /\ \A k \in 1..Len(inbound) : inbound'[k] = inbound[k]
      /\ \A g : \A n \in 0..Len(inbound) : Calls(g, n)' = Calls(g, n)
  BY PutBehind
<1>2. CursorInv'
  BY CursorAfterPost DEF CoreInv, EventInv
<1>3. BookInv' /\ Book!TypeOK' /\ (Book!Idle)' = Book!Idle
  BY BookStays DEF CoreInv
<1>4. TypeOK'
  <2>1. inbound' \in Seq(Events)
    BY AppendProperties DEF CoreInv, TypeOK
  <2>2. read_p' \in 0..Len(inbound')
    BY <1>2 DEF CursorInv
  <2>3. QED
    BY <1>3, <2>1, <2>2 DEF CoreInv, TypeOK
<1>5. EventInv'
  <2>1. \A k \in 1..Len(inbound) + 1 : k \in 1..Len(inbound) \/ k = Len(inbound) + 1
    BY <1>0
  <2>2. QED
    BY <1>0, <1>1, <1>2, <2>1 DEF CoreInv, EventInv
<1>6. BusyInv'
  <2>1. engine = "busy" => Event' = Event
    BY <1>0, <1>1 DEF Event
  <2>2. ~Book!Idle => engine = "busy"
    BY DEF CoreInv, BusyInv
  <2>3. QED
    BY <1>3, <2>1, <2>2 DEF CoreInv, BusyInv, book
<1>7. \A g : Done(g)' = Done(g)
  <2>1. \A k \in 1..read_p : inbound'[k] = inbound[k]
    BY <1>0, <1>1
  <2>2. QED
    BY <2>1 DEF Done, Calls
<1>8. \A g \in Noisy : \A k \in Done(g) :
        Answer(k)' = Answer(k) /\ inbound'[k] = inbound[k]
  BY <1>0, <1>1, AnswersStay
<1>9. AcksAnswerCalls'
  BY <1>7, <1>8 DEF CoreInv, AcksAnswerCalls
<1>10. FillsExplainRemainder'
  BY <1>7, <1>8 DEF CoreInv, FillsExplainRemainder
<1>11. QED
  BY <1>3, <1>4, <1>5, <1>6, <1>9, <1>10 DEF CoreInv

LEMMA RingStays ==
  ASSUME CoreInv, UNCHANGED <<inbound, read_p, engine, outbound, book>>,
         internal_id_counter' \in [Gateways -> Nat],
         minting' \in [Threads -> [gateway : Gateways, id : Ids] \cup {Free}]
  PROVE  CoreInv'
<1>1. BookInv' /\ Book!TypeOK' /\ (Book!Idle)' = Book!Idle
  BY BookStays DEF CoreInv
<1>2. TypeOK' /\ EventInv' /\ BusyInv'
  BY <1>1 DEF CoreInv, TypeOK, EventInv, CursorInv, BusyInv, Event, book
<1>3. \A g : Done(g)' = Done(g)
  BY DEF Done, Calls
<1>4. \A k : Answer(k)' = Answer(k)
  BY DEF Answer, Calls
<1>5. AcksAnswerCalls' /\ FillsExplainRemainder'
  BY <1>3, <1>4 DEF CoreInv, AcksAnswerCalls, FillsExplainRemainder
<1>6. QED
  BY <1>1, <1>2, <1>5 DEF CoreInv

\* The threads that have an id and no slot yet.
Holding == {t \in Threads : minting[t] # Free}

LEMMA HoldingCount ==
  /\ IsFiniteSet(Holding) /\ Cardinality(Holding) \in Nat
  /\ Begun = Len(inbound) + Cardinality(Holding)
<1>1. Holding \subseteq Threads
  BY DEF Holding
<1>2. QED
  BY <1>1, ThreadsAssumption, FS_Subset, FS_CardinalityType DEF Begun, Holding

\* A gateway is noisy exactly when it marks its events not silent.
LEMMA SilentOrNoisy ==
  ASSUME NEW g \in Gateways
  PROVE  Silent(g) \in BOOLEAN /\ (Silent(g) <=> g \notin Noisy)
BY DEF Silent, Noisy

\* A thread takes an id; or it puts in one event, with the id it had taken or without.
LEMMA CallIs ==
  ASSUME SystemInv, NEW t \in Threads, Call(t)
  PROVE  \/ Begun < MaxCalls /\ \E g \in Gateways : Mint(t, g)
         \/ \E e \in Events :
              /\ e.silent <=> e.gateway \notin Noisy
              /\ inbound' = Append(inbound, e)
              /\ UNCHANGED <<internal_id_counter, read_p, engine, outbound, book>>
              /\ \/ /\ minting[t] # Free /\ minting' = [minting EXCEPT ![t] = Free]
                    /\ e.op = "NEW" /\ e.gateway = minting[t].gateway /\ e.id = minting[t].id
                 \/ /\ Begun < MaxCalls /\ UNCHANGED minting /\ e.op = "NEW"
                    /\ e.gateway \notin Live /\ e.id \in ExternalIds \ Placed(e.gateway)
                 \/ /\ Begun < MaxCalls /\ UNCHANGED minting /\ e.op # "NEW"
                    /\ e.id \in Placed(e.gateway)
<1> DEFINE Puts(e) ==
      /\ e.silent <=> e.gateway \notin Noisy
      /\ inbound' = Append(inbound, e)
      /\ UNCHANGED <<internal_id_counter, read_p, engine, outbound, book>>
<1>1. ASSUME NEW p \in Prices, NEW v \in Volumes, NEW s \in Book!Sides, PlaceLive(t, p, v, s)
      PROVE  \E e \in Events :
               /\ Puts(e)
               /\ minting[t] # Free /\ minting' = [minting EXCEPT ![t] = Free]
               /\ e.op = "NEW" /\ e.gateway = minting[t].gateway /\ e.id = minting[t].id
  <2>1. minting[t] # Free /\ minting[t] \in [gateway : Gateways, id : Ids]
    BY <1>1 DEF PlaceLive, SystemInv, CoreInv, TypeOK
  <2> DEFINE e == New(minting[t].gateway, minting[t].id, p, v, s)
  <2>2. /\ e \in Events /\ e.op = "NEW" /\ e.gateway = minting[t].gateway
        /\ e.id = minting[t].id /\ (e.silent <=> e.gateway \notin Noisy)
    BY <2>1, SilentOrNoisy DEF New, Events
  <2>3. inbound' = Append(inbound, e) /\ minting' = [minting EXCEPT ![t] = Free]
        /\ UNCHANGED <<internal_id_counter, read_p, engine, outbound, book>>
    BY <1>1 DEF PlaceLive, Post
  <2> HIDE DEF e
  <2>4. QED
    BY <2>1, <2>2, <2>3
<1>2. ASSUME NEW g \in Gateways, NEW id \in ExternalIds \ Placed(g), NEW p \in Prices,
             NEW v \in Volumes, NEW s \in Book!Sides, PlaceReplay(t, g, id, p, v, s)
      PROVE  \E e \in Events :
               /\ Puts(e)
               /\ UNCHANGED minting /\ e.op = "NEW"
               /\ e.gateway \notin Live /\ e.id \in ExternalIds \ Placed(e.gateway)
  <2> DEFINE e == New(g, id, p, v, s)
  <2>1. id \in Ids
    BY DEF Ids
  <2>2. /\ e \in Events /\ e.op = "NEW" /\ e.gateway = g
        /\ e.id = id /\ (e.silent <=> e.gateway \notin Noisy)
    BY <2>1, SilentOrNoisy DEF New, Events
  <2>3. /\ inbound' = Append(inbound, e) /\ UNCHANGED minting /\ g \notin Live
        /\ UNCHANGED <<internal_id_counter, read_p, engine, outbound, book>>
    BY <1>2 DEF PlaceReplay, Post
  <2> HIDE DEF e
  <2>4. QED
    BY <2>2, <2>3
<1>3. ASSUME NEW g \in Gateways, NEW id \in Placed(g), id \in Ids,
             Cancel(t, g, id) \/ \E n \in Volumes : Modify(t, g, id, n)
      PROVE  \E e \in Events :
               /\ Puts(e)
               /\ UNCHANGED minting /\ e.op # "NEW" /\ e.id \in Placed(e.gateway)
  <2>1. ASSUME Cancel(t, g, id)
        PROVE  \E e \in Events :
                 /\ Puts(e)
                 /\ UNCHANGED minting /\ e.op # "NEW" /\ e.id \in Placed(e.gateway)
    <3> DEFINE e == [op |-> "CANCEL", id |-> id, gateway |-> g, silent |-> Silent(g)]
    <3>1. /\ e \in Events /\ e.op # "NEW" /\ e.gateway = g
          /\ e.id = id /\ (e.silent <=> e.gateway \notin Noisy)
      BY <1>3, SilentOrNoisy DEF Events
    <3>2. /\ inbound' = Append(inbound, e) /\ UNCHANGED minting
          /\ UNCHANGED <<internal_id_counter, read_p, engine, outbound, book>>
      BY <2>1 DEF Cancel, Post
    <3> HIDE DEF e
    <3>3. QED
      BY <3>1, <3>2
  <2>2. ASSUME NEW n \in Volumes, Modify(t, g, id, n)
        PROVE  \E e \in Events :
                 /\ Puts(e)
                 /\ UNCHANGED minting /\ e.op # "NEW" /\ e.id \in Placed(e.gateway)
    <3> DEFINE e == [op |-> "MODIFY", id |-> id, gateway |-> g, silent |-> Silent(g), volume |-> n]
    <3>1. /\ e \in Events /\ e.op # "NEW" /\ e.gateway = g
          /\ e.id = id /\ (e.silent <=> e.gateway \notin Noisy)
      BY <1>3, SilentOrNoisy DEF Events
    <3>2. /\ inbound' = Append(inbound, e) /\ UNCHANGED minting
          /\ UNCHANGED <<internal_id_counter, read_p, engine, outbound, book>>
      BY <2>2 DEF Modify, Post
    <3> HIDE DEF e
    <3>3. QED
      BY <3>1, <3>2
  <2>3. QED
    BY <1>3, <2>1, <2>2
<1>4. \A g : Placed(g) \subseteq Ids
  <2>1. \A x \in Range(inbound) : x \in Events
    BY RingEvents DEF SystemInv, Range
  <2>2. \A x \in Range(inbound) : x.id \in Ids
    BY <2>1, EventFields
  <2>3. QED
    BY <2>2 DEF Placed
<1> HIDE DEF Puts
<1>5. CASE GoOn(t)
  <2>1. \E e \in Events :
               /\ Puts(e)
               /\ minting[t] # Free /\ minting' = [minting EXCEPT ![t] = Free]
               /\ e.op = "NEW" /\ e.gateway = minting[t].gateway /\ e.id = minting[t].id
    BY <1>1, <1>5 DEF GoOn
  <2>2. QED
    BY <2>1 DEF Puts
<1>6. ASSUME NEW g \in Gateways, Begin(t, g), ~Mint(t, g)
      PROVE  Begun < MaxCalls /\ \E e \in Events :
               /\ Puts(e) /\ UNCHANGED minting
               /\ \/ /\ e.op = "NEW"
                     /\ e.gateway \notin Live /\ e.id \in ExternalIds \ Placed(e.gateway)
                  \/ e.op # "NEW" /\ e.id \in Placed(e.gateway)
  <2>1. Begun < MaxCalls
    BY <1>6 DEF Begin
  <2>2. CASE \E id \in ExternalIds \ Placed(g), p \in Prices, v \in Volumes, s \in Book!Sides :
               PlaceReplay(t, g, id, p, v, s)
    <3>1. \E e \in Events :
               /\ Puts(e)
               /\ UNCHANGED minting /\ e.op = "NEW"
               /\ e.gateway \notin Live /\ e.id \in ExternalIds \ Placed(e.gateway)
      BY <1>2, <2>2
    <3>2. QED
      BY <2>1, <3>1
  <2>3. CASE \E id \in Placed(g) : Cancel(t, g, id) \/ \E n \in Volumes : Modify(t, g, id, n)
    <3>1. \E e \in Events :
               /\ Puts(e)
               /\ UNCHANGED minting /\ e.op # "NEW" /\ e.id \in Placed(e.gateway)
      BY <1>3, <1>4, <2>3
    <3>2. QED
      BY <2>1, <3>1
  <2>4. QED
    BY <1>6, <2>2, <2>3 DEF Begin
<1>7. ASSUME NEW g \in Gateways, Begin(t, g)
      PROVE  Begun < MaxCalls
  BY <1>7 DEF Begin
<1>8. CASE \E g \in Gateways : Begin(t, g)
  BY <1>6, <1>7, <1>8 DEF Puts
<1>9. QED
  BY <1>5, <1>8 DEF Call

\* A call keeps the invariant, and no more ids are handed out than calls are begun.
LEMMA CallKeeps ==
  ASSUME SystemInv, NEW t \in Threads, Call(t)
  PROVE  SystemInv'
<1>0. /\ CoreInv /\ MintInv /\ TypeOK
      /\ IsFiniteSet(Holding) /\ Cardinality(Holding) \in Nat
      /\ Begun = Len(inbound) + Cardinality(Holding)
      /\ Begun' = Len(inbound') + Cardinality(Holding')
      /\ Len(inbound) \in Nat /\ MaxCalls \in Nat
  <2>1. Begun' = Len(inbound') + Cardinality(Holding')
    BY DEF Begun, Holding
  <2>2. QED
    BY <2>1, HoldingCount, RingEvents, LimitsAssumption DEF SystemInv, CoreInv
<1>1. ASSUME NEW g \in Gateways, Mint(t, g), Begun < MaxCalls
      PROVE  SystemInv'
  <2> DEFINE c == internal_id_counter[g]
             m == [gateway |-> g, id |-> c]
  <2>1. /\ minting[t] = Free /\ g \in Live /\ minting' = [minting EXCEPT ![t] = m]
        /\ internal_id_counter' = [internal_id_counter EXCEPT ![g] = c + 1]
        /\ UNCHANGED <<inbound, read_p, engine, outbound, book>>
    BY <1>1 DEF Mint
  <2>2. c \in Nat /\ c <= Begun /\ c \in 0..MaxCalls - 1 /\ c \in Ids
    <3>1. c \in Nat /\ c <= Begun
      BY <1>0 DEF TypeOK, MintInv
    <3>2. c \in 0..MaxCalls - 1
      BY <1>0, <1>1, <3>1
    <3>3. QED
      BY <3>1, <3>2 DEF Ids
  <2>3. m # Free
    <3>1. m.id # Free.id
      BY <2>2, BookAssumption DEF Free
    <3>2. QED
      BY <3>1
  <2>4. m \in [gateway : Gateways, id : Ids] /\ m.gateway = g
    BY <2>2
  <2> HIDE DEF m, c
  <2>5. /\ minting' \in [Threads -> [gateway : Gateways, id : Ids] \cup {Free}]
        /\ \A u \in Threads : minting'[u] = IF u = t THEN m ELSE minting[u]
    BY <1>0, <2>1, <2>4 DEF TypeOK
  <2>6. /\ internal_id_counter' \in [Gateways -> Nat]
        /\ \A h \in Gateways : internal_id_counter'[h] = IF h = g THEN c + 1 ELSE internal_id_counter[h]
    BY <1>0, <2>1, <2>2 DEF TypeOK
  <2>7. CoreInv'
    BY <1>0, <2>1, <2>5, <2>6, RingStays
  <2>8. Cardinality(Holding') = Cardinality(Holding) + 1
    <3>1. t \notin Holding /\ Holding' = Holding \cup {t}
      BY <2>1, <2>3, <2>5 DEF Holding
    <3>2. QED
      BY <1>0, <3>1, FS_AddElement
  <2>9. Begun' = Begun + 1 /\ Begun \in Nat
    BY <1>0, <2>1, <2>8
  <2>10. MintInv'
    <3>1. ASSUME NEW h \in Gateways
          PROVE  internal_id_counter'[h] <= Begun'
      <4>1. internal_id_counter[h] \in Nat /\ internal_id_counter[h] <= Begun
        BY <1>0 DEF MintInv, TypeOK
      <4>2. internal_id_counter'[h] = IF h = g THEN c + 1 ELSE internal_id_counter[h]
        BY <2>6
      <4>3. QED
        BY <2>2, <2>9, <4>1, <4>2
    <3>2. Begun' <= MaxCalls
      BY <1>0, <1>1, <2>9
    <3>3. \A u \in Threads : minting'[u] # Free => minting'[u].gateway \in Live
      BY <1>0, <2>1, <2>4, <2>5 DEF MintInv
    <3>4. QED
      BY <3>1, <3>2, <3>3 DEF MintInv
  <2>11. QED
    BY <2>7, <2>10 DEF SystemInv
<1>2. ASSUME NEW e \in Events, e.silent <=> e.gateway \notin Noisy,
             inbound' = Append(inbound, e),
             UNCHANGED <<internal_id_counter, read_p, engine, outbound, book>>,
             \/ minting[t] # Free /\ minting' = [minting EXCEPT ![t] = Free]
             \/ Begun < MaxCalls /\ UNCHANGED minting
      PROVE  SystemInv'
  <2>1. /\ minting' \in [Threads -> [gateway : Gateways, id : Ids] \cup {Free}]
        /\ \A u \in Threads : minting'[u] = minting[u] \/ minting'[u] = Free
    BY <1>0, <1>2 DEF TypeOK
  <2>2. CoreInv'
    BY <1>0, <1>2, <2>1, PostKeeps DEF TypeOK
  <2>3. Len(inbound') = Len(inbound) + 1
    BY <1>0, <1>2, PutBehind
  <2>4. Begun' <= MaxCalls /\ Begun <= Begun'
    <3>1. CASE minting[t] # Free /\ minting' = [minting EXCEPT ![t] = Free]
      <4>1. Holding' = Holding \ {t} /\ t \in Holding
        BY <1>0, <3>1 DEF Holding, TypeOK
      <4>2. Cardinality(Holding') = Cardinality(Holding) - 1
        BY <1>0, <4>1, FS_RemoveElement
      <4>3. QED
        BY <1>0, <2>3, <4>2 DEF MintInv
    <3>2. CASE Begun < MaxCalls /\ UNCHANGED minting
      <4>1. Holding' = Holding
        BY <3>2 DEF Holding
      <4>2. QED
        BY <1>0, <2>3, <3>2, <4>1
    <3>3. QED
      BY <1>2, <3>1, <3>2
  <2>5. MintInv'
    <3>1. Begun \in Nat /\ Begun' \in Int
      BY <1>0, <2>3, <2>4, FS_CardinalityType
    <3>2. \A h \in Gateways : internal_id_counter'[h] <= Begun'
      BY <1>0, <1>2, <2>4 DEF MintInv, TypeOK
    <3>3. \A u \in Threads : minting'[u] # Free => minting'[u].gateway \in Live
      BY <1>0, <2>1 DEF MintInv
    <3>4. QED
      BY <2>4, <3>2, <3>3 DEF MintInv
  <2>6. QED
    BY <2>2, <2>5 DEF SystemInv
<1>3. QED
  BY <1>1, <1>2, CallIs

-----------------------------------------------------------------------------
(* The engine keeps the invariant.                                         *)

LEMMA AnswersKept ==
  ASSUME CoreInv, UNCHANGED <<inbound, read_p, outbound>>
  PROVE  AcksAnswerCalls' /\ FillsExplainRemainder'
<1>1. \A g : Done(g)' = Done(g)
  BY DEF Done, Calls
<1>2. \A k : Answer(k)' = Answer(k)
  BY DEF Answer, Calls
<1>3. QED
  BY <1>1, <1>2 DEF CoreInv, AcksAnswerCalls, FillsExplainRemainder

\* What the engine hands over to the book is a call the theorems about it speak of.
LEMMA TakeIs ==
  ASSUME CoreInv, Take
  PROVE  /\ engine = "poll" /\ engine' = "busy" /\ read_p < Len(inbound)
         /\ UNCHANGED <<inbound, internal_id_counter, minting, read_p, outbound>>
         /\ Event \in Events /\ Book!Idle
         /\ \/ /\ Event.op = "NEW" /\ Event.price \in Prices /\ Event.volume \in Volumes
               /\ Event.side \in Book!Sides
               /\ B!PlaceOrder(Event.id, Event.price, Event.volume, Event.side)
            \/ Event.op = "CANCEL" /\ (B!CancelUnknown(Event.id) \/ B!CancelResting(Event.id))
            \/ /\ Event.op = "MODIFY" /\ Event.volume \in Volumes
               /\ B!ModifyRejected(Event.id, Event.volume) \/ B!ModifyReduced(Event.id, Event.volume)
<1>1. /\ engine = "poll" /\ engine' = "busy" /\ read_p < Len(inbound)
      /\ UNCHANGED <<inbound, internal_id_counter, minting, read_p, outbound>>
  BY DEF Take, calls
<1>2. Event \in Events
  BY <1>1, RingEvents
<1>3. Book!Idle
  BY <1>1 DEF CoreInv, BusyInv
<1>4. \/ Event.op = "NEW" /\ B!PlaceOrder(Event.id, Event.price, Event.volume, Event.side)
      \/ Event.op = "CANCEL" /\ (B!CancelUnknown(Event.id) \/ B!CancelResting(Event.id))
      \/ /\ Event.op = "MODIFY"
         /\ B!ModifyRejected(Event.id, Event.volume) \/ B!ModifyReduced(Event.id, Event.volume)
  BY BookCalls DEF Take
<1>5. /\ Event.op = "NEW" => Event.price \in Prices /\ Event.volume \in Volumes
                             /\ Event.side \in Book!Sides
      /\ Event.op = "MODIFY" => Event.volume \in Volumes
  BY <1>2, EventFields
<1>6. QED
  BY <1>1, <1>2, <1>3, <1>4, <1>5

\* A step of the engine is a step of the book, or leaves it alone.
LEMMA EngineBook ==
  ASSUME CoreInv, Engine
  PROVE  [B!Next]_B!vars
<1>1. CASE Take
  <2>1. B!Sides = Book!Sides
    BY DEF B!Sides, Book!Sides, B!Sell, B!Buy, Book!Sell, Book!Buy
  <2>2. Event.id \in Ids
    BY <1>1, TakeIs, EventFields
  <2>3. B!Next
    BY <1>1, <2>1, <2>2, TakeIs DEF B!Next
  <2>4. QED
    BY <2>3
<1>2. CASE Match
  BY <1>2, BookCalls DEF Match, B!Next
<1>3. CASE Acknowledge \/ Discard
  BY <1>3 DEF Acknowledge, Discard, book, B!vars
<1>4. QED
  BY <1>1, <1>2, <1>3 DEF Engine

\* What the book's work on an order does not change.
LEMMA MatchAnswers ==
  ASSUME Book!TypeOK, Book!MatchStep
  PROVE  /\ ~Book!Idle /\ res'.orderID = res.orderID /\ asked' = asked
         /\ (Book!Idle)' \/ taker'.orderID = taker.orderID
<1>1. res \in [orderID : Ids \cup {NoId}, fulfilled : BOOLEAN, remainingQty : Int,
               trades : Seq([price : Prices, volume : Int])]
  BY DEF Book!TypeOK, Book!CallTypeOK
<1>2. ~Book!Idle /\ taker \in [orderID : Ids, price : Prices, volume : Int, side : Book!Sides]
  BY DEF Book!TypeOK, Book!CallTypeOK, Book!Idle, Book!MatchStep, Book!FillPartial,
     Book!FillWhole, Book!Matching, Book!RestRemainder, Book!ReturnFilled
<1>3. res'.orderID = res.orderID /\ asked' = asked
  BY <1>1 DEF Book!MatchStep, Book!FillPartial, Book!FillWhole, Book!RestRemainder,
     Book!ReturnFilled, Book!history
<1>4. (Book!Idle)' \/ taker'.orderID = taker.orderID
  BY <1>2 DEF Book!Idle, Book!MatchStep, Book!FillPartial, Book!FillWhole, Book!RestRemainder,
     Book!ReturnFilled
<1>5. QED
  BY <1>2, <1>3, <1>4

LEMMA TakeKeeps ==
  ASSUME CoreInv, Take
  PROVE  CoreInv'
<1>1. /\ engine = "poll" /\ engine' = "busy" /\ read_p < Len(inbound)
      /\ UNCHANGED <<inbound, internal_id_counter, minting, read_p, outbound>>
      /\ Event \in Events /\ Book!Idle
  BY TakeIs
<1>2. BookInv' /\ Book!TypeOK'
  BY EngineBook, BookGoesOn DEF CoreInv, Engine
<1>3. Event' = Event
  BY <1>1 DEF Event
<1>4. BusyInv'
  <2>1. CASE Event.op = "NEW"
    <3>1. B!PlaceOrder(Event.id, Event.price, Event.volume, Event.side)
      BY <2>1, TakeIs
    <3>2. taker'.orderID = Event.id /\ res'.orderID = Event.id /\ asked' = Event.volume
      BY <3>1 DEF B!PlaceOrder
    <3>3. QED
      BY <1>1, <1>3, <2>1, <3>2 DEF BusyInv
  <2>2. CASE Event.op # "NEW"
    <3>1. taker' = taker
      BY <2>2, TakeIs DEF B!CancelUnknown, B!CancelResting, B!ModifyRejected, B!ModifyReduced
    <3>2. (Book!Idle)'
      BY <1>1, <3>1 DEF Book!Idle, Book!NoTaker, Book!Buy
    <3>3. QED
      BY <1>1, <1>3, <2>2, <3>2 DEF BusyInv
  <2>3. QED
    BY <2>1, <2>2
<1>5. AcksAnswerCalls' /\ FillsExplainRemainder'
  BY <1>1, AnswersKept
<1>6. TypeOK' /\ EventInv'
  BY <1>1, <1>2 DEF CoreInv, TypeOK, EventInv, CursorInv
<1>7. QED
  BY <1>2, <1>4, <1>5, <1>6 DEF CoreInv

LEMMA MatchKeeps ==
  ASSUME CoreInv, Match
  PROVE  CoreInv'
<1>1. UNCHANGED <<inbound, internal_id_counter, minting, read_p, engine, outbound>>
  BY DEF Match, calls
<1>2. BookInv' /\ Book!TypeOK'
  BY EngineBook, BookGoesOn DEF CoreInv, Engine
<1>3. /\ ~Book!Idle /\ res'.orderID = res.orderID /\ asked' = asked
      /\ (Book!Idle)' \/ taker'.orderID = taker.orderID
  BY MatchAnswers DEF Match, CoreInv, TypeOK
<1>4. BusyInv'
  <2>1. Event' = Event
    BY <1>1 DEF Event
  <2>2. QED
    BY <1>1, <1>3, <2>1 DEF CoreInv, BusyInv
<1>5. AcksAnswerCalls' /\ FillsExplainRemainder'
  BY <1>1, AnswersKept
<1>6. TypeOK' /\ EventInv'
  BY <1>1, <1>2 DEF CoreInv, TypeOK, EventInv, CursorInv
<1>7. QED
  BY <1>2, <1>4, <1>5, <1>6 DEF CoreInv

\* The acknowledgement of the event in hand: of its operation and its id, and its fills
\* are the first of the trades, all of them if there is room.
LEMMA AckFacts ==
  ASSUME CoreInv, engine = "busy", Book!Idle
  PROVE  /\ Ack \in Acks /\ Ack.op = Event.op /\ Ack.order_id = Event.id
         /\ Event.op = "NEW" =>
              /\ Len(Ack.fills) <= MaxFills
              /\ Traded(Ack.fills) <= Event.volume - Ack.remaining_qty
              /\ Len(Ack.fills) < MaxFills =>
                   Traded(Ack.fills) = Event.volume - Ack.remaining_qty
<1>1. /\ Event \in Events /\ Event.op \in {"NEW", "CANCEL", "MODIFY"} /\ Event.id \in Ids
  BY RingEvents, EventFields
<1>2. ok \in BOOLEAN /\ asked \in Int
      /\ res \in [orderID : Ids \cup {NoId}, fulfilled : BOOLEAN, remainingQty : Int,
                  trades : Seq([price : Prices, volume : Int])]
  BY DEF CoreInv, TypeOK, Book!TypeOK, Book!CallTypeOK
<1>3. CASE Event.op # "NEW"
  <2>1. <<>> \in Seq([price : Prices, volume : Int])
    BY EmptySeq
  <2>2. QED
    BY <1>1, <1>2, <1>3, <2>1 DEF Ack, Acks
<1>4. CASE Event.op = "NEW"
  <2>1. res.orderID = Event.id /\ asked = Event.volume
    BY <1>4 DEF CoreInv, BusyInv
  <2> DEFINE S == [price : Prices, volume : Int]
  <2> SUFFICES ASSUME NEW t, t = res.trades,
                      NEW m, m = IF Len(t) < MaxFills THEN Len(t) ELSE MaxFills,
                      NEW f, f = SubSeq(t, 1, m)
               PROVE  /\ Ack \in Acks /\ Ack.op = Event.op /\ Ack.order_id = Event.id
                      /\ Len(Ack.fills) <= MaxFills
                      /\ Traded(Ack.fills) <= Event.volume - Ack.remaining_qty
                      /\ Len(Ack.fills) < MaxFills =>
                           Traded(Ack.fills) = Event.volume - Ack.remaining_qty
    OBVIOUS
  <2>2. t \in Seq(S) /\ \A x \in S : x.volume \in Int
    BY <1>2
  <2> HIDE DEF S
  <2>3. \A i \in DOMAIN t : t[i].volume >= 0
    <3>1. \A i \in DOMAIN t : t[i] \in S
      BY <2>2
    <3>2. \A i \in DOMAIN t : t[i].volume > 0 /\ t[i].volume \in Int
      BY <2>2, <3>1 DEF CoreInv, BookInv, B!TradesPositive
    <3>3. QED
      BY <3>2
  <2>4. Len(t) \in Nat /\ m \in 0..Len(t) /\ m <= MaxFills /\ (m < MaxFills => m = Len(t))
    BY <2>2, LenProperties, LimitsAssumption
  <2>5. f \in Seq(S) /\ Len(f) = m /\ (m = Len(t) => f = t)
    BY <2>2, <2>4
  <2>6. /\ SumFunction(VolumesOf(f)) \in Int /\ SumFunction(VolumesOf(t)) \in Int
        /\ SumFunction(VolumesOf(f)) <= SumFunction(VolumesOf(t))
    BY <2>2, <2>3, <2>4, SumOfPrefix
  <2>7. asked = res.remainingQty + SumFunction(VolumesOf(t))
    <3>1. asked = res.remainingQty + B!SumFunction([i \in DOMAIN t |-> t[i].volume])
      BY DEF CoreInv, BookInv, B!AnswerInv, B!Accounted
    <3>2. B!SumFunction([i \in DOMAIN t |-> t[i].volume]) = SumFunction(VolumesOf(t))
      BY SameSum, Zenon DEF VolumesOf
    <3>3. QED
      BY <3>1, <3>2
  <2>8. Traded(f) = SumFunction(VolumesOf(f))
    BY DEF Traded, VolumesOf
  <2>9. Ack = [op |-> "NEW", order_id |-> res.orderID, fulfilled |-> res.fulfilled,
               remaining_qty |-> res.remainingQty, fills |-> f]
    BY <1>4 DEF Ack, Capped
  <2>10. Ack \in Acks /\ Ack.op = Event.op /\ Ack.order_id = Event.id
    BY <1>1, <1>2, <1>4, <2>1, <2>5, <2>9 DEF Acks, S
  <2>11. Ack.fills = f /\ Ack.remaining_qty = res.remainingQty /\ res.remainingQty \in Int
    BY <1>2, <2>9
  <2>12. Traded(f) <= Event.volume - res.remainingQty
    BY <2>1, <2>6, <2>7, <2>8, <2>11
  <2>13. ASSUME m < MaxFills
         PROVE  Traded(f) = Event.volume - res.remainingQty
    <3>1. SumFunction(VolumesOf(f)) = SumFunction(VolumesOf(t))
      BY <2>4, <2>5, <2>13, Zenon
    <3>2. QED
      BY <2>1, <2>6, <2>7, <2>8, <2>11, <3>1
  <2>14. QED
    BY <2>4, <2>5, <2>10, <2>11, <2>12, <2>13
<1>5. QED
  BY <1>3, <1>4

\* When the event in hand is released, it is one call more that its gateway is done with.
LEMMA ReleaseCounts ==
  ASSUME CoreInv, engine = "busy", UNCHANGED inbound, read_p' = read_p + 1,
         NEW h, h = Event.gateway
  PROVE  /\ \A g \in Gateways : IsFiniteSet(Done(g)) /\ Cardinality(Done(g)) \in Nat
         /\ \A g \in Gateways \ {h} : Done(g)' = Done(g)
         /\ Done(h)' = Done(h) \cup {read_p + 1}
         /\ Cardinality(Done(h)') = Cardinality(Done(h)) + 1
         /\ Cardinality(Calls(h, read_p + 1)) = Cardinality(Done(h)) + 1
         /\ Event \in Events /\ Event.gateway \in Gateways /\ Event = inbound[read_p + 1]
         /\ read_p + 1 \in 1..Len(inbound) /\ read_p' \in 0..Len(inbound)
<1>1. /\ Event \in Events /\ Event.gateway \in Gateways /\ Event = inbound[read_p + 1]
      /\ read_p \in Nat /\ read_p + 1 \in 1..Len(inbound) /\ read_p' \in 0..Len(inbound)
  BY RingEvents, EventFields DEF Event
<1>2. \A g : Done(g) = Calls(g, read_p) /\ Done(g)' = Calls(g, read_p + 1)
  BY DEF Done, Calls
<1>3. \A g : IsFiniteSet(Done(g)) /\ Cardinality(Done(g)) \in Nat
  BY <1>1, <1>2, CallsCount
<1>4. ASSUME NEW g \in Gateways \ {h}
      PROVE  Done(g)' = Done(g)
  BY <1>1, <1>2, OneCallMore
<1>5. /\ Done(h)' = Done(h) \cup {read_p + 1}
      /\ Cardinality(Calls(h, read_p + 1)) = Cardinality(Done(h)) + 1
      /\ Cardinality(Done(h)') = Cardinality(Done(h)) + 1
  <2>1. inbound[read_p + 1].gateway = h
    BY <1>1
  <2>2. /\ Calls(h, read_p + 1) = Calls(h, read_p) \cup {read_p + 1}
        /\ Cardinality(Calls(h, read_p + 1)) = Cardinality(Calls(h, read_p)) + 1
    BY <1>1, <2>1, OneCallMore
  <2>3. Done(h)' = Calls(h, read_p + 1) /\ Done(h) = Calls(h, read_p)
    BY <1>2
  <2>4. QED
    BY <2>2, <2>3
<1>6. QED
  BY <1>1, <1>3, <1>4, <1>5

\* Whatever else holds of the release, it ends the work on the event.
LEMMA ReleaseKeeps ==
  ASSUME CoreInv, engine = "busy", Book!Idle, UNCHANGED <<calls, book>>,
         read_p' = read_p + 1, engine' = "poll", outbound' \in [Gateways -> Seq(Acks)]
  PROVE  TypeOK' /\ EventInv' /\ BusyInv' /\ BookInv'
<1>1. BookInv' /\ Book!TypeOK' /\ (Book!Idle)' = Book!Idle
  BY BookStays DEF CoreInv
<1>2. UNCHANGED <<inbound, internal_id_counter, minting>> /\ read_p' \in 0..Len(inbound)
  BY RingEvents DEF calls
<1>3. QED
  BY <1>1, <1>2 DEF CoreInv, TypeOK, EventInv, CursorInv, BusyInv

LEMMA DiscardKeeps ==
  ASSUME CoreInv, Discard
  PROVE  CoreInv'
<1>1. /\ engine = "busy" /\ Book!Idle /\ Event.silent /\ read_p' = read_p + 1 /\ engine' = "poll"
      /\ UNCHANGED <<inbound, outbound>>
      /\ UNCHANGED <<calls, book>>
  BY DEF Discard, calls
<1>2. TypeOK' /\ EventInv' /\ BusyInv' /\ BookInv'
  BY <1>1, ReleaseKeeps DEF CoreInv, TypeOK
<1>3. /\ \A g \in Gateways \ {Event.gateway} : Done(g)' = Done(g)
      /\ Event.gateway \in Gateways
      /\ Event = inbound[read_p + 1] /\ read_p + 1 \in 1..Len(inbound)
  BY <1>1, ReleaseCounts
<1>4. Event.gateway \notin Noisy
  BY <1>1, <1>3, RingEvents DEF CoreInv, EventInv
<1>5. \A g \in Noisy : g \in Gateways /\ Done(g)' = Done(g)
  BY <1>3, <1>4, GatewaysAssumption DEF Noisy
<1>6. \A k : Answer(k)' = Answer(k) /\ inbound'[k] = inbound[k]
  BY <1>1 DEF Answer, Calls
<1>7. AcksAnswerCalls'
  BY <1>1, <1>5, <1>6 DEF CoreInv, AcksAnswerCalls
<1>8. FillsExplainRemainder'
  BY <1>5, <1>6 DEF CoreInv, FillsExplainRemainder
<1>9. QED
  BY <1>2, <1>7, <1>8 DEF CoreInv

\* What an acknowledgement changes: its gateway finds it behind those of its earlier calls.
LEMMA AckArrives ==
  ASSUME CoreInv, Acknowledge, NEW h, h = Event.gateway, NEW n, n = read_p + 1
  PROVE  /\ h \in Noisy /\ h \in Gateways
         /\ outbound' \in [Gateways -> Seq(Acks)]
         /\ \A g \in Gateways : IF g = h
              THEN Len(outbound'[g]) = Len(outbound[g]) + 1
              ELSE outbound'[g] = outbound[g]
         /\ Answer(n)' = Ack
         /\ \A g \in Noisy : \A k \in Done(g) :
              Answer(k)' = Answer(k) /\ inbound'[k] = inbound[k] /\ inbound[k] \in Events
<1>1. /\ engine = "busy" /\ Book!Idle /\ ~Event.silent /\ read_p' = read_p + 1
      /\ outbound' = [outbound EXCEPT ![h] = Append(@, Ack)]
      /\ UNCHANGED inbound
  BY DEF Acknowledge, calls
<1>2. /\ Cardinality(Calls(h, n)) = Cardinality(Done(h)) + 1
      /\ Cardinality(Done(h)) \in Nat
      /\ h \in Gateways /\ Event = inbound[read_p + 1] /\ read_p + 1 \in 1..Len(inbound)
  BY <1>1, ReleaseCounts
<1>3. h \in Noisy
  BY <1>1, <1>2, RingEvents DEF CoreInv, EventInv
<1>4. Ack \in Acks
  BY <1>1, AckFacts
<1>5. outbound \in [Gateways -> Seq(Acks)]
  BY DEF CoreInv, TypeOK
<1>6. /\ outbound' \in [Gateways -> Seq(Acks)]
      /\ outbound'[h] = Append(outbound[h], Ack)
      /\ \A g \in Gateways \ {h} : outbound'[g] = outbound[g]
  BY <1>1, <1>2, <1>4, <1>5
<1>7. /\ Len(outbound[h]) \in Nat
      /\ Len(outbound'[h]) = Len(outbound[h]) + 1
      /\ outbound'[h][Len(outbound[h]) + 1] = Ack
      /\ \A m \in 1..Len(outbound[h]) : outbound'[h][m] = outbound[h][m]
  BY <1>2, <1>4, <1>5, <1>6
<1>8. Len(outbound[h]) = Cardinality(Done(h))
  BY <1>2, <1>3 DEF CoreInv, AcksAnswerCalls
<1>9. Answer(n)' = Ack
  <2>1. inbound'[n].gateway = h
    BY <1>1, <1>2
  <2>2. Calls(h, n)' = Calls(h, n)
    BY <1>1 DEF Calls
  <2>3. Answer(n)' = outbound'[h][Cardinality(Calls(h, n))]
    BY <2>1, <2>2 DEF Answer
  <2>4. QED
    BY <1>2, <1>7, <1>8, <2>3
<1>10. \A g \in Gateways : \A m \in 1..Len(outbound[g]) : outbound'[g][m] = outbound[g][m]
  BY <1>6, <1>7
<1>11. ASSUME NEW g \in Noisy, NEW k \in Done(g)
       PROVE  Answer(k)' = Answer(k) /\ inbound'[k] = inbound[k] /\ inbound[k] \in Events
  BY <1>1, <1>10, RingEvents, AnswersStay
<1>12. QED
  BY <1>2, <1>3, <1>6, <1>7, <1>9, <1>11

LEMMA AcknowledgeKeeps ==
  ASSUME CoreInv, Acknowledge
  PROVE  CoreInv'
<1> SUFFICES ASSUME NEW h, h = Event.gateway, NEW n, n = read_p + 1
             PROVE  CoreInv'
  OBVIOUS
<1>1. /\ engine = "busy" /\ Book!Idle /\ read_p' = read_p + 1 /\ engine' = "poll"
      /\ UNCHANGED inbound /\ UNCHANGED <<calls, book>>
  BY DEF Acknowledge, calls
<1>2. /\ h \in Noisy /\ h \in Gateways
      /\ outbound' \in [Gateways -> Seq(Acks)]
      /\ \A g \in Gateways : IF g = h
           THEN Len(outbound'[g]) = Len(outbound[g]) + 1
           ELSE outbound'[g] = outbound[g]
      /\ Answer(n)' = Ack
      /\ \A g \in Noisy : \A k \in Done(g) :
           Answer(k)' = Answer(k) /\ inbound'[k] = inbound[k] /\ inbound[k] \in Events
  BY AckArrives
<1>3. /\ \A g \in Gateways \ {h} : Done(g)' = Done(g)
      /\ Done(h)' = Done(h) \cup {n}
      /\ Cardinality(Done(h)') = Cardinality(Done(h)) + 1
      /\ Event = inbound[n]
  BY <1>1, ReleaseCounts
<1>4. /\ Ack.op = Event.op /\ Ack.order_id = Event.id
      /\ Event.op = "NEW" =>
           /\ Len(Ack.fills) <= MaxFills
           /\ Traded(Ack.fills) <= Event.volume - Ack.remaining_qty
           /\ Len(Ack.fills) < MaxFills =>
                Traded(Ack.fills) = Event.volume - Ack.remaining_qty
  BY <1>1, AckFacts
<1>5. TypeOK' /\ EventInv' /\ BusyInv' /\ BookInv'
  BY <1>1, <1>2, ReleaseKeeps
<1>6. inbound'[n] = Event /\ \A g \in Noisy : g \in Gateways
  BY <1>1, <1>3, GatewaysAssumption DEF Noisy
<1>7. ASSUME NEW g \in Noisy, NEW k \in Done(g)'
      PROVE  \/ k \in Done(g) /\ Answer(k)' = Answer(k) /\ inbound'[k] = inbound[k]
             \/ k = n /\ Answer(k)' = Ack /\ inbound'[k] = Event
  <2>1. k \in Done(g) \/ k = n
    BY <1>3, <1>6
  <2>2. CASE k \in Done(g)
    BY <1>2, <2>2
  <2>3. CASE k = n
    BY <1>2, <1>6, <2>3
  <2>4. QED
    BY <2>1, <2>2, <2>3
<1>8. AcksAnswerCalls'
  <2>1. ASSUME NEW g \in Gateways
        PROVE  Len(outbound'[g]) = IF g \in Noisy THEN Cardinality(Done(g)') ELSE 0
    <3>1. Len(outbound[g]) = IF g \in Noisy THEN Cardinality(Done(g)) ELSE 0
      BY DEF CoreInv, AcksAnswerCalls
    <3>2. QED
      BY <1>2, <1>3, <3>1
  <2>2. ASSUME NEW g \in Noisy, NEW k \in Done(g)'
        PROVE  Answer(k)'.op = inbound'[k].op /\ Answer(k)'.order_id = inbound'[k].id
    <3>1. k \in Done(g) => Answer(k).op = inbound[k].op /\ Answer(k).order_id = inbound[k].id
      BY <1>6 DEF CoreInv, AcksAnswerCalls
    <3>2. QED
      BY <1>4, <1>7, <2>2, <3>1
  <2>3. QED
    BY <2>1, <2>2 DEF AcksAnswerCalls
<1>9. FillsExplainRemainder'
  <2> DEFINE Explained(v, a) == /\ Len(a.fills) <= MaxFills
                                /\ Traded(a.fills) <= v - a.remaining_qty
                                /\ Len(a.fills) < MaxFills => Traded(a.fills) = v - a.remaining_qty
  <2>1. ASSUME NEW g \in Noisy, NEW k \in Done(g)', inbound'[k].op = "NEW"
        PROVE  Explained(inbound'[k].volume, Answer(k)')
    <3>1. CASE k \in Done(g) /\ Answer(k)' = Answer(k) /\ inbound'[k] = inbound[k]
      <4>1. Explained(inbound[k].volume, Answer(k))
        BY <2>1, <3>1 DEF CoreInv, FillsExplainRemainder
      <4>2. QED
        BY <3>1, <4>1
    <3>2. CASE k = n /\ Answer(k)' = Ack /\ inbound'[k] = Event
      <4>1. Explained(Event.volume, Ack)
        BY <1>4, <2>1, <3>2
      <4>2. QED
        BY <3>2, <4>1
    <3>3. QED
      BY <1>7, <2>1, <3>1, <3>2
  <2>2. QED
    BY <2>1 DEF FillsExplainRemainder, Traded
<1>10. QED
  BY <1>5, <1>8, <1>9 DEF CoreInv

-----------------------------------------------------------------------------
(* The invariant of the whole system and its consequences.                 *)

LEMMA EngineKeeps ==
  ASSUME CoreInv, Engine \/ UNCHANGED system
  PROVE  CoreInv'
<1>1. CASE UNCHANGED system
  <2>1. /\ UNCHANGED <<inbound, read_p, engine, outbound, book>>
        /\ UNCHANGED <<internal_id_counter, minting>>
    BY <1>1 DEF system, calls
  <2>2. QED
    BY <2>1, RingStays DEF CoreInv, TypeOK
<1>2. QED
  BY <1>1, TakeKeeps, MatchKeeps, AcknowledgeKeeps, DiscardKeeps DEF Engine

LEMMA SystemInvStep ==
  ASSUME SystemInv, [Next]_system
  PROVE  SystemInv'
<1>1. CASE Engine \/ UNCHANGED system
  <2>1. CoreInv'
    BY <1>1, EngineKeeps DEF SystemInv
  <2>2. UNCHANGED <<inbound, internal_id_counter, minting>>
    BY <1>1 DEF Engine, Take, Match, Acknowledge, Discard, calls, system
  <2>3. MintInv'
    BY <2>2 DEF SystemInv, MintInv, Begun
  <2>4. QED
    BY <2>1, <2>3 DEF SystemInv
<1>2. QED
  BY <1>1, CallKeeps DEF Next, PollAgain

LEMMA SystemInvInit == Init => SystemInv
<1> SUFFICES ASSUME Init
             PROVE  SystemInv
  OBVIOUS
<1>1. /\ internal_id_counter = [g \in Gateways |-> 0] /\ minting = [t \in Threads |-> Free]
      /\ inbound = <<>> /\ read_p = 0 /\ engine = "poll"
      /\ outbound = [g \in Gateways |-> <<>>] /\ B!Init /\ Book!Init
  BY BookCalls DEF Init
<1>2. BookInv
  <2>1. B!Inv /\ B!AnswerInv
    BY <1>1, B!InitInv, B!AnswerInvInit, BookAssumption, LimitsAssumption
  <2>2. B!TradesPositive
    BY <1>1, B!TradesPositiveInit, BookAssumption, LimitsAssumption
  <2>3. QED
    BY <2>1, <2>2 DEF BookInv
<1>3. Book!TypeOK
  BY <1>2 DEF BookInv, B!Inv, B!BookInv, B!CallTypeOK, B!BookTypeOK, Book!TypeOK,
     Book!CallTypeOK, Book!BookTypeOK, B!Sides, Book!Sides, B!Sell, B!Buy, Book!Sell, Book!Buy,
     B!Pointer, Book!Pointer, B!NoTaker, Book!NoTaker
<1>4. <<>> \in Seq(Events) /\ <<>> \in Seq(Acks) /\ Len(<<>>) = 0 /\ DOMAIN <<>> = {}
  BY EmptySeq
<1>5. TypeOK
  BY <1>1, <1>3, <1>4 DEF TypeOK
<1>6. EventInv
  BY <1>1, <1>4, InitCursor DEF EventInv
<1>7. BusyInv
  BY <1>1 DEF BusyInv, Book!Init, Book!Idle
<1>8. \A g : Done(g) = {}
  BY <1>1 DEF Done, Calls
<1>9. AcksAnswerCalls /\ FillsExplainRemainder
  BY <1>1, <1>4, <1>8, FS_EmptySet DEF AcksAnswerCalls, FillsExplainRemainder, Noisy
<1>10. MintInv
  <2>1. Holding = {}
    BY <1>1 DEF Holding
  <2>2. Begun = 0
    BY <1>1, <1>4, <2>1, HoldingCount, FS_EmptySet
  <2>3. QED
    BY <1>1, <2>2, LimitsAssumption DEF MintInv
<1>11. QED
  BY <1>2, <1>5, <1>6, <1>7, <1>9, <1>10 DEF SystemInv, CoreInv

\* The work of the engine and what it has answered stay in step, whatever is called.
THEOREM SystemInvHolds == Spec => []SystemInv
<1>1. SystemInv /\ [Next]_system => SystemInv'
  BY SystemInvStep
<1>2. QED
  BY SystemInvInit, <1>1, PTL DEF Spec

\* Every variable of the system keeps its type.
THEOREM SystemTypes == Spec => []TypeOK
<1>1. SystemInv => TypeOK
  BY DEF SystemInv, CoreInv
<1>2. QED
  BY SystemInvHolds, <1>1, PTL

\* Every noisy gateway gets one acknowledgement for each call of its own, in order,
\* and a silent one none.
THEOREM CallsAreAnswered == Spec => []AcksAnswerCalls
<1>1. SystemInv => AcksAnswerCalls
  BY DEF SystemInv, CoreInv
<1>2. QED
  BY SystemInvHolds, <1>1, PTL

\* The fills of an acknowledgement explain what the order has lost, unless fills[]
\* is full.
THEOREM FillsAreExplained == Spec => []FillsExplainRemainder
<1>1. SystemInv => FillsExplainRemainder
  BY DEF SystemInv, CoreInv
<1>2. QED
  BY SystemInvHolds, <1>1, PTL

-----------------------------------------------------------------------------
(* Orders that ids tell apart.                                             *)

\* Ids tell orders apart when one gateway mints them, one brings them along, and what
\* it brings along is none that the other mints.
IdsTellApart ==
  /\ \A g, h \in Live : g = h
  /\ \A g, h \in Gateways \ Live : g = h
  /\ ExternalIds \cap 0..MaxCalls - 1 = {}

\* No two orders are placed under one id, and a thread has an id for itself.
IdsInv ==
  /\ \A j, k \in DOMAIN inbound : IsNew(j) /\ IsNew(k) /\ inbound[j].id = inbound[k].id => j = k
  /\ \A k \in DOMAIN inbound : IsNew(k) =>
       IF inbound[k].gateway \in Live
         THEN inbound[k].id \in 0..internal_id_counter[inbound[k].gateway] - 1
         ELSE inbound[k].id \in ExternalIds
  /\ \A t \in Threads : minting[t] # Free =>
       /\ minting[t].id \in 0..internal_id_counter[minting[t].gateway] - 1
       /\ \A k \in DOMAIN inbound : IsNew(k) => inbound[k].id # minting[t].id
       /\ \A u \in Threads \ {t} : minting[u] # Free => minting[u].id # minting[t].id

\* A call is for an order that its gateway has placed before.
CallsInv ==
  \A k \in DOMAIN inbound : ~IsNew(k) =>
    \E j \in 1..k - 1 : /\ IsNew(j)
                        /\ inbound[j].id = inbound[k].id
                        /\ inbound[j].gateway = inbound[k].gateway

LEMMA PlacedIs ==
  ASSUME CoreInv, NEW g, NEW id
  PROVE  id \in Placed(g) <=> \E j \in 1..Len(inbound) : /\ IsNew(j)
                                                         /\ inbound[j].id = id
                                                         /\ inbound[j].gateway = g
<1>1. DOMAIN inbound = 1..Len(inbound)
  BY RingEvents
<1>2. QED
  BY <1>1 DEF Placed, Range, IsNew

\* A call for the order a gateway has placed is a call of that gateway.
LEMMA OwnerCalls ==
  ASSUME CoreInv, IdsInv, CallsInv, NEW k \in DOMAIN inbound, NEW g, inbound[k].id \in Placed(g)
  PROVE  inbound[k].gateway = g
<1>1. PICK j \in 1..Len(inbound) : IsNew(j) /\ inbound[j].id = inbound[k].id /\ inbound[j].gateway = g
  BY PlacedIs
<1>2. DOMAIN inbound = 1..Len(inbound) /\ Len(inbound) \in Nat
  BY RingEvents
<1>3. CASE IsNew(k)
  BY <1>1, <1>2, <1>3 DEF IdsInv
<1>4. CASE ~IsNew(k)
  <2>1. PICK i \in 1..k - 1 : /\ IsNew(i) /\ inbound[i].id = inbound[k].id
                              /\ inbound[i].gateway = inbound[k].gateway
    BY <1>4 DEF CallsInv
  <2>2. i = j
    BY <1>1, <1>2, <2>1 DEF IdsInv
  <2>3. QED
    BY <1>1, <2>1, <2>2
<1>5. QED
  BY <1>3, <1>4

\* An id is taken that no order has, and none will be given again.
LEMMA MintKeepsIds ==
  ASSUME IdsTellApart, SystemInv, IdsInv, NEW t \in Threads, NEW g \in Gateways,
         Mint(t, g), Begun < MaxCalls
  PROVE  IdsInv'
<1> DEFINE c == internal_id_counter[g]
           m == [gateway |-> g, id |-> c]
<1>1. /\ minting[t] = Free /\ g \in Live /\ minting' = [minting EXCEPT ![t] = m]
      /\ internal_id_counter' = [internal_id_counter EXCEPT ![g] = c + 1]
      /\ UNCHANGED inbound
  BY DEF Mint
<1>2. /\ internal_id_counter \in [Gateways -> Nat]
      /\ minting \in [Threads -> [gateway : Gateways, id : Ids] \cup {Free}]
      /\ \A u \in Threads : minting[u] # Free => minting[u].gateway \in Live
  BY DEF SystemInv, CoreInv, TypeOK, MintInv
<1>3. /\ c \in Nat /\ c <= Begun /\ Begun \in Nat /\ MaxCalls \in Nat /\ c \in 0..MaxCalls - 1
  <2>1. c \in Nat /\ c <= Begun
    BY <1>2 DEF SystemInv, MintInv
  <2>2. Begun \in Nat /\ MaxCalls \in Nat
    BY HoldingCount, RingEvents, LimitsAssumption DEF SystemInv
  <2>3. QED
    BY <2>1, <2>2
<1>4. \A h \in Live : h = g
  BY <1>1 DEF IdsTellApart
<1>5. internal_id_counter'[g] = c + 1
  BY <1>1, <1>2
<1>6. /\ \A k \in DOMAIN inbound : IsNew(k) =>
           IF inbound[k].gateway \in Live THEN inbound[k].id \in 0..c - 1
                                          ELSE inbound[k].id \in ExternalIds
      /\ \A u \in Threads : minting[u] # Free => minting[u].id \in 0..c - 1
  BY <1>2, <1>4 DEF IdsInv
<1>7. m.id = c /\ m.gateway = g /\ minting'[t] = m /\ \A u \in Threads \ {t} : minting'[u] = minting[u]
  BY <1>1, <1>2
<1> HIDE DEF c, m
<1>8. \A k \in DOMAIN inbound : IsNew(k) => inbound[k].id # c
  BY <1>3, <1>6 DEF IdsTellApart
<1>9. \A k : IsNew(k)' = IsNew(k)
  BY <1>1 DEF IsNew
<1>10. \A i \in 0..c - 1 : i \in 0..(c + 1) - 1 /\ i # c
  BY <1>3
<1>11. c \in 0..(c + 1) - 1
  BY <1>3
<1>12. \A j, k \in DOMAIN inbound' :
         IsNew(j)' /\ IsNew(k)' /\ inbound'[j].id = inbound'[k].id => j = k
  BY <1>1, <1>9 DEF IdsInv
<1>13. \A k \in DOMAIN inbound' : IsNew(k)' =>
         IF inbound'[k].gateway \in Live
           THEN inbound'[k].id \in 0..internal_id_counter'[inbound'[k].gateway] - 1
           ELSE inbound'[k].id \in ExternalIds
  BY <1>1, <1>4, <1>5, <1>6, <1>9, <1>10
<1>14. ASSUME NEW u \in Threads, minting'[u] # Free
       PROVE  /\ minting'[u].id \in 0..internal_id_counter'[minting'[u].gateway] - 1
              /\ \A k \in DOMAIN inbound' : IsNew(k)' => inbound'[k].id # minting'[u].id
              /\ \A v \in Threads \ {u} : minting'[v] # Free => minting'[v].id # minting'[u].id
  <2>1. CASE u = t
    BY <1>1, <1>5, <1>6, <1>7, <1>8, <1>9, <1>10, <1>11, <2>1
  <2>2. CASE u # t
    <3>1. minting'[u] = minting[u] /\ minting[u].id \in 0..c - 1 /\ minting[u].gateway = g
      BY <1>2, <1>4, <1>6, <1>7, <1>14, <2>2
    <3>2. minting'[u].id \in 0..internal_id_counter'[minting'[u].gateway] - 1
      BY <1>5, <1>10, <3>1
    <3>3. \A k \in DOMAIN inbound' : IsNew(k)' => inbound'[k].id # minting'[u].id
      BY <1>1, <1>9, <1>14, <3>1 DEF IdsInv
    <3>4. \A v \in Threads \ {u} : minting'[v] # Free => minting'[v].id # minting'[u].id
      BY <1>7, <1>10, <1>14, <3>1 DEF IdsInv
    <3>5. QED
      BY <3>2, <3>3, <3>4
  <2>3. QED
    BY <2>1, <2>2
<1>15. QED
  BY <1>12, <1>13, <1>14 DEF IdsInv

\* An order that is put in has an id no other has.
LEMMA PostKeepsIds ==
  ASSUME IdsTellApart, SystemInv, IdsInv, NEW t \in Threads, NEW e \in Events,
         inbound' = Append(inbound, e), UNCHANGED internal_id_counter,
         \/ /\ minting[t] # Free /\ minting' = [minting EXCEPT ![t] = Free]
            /\ e.op = "NEW" /\ e.gateway = minting[t].gateway /\ e.id = minting[t].id
         \/ /\ UNCHANGED minting /\ e.op = "NEW"
            /\ e.gateway \notin Live /\ e.id \in ExternalIds \ Placed(e.gateway)
         \/ UNCHANGED minting /\ e.op # "NEW"
  PROVE  IdsInv'
<1>0. /\ internal_id_counter \in [Gateways -> Nat]
      /\ minting \in [Threads -> [gateway : Gateways, id : Ids] \cup {Free}]
      /\ \A u \in Threads : minting[u] # Free => minting[u].gateway \in Live
      /\ CoreInv /\ e.gateway \in Gateways
  BY EventFields DEF SystemInv, CoreInv, TypeOK, MintInv
<1> SUFFICES ASSUME NEW n, n = Len(inbound)
             PROVE  IdsInv'
  OBVIOUS
<1>1. /\ n \in Nat /\ DOMAIN inbound = 1..n /\ DOMAIN inbound' = 1..n + 1
      /\ inbound'[n + 1] = e /\ \A k \in 1..n : inbound'[k] = inbound[k]
      /\ \A k \in 1..n : inbound[k].gateway \in Gateways
  BY <1>0, PutBehind, RingEvents, EventFields
<1>2. \A k \in 1..n + 1 : k \in 1..n \/ k = n + 1
  BY <1>1
<1>3. \A k \in 1..n : IsNew(k)' = IsNew(k)
  BY <1>1 DEF IsNew
<1>4. \A u \in Threads : minting'[u] # Free => minting'[u] = minting[u] /\ minting[u] # Free
  BY <1>0
<1>5. e.op # "NEW" => ~IsNew(n + 1)'
  BY <1>1 DEF IsNew
\* the ids of LIVE orders are none that a feed brings along
<1>6. \A h \in Gateways : \A i \in 0..internal_id_counter[h] - 1 : i \notin ExternalIds
  <2>1. \A h \in Gateways : internal_id_counter[h] \in Nat /\ internal_id_counter[h] <= MaxCalls
    <3>1. Begun \in Nat /\ MaxCalls \in Nat /\ Begun <= MaxCalls
      BY <1>0, HoldingCount, RingEvents, LimitsAssumption DEF SystemInv, MintInv
    <3>2. ASSUME NEW h \in Gateways
          PROVE  internal_id_counter[h] \in Nat /\ internal_id_counter[h] <= Begun
      BY <1>0 DEF SystemInv, MintInv
    <3>3. QED
      BY <3>1, <3>2
  <2>2. ASSUME NEW h \in Gateways, NEW i \in 0..internal_id_counter[h] - 1
        PROVE  i \in 0..MaxCalls - 1
    BY <2>1, LimitsAssumption
  <2>3. QED
    BY <2>2 DEF IdsTellApart
<1>7. e.op = "NEW" =>
        /\ IF e.gateway \in Live THEN e.id \in 0..internal_id_counter[e.gateway] - 1
                                 ELSE e.id \in ExternalIds
        /\ \A k \in 1..n : IsNew(k) => inbound[k].id # e.id
        /\ \A u \in Threads : minting'[u] # Free => minting'[u].id # e.id
  <2>1. CASE /\ minting[t] # Free /\ minting' = [minting EXCEPT ![t] = Free]
             /\ e.op = "NEW" /\ e.gateway = minting[t].gateway /\ e.id = minting[t].id
    <3>1. e.gateway \in Live /\ e.id \in 0..internal_id_counter[e.gateway] - 1
      BY <1>0, <2>1 DEF IdsInv
    <3>2. \A k \in 1..n : IsNew(k) => inbound[k].id # e.id
      BY <1>1, <2>1 DEF IdsInv
    <3>3. \A u \in Threads : minting'[u] # Free => u # t /\ minting'[u] = minting[u]
      BY <1>0, <2>1
    <3>4. \A u \in Threads : minting'[u] # Free => minting'[u].id # e.id
      BY <2>1, <3>3 DEF IdsInv
    <3>5. QED
      BY <3>1, <3>2, <3>4
  <2>2. CASE /\ UNCHANGED minting /\ e.op = "NEW"
             /\ e.gateway \notin Live /\ e.id \in ExternalIds \ Placed(e.gateway)
    <3>1. ASSUME NEW k \in 1..n, IsNew(k), inbound[k].id = e.id
          PROVE  FALSE
      <4>1. inbound[k].gateway # e.gateway
        BY <1>0, <1>1, <2>2, <3>1, PlacedIs
      <4>2. inbound[k].gateway \in Live
        BY <1>0, <1>1, <2>2, <4>1 DEF IdsTellApart
      <4>3. inbound[k].id \in 0..internal_id_counter[inbound[k].gateway] - 1
        BY <1>1, <3>1, <4>2 DEF IdsInv
      <4>4. QED
        BY <1>1, <1>6, <2>2, <3>1, <4>3
    <3>2. ASSUME NEW u \in Threads, minting[u] # Free
          PROVE  minting[u].id # e.id
      <4>1. minting[u].id \in 0..internal_id_counter[minting[u].gateway] - 1
        BY <3>2 DEF IdsInv
      <4>2. minting[u].gateway \in Gateways
        BY <1>0, <3>2
      <4>3. QED
        BY <1>6, <2>2, <4>1, <4>2
    <3>3. QED
      BY <2>2, <3>1, <3>2
  <2>3. CASE UNCHANGED minting /\ e.op # "NEW"
    BY <2>3
  <2>4. QED
    BY <2>1, <2>2, <2>3
<1>8. IsNew(n + 1)' => e.op = "NEW"
  BY <1>5
<1>9. \A j, k \in 1..n + 1 :
         IsNew(j)' /\ IsNew(k)' /\ inbound'[j].id = inbound'[k].id => j = k
  <2>1. ASSUME NEW j \in 1..n + 1, NEW k \in 1..n + 1, IsNew(j)', IsNew(k)',
               inbound'[j].id = inbound'[k].id
        PROVE  j = k
    <3>1. CASE j \in 1..n /\ k \in 1..n
      BY <1>1, <1>3, <2>1, <3>1 DEF IdsInv
    <3>2. CASE j \in 1..n /\ k = n + 1
      BY <1>1, <1>3, <1>7, <1>8, <2>1, <3>2
    <3>3. CASE j = n + 1 /\ k \in 1..n
      BY <1>1, <1>3, <1>7, <1>8, <2>1, <3>3
    <3>4. QED
      BY <1>2, <3>1, <3>2, <3>3
  <2>2. QED
    BY <2>1
<1>10. ASSUME NEW k \in 1..n + 1, IsNew(k)'
       PROVE  IF inbound'[k].gateway \in Live
                THEN inbound'[k].id \in 0..internal_id_counter'[inbound'[k].gateway] - 1
                ELSE inbound'[k].id \in ExternalIds
  <2>1. CASE k \in 1..n
    BY <1>1, <1>3, <1>10, <2>1 DEF IdsInv
  <2>2. CASE k = n + 1
    BY <1>1, <1>7, <1>8, <1>10, <2>2
  <2>3. QED
    BY <1>2, <2>1, <2>2
<1>11. ASSUME NEW u \in Threads, minting'[u] # Free
       PROVE  /\ minting'[u].id \in 0..internal_id_counter'[minting'[u].gateway] - 1
              /\ \A k \in 1..n + 1 : IsNew(k)' => inbound'[k].id # minting'[u].id
              /\ \A v \in Threads \ {u} : minting'[v] # Free => minting'[v].id # minting'[u].id
  <2>1. minting'[u] = minting[u] /\ minting[u] # Free
    BY <1>4, <1>11
  <2>2. minting'[u].id \in 0..internal_id_counter'[minting'[u].gateway] - 1
    BY <2>1 DEF IdsInv
  <2>3. ASSUME NEW k \in 1..n + 1, IsNew(k)'
        PROVE  inbound'[k].id # minting'[u].id
    <3>1. CASE k \in 1..n
      BY <1>1, <1>3, <2>1, <2>3, <3>1 DEF IdsInv
    <3>2. CASE k = n + 1
      BY <1>1, <1>7, <1>8, <1>11, <2>3, <3>2
    <3>3. QED
      BY <1>2, <3>1, <3>2
  <2>4. \A v \in Threads \ {u} : minting'[v] # Free => minting'[v].id # minting'[u].id
    BY <1>4, <2>1 DEF IdsInv
  <2>5. QED
    BY <2>2, <2>3, <2>4
<1>12. QED
  BY <1>1, <1>9, <1>10, <1>11 DEF IdsInv

\* A cancel or a modify that is put in is for an order that was placed before.
LEMMA PostKeepsCalls ==
  ASSUME CoreInv, CallsInv, NEW e \in Events, inbound' = Append(inbound, e),
         e.op # "NEW" => e.id \in Placed(e.gateway)
  PROVE  CallsInv'
<1> SUFFICES ASSUME NEW n, n = Len(inbound)
             PROVE  CallsInv'
  OBVIOUS
<1>1. /\ n \in Nat /\ DOMAIN inbound = 1..n /\ DOMAIN inbound' = 1..n + 1
      /\ inbound'[n + 1] = e /\ \A k \in 1..n : inbound'[k] = inbound[k]
  BY PutBehind, RingEvents
<1>2. e.op # "NEW" => \E j \in 1..n : /\ IsNew(j) /\ inbound[j].id = e.id
                                      /\ inbound[j].gateway = e.gateway
  BY PlacedIs
<1>3. \A k \in 1..n : IsNew(k)' = IsNew(k)
  BY <1>1 DEF IsNew
<1>4. ~IsNew(n + 1)' => e.op # "NEW"
  BY <1>1 DEF IsNew
<1>5. ASSUME NEW k \in 1..n + 1, ~IsNew(k)'
      PROVE  \E j \in 1..k - 1 : /\ IsNew(j)' /\ inbound'[j].id = inbound'[k].id
                                 /\ inbound'[j].gateway = inbound'[k].gateway
  <2>1. CASE k \in 1..n
    <3>1. PICK j \in 1..k - 1 : /\ IsNew(j) /\ inbound[j].id = inbound[k].id
                                /\ inbound[j].gateway = inbound[k].gateway
      BY <1>1, <1>3, <1>5, <2>1 DEF CallsInv
    <3>2. j \in 1..n
      BY <1>1, <2>1, <3>1
    <3>3. QED
      BY <1>1, <1>3, <2>1, <3>1, <3>2
  <2>2. CASE k = n + 1
    <3>1. PICK j \in 1..n : /\ IsNew(j) /\ inbound[j].id = e.id
                            /\ inbound[j].gateway = e.gateway
      BY <1>2, <1>4, <1>5, <2>2
    <3>2. j \in 1..k - 1
      BY <1>1, <2>2, <3>1
    <3>3. QED
      BY <1>1, <1>3, <2>2, <3>1, <3>2
  <2>3. QED
    BY <1>1, <2>1, <2>2
<1>6. QED
  BY <1>1, <1>5 DEF CallsInv

LEMMA IdsStep ==
  ASSUME IdsTellApart, SystemInv, IdsInv, CallsInv, [Next]_system
  PROVE  IdsInv' /\ CallsInv'
<1>1. ASSUME NEW t \in Threads, Call(t)
      PROVE  IdsInv' /\ CallsInv'
  <2>1. ASSUME NEW g \in Gateways, Mint(t, g), Begun < MaxCalls
        PROVE  IdsInv' /\ CallsInv'
    <3>1. UNCHANGED inbound
      BY <2>1 DEF Mint
    <3>2. CallsInv'
      BY <3>1 DEF CallsInv, IsNew
    <3>3. QED
      BY <2>1, <3>2, MintKeepsIds
  <2>2. ASSUME NEW e \in Events,
               inbound' = Append(inbound, e), UNCHANGED internal_id_counter,
               \/ /\ minting[t] # Free /\ minting' = [minting EXCEPT ![t] = Free]
                  /\ e.op = "NEW" /\ e.gateway = minting[t].gateway /\ e.id = minting[t].id
               \/ /\ UNCHANGED minting /\ e.op = "NEW"
                  /\ e.gateway \notin Live /\ e.id \in ExternalIds \ Placed(e.gateway)
               \/ UNCHANGED minting /\ e.op # "NEW" /\ e.id \in Placed(e.gateway)
        PROVE  IdsInv' /\ CallsInv'
    <3>1. IdsInv'
      BY <2>2, PostKeepsIds
    <3>2. CallsInv'
      BY <2>2, PostKeepsCalls DEF SystemInv
    <3>3. QED
      BY <3>1, <3>2
  <2>3. QED
    BY <1>1, <2>1, <2>2, CallIs
<1>2. CASE UNCHANGED <<inbound, internal_id_counter, minting>>
  BY <1>2 DEF IdsInv, CallsInv, IsNew
<1>3. CASE Engine \/ PollAgain \/ UNCHANGED system
  BY <1>2, <1>3 DEF Engine, Take, Match, Acknowledge, Discard, PollAgain, calls, system
<1>4. QED
  BY <1>1, <1>3 DEF Next

\* How many events the engine has taken, the one in hand among them.
Taken == IF engine = "busy" THEN read_p + 1 ELSE read_p

\* The book was given the orders that were taken, and indexes those that rest.
UsedAreTaken == usedIds = {inbound[k].id : k \in {j \in 1..Taken : IsNew(j)}}
UsedInv == UsedAreTaken /\ B!IndexInv

\* An order that is cancelled is gone when its cancel is taken, and does not return.
GoneInv ==
  \A k \in 1..Taken : inbound[k].op = "CANCEL" =>
    /\ \A a \in DOMAIN order : order[a].orderID # inbound[k].id
    /\ ~Book!Idle => taker.orderID # inbound[k].id

LEMMA TakenInRing ==
  ASSUME CoreInv
  PROVE  /\ Taken \in 0..Len(inbound) /\ Taken \in Nat
         /\ \A k \in 1..Taken : k \in 1..Len(inbound) /\ k \in DOMAIN inbound
<1>1. Taken \in 0..Len(inbound) /\ Len(inbound) \in Nat /\ DOMAIN inbound = 1..Len(inbound)
  BY RingEvents DEF Taken
<1>2. QED
  BY <1>1

\* The events that were taken stay what they are when others are put in.
LEMMA TakenStay ==
  ASSUME CoreInv, [Next]_system, ~Engine
  PROVE  /\ Taken' = Taken /\ UNCHANGED book
         /\ UNCHANGED <<read_p, engine, outbound>>
         /\ \A k \in 1..Taken : inbound'[k] = inbound[k]
         /\ \A g : Done(g)' = Done(g)
<1>1. UNCHANGED <<read_p, engine, outbound>> /\ UNCHANGED book
      /\ (UNCHANGED inbound \/ \E e : inbound' = Append(inbound, e))
  BY DEF Next, Call, Begin, GoOn, Mint, PlaceLive, PlaceReplay, Cancel, Modify, Post,
     PollAgain, system, calls, book
<1>2. \A k \in 1..Len(inbound) : inbound'[k] = inbound[k]
  BY <1>1, PutBehind
<1>3. \A k \in 1..read_p : inbound'[k] = inbound[k]
  BY <1>2, RingEvents
<1>4. \A g : Done(g)' = Done(g)
  BY <1>1, <1>3 DEF Done, Calls
<1>5. Taken' = Taken
  BY <1>1 DEF Taken
<1>6. QED
  BY <1>1, <1>2, <1>4, <1>5, TakenInRing

\* What the engine does to the events: it takes one more, or none.
LEMMA TakenGrows ==
  ASSUME CoreInv, Engine
  PROVE  /\ UNCHANGED inbound
         /\ IF engine = "poll" THEN Take /\ Taken = read_p /\ Taken' = read_p + 1
                               ELSE Taken' = Taken /\ Taken = read_p + 1
<1>1. engine \in {"poll", "busy"} /\ (engine = "poll" => Book!Idle)
  BY DEF CoreInv, TypeOK, BusyInv
<1>2. CASE Take
  BY <1>2, TakeIs DEF Taken
<1>3. CASE Match
  <2>1. engine = "busy"
    BY <1>1, <1>3, MatchAnswers DEF Match, CoreInv, TypeOK
  <2>2. QED
    BY <1>3, <2>1 DEF Match, Taken, calls
<1>4. CASE Acknowledge \/ Discard
  BY <1>4, RingEvents DEF Acknowledge, Discard, Taken, calls
<1>5. QED
  BY <1>2, <1>3, <1>4 DEF Engine

\* An order that is taken has an id that was not used before.
LEMMA TakenIsFresh ==
  ASSUME CoreInv, IdsInv, UsedInv, engine = "poll", read_p < Len(inbound), Event.op = "NEW"
  PROVE  Event.id \notin usedIds
<1>1. /\ read_p + 1 \in DOMAIN inbound /\ Event = inbound[read_p + 1]
      /\ read_p \in Nat /\ Taken = read_p
      /\ \A k \in 1..Taken : k \in DOMAIN inbound
  BY RingEvents, TakenInRing DEF Event, Taken
<1>2. ASSUME NEW k \in 1..read_p, IsNew(k), inbound[k].id = Event.id
      PROVE  FALSE
  <2>1. k = read_p + 1
    BY <1>1, <1>2 DEF IdsInv, IsNew
  <2>2. QED
    BY <1>1, <1>2, <2>1
<1>3. QED
  BY <1>1, <1>2 DEF UsedInv, UsedAreTaken

LEMMA UsedStep ==
  ASSUME SystemInv, IdsInv, UsedInv, [Next]_system
  PROVE  UsedInv'
<1>0. CoreInv /\ B!Inv /\ B!IndexInv
  BY DEF SystemInv, CoreInv, BookInv, UsedInv
<1>1. CASE ~Engine
  <2>1. /\ Taken' = Taken /\ UNCHANGED book /\ Taken \in Nat
        /\ \A k \in 1..Taken : inbound'[k] = inbound[k]
    BY <1>0, <1>1, TakenStay, TakenInRing
  <2>2. B!IndexInv'
    <3>1. UNCHANGED B!vars /\ placed' = placed
      BY <2>1 DEF book, B!vars
    <3>2. QED
      BY <1>0, <3>1, B!IndexInvStep, BookAssumption, LimitsAssumption
  <2>3. UsedAreTaken'
    BY <2>1 DEF UsedInv, UsedAreTaken, IsNew, book
  <2>4. QED
    BY <2>2, <2>3 DEF UsedInv
<1>2. CASE Engine
  <2>0. [B!Next]_B!vars
    BY <1>0, <1>2, EngineBook
  <2>1. CASE engine = "poll"
    <3>1. Take /\ Taken = read_p /\ Taken' = read_p + 1 /\ UNCHANGED inbound
      BY <1>0, <1>2, <2>1, TakenGrows
    <3>2. /\ Event = inbound[read_p + 1] /\ read_p \in Nat /\ read_p < Len(inbound)
          /\ \/ Event.op = "NEW" /\ usedIds' = usedIds \cup {Event.id}
             \/ Event.op # "NEW" /\ usedIds' = usedIds /\ placed' = placed
      BY <1>0, <3>1, TakeIs, RingEvents DEF Event, B!PlaceOrder, B!CancelUnknown,
         B!CancelResting, B!ModifyRejected, B!ModifyReduced, B!history
    <3>3. placed' = placed \/ usedIds' # usedIds
      BY <1>0, <2>1, <3>2, TakenIsFresh
    <3>4. B!IndexInv'
      BY <1>0, <2>0, <3>3, B!IndexInvStep, BookAssumption, LimitsAssumption
    <3>5. UsedAreTaken'
      <4>1. \A k \in 1..read_p + 1 : k \in 1..read_p \/ k = read_p + 1
        BY <3>2
      <4>2. \A k \in 1..read_p : k \in 1..read_p + 1
        BY <3>2
      <4>3. read_p + 1 \in 1..read_p + 1
        BY <3>2
      <4>4. usedIds = {inbound[k].id : k \in {j \in 1..read_p : IsNew(j)}}
        BY <3>1 DEF UsedInv, UsedAreTaken
      <4>5. usedIds' = {inbound[k].id : k \in {j \in 1..read_p + 1 : IsNew(j)}}
        BY <3>2, <4>1, <4>2, <4>3, <4>4 DEF IsNew
      <4>6. QED
        BY <3>1, <4>5 DEF UsedAreTaken, IsNew
    <3>6. QED
      BY <3>4, <3>5 DEF UsedInv
  <2>2. CASE engine # "poll"
    <3>1. Taken' = Taken /\ UNCHANGED inbound
      BY <1>0, <1>2, <2>2, TakenGrows
    <3>2. usedIds' = usedIds /\ placed' = placed
      <4>1. Match \/ Acknowledge \/ Discard
        BY <1>2, <2>2 DEF Engine, Take
      <4>2. QED
        BY <4>1 DEF Match, Acknowledge, Discard, book, Book!MatchStep, Book!FillPartial,
           Book!FillWhole, Book!RestRemainder, Book!ReturnFilled, Book!history
    <3>3. B!IndexInv'
      BY <1>0, <2>0, <3>2, B!IndexInvStep, BookAssumption, LimitsAssumption
    <3>4. UsedAreTaken'
      BY <3>1, <3>2 DEF UsedInv, UsedAreTaken, IsNew
    <3>5. QED
      BY <3>3, <3>4 DEF UsedInv
  <2>3. QED
    BY <2>1, <2>2
<1>3. QED
  BY <1>1, <1>2

\* Who rests after a step of the book rested before it under the same id with no less,
\* or is what is left of the order that was matched.
LEMMA RestingBefore ==
  ASSUME BookInv, [B!Next]_B!vars, NEW x \in DOMAIN order'
  PROVE  \/ /\ x \in DOMAIN order /\ order'[x].orderID = order[x].orderID
            /\ order'[x].volume <= order[x].volume
         \/ /\ ~Book!Idle /\ (Book!Idle)' /\ res' = res
            /\ order'[x].orderID = taker.orderID /\ order'[x].volume = taker.volume
<1>1. B!Inv
  BY DEF BookInv
<1>2. (B!Idle <=> Book!Idle) /\ (B!Idle' <=> (Book!Idle)')
  BY DEF B!Idle, Book!Idle, B!NoTaker, Book!NoTaker, B!Buy, Book!Buy
<1>3. QED
  BY <1>1, <1>2, B!OrdersShrink, BookAssumption, LimitsAssumption

\* A cancel leaves no order of its id.
LEMMA CancelLeavesNone ==
  ASSUME BookInv, B!IndexInv, NEW id \in Ids, B!CancelUnknown(id) \/ B!CancelResting(id),
         NEW x \in DOMAIN order'
  PROVE  order'[x].orderID # id
<1>1. \A a \in DOMAIN order : order[a].orderID \in DOMAIN global_map
                              /\ global_map[order[a].orderID] = a
  BY DEF B!IndexInv, B!IndexComplete
<1>2. CASE B!CancelUnknown(id)
  BY <1>1, <1>2 DEF B!CancelUnknown, B!book
<1>3. CASE B!CancelResting(id)
  <2>0. B!Inv /\ B!BookInv
    BY DEF BookInv, B!Inv
  <2>1. global_map[id] \in DOMAIN order /\ B!Unlinked(global_map[id])
    BY <1>3, <2>0, B!CancelUnlinks, BookAssumption, LimitsAssumption
  <2>2. usedIds' = usedIds /\ taker'.orderID = taker.orderID
    BY <1>3 DEF B!CancelResting, B!history
  <2>3. x \in DOMAIN order /\ order'[x].orderID = order[x].orderID
    BY <2>0, <2>1, <2>2, B!UnlinkKeepsIndex, BookAssumption, LimitsAssumption
  <2>4. x # global_map[id]
    BY <2>1 DEF B!Unlinked
  <2>5. QED
    BY <1>1, <2>3, <2>4
<1>4. QED
  BY <1>2, <1>3

LEMMA GoneStep ==
  ASSUME SystemInv, IdsInv, CallsInv, UsedInv, GoneInv, [Next]_system
  PROVE  GoneInv'
<1>0. CoreInv /\ BookInv /\ B!IndexInv /\ Taken \in Nat
  BY TakenInRing DEF SystemInv, CoreInv, UsedInv
<1>1. CASE ~Engine
  <2>1. /\ Taken' = Taken /\ UNCHANGED book
        /\ \A k \in 1..Taken : inbound'[k] = inbound[k]
    BY <1>0, <1>1, TakenStay
  <2>2. (Book!Idle)' = Book!Idle
    BY <2>1 DEF book, Book!Idle, Book!NoTaker, Book!Buy
  <2>3. QED
    BY <2>1, <2>2 DEF GoneInv, book
<1>2. CASE Engine
  <2>0. [B!Next]_B!vars /\ UNCHANGED inbound
    BY <1>0, <1>2, EngineBook, TakenGrows
  \* an order cannot be taken after its cancel
  <2>1. CASE engine = "poll"
    <3>1. /\ Take /\ Taken = read_p /\ Taken' = read_p + 1 /\ read_p \in Nat
          /\ read_p < Len(inbound) /\ read_p + 1 \in 1..Len(inbound)
          /\ Event = inbound[read_p + 1] /\ Event \in Events /\ Event.id \in Ids /\ Book!Idle
          /\ \A k \in 1..Taken : k \in DOMAIN inbound
          /\ DOMAIN inbound = 1..Len(inbound)
      BY <1>0, <1>2, <2>1, TakenGrows, TakeIs, RingEvents, TakenInRing, EventFields DEF Event
    <3>2. \A x \in DOMAIN order' : x \in DOMAIN order /\ order'[x].orderID = order[x].orderID
      BY <1>0, <2>0, <3>1, RestingBefore
    <3>3. CASE Event.op = "NEW"
      <4>1. taker'.orderID = Event.id
        BY <1>0, <3>1, <3>3, TakeIs DEF B!PlaceOrder
      <4>2. ASSUME NEW k \in 1..read_p, inbound[k].op = "CANCEL", inbound[k].id = Event.id
            PROVE  FALSE
        <5>1. k \in DOMAIN inbound /\ ~IsNew(k) /\ IsNew(read_p + 1)
          BY <3>1, <3>3, <4>2 DEF IsNew
        <5>2. PICK j \in 1..k - 1 : IsNew(j) /\ inbound[j].id = inbound[k].id
          BY <5>1 DEF CallsInv
        <5>3. j \in DOMAIN inbound /\ j # read_p + 1
          BY <3>1, <5>2
        <5>4. QED
          BY <3>1, <4>2, <5>1, <5>2, <5>3 DEF IdsInv
      <4>3. ASSUME NEW k \in 1..read_p + 1, inbound[k].op = "CANCEL"
            PROVE  /\ \A a \in DOMAIN order' : order'[a].orderID # inbound[k].id
                   /\ taker'.orderID # inbound[k].id
        <5>1. k \in 1..read_p
          BY <3>1, <3>3, <4>3
        <5>2. QED
          BY <3>1, <3>2, <4>1, <4>2, <4>3, <5>1 DEF GoneInv
      <4>4. QED
        BY <2>0, <3>1, <4>3 DEF GoneInv
    <3>4. CASE Event.op # "NEW"
      <4>1. taker' = taker
        BY <1>0, <3>1, <3>4, TakeIs DEF B!CancelUnknown, B!CancelResting, B!ModifyRejected,
           B!ModifyReduced
      <4>2. (Book!Idle)'
        BY <3>1, <4>1 DEF Book!Idle, Book!NoTaker, Book!Buy
      <4>3. ASSUME NEW k \in 1..read_p + 1, inbound[k].op = "CANCEL"
            PROVE  \A a \in DOMAIN order' : order'[a].orderID # inbound[k].id
        <5>1. CASE k \in 1..read_p
          BY <3>1, <3>2, <4>3, <5>1 DEF GoneInv
        <5>2. CASE k = read_p + 1
          <6>1. B!CancelUnknown(Event.id) \/ B!CancelResting(Event.id)
            BY <1>0, <3>1, <4>3, <5>2, TakeIs
          <6>2. QED
            BY <1>0, <3>1, <5>2, <6>1, CancelLeavesNone
        <5>3. QED
          BY <3>1, <5>1, <5>2
      <4>4. QED
        BY <2>0, <3>1, <4>2, <4>3 DEF GoneInv
    <3>5. QED
      BY <3>3, <3>4
  <2>2. CASE engine # "poll"
    <3>1. Taken' = Taken
      BY <1>0, <1>2, <2>2, TakenGrows
    <3>2. ~(Book!Idle)' => ~Book!Idle /\ taker'.orderID = taker.orderID
      <4>1. Match \/ Acknowledge \/ Discard
        BY <1>2, <2>2 DEF Engine, Take
      <4>2. CASE Match
        BY <1>0, <4>2, MatchAnswers DEF Match, CoreInv, TypeOK
      <4>3. CASE Acknowledge \/ Discard
        BY <4>3 DEF Acknowledge, Discard, book, Book!Idle, Book!NoTaker, Book!Buy
      <4>4. QED
        BY <4>1, <4>2, <4>3
    <3>3. ASSUME NEW k \in 1..Taken, inbound[k].op = "CANCEL"
          PROVE  /\ \A a \in DOMAIN order' : order'[a].orderID # inbound[k].id
                 /\ ~(Book!Idle)' => taker'.orderID # inbound[k].id
      BY <1>0, <2>0, <3>2, <3>3, RestingBefore DEF GoneInv
    <3>4. QED
      BY <2>0, <3>1, <3>3 DEF GoneInv
  <2>3. QED
    BY <2>1, <2>2
<1>3. QED
  BY <1>1, <1>2

LEMMA OrdersInit ==
  ASSUME Init
  PROVE  IdsInv /\ CallsInv /\ UsedInv /\ GoneInv
<1>1. /\ minting = [t \in Threads |-> Free] /\ inbound = <<>> /\ read_p = 0
      /\ engine = "poll" /\ usedIds = {} /\ B!Init
  BY BookCalls DEF Init, Book!Init
<1>2. DOMAIN inbound = {} /\ Taken = 0
  BY <1>1, EmptySeq DEF Taken
<1>3. UsedInv
  BY <1>1, <1>2, B!IndexInvInit, BookAssumption, LimitsAssumption DEF UsedInv, UsedAreTaken
<1>4. QED
  BY <1>1, <1>2, <1>3 DEF IdsInv, CallsInv, GoneInv

-----------------------------------------------------------------------------
(* What a gateway knows of its orders.                                     *)

\* The event in hand has changed the order at a, and its gateway is not told yet.
Pending(a) == engine = "busy" /\ Event.id = order[a].orderID /\ (Event.op = "NEW" \/ ok)

\* No more rests of an order than its gateway knows of, or is about to be told.
KnownInv ==
  \A a \in DOMAIN order : \A g \in Noisy : order[a].orderID \in Placed(g) =>
    IF Pending(a)
      THEN /\ Event.op # "CANCEL"
           /\ order[a].volume <= IF Event.op = "NEW" THEN res.remainingQty ELSE Event.volume
      ELSE order[a].volume <= Known(g, order[a].orderID)

\* The greatest of some of the first numbers is one of them.
LEMMA MaxIsIn ==
  ASSUME NEW n \in Nat, NEW S, S \subseteq 1..n, S # {}
  PROVE  Max(S) \in S /\ \A y \in S : y <= Max(S)
<1> DEFINE T == {n - x : x \in S}
<1>1. T \subseteq Nat /\ T # {}
  OBVIOUS
<1>2. PICK d \in T : \A y \in T : d <= y
  BY <1>1, LeastNatural
<1>3. PICK m \in S : d = n - m
  OBVIOUS
<1>4. \A y \in S : m >= y
  <2>1. ASSUME NEW y \in S
        PROVE  m >= y
    <3>1. d <= n - y /\ m \in 1..n /\ y \in 1..n
      BY <1>2
    <3>2. QED
      BY <1>3, <3>1
  <2>2. QED
    BY <2>1
<1>5. Max(S) \in S /\ \A y \in S : Max(S) >= y
  BY <1>4 DEF Max
<1>6. Max(S) \in 1..n /\ \A y \in S : y \in 1..n
  BY <1>5
<1>7. QED
  BY <1>5, <1>6

LEMMA ChangesAreDone ==
  ASSUME CoreInv, NEW g, NEW id
  PROVE  /\ Changes(g, id) \subseteq Done(g) /\ Changes(g, id) \subseteq 1..read_p /\ read_p \in Nat
         /\ Changes(g, id) # {} => /\ Max(Changes(g, id)) \in Changes(g, id)
                                   /\ Known(g, id) = SizeAfter(Max(Changes(g, id)))
<1>1. /\ Changes(g, id) \subseteq Done(g) /\ Changes(g, id) \subseteq 1..read_p /\ read_p \in Nat
  BY RingEvents DEF Changes, Done, Calls
<1>2. QED
  BY <1>1, MaxIsIn DEF Known

LEMMA KnownType ==
  ASSUME CoreInv, NEW g \in Noisy, NEW id
  PROVE  Known(g, id) \in Int
<1>1. g \in Gateways /\ outbound[g] \in Seq(Acks)
  BY GatewaysAssumption DEF Noisy, CoreInv, TypeOK
<1>2. Len(outbound[g]) = Cardinality(Done(g))
  BY <1>1 DEF CoreInv, AcksAnswerCalls
<1>3. ASSUME NEW k \in Done(g)
      PROVE  Answer(k) \in Acks /\ inbound[k] \in Events
  <2>1. /\ k \in 1..read_p /\ inbound[k].gateway = g
        /\ Cardinality(Calls(g, k)) \in 1..Cardinality(Done(g))
    BY RingEvents, CallsCount DEF Done
  <2>2. inbound[k] \in Events
    BY <2>1, RingEvents
  <2>3. Answer(k) = outbound[g][Cardinality(Calls(g, k))]
    BY <2>1 DEF Answer
  <2>4. QED
    BY <1>1, <1>2, <2>1, <2>2, <2>3
<1>4. ASSUME NEW k \in Done(g)
      PROVE  SizeAfter(k) \in Int
  <2>1. Answer(k).remaining_qty \in Int
    BY <1>3 DEF Acks
  <2>2. inbound[k].op \in {"NEW", "CANCEL", "MODIFY"}
        /\ (inbound[k].op = "MODIFY" => inbound[k].volume \in Int)
    BY <1>3, EventFields, BookAssumption
  <2>3. QED
    BY <2>1, <2>2 DEF SizeAfter
<1>5. QED
  BY <1>4, ChangesAreDone DEF Known

LEMMA VolumeType ==
  ASSUME CoreInv, NEW x \in DOMAIN order
  PROVE  order[x].volume \in Int
BY DEF CoreInv, TypeOK, Book!TypeOK, Book!BookTypeOK

\* What a gateway knows does not change while it gets no acknowledgement.
LEMMA KnownStays ==
  ASSUME CoreInv, NEW g \in Noisy, NEW id, Done(g)' = Done(g),
         \A k \in Done(g) : Answer(k)' = Answer(k) /\ inbound'[k] = inbound[k]
  PROVE  Known(g, id)' = Known(g, id)
<1>1. Changes(g, id)' = Changes(g, id)
  BY DEF Changes
<1>2. \A k \in Done(g) : SizeAfter(k)' = SizeAfter(k)
  BY DEF SizeAfter
<1>3. CASE Changes(g, id) = {}
  BY <1>1, <1>3 DEF Known
<1>4. CASE Changes(g, id) # {}
  <2> SUFFICES ASSUME NEW m, m = Max(Changes(g, id))
               PROVE  Known(g, id)' = Known(g, id)
    OBVIOUS
  <2>1. m \in Done(g) /\ Known(g, id) = SizeAfter(m)
    BY <1>4, ChangesAreDone
  <2>2. Known(g, id)' = SizeAfter(m)'
    BY <1>1, <1>4 DEF Known
  <2>3. QED
    BY <1>2, <2>1, <2>2
<1>5. QED
  BY <1>3, <1>4

\* What a gateway learns from the acknowledgement of its call n.
LEMMA KnownGrows ==
  ASSUME CoreInv, Acknowledge, NEW h, h = Event.gateway, NEW n, n = read_p + 1, NEW id
  PROVE  IF Event.id = id /\ (Event.op = "NEW" \/ ok)
           THEN Known(h, id)' = CASE Event.op = "NEW"    -> res.remainingQty
                                  [] Event.op = "MODIFY" -> Event.volume
                                  [] Event.op = "CANCEL" -> 0
           ELSE Known(h, id)' = Known(h, id)
<1>1. /\ h \in Noisy /\ Answer(n)' = Ack
      /\ \A k \in Done(h) : Answer(k)' = Answer(k) /\ inbound'[k] = inbound[k]
  BY AckArrives
<1>2. /\ engine = "busy" /\ UNCHANGED inbound /\ read_p' = read_p + 1
  BY DEF Acknowledge, calls
<1>3. /\ Done(h)' = Done(h) \cup {n} /\ Event = inbound[n] /\ inbound'[n] = Event
      /\ read_p \in Nat /\ n = read_p + 1 /\ Event \in Events
      /\ Event.op \in {"NEW", "CANCEL", "MODIFY"}
  BY <1>2, ReleaseCounts, RingEvents, EventFields
<1>4. \A k \in Done(h) : k \in 1..read_p
  BY DEF Done, Calls
<1> DEFINE Changed == Event.id = id /\ (Event.op = "NEW" \/ ok)
<1>5. Ack.fulfilled = IF Event.op = "NEW" THEN res.fulfilled ELSE ok
  BY <1>3 DEF Ack
<1>6. Changes(h, id)' = IF Changed THEN Changes(h, id) \cup {n} ELSE Changes(h, id)
  <2>1. Changes(h, id)' = {k \in Done(h)' : /\ inbound'[k].id = id
                                            /\ inbound'[k].op = "NEW" \/ Answer(k)'.fulfilled}
    BY DEF Changes
  <2>2. \A k \in Done(h)' : k \in Done(h) \/ k = n
    BY <1>3
  <2>3. n \in Done(h)' /\ n \notin Done(h) /\ \A k \in Done(h) : k \in Done(h)'
    BY <1>3, <1>4
  <2>4. n \in Changes(h, id)' <=> Changed
    <3>1. n \in Changes(h, id)' <=> /\ inbound'[n].id = id
                                    /\ inbound'[n].op = "NEW" \/ Answer(n)'.fulfilled
      BY <2>1, <2>3
    <3>2. n \in Changes(h, id)' <=> Event.id = id /\ (Event.op = "NEW" \/ Ack.fulfilled)
      <4>1. Answer(n)'.fulfilled = Ack.fulfilled
        BY <1>1
      <4>2. QED
        BY <1>3, <3>1, <4>1
    <3>3. CASE Event.op = "NEW"
      BY <3>2, <3>3
    <3>4. CASE Event.op # "NEW"
      <4>1. Ack.fulfilled = ok
        BY <1>5, <3>4
      <4>2. QED
        BY <3>2, <4>1, Zenon
    <3>5. QED
      BY <3>3, <3>4
  <2>5. \A k \in Done(h) : k \in Changes(h, id)' <=> k \in Changes(h, id)
    BY <1>1, <2>1, <2>3 DEF Changes
  <2>6. \A k \in Changes(h, id)' : k \in Done(h) \/ k = n
    BY <2>1, <2>2
  <2>7. \A k \in Changes(h, id) : k \in Done(h)
    BY DEF Changes
  <2>8. QED
    BY <2>4, <2>5, <2>6, <2>7
<1>7. \A k \in Done(h) : SizeAfter(k)' = SizeAfter(k)
  BY <1>1 DEF SizeAfter
<1>8. CASE ~Changed
  <2>1. CASE Changes(h, id) = {}
    BY <1>6, <1>8, <2>1 DEF Known
  <2>2. CASE Changes(h, id) # {}
    <3> SUFFICES ASSUME NEW m, m = Max(Changes(h, id))
                 PROVE  Known(h, id)' = Known(h, id)
      BY <1>8
    <3>1. m \in Done(h) /\ Known(h, id) = SizeAfter(m)
      BY <2>2, ChangesAreDone
    <3>2. Known(h, id)' = SizeAfter(m)'
      BY <1>6, <1>8, <2>2 DEF Known
    <3>3. QED
      BY <1>7, <1>8, <3>1, <3>2
  <2>3. QED
    BY <2>1, <2>2
<1>9. CASE Changed
  <2>1. /\ Changes(h, id)' \subseteq 1..n /\ n \in Nat /\ n \in Changes(h, id)'
    BY <1>3, <1>6, <1>9, ChangesAreDone
  <2>2. Max(Changes(h, id)') = n
    <3>1. Max(Changes(h, id)') \in 1..n /\ n <= Max(Changes(h, id)')
      BY <2>1, MaxIsIn
    <3>2. QED
      BY <2>1, <3>1
  <2>3. Known(h, id)' = SizeAfter(n)'
    BY <2>1, <2>2 DEF Known
  <2>4. Event.op = "NEW" => Ack.remaining_qty = res.remainingQty
    BY DEF Ack
  <2>5. SizeAfter(n)' = CASE Event.op = "NEW"    -> res.remainingQty
                          [] Event.op = "MODIFY" -> Event.volume
                          [] Event.op = "CANCEL" -> 0
    BY <1>1, <1>3, <2>4 DEF SizeAfter
  <2>6. QED
    BY <1>9, <2>3, <2>5
<1>10. QED
  BY <1>8, <1>9

\* Two events that were handed over for one order are of one gateway.
LEMMA PendingIsOwn ==
  ASSUME CoreInv, IdsInv, CallsInv, NEW a \in DOMAIN order, NEW g, order[a].orderID \in Placed(g),
         Pending(a)
  PROVE  Event.gateway = g
<1>1. /\ read_p + 1 \in DOMAIN inbound /\ Event = inbound[read_p + 1]
      /\ Event.id = order[a].orderID
  BY RingEvents DEF Pending, Event
<1>2. QED
  BY <1>1, OwnerCalls

\* An order that rests was put in by the gateway that has placed it, however many events
\* are put in behind it.
LEMMA RestingWasPlaced ==
  ASSUME CoreInv, IdsInv', UsedInv, [Next]_system, NEW a \in DOMAIN order, NEW g,
         NEW id, id = order[a].orderID, id \in Placed(g)'
  PROVE  id \in Placed(g)
<1>1. CASE UNCHANGED inbound
  BY <1>1 DEF Placed, Range
<1>2. ASSUME NEW e, inbound' = Append(inbound, e)
      PROVE  id \in Placed(g)
  <2>1. /\ \A k \in 1..Len(inbound) : inbound'[k] = inbound[k] /\ k \in 1..Len(inbound) + 1
        /\ DOMAIN inbound' = 1..Len(inbound) + 1 /\ Len(inbound) \in Nat
    BY <1>2, PutBehind, RingEvents
  <2>2. id \in usedIds
    BY DEF UsedInv, B!IndexInv, B!IdsInUse
  <2>3. PICK k \in 1..Taken : IsNew(k) /\ inbound[k].id = id
    BY <2>2 DEF UsedInv, UsedAreTaken
  <2>4. k \in 1..Len(inbound)
    BY TakenInRing
  <2>5. PICK x \in DOMAIN inbound' : /\ inbound'[x].op = "NEW" /\ inbound'[x].gateway = g
                                     /\ inbound'[x].id = id
    BY DEF Placed, Range
  <2>6. x = k
    BY <2>1, <2>3, <2>4, <2>5 DEF IdsInv, IsNew
  <2>7. QED
    BY <2>1, <2>3, <2>4, <2>5, <2>6, PlacedIs
<1>3. QED
  BY <1>1, <1>2, TakenGrows DEF Next, Call, Begin, GoOn, Mint, PlaceLive, PlaceReplay, Cancel,
     Modify, Post, PollAgain, system, calls

\* An order that is modified has the new size.
LEMMA ModifySets ==
  ASSUME BookInv, B!IndexInv, NEW id \in Ids, NEW n \in Volumes,
         B!ModifyRejected(id, n) \/ B!ModifyReduced(id, n), ok',
         NEW x \in DOMAIN order', order'[x].orderID = id
  PROVE  order'[x].volume = n
<1>1. B!ModifyReduced(id, n)
  BY DEF B!ModifyRejected
<1>2. /\ B!BookInv /\ \A a \in DOMAIN order : global_map[order[a].orderID] = a
  BY DEF BookInv, B!Inv, B!IndexInv, B!IndexComplete
<1>3. /\ global_map[id] \in DOMAIN order
      /\ B!Resized(global_map[id], n)
  BY <1>1, <1>2, B!ModifyResizes, BookAssumption, LimitsAssumption
<1>4. /\ order' = [order EXCEPT ![global_map[id]].volume = n]
      /\ \A y \in DOMAIN order : DOMAIN order[y] = {"price", "volume", "orderID", "side", "next", "prev"}
  BY <1>2, <1>3 DEF B!Resized, B!BookInv, B!BookTypeOK
<1>5. x \in DOMAIN order /\ order'[x].orderID = order[x].orderID
  BY <1>3, <1>4
<1>6. x = global_map[id]
  BY <1>2, <1>5
<1>7. QED
  BY <1>3, <1>4, <1>6

\* The engine takes an event: what it changes, its gateway is about to be told.
LEMMA TakeKeepsKnown ==
  ASSUME SystemInv, IdsInv, CallsInv, UsedInv, GoneInv, KnownInv, Take, GoneInv', CoreInv'
  PROVE  KnownInv'
<1>1. /\ engine = "poll" /\ engine' = "busy" /\ read_p < Len(inbound) /\ Taken' = read_p + 1
      /\ UNCHANGED <<inbound, internal_id_counter, minting, read_p, outbound>>
      /\ Event \in Events /\ Event.id \in Ids /\ Book!Idle /\ read_p \in Nat
      /\ Event' = Event /\ Event = inbound[read_p + 1]
      /\ CoreInv /\ BookInv /\ B!IndexInv /\ [B!Next]_B!vars
      /\ Event.op \in {"NEW", "CANCEL", "MODIFY"}
  <2>1. CoreInv /\ BookInv /\ B!IndexInv
    BY DEF SystemInv, CoreInv, UsedInv
  <2>2. Taken' = read_p + 1 /\ [B!Next]_B!vars
    BY <2>1, TakeIs, EngineBook DEF Engine, Taken
  <2>3. QED
    BY <2>1, <2>2, TakeIs, EventFields, RingEvents DEF Event
<1> SUFFICES ASSUME NEW x \in DOMAIN order', NEW g \in Noisy, NEW id, id = order'[x].orderID,
                    id \in Placed(g)'
             PROVE  IF Pending(x)'
                      THEN /\ Event.op # "CANCEL"
                           /\ order'[x].volume <= IF Event.op = "NEW" THEN res'.remainingQty
                                                                      ELSE Event.volume
                      ELSE order'[x].volume <= Known(g, id)'
  BY <1>1 DEF KnownInv
<1>2. /\ x \in DOMAIN order /\ id = order[x].orderID /\ order'[x].volume <= order[x].volume
  BY <1>1, RestingBefore
<1>3. id \in Placed(g)
  BY <1>1 DEF Placed, Range
<1>4. order[x].volume <= Known(g, id)
  BY <1>1, <1>2, <1>3 DEF KnownInv, Pending
<1>5. Known(g, id)' = Known(g, id)
  <2>1. Done(g)' = Done(g) /\ \A k : Answer(k)' = Answer(k) /\ inbound'[k] = inbound[k]
    BY <1>1 DEF Done, Answer, Calls
  <2>2. QED
    BY <1>1, <2>1, KnownStays
<1>6. order'[x].volume <= Known(g, id)'
  <2>1. order[x].volume \in Int /\ Known(g, id) \in Int
    BY <1>1, <1>2, VolumeType, KnownType
  <2>2. order'[x].volume \in Int
    BY DEF CoreInv, TypeOK, Book!TypeOK, Book!BookTypeOK
  <2>3. QED
    BY <1>2, <1>4, <1>5, <2>1, <2>2
<1>7. CASE Pending(x)'
  <2>1. Event.id = id /\ (Event.op = "NEW" \/ ok')
    BY <1>1, <1>7 DEF Pending
  <2>2. Event.op # "NEW"
    <3>1. id \in usedIds
      BY <1>1, <1>2 DEF B!IndexInv, B!IdsInUse
    <3>2. QED
      BY <1>1, <2>1, <3>1, TakenIsFresh
  <2>3. Event.op # "CANCEL"
    BY <1>1, <2>1 DEF GoneInv
  <2>4. B!ModifyRejected(Event.id, Event.volume) \/ B!ModifyReduced(Event.id, Event.volume)
    BY <1>1, <2>2, <2>3, TakeIs
  <2>5. Event.volume \in Volumes
    BY <1>1, <2>2, <2>3, EventFields
  <2>6. order'[x].volume = Event.volume
    BY <1>1, <2>1, <2>2, <2>4, <2>5, ModifySets
  <2>7. order'[x].volume \in Int
    BY <2>5, <2>6, BookAssumption
  <2>8. QED
    BY <1>7, <2>2, <2>3, <2>6, <2>7
<1>8. QED
  BY <1>6, <1>7

\* What is left of an order that was matched comes to rest with the volume its answer
\* says remains; the others have no more than before.
LEMMA MatchKeepsKnown ==
  ASSUME SystemInv, UsedInv, KnownInv, Match, CoreInv'
  PROVE  KnownInv'
<1>1. /\ UNCHANGED <<inbound, read_p, engine, outbound>> /\ Event' = Event
      /\ CoreInv /\ BookInv /\ B!IndexInv /\ [B!Next]_B!vars
      /\ ~Book!Idle /\ engine = "busy" /\ Event.op = "NEW" /\ taker.orderID = Event.id
      /\ (Book!Idle <=> B!Idle)
  <2>1. CoreInv /\ BookInv /\ B!IndexInv
    BY DEF SystemInv, CoreInv, UsedInv
  <2>2. UNCHANGED <<inbound, read_p, engine, outbound>> /\ Book!MatchStep
    BY DEF Match, calls
  <2>3. ~Book!Idle
    BY <2>1, <2>2, MatchAnswers DEF CoreInv, TypeOK
  <2>4. [B!Next]_B!vars
    BY <2>1, EngineBook DEF Engine
  <2>5. QED
    BY <2>1, <2>2, <2>3, <2>4, BookCalls DEF Event, CoreInv, BusyInv
<1> SUFFICES ASSUME NEW x \in DOMAIN order', NEW g \in Noisy, NEW id, id = order'[x].orderID,
                    id \in Placed(g)'
             PROVE  IF Pending(x)'
                      THEN order'[x].volume <= res'.remainingQty
                      ELSE order'[x].volume <= Known(g, id)'
  BY <1>1 DEF KnownInv
<1>2. Pending(x)' <=> Event.id = id
  BY <1>1 DEF Pending
<1>3. CASE /\ x \in DOMAIN order /\ order'[x].orderID = order[x].orderID
           /\ order'[x].volume <= order[x].volume
  <2>1. Event.id # id
    BY <1>1, <1>3 DEF B!IndexInv, B!IdsInUse
  <2>2. id \in Placed(g)
    BY <1>1 DEF Placed, Range
  <2>3. order[x].volume <= Known(g, id)
    BY <1>3, <2>1, <2>2 DEF KnownInv, Pending
  <2>4. Known(g, id)' = Known(g, id)
    <3>1. Done(g)' = Done(g) /\ \A k : Answer(k)' = Answer(k) /\ inbound'[k] = inbound[k]
      BY <1>1 DEF Done, Answer, Calls
    <3>2. QED
      BY <1>1, <3>1, KnownStays
  <2>5. order[x].volume \in Int /\ Known(g, id) \in Int /\ order'[x].volume \in Int
    <3>1. order'[x].volume \in Int
      BY DEF CoreInv, TypeOK, Book!TypeOK, Book!BookTypeOK
    <3>2. QED
      BY <1>1, <1>3, <3>1, VolumeType, KnownType
  <2>6. QED
    BY <1>2, <1>3, <2>1, <2>3, <2>4, <2>5
<1>4. CASE /\ res' = res /\ order'[x].orderID = taker.orderID
           /\ order'[x].volume = taker.volume
  <2>1. taker.volume = res.remainingQty
    BY <1>1 DEF BookInv, B!AnswerInv, B!Accounted
  <2>2. res.remainingQty \in Int
    BY <1>1 DEF CoreInv, TypeOK, Book!TypeOK, Book!CallTypeOK
  <2>3. QED
    BY <1>1, <1>2, <1>4, <2>1, <2>2
<1>5. QED
  BY <1>1, <1>3, <1>4, RestingBefore

\* The acknowledgement tells the gateway what was pending.
LEMMA ReleaseKeepsKnown ==
  ASSUME SystemInv, IdsInv, CallsInv, UsedInv, KnownInv, Acknowledge \/ Discard
  PROVE  KnownInv'
<1> SUFFICES ASSUME NEW h, h = Event.gateway, NEW n, n = read_p + 1
             PROVE  KnownInv'
  OBVIOUS
<1>1. /\ UNCHANGED inbound /\ UNCHANGED book /\ UNCHANGED order
      /\ engine = "busy" /\ engine' = "poll" /\ read_p' = read_p + 1
      /\ CoreInv /\ Event \in Events /\ Event.op \in {"NEW", "CANCEL", "MODIFY"}
      /\ \A g \in Gateways \ {h} : Done(g)' = Done(g)
      /\ \A g \in Noisy : g \in Gateways
  <2>1. /\ UNCHANGED inbound /\ UNCHANGED book /\ UNCHANGED order
        /\ engine = "busy" /\ engine' = "poll" /\ read_p' = read_p + 1
    BY DEF Acknowledge, Discard, calls, book
  <2>2. CoreInv
    BY DEF SystemInv
  <2>3. QED
    BY <2>1, <2>2, ReleaseCounts, EventFields, GatewaysAssumption DEF Noisy
<1> SUFFICES ASSUME NEW x \in DOMAIN order, NEW g \in Noisy, NEW id, id = order[x].orderID,
                    id \in Placed(g)
             PROVE  order[x].volume <= Known(g, id)'
  <2>1. \A g : Placed(g)' = Placed(g)
    BY <1>1 DEF Placed, Range
  <2>2. \A x : ~Pending(x)'
    BY <1>1 DEF Pending
  <2>3. QED
    BY <1>1, <2>1, <2>2 DEF KnownInv
<1>2. CASE g # h
  <2>1. ~Pending(x)
    BY <1>1, <1>2, PendingIsOwn
  <2>2. \A k \in Done(g) : Answer(k)' = Answer(k) /\ inbound'[k] = inbound[k]
    <3>1. CASE Acknowledge
      BY <1>1, <3>1, AckArrives
    <3>2. CASE Discard
      BY <1>1, <3>2 DEF Discard, Answer, Calls
    <3>3. QED
      BY <3>1, <3>2
  <2>3. Known(g, id)' = Known(g, id)
    BY <1>1, <1>2, <2>2, KnownStays
  <2>4. QED
    BY <2>1, <2>3 DEF KnownInv
<1>3. CASE g = h
  <2>1. Acknowledge
    <3>1. Event = inbound[read_p + 1] /\ read_p + 1 \in DOMAIN inbound
      BY <1>1, RingEvents DEF Event
    <3>2. ~Event.silent
      BY <1>1, <1>3, <3>1 DEF CoreInv, EventInv
    <3>3. QED
      BY <3>2 DEF Discard
  <2>2. Pending(x) <=> Event.id = id /\ (Event.op = "NEW" \/ ok)
    BY <1>1 DEF Pending
  <2>3. IF Pending(x)
          THEN Known(h, id)' = CASE Event.op = "NEW"    -> res.remainingQty
                                 [] Event.op = "MODIFY" -> Event.volume
                                 [] Event.op = "CANCEL" -> 0
          ELSE Known(h, id)' = Known(h, id)
    BY <1>1, <2>1, <2>2, KnownGrows
  <2>4. CASE Pending(x)
    <3>1. /\ Event.op # "CANCEL"
          /\ order[x].volume <= IF Event.op = "NEW" THEN res.remainingQty ELSE Event.volume
      BY <2>4 DEF KnownInv
    <3>2. QED
      BY <1>1, <1>3, <2>3, <2>4, <3>1
  <2>5. CASE ~Pending(x)
    BY <1>3, <2>3, <2>5 DEF KnownInv
  <2>6. QED
    BY <2>4, <2>5
<1>4. QED
  BY <1>2, <1>3

\* A call tells the engine something, and the gateway nothing.
LEMMA CallKeepsKnown ==
  ASSUME SystemInv, UsedInv, KnownInv, IdsInv', [Next]_system, ~Engine
  PROVE  KnownInv'
<1>1. /\ CoreInv /\ UNCHANGED book /\ UNCHANGED <<order, res, ok>>
      /\ UNCHANGED <<read_p, engine, outbound>>
      /\ \A k \in 1..Taken : inbound'[k] = inbound[k]
      /\ \A g : Done(g)' = Done(g)
      /\ read_p \in Nat
  <2>1. CoreInv
    BY DEF SystemInv
  <2>2. UNCHANGED book
    BY <2>1, TakenStay
  <2>3. QED
    BY <2>1, <2>2, TakenStay, RingEvents DEF book
<1>2. engine = "busy" => Event' = Event
  BY <1>1 DEF Event, Taken
<1>3. \A x : Pending(x)' = Pending(x)
  BY <1>1, <1>2 DEF Pending
<1>4. \A k \in 1..read_p : inbound'[k] = inbound[k]
  BY <1>1 DEF Taken
<1>5. ASSUME NEW g \in Noisy, NEW id
      PROVE  Known(g, id)' = Known(g, id)
  <2>1. ASSUME NEW k \in Done(g)
        PROVE  Answer(k)' = Answer(k) /\ inbound'[k] = inbound[k]
    <3>1. k \in 1..read_p /\ \A j \in 1..k : j \in 1..read_p
      BY <1>1 DEF Done, Calls
    <3>2. QED
      BY <1>1, <1>4, <3>1 DEF Answer, Calls
  <2>2. QED
    BY <1>1, <2>1, KnownStays
<1>6. ASSUME NEW x \in DOMAIN order, NEW g \in Noisy, NEW id, id = order[x].orderID,
             id \in Placed(g)'
      PROVE  id \in Placed(g)
  BY <1>1, <1>6, RestingWasPlaced
<1>7. ASSUME NEW x \in DOMAIN order, NEW g \in Noisy, order[x].orderID \in Placed(g)'
      PROVE  IF Pending(x)
               THEN /\ Event.op # "CANCEL"
                    /\ order[x].volume <= IF Event.op = "NEW" THEN res.remainingQty ELSE Event.volume
               ELSE order[x].volume <= Known(g, order[x].orderID)
  BY <1>6, <1>7 DEF KnownInv
<1>8. ASSUME NEW x \in DOMAIN order', NEW g \in Noisy, NEW id, id = order'[x].orderID,
             id \in Placed(g)'
      PROVE  IF Pending(x)'
               THEN /\ Event'.op # "CANCEL"
                    /\ order'[x].volume <= IF Event'.op = "NEW" THEN res'.remainingQty ELSE Event'.volume
               ELSE order'[x].volume <= Known(g, id)'
  <2>1. Pending(x) => engine = "busy"
    BY DEF Pending
  <2>2. QED
    BY <1>1, <1>2, <1>3, <1>5, <1>7, <1>8, <2>1
<1>9. QED
  BY <1>8 DEF KnownInv

\* The invariant of a system whose ids tell orders apart.
OrdersInv == SystemInv /\ IdsInv /\ CallsInv /\ UsedInv /\ GoneInv /\ KnownInv

LEMMA OrdersStep ==
  ASSUME IdsTellApart, OrdersInv, [Next]_system
  PROVE  OrdersInv'
<1>1. /\ SystemInv /\ IdsInv /\ CallsInv /\ UsedInv /\ GoneInv /\ KnownInv
  BY DEF OrdersInv
<1>2. SystemInv' /\ IdsInv' /\ CallsInv' /\ UsedInv' /\ GoneInv'
  BY <1>1, SystemInvStep, IdsStep, UsedStep, GoneStep
<1>3. CoreInv'
  BY <1>2 DEF SystemInv
<1>4. KnownInv'
  BY <1>1, <1>2, <1>3, TakeKeepsKnown, MatchKeepsKnown, ReleaseKeepsKnown, CallKeepsKnown
     DEF Engine
<1>5. QED
  BY <1>2, <1>4 DEF OrdersInv

\* Gateways, engine and book agree on every order, when ids tell orders apart.
THEOREM OrdersInvHolds == ASSUME IdsTellApart PROVE Spec => []OrdersInv
<1>1. Init => OrdersInv
  <2>1. Init => KnownInv
    BY DEF Init, Book!Init, Book!NoEntries, KnownInv
  <2>2. QED
    BY <2>1, SystemInvInit, OrdersInit DEF OrdersInv
<1>2. OrdersInv /\ [Next]_system => OrdersInv'
  BY OrdersStep
<1>3. QED
  BY <1>1, <1>2, PTL DEF Spec

\* Once a cancel is done nothing rests under its id, when ids tell orders apart.
THEOREM CancelsAreFinal == ASSUME IdsTellApart PROVE Spec => []CancelledIsGone
<1>1. OrdersInv => CancelledIsGone
  BY RingEvents DEF OrdersInv, SystemInv, GoneInv, CancelledIsGone, Taken
<1>2. QED
  BY OrdersInvHolds, <1>1, PTL

\* Between two events no more rests of an order than its gateway can tell from its
\* acknowledgements, when ids tell orders apart.
THEOREM GatewaysKnowTheirOrders == ASSUME IdsTellApart PROVE Spec => []NoMoreRestsThanKnown
<1>1. OrdersInv => NoMoreRestsThanKnown
  BY DEF OrdersInv, KnownInv, NoMoreRestsThanKnown, Pending
<1>2. QED
  BY OrdersInvHolds, <1>1, PTL
=============================================================================
