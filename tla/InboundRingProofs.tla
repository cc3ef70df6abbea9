-------------------------- MODULE InboundRingProofs --------------------------
(***************************************************************************)
(* Theorems about the inbound ring, for any number of producers, slots and *)
(* events.                                                                 *)
(***************************************************************************)
EXTENDS InboundRing, NumberTheorems, TLAPS

-----------------------------------------------------------------------------
(* Indexes: the sequence numbers of one lap have different slots, and the  *)
(* same slot comes back a lap later.                                       *)

\* write_p & mask is an index of the buffer.
LEMMA IndexInRing ==
  ASSUME NEW c \in Nat
  PROVE  Index(c) \in 0..Size - 1 /\ Index(c) \in Int
BY SizeAssumption, RemainderRange DEF Index

\* Two claims less than a lap apart have different slots.
LEMMA IndexInLap ==
  ASSUME NEW c \in Nat, NEW d \in Nat, c < d, d - c < Size
  PROVE  Index(c) # Index(d)
BY SizeAssumption, SameLap DEF Index

\* The claim a lap later has the same slot.
LEMMA IndexNextLap ==
  ASSUME NEW c \in Nat
  PROVE  Index(c + Size) = Index(c)
BY SizeAssumption, NextLap DEF Index

-----------------------------------------------------------------------------
(* The invariant.  The sequence numbers from read_p to read_p + Size - 1   *)
(* are the window the ring stands for: each has a slot for itself.         *)

InWindow(c) == c \in Nat /\ read_p <= c /\ c < read_p + Size
Held(c) == \E p \in Producers : Holding(p) /\ target_seq[p] = c

\* The claims that are not released yet fit in the window, and every one that
\* is held is held once.
WindowInv ==
  /\ read_p <= write_pointer /\ write_pointer <= read_p + Size
  /\ \A p \in Producers : target_seq[p] <= write_pointer
  /\ \A p \in Producers : Holding(p) => read_p <= target_seq[p] /\ target_seq[p] < write_pointer
  /\ \A p, q \in Producers : Holding(p) /\ Holding(q) /\ p # q => target_seq[p] # target_seq[q]

\* A slot is ready exactly when its claim is published, and what a producer saw
\* empty stays empty until it or another one claims it.
ReadyInv ==
  /\ \A c \in Nat : InWindow(c) =>
       (slot[Index(c)].is_ready <=> c < write_pointer /\ ~Held(c))
  /\ \A p \in Producers : pc[p] = "cas" /\ target_seq[p] = write_pointer =>
                          write_pointer < read_p + Size

\* What is written of an event so far is the event.
ContentInv ==
  /\ Len(claimed) = write_pointer
  /\ \A p \in Producers : Holding(p) =>
       /\ claimed[target_seq[p] + 1] = Event(p)
       /\ pc[p] \in {"stamp", "publish"} =>
            slot[Index(target_seq[p])].order = Event(p).order
       /\ pc[p] = "publish" =>
            slot[Index(target_seq[p])].gateway_id = Event(p).gateway_id
  /\ \A c \in Nat : read_p <= c /\ c < write_pointer /\ ~Held(c) =>
       /\ slot[Index(c)].order = claimed[c + 1].order
       /\ slot[Index(c)].gateway_id = claimed[c + 1].gateway_id

\* The engine reads a published event, and has read all the events before it.
EngineInv ==
  /\ engine # "poll" => read_p < write_pointer /\ ~Held(read_p)
  /\ engine = "process" => gid = claimed[read_p + 1].gateway_id
  /\ Len(taken) = IF engine = "release" THEN read_p + 1 ELSE read_p
  /\ \A i \in 1..Len(taken) : taken[i] = claimed[i]

RingInv == TypeOK /\ WindowInv /\ ReadyInv /\ ContentInv /\ EngineInv

\* The empty ring, before anyone has claimed a slot of it.
LEMMA InitRing == Init => RingInv
<1> SUFFICES ASSUME Init
             PROVE  RingInv
  OBVIOUS
<1>1. \A i \in 0..Size - 1 : slot[i].is_ready = FALSE
  BY DEF Init
<1>2. \A p \in Producers : ~Holding(p)
  BY DEF Init, Holding
<1>3. TypeOK
  BY DEF Init, TypeOK, Orders, Gateways
<1>4. WindowInv
  BY <1>2, SizeAssumption DEF Init, WindowInv
<1>5. ReadyInv
  BY <1>1, IndexInRing, SizeAssumption DEF Init, ReadyInv
<1>6. ContentInv /\ EngineInv
  BY <1>2 DEF Init, ContentInv, EngineInv
<1>7. QED
  BY <1>3, <1>4, <1>5, <1>6 DEF RingInv

\* Different sequence numbers of the window have different slots.
LEMMA WindowIndex ==
  ASSUME TypeOK, NEW c, NEW d, InWindow(c), InWindow(d), c # d
  PROVE  Index(c) # Index(d)
<1>1. /\ c \in Nat /\ d \in Nat /\ read_p \in Nat /\ Size \in Nat
      /\ read_p <= c /\ c < read_p + Size
      /\ read_p <= d /\ d < read_p + Size
  BY SizeAssumption DEF InWindow, TypeOK
<1>2. CASE c < d
  BY <1>1, <1>2, IndexInLap
<1>3. CASE d < c
  BY <1>1, <1>3, IndexInLap
<1>4. QED
  BY <1>1, <1>2, <1>3

\* The steps of claim() that touch nothing but the caller's own variables.
LEMMA SearchStep ==
  ASSUME RingInv, NEW p \in Producers, ~Holding(p),
         UNCHANGED <<write_pointer, slot, sent, claimed, consumer>>,
         NEW l \in {"load", "check", "cas"}, pc' = [pc EXCEPT ![p] = l],
         NEW t \in Nat, t <= write_pointer, target_seq' = [target_seq EXCEPT ![p] = t],
         l = "cas" /\ t = write_pointer => write_pointer < read_p + Size
  PROVE  RingInv'
<1> USE DEF RingInv
<1>1. UNCHANGED <<read_p, engine, gid, taken>>
  BY DEF consumer
<1>2. /\ \A q \in Producers : pc'[q] = IF q = p THEN l ELSE pc[q]
      /\ \A q \in Producers : target_seq'[q] = IF q = p THEN t ELSE target_seq[q]
  BY DEF TypeOK
<1>3. /\ \A q \in Producers : Holding(q)' <=> Holding(q)
      /\ \A q \in Producers : Holding(q) => /\ q # p
                                            /\ pc'[q] = pc[q]
                                            /\ target_seq'[q] = target_seq[q]
  BY <1>2 DEF Holding
<1>4. \A c : Held(c)' <=> Held(c)
  <2> SUFFICES ASSUME NEW c
               PROVE  Held(c)' <=> Held(c)
    OBVIOUS
  <2>1. Held(c) <=> \E q \in Producers : Holding(q) /\ target_seq[q] = c
    BY DEF Held
  <2>2. Held(c)' <=> \E q \in Producers : Holding(q)' /\ target_seq'[q] = c
    BY DEF Held
  <2>3. QED
    BY <1>3, <2>1, <2>2
<1>5. \A q \in Producers : Event(q)' = Event(q)
  BY DEF Event
<1>6. TypeOK'
  BY <1>1 DEF TypeOK, Orders, Gateways
<1>7. WindowInv'
  <2>1. \A q \in Producers : target_seq'[q] <= write_pointer'
    BY <1>2 DEF WindowInv
  <2>2. \A q \in Producers : Holding(q)' => /\ read_p' <= target_seq'[q]
                                            /\ target_seq'[q] < write_pointer'
    BY <1>1, <1>3 DEF WindowInv
  <2>3. \A q, r \in Producers : Holding(q)' /\ Holding(r)' /\ q # r =>
                                target_seq'[q] # target_seq'[r]
    BY <1>3 DEF WindowInv
  <2>4. QED
    BY <1>1, <2>1, <2>2, <2>3 DEF WindowInv
<1>8. ReadyInv'
  BY <1>1, <1>2, <1>4 DEF ReadyInv, InWindow
<1>9. ContentInv'
  <2>1. ASSUME NEW q \in Producers, Holding(q)'
        PROVE  /\ claimed'[target_seq'[q] + 1] = Event(q)'
               /\ pc'[q] \in {"stamp", "publish"} =>
                    slot'[Index(target_seq'[q])].order = Event(q).order'
               /\ pc'[q] = "publish" =>
                    slot'[Index(target_seq'[q])].gateway_id = Event(q).gateway_id'
    <3>1. Holding(q) /\ pc'[q] = pc[q] /\ target_seq'[q] = target_seq[q]
      BY <1>3, <2>1
    <3>2. QED
      BY <1>5, <3>1 DEF ContentInv
  <2>2. \A c \in Nat : read_p' <= c /\ c < write_pointer' /\ ~Held(c)' =>
          /\ slot'[Index(c)].order = claimed'[c + 1].order
          /\ slot'[Index(c)].gateway_id = claimed'[c + 1].gateway_id
    BY <1>1, <1>4 DEF ContentInv
  <2>3. QED
    BY <2>1, <2>2 DEF ContentInv
<1>10. EngineInv'
  BY <1>1, <1>4 DEF EngineInv
<1>11. QED
  BY <1>6, <1>7, <1>8, <1>9, <1>10

\* A slot that is seen empty while no claim is overtaken is free.
LEMMA SeenEmptyIsFree ==
  ASSUME RingInv, Timely, NEW p \in Producers, SeeEmpty(p), target_seq[p] = write_pointer
  PROVE  write_pointer < read_p + Size
<1> SUFFICES ASSUME write_pointer = read_p + Size
             PROVE  FALSE
  BY SizeAssumption DEF RingInv, WindowInv, TypeOK
<1>1. /\ read_p \in Nat /\ Size \in Nat /\ Size > 0
      /\ InWindow(read_p) /\ read_p < write_pointer
  BY SizeAssumption DEF RingInv, TypeOK, InWindow
<1>2. Index(write_pointer) = Index(read_p)
  BY <1>1, IndexNextLap
<1>3. ~slot[Index(read_p)].is_ready
  BY <1>2 DEF SeeEmpty
<1>4. Held(read_p)
  BY <1>1, <1>3 DEF RingInv, ReadyInv
<1>5. PICK q \in Producers : Holding(q) /\ target_seq[q] = read_p
  BY <1>4 DEF Held
<1>6. write_pointer - read_p < Size
  BY <1>5 DEF Timely
<1>7. QED
  BY <1>1, <1>6

\* The CAS that succeeds gives the producer a slot of the window that nobody
\* holds, and the last sequence number of all.
LEMMA ClaimStep ==
  ASSUME RingInv, NEW p \in Producers, Claim(p)
  PROVE  RingInv'
<1> USE DEF RingInv
<1> SUFFICES ASSUME NEW w, w = write_pointer
             PROVE  RingInv'
  OBVIOUS
<1>1. /\ UNCHANGED <<slot, target_seq, sent, read_p, engine, gid, taken>>
      /\ w \in Nat /\ write_pointer' = w + 1 /\ target_seq[p] = w
      /\ ~Holding(p)
  BY DEF Claim, consumer, Holding, TypeOK
<1>2. /\ \A q \in Producers : pc'[q] = IF q = p THEN "fill" ELSE pc[q]
      /\ \A q \in Producers : Holding(q)' <=> Holding(q) \/ q = p
      /\ pc' \in [Producers -> {"load", "check", "cas", "fill", "stamp", "publish"}]
  BY DEF Claim, Holding, TypeOK
<1>3. \A c : Held(c)' <=> Held(c) \/ c = w
  BY <1>1, <1>2 DEF Held
<1>4. ~Held(w)
  BY <1>1 DEF Held, WindowInv, TypeOK
<1>5. w < read_p + Size /\ read_p <= w
  BY <1>1 DEF Claim, ReadyInv, WindowInv
<1>6. \A q \in Producers : Event(q)' = Event(q)
  BY <1>1 DEF Event
<1>7. Event(p) \in [order : Orders, gateway_id : Gateways]
  BY DEF Event, TypeOK, Orders, Gateways
<1>8. /\ claimed' \in Seq([order : Orders, gateway_id : Gateways])
      /\ Len(claimed') = w + 1
      /\ claimed'[w + 1] = Event(p)
      /\ \A i \in 1..w : claimed'[i] = claimed[i]
  BY <1>1, <1>7 DEF Claim, ContentInv, TypeOK
<1>9. TypeOK'
  BY <1>1, <1>2, <1>8 DEF TypeOK, Orders, Gateways
<1>10. WindowInv'
  BY <1>1, <1>2, <1>5, SizeAssumption DEF WindowInv, TypeOK
<1>11. ReadyInv'
  <2>1. ASSUME NEW c \in Nat, InWindow(c)'
        PROVE  slot'[Index(c)].is_ready <=> c < write_pointer' /\ ~Held(c)'
    <3>1. InWindow(c)
      BY <1>1, <2>1 DEF InWindow
    <3>2. slot[Index(c)].is_ready <=> c < w /\ ~Held(c)
      BY <3>1 DEF ReadyInv
    <3>3. QED
      BY <1>1, <1>3, <1>4, <3>2
  <2>2. \A q \in Producers : ~(pc'[q] = "cas" /\ target_seq'[q] = write_pointer')
    BY <1>1, <1>2 DEF WindowInv, TypeOK
  <2>3. QED
    BY <2>1, <2>2 DEF ReadyInv
<1>12. ContentInv'
  <2>1. ASSUME NEW q \in Producers, Holding(q)'
        PROVE  /\ claimed'[target_seq'[q] + 1] = Event(q)'
               /\ pc'[q] \in {"stamp", "publish"} =>
                    slot'[Index(target_seq'[q])].order = Event(q).order'
               /\ pc'[q] = "publish" =>
                    slot'[Index(target_seq'[q])].gateway_id = Event(q).gateway_id'
    <3>1. CASE q = p
      BY <1>1, <1>2, <1>6, <1>8, <3>1
    <3>2. CASE q # p
      <4>1. Holding(q) /\ target_seq[q] \in Nat /\ target_seq[q] < w
        BY <1>1, <1>2, <2>1, <3>2 DEF WindowInv, TypeOK
      <4>2. claimed'[target_seq[q] + 1] = claimed[target_seq[q] + 1]
        BY <1>1, <1>8, <4>1
      <4>3. QED
        BY <1>1, <1>2, <1>6, <3>2, <4>1, <4>2 DEF ContentInv
    <3>3. QED
      BY <3>1, <3>2
  <2>2. ASSUME NEW c \in Nat, read_p' <= c, c < write_pointer', ~Held(c)'
        PROVE  /\ slot'[Index(c)].order = claimed'[c + 1].order
               /\ slot'[Index(c)].gateway_id = claimed'[c + 1].gateway_id
    <3>1. read_p <= c /\ c < w /\ ~Held(c)
      BY <1>1, <1>3, <2>2
    <3>2. claimed'[c + 1] = claimed[c + 1]
      BY <1>1, <1>8, <3>1
    <3>3. QED
      BY <1>1, <3>1, <3>2 DEF ContentInv
  <2>3. QED
    BY <1>1, <1>8, <2>1, <2>2 DEF ContentInv
<1>13. EngineInv'
  <2>1. engine # "poll" => read_p < w /\ ~Held(read_p)
    BY <1>1 DEF EngineInv
  <2>2. read_p \in Nat /\ Len(taken) \in Nat
    BY DEF TypeOK
  <2>3. read_p < w => claimed'[read_p + 1] = claimed[read_p + 1]
    BY <1>1, <1>8, <2>2
  <2>4. Len(taken) <= w
    BY <1>1, <1>5, <2>1, <2>2 DEF EngineInv
  <2>5. \A i \in 1..Len(taken) : taken[i] = claimed'[i]
    BY <1>1, <1>8, <2>2, <2>4 DEF EngineInv
  <2>6. QED
    BY <1>1, <1>3, <2>1, <2>2, <2>3, <2>5 DEF EngineInv
<1>14. QED
  BY <1>9, <1>10, <1>11, <1>12, <1>13

\* A producer that holds a slot holds one of the window, and no other producer's.
LEMMA HolderSlot ==
  ASSUME RingInv, NEW p \in Producers, Holding(p)
  PROVE  /\ target_seq[p] \in Nat /\ InWindow(target_seq[p]) /\ target_seq[p] < write_pointer
         /\ Index(target_seq[p]) \in 0..Size - 1
         /\ ~slot[Index(target_seq[p])].is_ready
         /\ \A c \in Nat : InWindow(c) /\ c # target_seq[p] => Index(c) # Index(target_seq[p])
         /\ \A q \in Producers : Holding(q) /\ q # p =>
              Index(target_seq[q]) # Index(target_seq[p])
<1> USE DEF RingInv
<1>1. target_seq[p] \in Nat /\ InWindow(target_seq[p]) /\ target_seq[p] < write_pointer
  BY SizeAssumption DEF WindowInv, InWindow, TypeOK
<1>2. Index(target_seq[p]) \in 0..Size - 1
  BY <1>1, IndexInRing
<1>3. ~slot[Index(target_seq[p])].is_ready
  BY <1>1 DEF ReadyInv, Held
<1>4. \A c \in Nat : InWindow(c) /\ c # target_seq[p] => Index(c) # Index(target_seq[p])
  BY <1>1, WindowIndex
<1>5. ASSUME NEW q \in Producers, Holding(q), q # p
      PROVE  Index(target_seq[q]) # Index(target_seq[p])
  <2>1. target_seq[q] \in Nat /\ InWindow(target_seq[q]) /\ target_seq[q] # target_seq[p]
    BY <1>5, SizeAssumption DEF WindowInv, InWindow, TypeOK
  <2>2. QED
    BY <1>4, <2>1
<1>6. QED
  BY <1>1, <1>2, <1>3, <1>4, <1>5

\* A producer writes half of its event into the slot it holds.
LEMMA WriteStep ==
  ASSUME RingInv, NEW p \in Producers, Fill(p) \/ Stamp(p)
  PROVE  RingInv'
<1> USE DEF RingInv
<1> SUFFICES ASSUME NEW k, k = Index(target_seq[p])
             PROVE  RingInv'
  OBVIOUS
<1>1. /\ UNCHANGED <<write_pointer, target_seq, sent, claimed, read_p, engine, gid, taken>>
      /\ Holding(p)
  BY DEF Fill, Stamp, consumer, Holding
<1>2. /\ \A q \in Producers \ {p} : pc'[q] = pc[q]
      /\ \A q \in Producers : Holding(q)' <=> Holding(q)
      /\ pc' \in [Producers -> {"load", "check", "cas", "fill", "stamp", "publish"}]
      /\ \A q \in Producers : pc'[q] = "cas" => pc[q] = "cas"
      /\ pc'[p] = IF pc[p] = "fill" THEN "stamp" ELSE "publish"
  BY DEF Fill, Stamp, Holding, TypeOK
<1>3. \A c : Held(c)' <=> Held(c)
  BY <1>1, <1>2 DEF Held
<1>4. \A q \in Producers : Event(q)' = Event(q)
  BY <1>1 DEF Event
<1>5. k \in 0..Size - 1 /\ \A c \in Nat : InWindow(c) /\ c # target_seq[p] => Index(c) # k
  BY <1>1, HolderSlot
<1>6. Event(p).order \in Orders /\ Event(p).gateway_id \in Gateways
  BY DEF Event, Orders, Gateways, TypeOK
<1>7. /\ slot' \in [0..Size - 1 -> [order : Orders, gateway_id : Gateways, is_ready : BOOLEAN]]
      /\ \A i \in 0..Size - 1 : slot'[i].is_ready = slot[i].is_ready
      /\ \A i \in 0..Size - 1 : i # k => slot'[i] = slot[i]
      /\ pc[p] = "fill" => slot'[k].order = Event(p).order
      /\ pc[p] = "stamp" => /\ slot'[k].gateway_id = Event(p).gateway_id
                            /\ slot'[k].order = slot[k].order
  <2>1. CASE Fill(p)
    <3>1. slot' = [slot EXCEPT ![k].order = Event(p).order] /\ pc[p] = "fill"
      BY <2>1 DEF Fill
    <3>2. QED
      BY <1>5, <1>6, <3>1 DEF TypeOK
  <2>2. CASE Stamp(p)
    <3>1. slot' = [slot EXCEPT ![k].gateway_id = Event(p).gateway_id] /\ pc[p] = "stamp"
      BY <2>2 DEF Stamp
    <3>2. QED
      BY <1>5, <1>6, <3>1 DEF TypeOK
  <2>3. QED
    BY <2>1, <2>2
<1>8. TypeOK'
  BY <1>1, <1>2, <1>7 DEF TypeOK, Orders, Gateways
<1>9. WindowInv'
  BY <1>1, <1>2 DEF WindowInv
<1>10. ReadyInv'
  <2>1. \A c \in Nat : slot'[Index(c)].is_ready = slot[Index(c)].is_ready
    BY <1>7, IndexInRing
  <2>2. QED
    BY <1>1, <1>2, <1>3, <2>1 DEF ReadyInv, InWindow
<1>11. ContentInv'
  <2>1. ASSUME NEW q \in Producers, Holding(q)'
        PROVE  /\ claimed'[target_seq'[q] + 1] = Event(q)'
               /\ pc'[q] \in {"stamp", "publish"} =>
                    slot'[Index(target_seq'[q])].order = Event(q).order'
               /\ pc'[q] = "publish" =>
                    slot'[Index(target_seq'[q])].gateway_id = Event(q).gateway_id'
    <3>1. Holding(q) /\ target_seq'[q] = target_seq[q] /\ claimed' = claimed
      BY <1>1, <1>2, <2>1
    <3>2. CASE q = p
      <4>1. pc[p] \in {"fill", "stamp"}
        BY DEF Fill, Stamp
      <4>2. QED
        BY <1>2, <1>4, <1>7, <3>1, <3>2, <4>1 DEF ContentInv
    <3>3. CASE q # p
      <4>1. /\ pc'[q] = pc[q]
            /\ Index(target_seq[q]) # k /\ Index(target_seq[q]) \in 0..Size - 1
        BY <1>1, <1>2, <3>1, <3>3, HolderSlot
      <4>2. slot'[Index(target_seq[q])] = slot[Index(target_seq[q])]
        BY <1>7, <4>1
      <4>3. QED
        BY <1>4, <3>1, <4>1, <4>2 DEF ContentInv
    <3>4. QED
      BY <3>2, <3>3
  <2>2. ASSUME NEW c \in Nat, read_p' <= c, c < write_pointer', ~Held(c)'
        PROVE  /\ slot'[Index(c)].order = claimed'[c + 1].order
               /\ slot'[Index(c)].gateway_id = claimed'[c + 1].gateway_id
    <3>1. read_p <= c /\ c < write_pointer /\ ~Held(c)
      BY <1>1, <1>3, <2>2
    <3>2. c # target_seq[p] /\ InWindow(c)
      BY <1>1, <3>1, SizeAssumption DEF Held, InWindow, WindowInv, TypeOK
    <3>3. slot'[Index(c)] = slot[Index(c)]
      BY <1>5, <1>7, <3>2, IndexInRing
    <3>4. QED
      BY <1>1, <3>1, <3>3 DEF ContentInv
  <2>3. QED
    BY <1>1, <2>1, <2>2 DEF ContentInv
<1>12. EngineInv'
  BY <1>1, <1>3 DEF EngineInv
<1>13. QED
  BY <1>8, <1>9, <1>10, <1>11, <1>12

\* publish() makes the slot ready with the whole event in it, and its holder gives it up.
LEMMA PublishStep ==
  ASSUME RingInv, NEW p \in Producers, Publish(p)
  PROVE  RingInv'
<1> USE DEF RingInv
<1> SUFFICES ASSUME NEW t, t = target_seq[p], NEW k, k = Index(t)
             PROVE  RingInv'
  OBVIOUS
<1>1. /\ UNCHANGED <<write_pointer, target_seq, claimed, read_p, engine, gid, taken>>
      /\ Holding(p) /\ pc[p] = "publish"
  BY DEF Publish, consumer, Holding
<1>2. /\ \A q \in Producers : pc'[q] = IF q = p THEN "load" ELSE pc[q]
      /\ \A q \in Producers : Holding(q)' <=> Holding(q) /\ q # p
      /\ pc' \in [Producers -> {"load", "check", "cas", "fill", "stamp", "publish"}]
  BY DEF Publish, Holding, TypeOK
<1>3. \A c : Held(c)' <=> Held(c) /\ c # t
  <2> SUFFICES ASSUME NEW c
               PROVE  Held(c)' <=> Held(c) /\ c # t
    OBVIOUS
  <2>1. Held(c) <=> \E q \in Producers : Holding(q) /\ target_seq[q] = c
    BY DEF Held
  <2>2. Held(c)' <=> \E q \in Producers : Holding(q)' /\ target_seq'[q] = c
    BY DEF Held
  <2>3. QED
    BY <1>1, <1>2, <2>1, <2>2 DEF WindowInv
<1>4. \A q \in Producers : q # p => Event(q)' = Event(q)
  BY DEF Event, Publish, TypeOK
<1>5. /\ t \in Nat /\ t < write_pointer /\ InWindow(t)
      /\ k \in 0..Size - 1
      /\ \A c \in Nat : InWindow(c) /\ c # t => Index(c) # k
  BY <1>1, HolderSlot
<1>6. /\ slot' \in [0..Size - 1 -> [order : Orders, gateway_id : Gateways, is_ready : BOOLEAN]]
      /\ \A i \in 0..Size - 1 : /\ slot'[i].order = slot[i].order
                                /\ slot'[i].gateway_id = slot[i].gateway_id
      /\ \A i \in 0..Size - 1 : i # k => slot'[i].is_ready = slot[i].is_ready
      /\ slot'[k].is_ready
  <2>1. slot' = [slot EXCEPT ![k].is_ready = TRUE]
    BY DEF Publish
  <2>2. QED
    BY <1>5, <2>1 DEF TypeOK
<1>7. TypeOK'
  BY <1>1, <1>2, <1>6 DEF TypeOK, Orders, Gateways, Publish
<1>8. WindowInv'
  <2>1. \A q \in Producers : target_seq'[q] <= write_pointer'
    BY <1>1 DEF WindowInv
  <2>2. \A q \in Producers : Holding(q)' => /\ read_p' <= target_seq'[q]
                                            /\ target_seq'[q] < write_pointer'
    BY <1>1, <1>2 DEF WindowInv
  <2>3. \A q, r \in Producers : Holding(q)' /\ Holding(r)' /\ q # r =>
                                target_seq'[q] # target_seq'[r]
    BY <1>1, <1>2 DEF WindowInv
  <2>4. QED
    BY <1>1, <2>1, <2>2, <2>3 DEF WindowInv
<1>9. ReadyInv'
  <2>1. ASSUME NEW c \in Nat, InWindow(c)'
        PROVE  slot'[Index(c)].is_ready <=> c < write_pointer' /\ ~Held(c)'
    <3>1. InWindow(c) /\ Index(c) \in 0..Size - 1
      BY <1>1, <2>1, IndexInRing DEF InWindow
    <3>2. CASE c = t
      BY <1>1, <1>3, <1>5, <1>6, <3>2
    <3>3. CASE c # t
      <4>1. slot'[Index(c)].is_ready = slot[Index(c)].is_ready
        BY <1>5, <1>6, <3>1, <3>3
      <4>2. QED
        BY <1>1, <1>3, <3>1, <3>3, <4>1 DEF ReadyInv
    <3>4. QED
      BY <3>2, <3>3
  <2>2. \A q \in Producers : pc'[q] = "cas" => pc[q] = "cas"
    BY <1>2
  <2>3. QED
    BY <1>1, <2>1, <2>2 DEF ReadyInv
<1>10. ContentInv'
  <2>1. ASSUME NEW q \in Producers, Holding(q)'
        PROVE  /\ claimed'[target_seq'[q] + 1] = Event(q)'
               /\ pc'[q] \in {"stamp", "publish"} =>
                    slot'[Index(target_seq'[q])].order = Event(q).order'
               /\ pc'[q] = "publish" =>
                    slot'[Index(target_seq'[q])].gateway_id = Event(q).gateway_id'
    <3>1. Holding(q) /\ q # p /\ pc'[q] = pc[q] /\ Index(target_seq[q]) \in 0..Size - 1
      BY <1>2, <2>1, HolderSlot
    <3>2. Event(q)' = Event(q) /\ target_seq'[q] = target_seq[q] /\ claimed' = claimed
      BY <1>1, <1>4, <3>1
    <3>3. /\ slot'[Index(target_seq[q])].order = slot[Index(target_seq[q])].order
          /\ slot'[Index(target_seq[q])].gateway_id = slot[Index(target_seq[q])].gateway_id
      BY <1>6, <3>1
    <3>4. QED
      BY <3>1, <3>2, <3>3 DEF ContentInv
  <2>2. ASSUME NEW c \in Nat, read_p' <= c, c < write_pointer', ~Held(c)'
        PROVE  /\ slot'[Index(c)].order = claimed'[c + 1].order
               /\ slot'[Index(c)].gateway_id = claimed'[c + 1].gateway_id
    <3>1. /\ slot'[Index(c)].order = slot[Index(c)].order
          /\ slot'[Index(c)].gateway_id = slot[Index(c)].gateway_id
      BY <1>6, IndexInRing
    <3>2. CASE c = t
      <4>1. claimed[t + 1] = Event(p) /\ slot[k].order = Event(p).order
              /\ slot[k].gateway_id = Event(p).gateway_id
        BY <1>1 DEF ContentInv
      <4>2. QED
        BY <1>1, <3>1, <3>2, <4>1
    <3>3. CASE c # t
      <4>1. read_p <= c /\ c < write_pointer /\ ~Held(c)
        BY <1>1, <1>3, <2>2, <3>3
      <4>2. QED
        BY <1>1, <3>1, <4>1 DEF ContentInv
    <3>4. QED
      BY <3>2, <3>3
  <2>3. QED
    BY <1>1, <2>1, <2>2 DEF ContentInv
<1>11. EngineInv'
  BY <1>1, <1>3 DEF EngineInv
<1>12. QED
  BY <1>7, <1>8, <1>9, <1>10, <1>11

\* The engine looks at the next event, and reads it half by half.
LEMMA ReadStep ==
  ASSUME RingInv, Poll \/ Route \/ Process
  PROVE  RingInv'
<1> USE DEF RingInv
<1>1. UNCHANGED <<write_pointer, slot, pc, target_seq, sent, claimed, read_p>>
  BY DEF Poll, Route, Process, producers
<1>2. /\ \A q \in Producers : Holding(q)' <=> Holding(q)
      /\ \A q \in Producers : Event(q)' = Event(q)
  BY <1>1 DEF Holding, Event
<1>3. \A c : Held(c)' <=> Held(c)
  BY <1>1, <1>2 DEF Held
<1>4. read_p \in Nat /\ Index(read_p) \in 0..Size - 1
  BY IndexInRing DEF TypeOK
<1>5. engine # "poll" => /\ NextEvent.order = claimed[read_p + 1].order
                         /\ NextEvent.gateway_id = claimed[read_p + 1].gateway_id
                         /\ read_p < write_pointer /\ ~Held(read_p)
  BY <1>4 DEF EngineInv, ContentInv, NextEvent
<1>6. /\ NextEvent.order \in Orders /\ NextEvent.gateway_id \in Gateways
  BY <1>4 DEF TypeOK, NextEvent
<1>7. WindowInv' /\ ReadyInv'
  BY <1>1, <1>2, <1>3 DEF WindowInv, ReadyInv, InWindow
<1>8. ContentInv'
  BY <1>1, <1>2, <1>3 DEF ContentInv
<1>9. CASE Poll
  <2>1. engine = "poll" /\ engine' = "route" /\ UNCHANGED <<gid, taken>>
    BY <1>9 DEF Poll
  <2>2. InWindow(read_p)
    BY <1>4, SizeAssumption DEF InWindow
  <2>3. read_p < write_pointer /\ ~Held(read_p)
    BY <1>9, <2>2 DEF Poll, NextEvent, ReadyInv, InWindow
  <2>4. TypeOK'
    BY <1>1, <2>1 DEF TypeOK, Orders, Gateways
  <2>5. EngineInv'
    BY <1>1, <1>3, <2>1, <2>3 DEF EngineInv
  <2>6. QED
    BY <1>7, <1>8, <2>4, <2>5
<1>10. CASE Route
  <2>1. engine = "route" /\ engine' = "process" /\ gid' = NextEvent.gateway_id /\ taken' = taken
    BY <1>10 DEF Route
  <2>2. TypeOK'
    BY <1>1, <1>6, <2>1 DEF TypeOK, Orders, Gateways
  <2>3. EngineInv'
    BY <1>1, <1>3, <1>5, <2>1 DEF EngineInv
  <2>4. QED
    BY <1>7, <1>8, <2>2, <2>3
<1>11. CASE Process
  <2> DEFINE e == [order |-> NextEvent.order, gateway_id |-> gid]
  <2>1. engine = "process" /\ engine' = "release" /\ gid' = gid /\ taken' = Append(taken, e)
    BY <1>11 DEF Process
  <2>2. e \in [order : Orders, gateway_id : Gateways]
    BY <1>6 DEF TypeOK
  <2>3. claimed[read_p + 1] \in [order : Orders, gateway_id : Gateways]
    <3>1. read_p + 1 \in 1..Len(claimed)
      BY <1>4, <1>5, <2>1 DEF TypeOK, ContentInv
    <3> DEFINE T == [order : Orders, gateway_id : Gateways]
    <3>2. claimed \in Seq(T)
      BY DEF TypeOK
    <3>3. \A i \in 1..Len(claimed) : claimed[i] \in T
      <4> HIDE DEF T
      <4>1. QED
        BY <3>2
    <3>4. QED
      BY <3>1, <3>3
  <2>4. e = claimed[read_p + 1]
    BY <1>5, <2>1, <2>3 DEF EngineInv
  <2> HIDE DEF e
  <2>5. /\ taken' \in Seq([order : Orders, gateway_id : Gateways])
        /\ Len(taken) = read_p /\ Len(taken') = read_p + 1
        /\ taken'[read_p + 1] = claimed[read_p + 1]
        /\ \A i \in 1..read_p : taken'[i] = taken[i]
    BY <1>4, <2>1, <2>2, <2>4 DEF TypeOK, EngineInv
  <2>6. TypeOK'
    BY <1>1, <2>1, <2>5 DEF TypeOK, Orders, Gateways
  <2>7. \A i \in 1..Len(taken') : taken'[i] = claimed'[i]
    BY <1>1, <1>4, <2>5 DEF EngineInv
  <2>8. EngineInv'
    BY <1>1, <1>3, <1>5, <2>1, <2>5, <2>7 DEF EngineInv
  <2>9. QED
    BY <1>7, <1>8, <2>6, <2>8
<1>12. QED
  BY <1>9, <1>10, <1>11

\* release() and read_p++ move the window one on: the slot leaves it at one end
\* and comes back, empty, at the other.
LEMMA ReleaseStep ==
  ASSUME RingInv, Release
  PROVE  RingInv'
<1> USE DEF RingInv
<1> SUFFICES ASSUME NEW r, r = read_p
             PROVE  RingInv'
  OBVIOUS
<1>1. /\ UNCHANGED <<write_pointer, pc, target_seq, sent, claimed, gid, taken>>
      /\ engine = "release" /\ engine' = "poll"
      /\ r \in Nat /\ read_p' = r + 1
      /\ Index(r) \in 0..Size - 1
      /\ Size \in Nat /\ Size > 0
  BY IndexInRing, SizeAssumption DEF Release, producers, TypeOK
<1>2. /\ \A q \in Producers : Holding(q)' <=> Holding(q)
      /\ \A q \in Producers : Event(q)' = Event(q)
  BY <1>1 DEF Holding, Event
<1>3. \A c : Held(c)' <=> Held(c)
  BY <1>1, <1>2 DEF Held
<1>4. r < write_pointer /\ ~Held(r) /\ InWindow(r)
  BY <1>1 DEF EngineInv, InWindow
<1>5. /\ slot' \in [0..Size - 1 -> [order : Orders, gateway_id : Gateways, is_ready : BOOLEAN]]
      /\ \A i \in 0..Size - 1 : /\ slot'[i].order = slot[i].order
                                /\ slot'[i].gateway_id = slot[i].gateway_id
      /\ \A i \in 0..Size - 1 : i # Index(r) => slot'[i].is_ready = slot[i].is_ready
      /\ ~slot'[Index(r)].is_ready
  <2>1. slot' = [slot EXCEPT ![Index(r)].is_ready = FALSE]
    BY DEF Release
  <2>2. QED
    BY <1>1, <2>1 DEF TypeOK
<1>6. TypeOK'
  BY <1>1, <1>5 DEF TypeOK, Orders, Gateways
<1>7. WindowInv'
  <2>1. ASSUME NEW q \in Producers, Holding(q)'
        PROVE  read_p' <= target_seq'[q] /\ target_seq'[q] < write_pointer'
    <3>1. target_seq[q] # r /\ target_seq[q] \in Nat
      BY <1>2, <1>4, <2>1 DEF Held, TypeOK
    <3>2. QED
      BY <1>1, <1>2, <2>1, <3>1 DEF WindowInv
  <2>2. read_p' <= write_pointer' /\ write_pointer' <= read_p' + Size
    BY <1>1, <1>4 DEF WindowInv, TypeOK
  <2>3. QED
    BY <1>1, <1>2, <2>1, <2>2 DEF WindowInv
<1>8. ReadyInv'
  <2>1. ASSUME NEW c \in Nat, InWindow(c)'
        PROVE  slot'[Index(c)].is_ready <=> c < write_pointer' /\ ~Held(c)'
    <3>1. r + 1 <= c /\ c < r + 1 + Size
      BY <1>1, <2>1 DEF InWindow
    <3>2. CASE c = r + Size
      <4>1. Index(c) = Index(r) /\ ~(c < write_pointer)
        BY <1>1, <3>2, IndexNextLap DEF WindowInv, TypeOK
      <4>2. QED
        BY <1>1, <1>5, <4>1
    <3>3. CASE c # r + Size
      <4>1. InWindow(c) /\ c # r
        BY <1>1, <3>1, <3>3 DEF InWindow
      <4>2. Index(c) # Index(r) /\ Index(c) \in 0..Size - 1
        BY <1>4, <4>1, WindowIndex, IndexInRing
      <4>3. slot'[Index(c)].is_ready = slot[Index(c)].is_ready
        BY <1>5, <4>2
      <4>4. QED
        BY <1>1, <1>3, <4>1, <4>3 DEF ReadyInv
    <3>4. QED
      BY <3>2, <3>3
  <2>2. \A q \in Producers : pc'[q] = "cas" /\ target_seq'[q] = write_pointer' =>
                             write_pointer' < read_p' + Size
    BY <1>1 DEF ReadyInv, TypeOK
  <2>3. QED
    BY <2>1, <2>2 DEF ReadyInv
<1>9. ContentInv'
  <2>1. \A c \in Nat : /\ slot'[Index(c)].order = slot[Index(c)].order
                       /\ slot'[Index(c)].gateway_id = slot[Index(c)].gateway_id
    BY <1>5, IndexInRing
  <2>2. \A q \in Producers : target_seq[q] \in Nat
    BY DEF TypeOK
  <2>3. \A c \in Nat : read_p' <= c => read_p <= c
    BY <1>1
  <2>4. QED
    BY <1>1, <1>2, <1>3, <2>1, <2>2, <2>3 DEF ContentInv
<1>10. EngineInv'
  BY <1>1 DEF EngineInv
<1>11. QED
  BY <1>6, <1>7, <1>8, <1>9, <1>10

\* Every access the threads make keeps the invariant, while no holder is overtaken.
LEMMA RingInvStep ==
  ASSUME RingInv, Timely, [Next]_vars
  PROVE  RingInv'
<1>1. ASSUME NEW p \in Producers, Load(p) \/ ClaimFails(p)
      PROVE  RingInv'
  <2>1. write_pointer \in Nat /\ pc \in [Producers -> {"load", "check", "cas", "fill",
                                                     "stamp", "publish"}]
    BY DEF RingInv, TypeOK
  <2>2. \/ pc' = [pc EXCEPT ![p] = "load"]
        \/ pc' = [pc EXCEPT ![p] = "check"]
    BY <1>1, <2>1 DEF Load, ClaimFails
  <2>3. /\ ~Holding(p)
        /\ target_seq' = [target_seq EXCEPT ![p] = write_pointer]
        /\ UNCHANGED <<write_pointer, slot, sent, claimed, consumer>>
    BY <1>1 DEF Load, ClaimFails, Holding
  <2>4. write_pointer <= write_pointer
    BY <2>1
  <2>5. CASE pc' = [pc EXCEPT ![p] = "load"]
    BY <2>1, <2>3, <2>4, <2>5, SearchStep
  <2>6. CASE pc' = [pc EXCEPT ![p] = "check"]
    BY <2>1, <2>3, <2>4, <2>6, SearchStep
  <2>7. QED
    BY <2>2, <2>5, <2>6
<1>2. ASSUME NEW p \in Producers, Wait(p) \/ SeeEmpty(p)
      PROVE  RingInv'
  <2>1. /\ target_seq[p] \in Nat /\ target_seq[p] <= write_pointer
        /\ target_seq' = [target_seq EXCEPT ![p] = target_seq[p]]
    BY <1>2 DEF RingInv, TypeOK, WindowInv, Wait, SeeEmpty
  <2>2. /\ ~Holding(p)
        /\ UNCHANGED <<write_pointer, slot, sent, claimed, consumer>>
    BY <1>2 DEF Wait, SeeEmpty, Holding
  <2>3. CASE Wait(p)
    <3>1. pc' = [pc EXCEPT ![p] = "load"]
      BY <2>3 DEF Wait
    <3>2. QED
      BY <2>1, <2>2, <3>1, SearchStep
  <2>4. CASE SeeEmpty(p)
    <3>1. target_seq[p] = write_pointer => write_pointer < read_p + Size
      BY <2>4, SeenEmptyIsFree
    <3>2. pc' = [pc EXCEPT ![p] = "cas"]
      BY <2>4 DEF SeeEmpty
    <3>3. QED
      BY <2>1, <2>2, <3>1, <3>2, SearchStep
  <2>5. QED
    BY <1>2, <2>3, <2>4
<1>3. ASSUME NEW p \in Producers, Claim(p)
      PROVE  RingInv'
  BY <1>3, ClaimStep
<1>4. ASSUME NEW p \in Producers, Fill(p) \/ Stamp(p)
      PROVE  RingInv'
  BY <1>4, WriteStep
<1>5. ASSUME NEW p \in Producers, Publish(p)
      PROVE  RingInv'
  BY <1>5, PublishStep
<1>6. CASE Consume
  BY <1>6, ReadStep, ReleaseStep DEF Consume
<1>7. CASE UNCHANGED vars
  BY <1>7 DEF vars, RingInv, TypeOK, Orders, Gateways, WindowInv, ReadyInv, ContentInv,
              EngineInv, InWindow, Held, Holding, Event
<1>8. QED
  BY <1>1, <1>2, <1>3, <1>4, <1>5, <1>6, <1>7 DEF Next, Produce, PollAgain

-----------------------------------------------------------------------------

\* While no producer that holds a slot is overtaken by a lap of claims, the
\* invariant holds, whatever the number of producers.
THEOREM TimelyInv == TimelySpec => [](RingInv /\ Timely)
<1>1. Init => Timely
  BY DEF Init, Timely, Holding
<1>2. RingInv /\ Timely /\ [Next /\ Timely']_vars => (RingInv /\ Timely)'
  <2> SUFFICES ASSUME RingInv, Timely, [Next /\ Timely']_vars
               PROVE  (RingInv /\ Timely)'
    OBVIOUS
  <2>1. RingInv'
    BY RingInvStep
  <2>2. CASE UNCHANGED vars
    BY <2>1, <2>2 DEF vars, Timely, Holding
  <2>3. QED
    BY <2>1, <2>2
<1>3. QED
  BY InitRing, <1>1, <1>2, PTL DEF TimelySpec

\* What the runs check follows from the invariant.
LEMMA RingInvImplies ==
  ASSUME RingInv
  PROVE  TypeOK /\ SlotExclusive /\ InOrderExactlyOnce /\ NeverOverfull
<1> USE DEF RingInv
<1>1. \A p, q \in Producers : Holding(p) /\ Holding(q) /\ p # q =>
                              Index(target_seq[p]) # Index(target_seq[q])
  BY HolderSlot
<1>2. ASSUME NEW p \in Producers, Holding(p), engine # "poll"
      PROVE  Index(target_seq[p]) # Index(read_p)
  <2>1. read_p \in Nat /\ InWindow(read_p) /\ target_seq[p] # read_p
    BY <1>2, SizeAssumption DEF EngineInv, Held, InWindow, TypeOK
  <2>2. QED
    BY <1>2, <2>1, HolderSlot
<1>3. InOrderExactlyOnce
  BY DEF InOrderExactlyOnce, EngineInv, ContentInv, WindowInv, TypeOK
<1>4. NeverOverfull
  BY SizeAssumption DEF NeverOverfull, WindowInv, TypeOK
<1>5. QED
  BY <1>1, <1>2, <1>3, <1>4 DEF SlotExclusive

\* Then slots, pointers and histories have their types, ...
THEOREM RingTypes == TimelySpec => []TypeOK
<1>1. RingInv => TypeOK
  BY DEF RingInv
<1>2. QED
  BY TimelyInv, <1>1, PTL

\* ... every slot has one owner at a time, ...
THEOREM SlotsExclusive == TimelySpec => []SlotExclusive
<1>1. RingInv => SlotExclusive
  BY RingInvImplies
<1>2. QED
  BY TimelyInv, <1>1, PTL

\* ... the engine takes every event in the order of the claims, once and whole, ...
THEOREM EventsInOrder == TimelySpec => []InOrderExactlyOnce
<1>1. RingInv => InOrderExactlyOnce
  BY RingInvImplies
<1>2. QED
  BY TimelyInv, <1>1, PTL

\* ... and the ring is never overfull.
THEOREM RingNeverOverfull == TimelySpec => []NeverOverfull
<1>1. RingInv => NeverOverfull
  BY RingInvImplies
<1>2. QED
  BY TimelyInv, <1>1, PTL

\* A producer on its own is never overtaken: with one thread, as in the replay
\* driver, all of this holds with no condition on the schedule.
THEOREM OneProducerIsTimely ==
  ASSUME \A p, q \in Producers : p = q, Size > 1
  PROVE  Spec => []Timely
<1> DEFINE Last == /\ write_pointer \in Nat
                   /\ pc \in [Producers -> {"load", "check", "cas", "fill", "stamp", "publish"}]
                   /\ target_seq \in [Producers -> Nat]
                   /\ \A p \in Producers : Holding(p) => write_pointer = target_seq[p] + 1
<1>1. Init => Last
  BY DEF Init, Holding
<1>2. Last /\ [Next]_vars => Last'
  <2> SUFFICES ASSUME Last, [Next]_vars
               PROVE  Last'
    OBVIOUS
  <2>1. ASSUME NEW p \in Producers, Produce(p)
        PROVE  Last'
    BY <2>1 DEF Produce, Load, Wait, SeeEmpty, Claim, ClaimFails, Fill, Stamp, Publish, Holding
  <2>2. CASE Consume \/ PollAgain \/ UNCHANGED vars
    BY <2>2 DEF Consume, Poll, Route, Process, Release, PollAgain, producers, vars, Holding
  <2>3. QED
    BY <2>1, <2>2 DEF Next
<1>3. Last => Timely
  BY SizeAssumption DEF Timely
<1>4. QED
  BY <1>1, <1>2, <1>3, PTL DEF Spec

\* So the slots of a ring with one producer have one owner at a time, and its
\* events are taken in order, once and whole, on every schedule.
THEOREM OneProducerIsExclusive ==
  ASSUME \A p, q \in Producers : p = q, Size > 1
  PROVE  Spec => [](SlotExclusive /\ InOrderExactlyOnce)
<1>1. RingInv /\ Timely /\ [Next]_vars => RingInv'
  BY RingInvStep
<1>2. RingInv => SlotExclusive /\ InOrderExactlyOnce
  BY RingInvImplies
<1>3. QED
  BY InitRing, OneProducerIsTimely, <1>1, <1>2, PTL DEF Spec

-----------------------------------------------------------------------------
(* The ring as a queue: a claim puts an event in, the engine's reading of  *)
(* the order gives it out, and a release makes room.                       *)

\* What is claimed after what is there leaves what is there.
LEMMA AppendKeepsFront ==
  ASSUME NEW S, NEW s \in Seq(S), NEW e \in S
  PROVE  Len(Append(s, e)) = Len(s) + 1 /\ SubSeq(Append(s, e), 1, Len(s)) = s
<1>1. /\ Len(Append(s, e)) = Len(s) + 1 /\ Len(s) \in Nat
      /\ \A i \in 1..Len(s) : Append(s, e)[i] = s[i]
  OBVIOUS
<1>2. SubSeq(Append(s, e), 1, Len(s)) = [i \in 1..Len(s) |-> Append(s, e)[i]]
  BY <1>1
<1>3. s = [i \in 1..Len(s) |-> s[i]]
  OBVIOUS
<1>4. QED
  BY <1>1, <1>2, <1>3

\* Every access the threads make is a step of the queue, or none.
LEMMA RingRefines ==
  ASSUME RingInv, [Next]_vars
  PROVE  [Queue!Next]_Queue!queueVars
<1>1. ASSUME NEW p \in Producers, Claim(p)
      PROVE  Queue!Put
  <2>1. claimed \in Seq([order : Orders, gateway_id : Gateways])
    BY DEF RingInv, TypeOK
  <2>2. Event(p) \in [order : Orders, gateway_id : Gateways]
    BY DEF RingInv, TypeOK, Event, Orders, Gateways
  <2>3. claimed' = Append(claimed, Event(p)) /\ UNCHANGED <<taken, read_p>>
    BY <1>1 DEF Claim, consumer
  <2>4. Len(claimed') = Len(claimed) + 1 /\ SubSeq(claimed', 1, Len(claimed)) = claimed
    BY <2>1, <2>2, <2>3, AppendKeepsFront
  <2>5. Len(claimed) - read_p < Size
    BY <1>1, SizeAssumption DEF Claim, RingInv, TypeOK, ReadyInv, ContentInv
  <2>6. QED
    BY <2>3, <2>4, <2>5 DEF Queue!Put
<1>2. ASSUME Process
      PROVE  Queue!Give
  <2>1. read_p < Len(claimed) /\ Len(taken) = read_p
    BY <1>2 DEF Process, RingInv, EngineInv, ContentInv
  <2>2. read_p \in Nat /\ claimed[read_p + 1] \in [order : Orders, gateway_id : Gateways]
    <3>1. claimed \in Seq([order : Orders, gateway_id : Gateways]) /\ read_p \in Nat
      BY DEF RingInv, TypeOK
    <3>2. read_p + 1 \in 1..Len(claimed)
      BY <2>1, <3>1
    <3> DEFINE S == [order : Orders, gateway_id : Gateways]
    <3>3. claimed \in Seq(S)
      BY <3>1
    <3> HIDE DEF S
    <3>4. claimed[read_p + 1] \in S
      BY <3>2, <3>3
    <3>5. QED
      BY <3>1, <3>4 DEF S
  <2>3. /\ NextEvent.order = claimed[read_p + 1].order
        /\ gid = claimed[read_p + 1].gateway_id
    BY <1>2, <2>2 DEF Process, RingInv, ContentInv, EngineInv, NextEvent
  <2>4. [order |-> NextEvent.order, gateway_id |-> gid] = claimed[read_p + 1]
    BY <2>2, <2>3
  <2>5. QED
    BY <1>2, <2>1, <2>4 DEF Process, producers, Queue!Give
<1>3. ASSUME Release
      PROVE  Queue!Release
  BY <1>3 DEF Release, producers, RingInv, EngineInv, Queue!Release
<1>4. ASSUME NEW p \in Producers, Produce(p), ~Claim(p)
      PROVE  UNCHANGED Queue!queueVars
  BY <1>4 DEF Produce, Load, Wait, SeeEmpty, ClaimFails, Fill, Stamp, Publish, consumer,
              Queue!queueVars
<1>5. CASE Poll \/ Route \/ PollAgain \/ UNCHANGED vars
  BY <1>5 DEF Poll, Route, PollAgain, vars, producers, Queue!queueVars
<1>6. QED
  BY <1>1, <1>2, <1>3, <1>4, <1>5 DEF Next, Consume, Queue!Next

\* While no producer that holds a slot is overtaken by a lap of claims, the ring of
\* atomic flags implements the queue of Size events that the rest relies on.
THEOREM RingIsAQueue == TimelySpec => QueueSpec
<1>1. Init => Queue!Init
  BY DEF Init, Queue!Init
<1>2. RingInv /\ [Next /\ Timely']_vars => [Queue!Next]_Queue!queueVars
  BY RingRefines
<1>3. QED
  BY TimelyInv, <1>1, <1>2, PTL DEF TimelySpec, QueueSpec, Queue!Spec

\* With one producer it is a queue on every schedule.
THEOREM OneProducerIsAQueue ==
  ASSUME \A p, q \in Producers : p = q, Size > 1
  PROVE  Spec => QueueSpec
<1>1. RingInv /\ Timely /\ [Next]_vars => RingInv'
  BY RingInvStep
<1>2. Init => Queue!Init
  BY DEF Init, Queue!Init
<1>3. RingInv /\ [Next]_vars => [Queue!Next]_Queue!queueVars
  BY RingRefines
<1>4. QED
  BY InitRing, OneProducerIsTimely, <1>1, <1>2, <1>3, PTL DEF Spec, QueueSpec, Queue!Spec
==============================================================================
