# A specification of the distributed order book

TLA+ modules for the matching system in `src/Core_Infra` and its drivers: what the order book
and the buffers between its threads do, what TLC finds true of them on small instances, and
what TLAPS proves of them for every instance. Every definition is translated from the C++ code;
`PROJECT.json` gives, definition by definition, the lines it stands for.

## The system

```
 gateway threads ──► RingBuffer_inbound ──► matching engine thread ──► Orderbook
 (place/cancel/        (many producers,        (one consumer)              │ orderResult
  modify)               one consumer)                                      ▼
 consumer ◄── SpscQueue ◄── GatewayReader ◄── RingBuffer_outbound (one per gateway)
```

| component | state | operations | what makes it correct |
|---|---|---|---|
| Order book (`orderbook.cpp`) | `bids`, `asks`: price → `Limit` (head, tail, count, totalVolume); intrusive lists of `Order`; `global_map`: id → `Order*` | `placeOrder` → `match`, `cancel`, `modify` | lists, counts, sums and index agree; price-time priority; never crossed; the answer explains the whole volume |
| Inbound ring (`ring_buffer.cpp`) | `write_pointer`, slots with `is_ready` | `claim` (spin, weak CAS), `get`, `publish`, `release` | one owner per slot; events in claim order, once, whole; never more events than slots |
| Outbound ring (`ring_buffer.cpp`) | slots with `is_ready`; the engine's and the gateway's pointers | `get`, `publish`, `release` | every acknowledgement once, whole, in order |
| Gateway (`gateway.cpp`) | id counter, mode, `silent`, outbound read pointer | place, cancel, modify, read | ids tell orders apart; an event is complete when published |
| Matching engine (`matching_engine.cpp`) | `read_p`, `write_p_outbound` | one endless loop | every event is applied once and acknowledged to its gateway, unless it is silent |
| Gateway reader, SPSC queue (`gateway_reader.cpp`, `spsc_queue.hpp`) | `stop_`, `dropped_count_`; `head_`, `tail_` | drain loop; `try_push`, `try_pop` | first in first out, no overwrite; every acknowledgement delivered or counted |
| LOBSTER adapter (`lobster_replay_adapter.cpp`) | `live_sizes_`, row counters | parse, dispatch | its sizes agree with the book's |
| Demo driver (`main.cpp`) | four gateways, two scripted threads, a detached engine | start, join, return | the answers its comments expect; no thread waits forever; nothing used after it is destroyed |
| Replay driver (`main_replay.cpp`) | one silent gateway, a detached engine | read the file, scan for unreleased slots until a deadline, report | what it reports is processed |
| Tokeniser (`Tokeniser.py`) | tables of bucket edges | fields to tokens and back; `encode_training` | monotonic, in range, stable; every message with the book before it |
| Generative model (`Model/*.py`) | network weights, windows of the data | window, broadcast, train | tokens, labels and books of a sample line up |

Calls go down that path and acknowledgements come back; the drivers own the buffers, and the
adapter is one caller of one gateway. The Python half reads files and shares nothing with the C++
half but the LOBSTER format.

Threads share memory only through the two kinds of ring and the SPSC queue; the book belongs to
the engine thread. What is hard: many producers claim from one ring with a check that precedes
the CAS; the engine writes outbound slots without looking whether they are free; ids are minted
by each gateway on its own; the engine has no stop. `PROJECT.json` lists every hazard with its
line and the properties aimed at it.

## Modules

- `PriceTimeBook`: what the order book promises, stated with none of its data structures. A set
  of resting orders, each with its place in the order of arrival, and a taker that trades with
  the best acceptable one until there is none, then rests. Cancel takes an order out, modify
  makes it smaller where it stands.
- `Orderbook`: `Core_Infra/orderbook.cpp`. Addresses of `Order`s are the numbers of their
  allocation, so freed memory is an address outside `DOMAIN order`; the two maps are one
  function from `<<side, price>>`. One action is one turn of the inner loop of `match`
  (`FillPartial`, `FillWhole`), one of its ways out (`RestRemainder`, `ReturnFilled`, and
  `FillPartial` again, which returns), or a whole `cancel` (`CancelUnknown`, `CancelResting`) or
  `modify` (`ModifyRejected`, `ModifyReduced`). Invariants are thus checked inside a match, too.
  The selling and the buying half of `match` are mirror images and one model, with the side as
  data: `Best`, `Crosses` and `Opposite` are where they differ.
- `OrderbookProofs`: theorems about `Orderbook`.
- `InboundRing`: `RingBuffer_inbound` with the gateway calls that produce and the engine loop
  that consumes. One action is one access to shared memory: the load of `write_pointer`
  (`Load`), the load of `is_ready` (`Wait`, `SeeEmpty`), the CAS (`Claim`, `ClaimFails`, which
  may fail spuriously), the two halves of the event (`Fill`, `Stamp`), `Publish`; on the other
  side `Poll`, the copy of `gateway_id` (`Route`), the reading of the order (`Process`) and
  `Release`. The histories `claimed` and `taken` say what was claimed and what was read.
- `InboundRingProofs`: theorems about `InboundRing`.
- `BoundedQueue`: what the SPSC queue promises, a bounded first-in-first-out queue whose steps
  nothing can split.
- `SpscQueue`: `spsc_queue.hpp`, with the copy of a value and the store of the pointer as steps
  of their own (`PushBegin`, `PushCopy`, `PushStore`, `PopBegin`, `PopCopy`, `PopStore`). A push
  takes effect when it stores `head_`, a pop when it stores `tail_`; `Items` is the refinement
  mapping, the cells from `tail_` to `head_`.
- `SpscQueueProofs`: theorems about `SpscQueue`.
- `AckPath`: the way of the acknowledgements of one gateway. The engine writes a slot of
  `RingBuffer_outbound` in three accesses (`Stamp` the op, `Answer` the rest, `Publish`) and
  never looks at `is_ready`; the thread of `GatewayReader` looks at `stop_` (`CheckStop`), polls
  (`Poll`, `PollAgain`), copies in the opposite order (`CopyAnswer`, `CopyOp`), releases, and
  pushes into an instance of `SpscQueue`, step by step, or counts a drop (`Drop`); a consumer
  pops; the destructor may set `stop_` at any moment (`Stop`).
- `AckPathProofs`: theorems about `AckPath`.
- `NumberTheorems`: what the other proofs need to know of numbers: remainders, of which both rings' index
  computations are made; that a set of naturals has a least element, the induction that follows from it, and
  that a recursion over naturals has a solution (`RecursionExists`);
  that `SumFunction` of the community modules splits at any element of a finite set.
- `EventQueue`: what the inbound ring promises, a queue of at most `Size` events of which the
  engine is given one at a time. `InboundRing` implements it (`claimed` is what was put in, `taken` what
  was given), and `MatchingSystem` uses no more of it: the two meet here.
- `MatchingSystem`: gateways, engine and book. `Mint` is the `fetch_add` of a LIVE gateway, `Post` is
  `claim()` to `publish()`, which waits while the ring is full; a thread may be held up between the two
  while others call the same gateway. `PlaceLive`, `PlaceReplay`, `Cancel` and `Modify` are the calls,
  `Take` and `Match` the engine running the book of `Orderbook` (an instance, with all its steps),
  `Acknowledge` and `Discard` the two ends of its loop. `inbound` and `outbound` keep everything ever
  written, `read_p` how far the engine is. The outbound side is the queue that `AckPath` shows it to be
  for a reader the engine does not lap; what is checked here is what the engine writes.
- `MatchingSystemProofs`: theorems about `MatchingSystem`.
- `LobsterReplay`: extends `MatchingSystem` with `process_stream` and `dispatch`. `ReadRow` takes any row a
  file may have, `Dispatch` does with it what the `switch` does (`Submit`, `CancelPart`, `Delete`,
  `Skip`, `Fail`). It has no next-state relation of its own: `ReplayDriver` runs it. `traded` is a history.
- `ReplayDriver`: extends `LobsterReplay` with `main_replay.cpp`: the file, the scan of `all_released` one
  slot at a time (`SeeReady`, `SeeReleased`) while the engine runs, the deadline, the report.
- `DemoDriver`: extends `MatchingSystem` with the two threads of `main.cpp` as scripts, the join, the
  destruction of main's locals (`JoinAll`) and the end of the process (`EndProcess`). `Configuration` says which
  gateways, prices, volumes and id the scripts need to be there.
- `DriverProofs`: theorems about the two drivers, `ReplayDriver` with its adapter and `DemoDriver`.
- `Tokeniser`: actions, sizes and prices as tokens and back, as functions; a message is encoded and
  decoded over and over.
- `TrainingData`: which rows each token of a training sample comes from: `encode_training`, the windows
  of `LOBDataset`, the broadcast of books over tokens.
- `TokeniserProofs`: theorems about `Tokeniser` and about `TrainingData`, whose encoding is the tokeniser's too.
- `MC*`: the small instances.

Definitions named `*_M` are what a slip of the pen would make of the definition that follows
them; the specifications use none of them. `PROJECT.json` says which property finds which.

## What the runs check

| run | question | bounds |
|---|---|---|
| `book_unique` | Are lists, counts, sums, index and answers right in every state, and does the book do what `PriceTimeBook` does, when every order has its own id? | 4 orders, 2 prices, volumes -1 to 3 |
| `book_reused_index` | Can every resting order still be cancelled when two orders come under one id? **No.** | 3 orders, 2 ids |
| `ring_timely` | Is the inbound ring right, and is every event taken, with three producers, none overtaken by a lap? | 2 slots, 2 events each |
| `ring_lapped` | Is it right with two producers on any schedule? **No.** | 2 slots, 2 events each |
| `queue_fifo` | Is `SpscQueue` a bounded queue, in which nothing is shared or lost? | 2 cells, 2 values, 6 pushes: three laps |
| `acks_fair` | Do acknowledgements arrive whole and in order, and does every one end with the consumer or in the counter, until the engine laps the reader? What holds even then? | 2 slots, 1 cell, 5 acknowledgements |
| `system_acks` | Do gateways learn the truth about their orders, with noisy and silent ones mixed? | a LIVE and a silent gateway, each used by 2 threads; 4 calls, 2 slots, 2 prices, volumes 1 and 2, 1 fill per acknowledgement |
| `replay_report` | Are the adapter's sizes the book's? Until a trade, and never too small. Is what `main_replay` reports processed, and does it return? | 3 slots, 4 rows of 2 orders |
| `replay_tracked` | Are the sizes the adapter tracks current? **No.** | the same |
| `demo_expected` | Does the demo get the answers its comments expect, and end, on every schedule? | the script itself, a ring of 2 slots; the theorem has every size |
| `tokens_stable` | Are tokens ordered, in range, and stable under decoding and encoding? | prices and sizes at and around every edge of the tables, up to size 45548 |
| `training_aligned` | Do inputs, labels and books of every sample line up? | 6 rows of 4 types, windows of 8 tokens |

Three cases need no run because a theorem has them for every instance: a ring with one producer, the
replay driver's (`OneProducerIsExclusive`, `OneProducerIsAQueue`); what is left of the book's
invariants when ids are reused (`QueuesInOrder`, `LevelsCount`, `LevelsHoldTheirVolume`, `AnswersAccount`,
`BookNeverCrossed`, `IndexIsSound`, `FillsKeepPriority`, which make no assumption about ids); and messages
of sizes from 45549 on (`TokensInOrder`, `DecodingIsStable`).

Why the bounds are enough. Four orders give a level with a head, a middle and a tail and a taker
that sweeps it; two prices give a taker that leaves one level for the next and one that stops
between them; volumes 1 to 3 give fills smaller than, equal to and larger than the head, and
reductions that are valid, equal and too large; -1 and 0 are the volumes that never rest. Two
slots and three events are enough for a claim to come round to a slot in use; three producers
give one that holds, one that loses the CAS and one that waits. Five acknowledgements go round
the two slots of the outbound ring twice, and a queue of one cell is full whenever the consumer
lets an acknowledgement wait. Four calls let two orders rest, a third sweep both, which is one fill more than `MaxFills` leaves
room for, and a fourth meet what is left; with two slots a third event waits for room; a shared
gateway lets a thread overtake another between minting and claiming. Four rows let a file submit
two orders, trade them and cancel a part of what is left, and are more than the ring has slots;
three slots give the scan a first, a middle and a last one. Six rows with any of them filtered out
give kept rows next to each other and apart, and up to three windows of two messages.
The bounds are `MaxOrders` (orders placed), `Events` (events per producer), `MaxPushes` (calls of
`try_push`), `Acks` (acknowledgements written), `MaxCalls` (calls of gateways), `MaxRows` (rows of a
file) and `Rows` (rows of the training data); nothing else is cut off. Sizes from 45549 on are in
the last two buckets of the table, whose products are beyond TLC's 32-bit integers; the theorems have them.
Orders' ids in `book_unique` and threads in `system_acks` are interchangeable and make symmetry sets;
runs with a liveness property use none. No cfg turns the deadlock check off: the engine always polls, and a book
can always be asked to cancel, the consumer of a queue always polls, and what has ended stays so.

The properties of the book:
- `QueueOrder`: the orders of a level form one doubly linked list in order of arrival, from head to tail.
- `LevelCounts`, `LevelVolumes`: `count` and `totalVolume` agree with the list. No level, no order is empty.
- `NotCrossed`: no buyer and seller who would trade both rest, not even between two fills.
- `IndexSound`, `IndexComplete`: `global_map` leads to no freed or foreign order; every resting order is found in it.
- `Accounted`: what was traded and what remains add up to what was asked; fulfilled means nothing remains.
- `NoFillOvertakes`: a resting order loses volume to a taker only when it goes before all others of its side.
- `PlainSpec`: the refinement to `PriceTimeBook`.

Of the ring: `SlotExclusive` (a slot is owned by one producer or by the engine),
`InOrderExactlyOnce` (the events read are those claimed, in that order, once and whole),
`EveryEventIsTaken`. Of the queue: `NoSharedCell` (the two threads never copy into and out of one
cell at a time), `BoundedSpec` (the refinement to `BoundedQueue`). Of the way of the
acknowledgements: `AcksInOrder` (the consumer sees them whole, in order, none twice),
`NoneUncounted` (those published are those ready, in hand, pushed and dropped), `NeverAhead` (the
reader takes no more than there were), `EveryAckEnds`, `DestructorReturns`.

Of the rings as queues: `QueueSpec` of `InboundRing` (it implements `EventQueue`) and of `MatchingSystem`
(it asks for no more). Of the system:
- `AcksAnswerCalls`: a noisy gateway gets one acknowledgement for each of its calls, in their order; a silent one none.
- `FillsExplainRemainder`: an acknowledgement's fills are all that was lost, unless `fills[]` is full.
- `CancelledIsGone`: after a cancel nothing rests under its id. It is why ids must be minted atomically. It is
  checked with one LIVE gateway and a feed whose ids are none of its own; two LIVE gateways give two orders one
  id, and `book_reused_index` shows what follows.
- `NoMoreRestsThanKnown`: an order is never larger than its gateway can tell from its acknowledgements.

Of the adapter and the drivers: `NoMoreRestsThanTracked`, `AgreesUntilTraded` (the adapter's sizes are the
book's until an order trades, and never smaller), `ReportIsTrue` (what is reported as processed is
processed; at most a ring of events is missing if the deadline was over), `MainReturns` (through the file,
though the ring is smaller, and the wait), `WaitEnds` (even if the engine hangs), `AnswersAsExpected`,
`DemoEnds`. Of the training data: `TokensAreOrdered`, `TokensAreStable` (a message is decoded into the
bucket it came from), `BookIsTheOneBefore`, `LabelsAreNext`.

**The reader that keeps up.** Nothing in the code holds the engine back when an outbound ring is
full; `Docs/04_gateway.md` says so and asks for buffers that are large enough. The engine of `AckPath`
may write a slot whose acknowledgement is not released yet, as the code's does; the history `lapped`
remembers that it did. `AcksInOrder`, `NoneUncounted` and `EveryAckEnds` speak of what happens until then:
afterwards acknowledgements are lost and torn, as the documentation admits. `NeverAhead` and
`DestructorReturns` hold in any case.

**Fairness.** `InboundRing!FairTimelySpec` has weak fairness of every thread, which a preemptive
scheduler gives, and strong fairness of each thread's successful CAS: the weak CAS may fail spuriously
and against competitors, but a thread whose CAS could succeed over and over is not refused forever. The
code guarantees no more than that some producer makes progress; as the events are finite in number, the
loser is let through once its competitors are done, and the assumption excludes only endless spurious
failures. Threads have to run only where the step keeps `Timely`. `AckPath!FairSpec` has weak fairness of the
engine, the reader and the consumer, which are threads that spin; `Stop` has none, because nobody has to
destroy a reader. `ReplayDriver!FairDriverSpec` has main, which spins, and the passing of time, and nothing
of the engine, which may hang at any point; `MainReturns` adds the engine's fairness as its premise,
`WaitEnds` does without. `DemoDriver!FairDemoSpec` has the engine and each of the two threads, which spin and
are scheduled preemptively. Weak fairness is enough for a thread that waits for room, because the calls are
finite in number: room that the engine has made stays once the others have made theirs.

## What the runs found

1. `ring_lapped`. `claim()` (`ring_buffer.cpp:21`) takes `is_ready == false` for a free slot,
   but a slot claimed a lap ago and not yet published looks the same. A producer that is held up
   between its CAS and `publish` while the others go round the whole ring shares its slot with
   the one that claims it next. `Docs/03_ring_buffers.md:14` says a slot "is owned by exactly one
   party at any moment". The condition under which it is true is `Timely`: no holder is overtaken
   by a lap of claims. It always holds with one producer; with 1024 slots and a few threads
   it is likely but nothing ensures it.
2. `book_reused_index`. LIVE gateways mint ids from 0 each (`gateway.cpp:38`), `main.cpp` has three,
   and `global_map[orderID] = new_order` (`orderbook.cpp:82`, `162`) overwrites: the earlier order rests
   without an entry, and cannot be cancelled. `Docs/02_orderbook.md:126` and
   `Docs/04_gateway.md:135` say otherwise. The theorems show what survives: the index never
   points to freed memory, and lists and priorities are untouched.
3. `replay_tracked`. The sizes of `live_sizes_` are not current once an order has traded
   (`lobster_replay_adapter.cpp:74`), though `lobster_replay_adapter.hpp:53` says they are: a partial
   cancel then asks for a size larger than or equal to what is left, and is turned down unheard, or takes
   away less than it should. `AgreesUntilTraded` says that nothing but trades makes the difference.

Two things the models show without a run of their own. The engine acknowledges an event to the gateway it
came from and to no other (`matching_engine.cpp:60`), so the owner of a resting order never hears of its
fills, though `tests/end_to_end_test.cpp:95` is called `TwoGatewaysCross_FillsRoutedToBothSides` (it looks
for the taker's fill only); `NoMoreRestsThanKnown` says what the owner may still rely on. And `main()`
detaches the engine (`main.cpp:31`) and destroys the rings when it returns (`main.cpp:107`), while
`EngineRuns` of `DemoDriver` is still enabled; `main_replay.cpp:19` to `22` explains why the replay driver
leaks them instead.

## What is proved

Every safety property of the runs is a theorem too. The theorems hold for any prices, volumes (integers), ids, numbers of orders, gateways, threads, slots, cells,
events, rows and best prices; the assumptions are those named beside the CONSTANTS, and, where a theorem
has an ASSUME, what it says. The inductive invariants hold in TLC as well, on the instances
of the runs (but for `RingInv`, which quantifies over all sequence numbers).

`OrderbookProofs`. The invariant `Inv` is types, `QueueOrder`, `LevelCounts`, `NotCrossed` and
`IndexSound` together, and it is inductive: none of the parts is on its own. Unlinking needs the
list to be in order to know that the neighbours of the order taken out become each other's;
pruning at `count = 0` needs the count to be the cardinality of the level; the removal of an order
needs the index to lead to it; a remainder keeps the book uncrossed because the best level does
not cross. The argument treats a level as the set of its addresses, in which `next`, `prev`,
`head` and `tail` are the successor, predecessor, least and greatest (`IsNext`, `IsPrev`,
`IsFirst`, `IsLast`): addresses grow with arrival, so unlinking and appending are facts about sets
(`UnlinkNext`, `AppendNeighbours`, ...). Every action is one of three changes of the book:
an order is unlinked (`UnlinkPreserves`), resized (`ResizePreserves`) or appended
(`RestPreserves`). From `Inv`: `TypeCorrect`, `QueuesInOrder`, `LevelsCount`,
`BookNeverCrossed`, `IndexIsSound`, and `FillsKeepPriority` (a fill is at the head of the best
level, `HeadGoesFirst`). `IndexIsComplete` adds the assumption that ids are not reused.

On top of `Inv`, `LevelsHoldTheirVolume` follows each of the three changes through the sum of a level
(`NumberTheorems!SumSplit`: an order can be taken out of the sum, wherever it stands in the list), and
`AnswersAccount` follows `res` through a match: the sum of the trades and what remains is `asked` after every
fill (`AnswerInv` adds that a match that runs has not said fulfilled). `ImplementsPlainBook` is the
refinement: an order's place in the order of arrival is its address, and each action of `Orderbook` is the
action of `PriceTimeBook` it is named after, or a stutter (`ReturnFilled`: the plain book is done with the last
fill already, which is what `PlainAnswer` says). It assumes that ids are not reused, without which
`book_reused_index` shows it to be false.

`InboundRingProofs`. The invariant `RingInv` says that the sequence numbers from `read_p` to
`read_p + Size - 1` have a slot each (`WindowIndex`), that all claims are in that window, that a
slot of it is ready exactly when its claim is published (`ReadyInv`), and what is written of each
event so far (`ContentInv`). It is preserved by `[Next]_vars` while `Timely` holds, and `Timely`
is used at one point alone: a slot seen empty is free (`SeenEmptyIsFree`), the very step that
goes wrong in `ring_lapped`. Hence `SlotsExclusive`, `EventsInOrder` and `RingNeverOverfull` for
`TimelySpec`; and since a single producer is always timely (`OneProducerIsTimely`),
`OneProducerIsExclusive` for `Spec` itself. The module goes on to show that the ring is a queue
(`RingIsAQueue`, `OneProducerIsAQueue`): a claim is a put, the engine's reading of an event a give, its
release a release, and every other access changes nothing of the queue.

`SpscQueueProofs`. The invariant `QueueInv` says that the pointers are never more than a capacity
apart and that a call that has begun saw room, or a value, that cannot go away (`PointerInv`), and
that what a call has copied is still what it copied (`CopyInv`). The step that needs care is the copy
into a cell: numbers less than a capacity apart have different remainders (`SameLap`), so it hits
no cell between the pointers (`FreeCell`). Hence `CellsExclusive`, and `QueueImplementsBounded`: each
step of the two threads is a push, a refusal at exactly `Capacity` values, a pop, or leaves
`Items` as it was. The only assumption is a capacity of at least 1.

`AckPathProofs`. The queue's `QueueInv` is carried over by its instance, since each step of the path is a step of
the queue or leaves it alone. `CountInv` holds however often the engine laps the reader: the slots that are
ready and the acknowledgements taken are never more than were published, because the engine may only
mark a marked slot again (`NeverTakesTooMuch`). The rest holds until the first lap (`UnlappedInv`): the slots that
are ready are those between the two pointers and hold their own acknowledgement (`RingInv`), what the
reader has copied in two accesses belongs to one of them (`HandInv`), and the values in the queue are whole and
increasing (`OrderInv`). The step that needs the premise is `Stamp`, the engine's first access to a slot:
less than a lap ahead it hits none that the reader has still to copy. Hence `PopsInOrder` and `AcksAreCounted`.

`MatchingSystemProofs`. Gateways and engine use the ring as the queue of `EventQueue` (`SystemUsesAQueue`), from
`CursorInv`: an event in hand is one that was put in and not released. With `RingIsAQueue` this justifies the
atomic calls of `MatchingSystem`. `CoreInv` joins the event in hand to the book (`BusyInv`: the book is at work
on this event and on no other), takes the book's own invariants through its instance (`BookInv`), and carries
`AcksAnswerCalls` and `FillsExplainRemainder`, which are inductive with these: an acknowledgement is written for
the event at `read_p` and stands behind those of the gateway's earlier calls, and its fills are the first
`MaxFills` of trades that are positive and account for the loss. It holds whoever puts the events into the ring,
so `DriverProofs` starts from it for both drivers; `SystemInv` adds what the calls of gateways keep (`MintInv`). Hence
`SystemTypes`, `CallsAreAnswered`, `FillsAreExplained`.

`CancelsAreFinal` and `GatewaysKnowTheirOrders` have the assumption `IdsTellApart`: at most one LIVE gateway, at
most one that brings its ids along, and these none that the other mints. It is what the instance of
`system_acks` satisfies; `main.cpp`, with three LIVE gateways, does not, which finding 2 is about. `IdsInv`
says that an id is minted once although threads overtake one another between minting and claiming, and
`UsedInv` that the book has used exactly the ids of the orders taken, so that its index is complete and a
cancel finds its order. `GoneInv` says it for all cancels taken, the one in hand among them, and that no taker
has a cancelled id. `KnownInv` is the bound on what rests, with the moment between the book's change and the
acknowledgement (`Pending`), when the order may be larger than the gateway knows.

`DriverProofs`, the replay. `ReportsAreTrue` needs more than a look at the scan: `RowsInv` ties the row counter to the
events put in, and these to the slots; `ScanInv` says that slots seen released stay released, because
the adapter is done, which makes a scan over many moments as good as one at a single moment
(`NoneReady`, `EngineReleases`). `TrackedIsEnough` and `TrackedIsExact` relate three views of an order: the size the
adapter tracks is the size all events put in leave of it (`TrackInv`, `SizeBy`), the book holds no more than the
size the events taken leave of it, and exactly that if it never traded (`HeldInv`); when the engine has caught up the
events put in are those taken. Every reduction the adapter asks for is smaller than what it believes (`FileInv`),
but not always than what the book holds, and the case in which the book turns it down is where `HeldInv` is an
inequality. What is assumed of the file is that it submits no order twice (`ReadRow`), and `FileAssumption`: sizes
are positive, and the difference of a larger size and a smaller is one of them. `IdsTellApart` is not needed.

`DriverProofs`, the demo. `DemoAnswersAsExpected` is about a fixed script, but about a ring of any size, an engine that may be
behind by all calls that nobody has waited for, and threads whose calls mix in any order. Its invariant
(`DemoInv`) has five parts. `ScriptInv` ties each thread's line to what it holds and to how often it has called
each gateway; `PlannedCalls` says that the c-th call of a gateway in the ring is the c-th of its script (`Asks`), and
that the calls of one thread wait for each other (`Together`). `WorkInv` says that what rests, and what is found under
which id, depends on nothing but how many calls of each gateway the engine is done with (`BookAfter`): the two
threads' orders never meet, since the feed's buy of 95 crosses no sell of 100. So each event has one effect
(`SellRests`, `BuyIsFilled`, ..., `FeedIsCancelled`) and one answer (`Succeeds`), and `AnswersInv` carries the answers to the
gateways. The reuse of id 0 is in it: the buy of 90 takes the index entry of what is left of the sell, the first
cancel of 0 finds the buy, the second finds nothing although the sell still rests. `IdsTellApart` does not hold
here; what is assumed is `Configuration`. As the module extends both drivers it has the assumptions of both; they are
satisfied together by gateways 0 to 4, of which 4 is `Feed`, the volumes 1 to 100 and `FeedThread` for `Feeder`.

`TokeniserProofs`. A table is a sequence that never decreases; a number from one edge up to the next is found
between them (`SearchIs`), and the geometric mean of two different edges is at least the first and less than the
second (`MeanIsInside`, from the least number whose successor's square is larger than the product). With these
every bucket is decoded to a value of its own, the two open ends of the price table (`FarRoundTrip`) and the last
bucket of the sizes included, and the tokens of prices are those of their offsets (`CodeOf`), whichever the
direction. The invariant is that once a message has been encoded the tokens are always its tokens (`Coherent`).
Hence `TokensInOrder` and `DecodingIsStable`.

Its second half is about `TrainingData`, for every file and every window. Which rows are kept, and how the messages'
tokens follow one another, are recursive definitions. That such a recursion has a solution is proved once
(`RecursionExists`), and only then can anything be said of it by induction over naturals: the kept rows ascend
(`KeptIsRows`), and the `p`-th token of the stream is in the message `Piece(p)` at `Place(p)` (`FlattenFours`). So the
token's row and the row of its book are known by number (`EncodedTokens`, `EncodedBooks`), and as a start moves
tokens by four and books by one, the two stay side by side in every item, and the label past the window's end exists
(`ItemIsAligned`). `DataInv` says that the encoded file is that of the rows and that the last item is aligned.

Only model-checked: the liveness properties (`EveryEventIsTaken`, `EveryAckEnds`, `DestructorReturns`, `MainReturns`,
`WaitEnds`, `DemoEnds`), which the prover cannot state rules for: it has none for fairness.

## What is left out

- Memory orders: an access is a step, and steps interleave. The release-acquire pairs on
  `is_ready` are what makes that sound for the event's fields in the absence of shared slots.
- Timestamps of fills and arrivals, which nothing in the book reads; wording and printing.
- Wrap-around of 64-bit sequence numbers and volumes.
- Parsing of CSV characters (a row that does not parse is a row of type 0), clocks, third-party code
  (GoogleTest), the LOBSTER data.
- The REPLAY gateway's assertions on external ids and timestamps: the ids a feed brings are natural numbers.
- Time tokens: their buckets are quantiles of the data file. Book columns: they go through
  `price_to_token` and `size_to_token` like the fields of a message.
- The network and its training: real arithmetic, out of TLC's reach.

## Plan

Done: every component, but for the parts just listed, and a theorem for every safety property.

Left: the proofs of liveness, for want of a prover that has rules for fairness.
