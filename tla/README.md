# Verification of the low latency trading system

TLA+ modules, TLC configurations and TLAPS proofs for the exchange and the
trading client in `src/`.  Every definition is translated from the code; the
file and lines it stands for are listed in `PROJECT.json` under `map`.

## 1. The system

The exchange is one process with four threads, the trading client another one
with three.  Inside a process threads talk through single-producer
single-consumer queues (`common/lf_queue.h`); between processes orders travel
over TCP and market data over two multicast streams.

```
 client                                     exchange
 TradeEngine --requests--> OrderGateway --TCP--> OrderServer + FIFOSequencer
     ^  ^                       |                        |
     |  +------responses--------+<-----------------------+--> MatchingEngine (one MEOrderBook per ticker)
     |                                                   |
     +-- MarketDataConsumer <==incremental stream==  MarketDataPublisher
                            <==snapshot stream====  SnapshotSynthesizer
```

| Part | State | Operations | Where it is hard |
|---|---|---|---|
| `MEOrderBook` | price levels in a slot table and two circular lists, orders in a circular list per level, index by client and order id | `add`, `match`, `cancel` | three containers kept in step by hand; priority; sweeps over several levels |
| `MatchingEngine` | the books, three queues | `processClientRequest`, `sendClientResponse`, `sendMarketUpdate` | outputs leave in the middle of a request |
| `OrderServer`, `FIFOSequencer` | socket, expected and next sequence number per client; pending requests | `recvCallback`, `recvFinishedCallback`, response loop | order across clients and batches, sequence gaps, reconnects |
| `MarketDataPublisher` | next sequence number, two queues | the loop of `run` | reads a queue slot after giving it back |
| `SnapshotSynthesizer` | copy of every live order, last sequence number | `addToSnapshot`, `publishSnapshot` | must equal the book at the sequence number it announces |
| `MarketDataConsumer` | expected sequence number, recovery flag, two maps of queued messages | `recvCallback`, `queueMessage`, `checkSnapshotSync` | loss, snapshots that miss messages, leaving recovery at the right number |
| `MarketOrderBook` | the client's copy of the book, best bid and offer | `onMarketUpdate`, `updateBBO` | clear, stale levels, best levels |
| `OrderGateway` | sequence numbers, socket | `run`, `recvCallback` | same channel from the other end |
| `OrderManager`, `RiskManager`, `PositionKeeper` | one order per ticker and side, position, profit | `moveOrders`, `onOrderUpdate`, `checkPreTradeRisk`, `addFill` | a fill that races a cancel; risk is checked against the position only |
| `MarketMaker`, `LiquidityTaker`, `FeatureEngine` | features, configuration | callbacks | one feature engine for all tickers |
| `TradeEngine` | thread, two incoming queues | `start`, `run`, `stop`, destructor | stopped by another thread while its queues still grow |
| `LFQueue` | ring, two indices, element count | two half steps each for writer and reader | no test for a full ring |
| `UnorderedMapMEOrderBook` | the same book over hash maps | as `MEOrderBook` | pool blocks linked by hand; entries that appear on lookup |
| `MemPool` | blocks, next free index | `allocate`, `deallocate` | the last free block |
| `TCPSocket`, `TCPServer`, `McastSocket` | send and receive buffers | `send`, `sendAndRecv`, `poll` | partial writes, split frames, failed sends |
| `Logger` | queue of log elements | `log`, `flushQueue`, destructor | a queue for one producer with two; shutdown |

## 2. Modules

Arrows read "is extended by" or "is implemented by"; after a slash is the module
with the theorems about a component.

```
 PriceLevels <-- PriceLevelRing / MarketOrderBookProofs     list of price levels
 MEOrderBook / BookAndQueueProofs --> MCMEOrderBook         book and matching engine thread
 FifoQueue <-- LFQueue / BookAndQueueProofs
                  --> MarketDataPublisher / BookAndQueueProofs
                                                            queue and its reader
 MarketUpdates --> SnapshotSynthesizer, MarketDataConsumer
                  --> MarketDataFeed / FeedAndEngineProofs  market data, both ends
 FIFOSequencer --> OrderServer
                  --> OrderEntry / OrderEntryInvariant, OrderEntryProofs
                                                            gateways, server, sequencer
 TCPSocket / PositionAndSocketProofs                        bytes and frames of a connection
 OrderManager / OrderManagerInvariant, OrderManagerProofs   trade engine: orders and risk
 PositionKeeper / PositionAndSocketProofs                   trade engine: profit
 MarketOrderBook / MarketOrderBookProofs
                  --> MCMarketOrderBook                     trade engine: book, features, quotes
 Logger --> TradeEngine / FeedAndEngineProofs               trade engine: start, loop, stop, log
 MemPool / MarketOrderBookProofs
         --> UnorderedMapMEOrderBook --> MCUnorderedMapMEOrderBook
 MEOrderBook <-- UnorderedMapMEOrderBook                    the book over pool blocks and pointers
```

Conventions.  Variables keep the names of the members they stand for, without
the trailing underscore; actions keep the names of the functions.  A definition
called `...Mutant`, or marked `Mutant:`, is not part of any specification: it is
a wrong version of the definition after it, with which the property named in
`PROJECT.json` fails.  Bounds are constants whose comment begins with `bound`.
Where one module of proofs extends several components, their specifications and
variable tuples have names of their own (`RingSpec`, `TCPSpec`, `PSpec`,
`QueueSpec`, `TradeSpec`).  Such components share no state, and each has its
own invariant; they stand in one module only to keep proof modules few.

**MEOrderBook.**  `order` are the `MEOrder` objects in use by market order id,
`level` the slots of `price_orders_at_price_` in use with the ring of each level
as a sequence, `cid_oid_to_order` the index by client.  `add` accepts a new
order, `match` is one iteration of the loop in `checkForMatch` (fill, the two
responses, the market updates, removal of a filled passive order), `addRest`
puts the remainder in the book, `cancel` is a whole request.  An iteration is a
step because its responses and updates are visible to two other threads before
the next one.  Quantities are modulo `QtyModulus`.

**PriceLevelRing.**  `best`, `next_entry`, `prev_entry` are `bids_by_price_` or
`asks_by_price_` and the links; `addOrdersAtPrice` starts an insertion, `search`
is an iteration of its loop, `insertAfter` and `insertBefore` its two ends,
`removeOrdersAtPrice` a removal.  It implements `PriceLevels`, a set of prices
with its best element, which is how `MEOrderBook` sees a side.  The trading
book (`trading/strategy/market_order_book.h`) has the same code.

**LFQueue.**  One action per access to an atomic variable; `item` is what the
reader took.  `getNextToWriteTo` has no test for a full ring and the model has
none: a writer that is a whole ring ahead overwrites, and a read of a slot while
it is written gives any element.  `FifoQueue`, which it implements, says what is
left of a queue then: the writer spoils the element in use and those with `N - 1`
newer ones behind them.  **MarketDataPublisher** puts the loop of
`MarketDataPublisher::run` on the reading side: take a pointer, send, give the
slot back, copy through the pointer; `crowded` is a history variable.

**SnapshotSynthesizer, MarketDataConsumer, MarketDataFeed.**  A market update is
its type, ticker, order id and quantity.  `books` is the history of the engine's
book, against which all copies are compared.  A datagram holds what one turn of
the publisher's loop sent.  `fault` loses, repeats or swaps datagrams of either
stream.  `recover` is `checkSnapshotSync` with its early returns; `spliced` is a
history variable.  The timer of the synthesizer may expire at any time.

**FIFOSequencer, OrderServer, OrderEntry.**  A pass of the server is `poll`, a
`recvCallback` or `drained` for each connection, and `finishPass`, which sorts
and publishes the requests and then sends the waiting responses.  Messages
arrive at any point of a pass.  `restart` ends a client process and starts it
again with a new connection and numbers from one.  The matching engine answers
each request and may add a fill for an order taken before.  `Accepted` is the
loop of `recvCallback` over the messages of a read, `Sent` the loop of `run` over
the waiting responses; both are recursive functions over the number of turns.
`SortedOrders` are the orders `std::sort` may leave the requests in; `overfull` is
a history variable, set when a pass sorts more than `StableSize` of them.

**TCPSocket.**  A byte is the pair of its message and its place in it.  The
kernel takes and gives any number of bytes; either side may fail.  `Joined` puts
the frames read end to end: all have the length of a frame, so byte `i` is found
by division and no fold is needed.

**OrderManager.**  One ticker; `requests` and `responses` are the whole path to
and from the exchange, in order (what `OrderEntry`, `TCPSocket` and `LFQueue`
establish).  The exchange answers requests in order and fills live orders at
any time.  The comparison of the profit with `max_loss_` is a free choice.

**PositionKeeper.**  `addFill` and `updateBBO` over exact rationals; `fills`,
`cash` (what the executions brought in), `offset` and `mark` are history
variables.

**MarketOrderBook.**  The book of a ticker is a set of orders, those in
`oid_to_order_`; `freed` are prices whose slot still points to a level that CLEAR
gave back.  `addOrder` links an order at such a price behind the freed orders of
the freed level, so it is in the book and at no level: `Listed` are the orders
that `bids_by_price_` and `asks_by_price_` lead to, from which the BBO is made.
The freed level keeps its freed orders, so it never becomes empty, and its entry
stays.  This is what the code does until a pool hands out one of the freed blocks
again, a round through the pool later (by default 256 levels, 1,048,576 orders);
what an entry for a freed level points to from then on is left out.  `stale` is a history
variable: the sides without an update since the last CLEAR.  `feature` is shared
by the tickers as in `FeatureEngine`; `quote` is the call of `moveOrders` the last
update led to.

**MemPool.**  `is_free`, `next_free_index`, and the blocks given out.

**UnorderedMapMEOrderBook.**  The composition of the pool with a book: an
`MEOrder` is a block, a level is a ring of `prev_order` and `next_order`
pointers that starts at `first_me_order`, and `cid_oid_to_order` has entries
only for clients it has met, because `operator[]` inserts.  Its pool can run
out, which ends the process in `allocate`.  `AbstractOrder`, `AbstractLevel` and
`AbstractCidOid` map blocks and rings to the orders and sequences of
`MEOrderBook`.  `MEOrderBook` in the code keeps its orders in the same rings and
the same pool, so the run also shows that its sequences are a fair picture.

**Logger, TradeEngine.**  `pushValue` is one action per access to the ring's
shared indices, for each thread; `flushQueue` the logger's thread.  An element is
the slot it was put in; `pending` are those not yet in the file, `garbled` and
`raced` are history variables, and `Overrun` says that there are more elements
than slots.  `TradeEngine` follows `main` from `start()` through `stop()`, the
join and `delete trade_engine` to the closed log file, against the engine's loop
over its two queues, while the gateway and the consumer add to them, without end
or until the exchange ceases to send (`cease`).  `main` calls `stop()` only after a
minute without an event (`silent`); `owed` are the elements that had come by then
and are not handled.  Handling an element begins and ends, so that `main` may read
the positions in the middle; what a handler does is in `OrderManager`,
`PositionKeeper` and `MarketOrderBook`.

## 3. Runs

`tlc -config <cfg> <module>`; each takes less than five minutes on two cores.

| Run | Shows | Bounds, and why they are enough | States |
|---|---|---|---|
| order_book | containers agree, time priority, never crossed also between two fills, best price and oldest order first, every request ends | 2 clients with 2 ids, 3 prices, 3 orders of 1 or 2: sweep over two levels, partial fill on either side, reuse of an id; sizes beyond are proved | 167,331 |
| price_level_ring | one sorted ring, implements the set of levels, the search ends | 6 prices, both sides: insertion before, between and behind, and removal of best, middle, worst and only level | 782 |
| market_data_publisher | indices and count agree at every access, first in first out up to what an overrun spoils, what is written gets read, the late copy is what was sent unless the ring was all but full | ring of 3, up to 7 ahead: both indices wrap around, the ring is overrun twice and recovers; other sizes are proved | 51,516 |
| market_data_feed | the snapshot is the engine's book at the announced number, assertions hold, the consumer is in step, recovery ends | 2 tickers, 2 updates, 3 faults: loss of an update, then of parts of two snapshots; the first two for any stream are proved | 652,510 |
| market_data_splice | expected violation, section 5 | 1 ticker, 3 updates, 3 faults | |
| order_manager | responses meet the order they are about, position within the limit, agreement when settled, cancels end | 4 orders of 2 lots, limit 3: cancel and fill cross, a slot is reused, both sides trade; sizes beyond are proved | 275,437 |
| position_keeper | profit is cash plus value of the position, up to the uninitialised cost; average cost is between the prices | 4 fills of 1 or 2 at 3 prices: increase, partial close, flip, flat, then any of them again; longer histories are proved | 365,296 |
| tcp_socket | bytes are conserved, frames aligned, messages arrive | frame 3, buffer 7, kernel 4, 5 messages: every split of a frame, compaction with a partial frame in front; other sizes are proved | 2,740 |
| order_entry | requests in order and from one run, none lost, responses numbered as expected | 2 clients with 2 requests, one restarts once and has later fills, sequencer limit 3, two receive times; `StableSize` is 2 instead of 16, so that passes with a stable sort, with an unstable one and with too many requests all occur; any number of clients, runs and requests is proved | 2,680,590 |
| market_order_book | from the first update of a side after a CLEAR on, the BBO is the top of the listed levels and the maker does not cross the exchange's book; features are the ticker's own | 2 tickers, one of them cleared at any time, up to 3 orders of 1 or 2 with 3 in all, 3 prices: a listed level on each side and an order between them that is not listed, two orders at a level, a side that stays stale; larger books are proved | 375,484 |
| unordered_map_book | no block given out twice, assertions only when all blocks are in use, no dangling pointer and no leak, answers as `MEOrderBook` does but for one kind of cancel | 2 clients with ids 0 and 1, 2 order ids, 2 prices, 4 orders in 4 blocks: rings of up to three, removal of first, middle and last, the pool full; pools of any size are proved | 107,284 |
| trade_engine | `stop()` drops nothing that came before it, logged positions are complete, the file has what was logged up to races and overruns, the program ends once the exchange is silent | any number of arrivals, 1 at a time in each queue, 1 message of `main` besides those of `stop()`, 1 element per message, ring of 2 with up to 3 elements: an arrival on each side of each test, both threads in `pushValue`, an overrun, indices wrap around; the first three for any number are proved | 527,520 |

Symmetry over order ids is used for `market_order_book` and `unordered_map_book`:
they are compared for equality and nothing else, and the runs have no liveness.
Both also have a view: that of `market_order_book` leaves out the numbers of a
feature, which are read only in the step that computes them, that of
`unordered_map_book` the last responses and updates, which no step reads;
`ImplementsBook` is still checked on every step TLC generates.

Deadlock is not checked where the system may stop: a used-up bound with nothing
left in flight (`order_entry`, `position_keeper`, `tcp_socket`), and a
process ended by an assertion (`tcp_socket`, `unordered_map_book`,
`order_entry`).  In the other runs there is always a step; `trade_engine` ends in `Terminated` and nowhere else.

Bounds in guards: `MaxOrders`, `MaxSends`, `MaxMessages`, `MaxFills`,
`MaxRequests`, `MaxSessions`, `MaxSeq`, `MaxFaults` and `MaxTime` cap what the
environment does; `Restarting`, `Filling` and `Recovered` say which clients restart
and have later fills, and which books are cleared; `MaxVolume` caps the quantity in
the trading books.  `MaxAhead` and the logger's `MaxPending` cap how far a producer gets ahead
of its reader, beyond the size of the ring, and `MaxBacklog` the elements of a
queue at a time, but not how many arrive in all.

**Fairness.**  Every thread of the system is a loop that spins without blocking,
so its next step is weakly fair: the matching loop (`order_book`), the search
loop (`price_level_ring`), both users of a queue (`market_data_publisher`),
publisher, synthesizer and consumer (`market_data_feed`), trade engine and
exchange for what is queued (`order_manager`), `main`, the engine's and the
logger's thread (`trade_engine`).  In `trade_engine` fairness is strong for the
threads that log: a push never waits in the code, but waits at the bound
`MaxPending` of the model, which is open again and again.  That a minute passes
without an event is certain only once the exchange has ceased to send.  Delivery
of a datagram that is still on its way, and of bytes in the kernel, is fair as
well; faults are bounded.  Nothing makes a client send, an order trade, a producer produce or a
process restart.

## 4. Proofs

`tlapm <module>.tla` for the eight modules below.  The theorems hold for every value of the constants
that satisfies the named assumptions.

* **BookAndQueueProofs**, the order book: `BookEntriesAgree`, `BookIsFifo`,
  `BookNotCrossed`, `BookFillsBestFirst`, from the inductive invariant of
  `BookIsWellFormed`.  No conjunct is inductive alone: that the book is not
  crossed after `addRest` needs the loop to have stopped because nothing crosses,
  which needs the best level found through the table to be the best order
  (`EntriesAgree`); that a new order is last in time needs its id to be greater
  than all ids in the book (`AggressorIsNew`).  The lemmas treat adding,
  shortening and removing an order once, for all actions.  Assumptions:
  `SizeAssumption`, and `NoCollision`: prices in use do not share a slot.
* **BookAndQueueProofs**, the queue and its reader: `QueueIndicesAgree` and the
  refinement `QueueIsFifo` of `FifoQueue`, for every ring size and every load,
  overruns included (`QueueAssumption`); `PublisherForwards` likewise.  The
  invariant says that the write index is as many slots after the first unread one
  as there are unread elements, modulo the ring; a write then meets exactly the
  elements that are a multiple of `N` before it (`WriteSlot`), and those are the
  ones `FifoQueue` lets go.  Every step of the publisher is a step of the queue or
  leaves it alone, so the queue's invariant is reused; the new part is that a
  producer with fewer than `N - 1` elements in the ring does not reach the slot
  released last (`ReleasedSlotIsSafe`).
* **PositionAndSocketProofs**, a connection: `StreamFrames` and `StreamBytes`, for every
  frame length, buffer and kernel size (`TCPAssumption`: the buffer holds a frame).
  The bytes are read in four places, so the invariant `StreamInv` gives each place
  its position in the whole: frames read, then the receive buffer, then the
  kernel, then the send buffer, each holding the bytes that follow the one before
  it (`Follows`).  After an error closed the sending socket only the last link is
  lost, and frames stay aligned.
* **FeedAndEngineProofs**, market data: `FeedSnapshot` and `FeedAsserts`, for any number of
  tickers, updates and faults (`FeedAssumption`).  That the synthesizer's copy is
  the book at the number it announces is not inductive, because the next update
  comes through two queues.  `FeedInv` says of every update in either queue that
  it has, or will get, the number of the engine's step that made it, and that it
  fits the book of that moment (`Leads`); hence no assertion fails either.
* **MarketOrderBookProofs**, the trading book: `BookBBO`, `BookFeature` and
  `BookMaker`, for any tickers, orders, quantities, recoveries and threshold and
  any finite set of prices (`BookAssumption`; finite, because a side needs a best
  price).  A side of the BBO is recomputed only if the update was at the top of the
  listed levels, as seen before the update; otherwise the top is the one before
  (`NotUpdatedKeepsTop`).  The invariant adds that a side without an update since a
  CLEAR has no orders, so that its first update is one of the top (`StaleIsEmpty`),
  that the quote was made from a BBO that still holds (`QuoteBehind`), and that the
  book, orders at no level included, is not crossed (`Uncrossed`): a best bid on a
  side that is not stale is the price of an order of the exchange, and so below all
  its sell orders.
* **MarketOrderBookProofs**, the pool: `PoolNextNotHeld` and `PoolAbortMeansFull`,
  for every number of blocks; the invariant adds that the blocks given out are
  those not marked free.
* **MarketOrderBookProofs**, the list of levels: `RingIsSorted` and
  `RingImplementsLevels`, the refinement of `PriceLevels`.  The ring is described
  without paths or induction: the successor of a level is the best of those worse
  than it, and that of the worst is the best of all.  The invariant adds that a
  search in progress has passed only better levels (`SearchOnCourse`).
* **PositionAndSocketProofs**, the positions: `PositionProfit` and `PositionAverage`, for any prices,
  quantities, number of executions and initial contents of `open_vwap_`
  (`PositionAssumption`).  `total_pnl_` alone says nothing about the next
  execution.  `ProfitInv` is the balance behind it: the realised profit is the cash
  of the executions, plus the offset, plus the signed cost of what is open; and a
  position that is flat after an execution has no cost.  `addFill` keeps it when it
  adds, closes a part, closes all or turns the position; a valuation then replaces
  cost by value.  `AverageInv` bounds the cost by two executed prices times the
  open quantity, which closing a part scales and adding widens.  Equations between
  fractions are stated over integers, without division.
* **FeedAndEngineProofs**, start and stop: `EngineStopHandles` and
  `EnginePositions`, for any number of arrivals and messages and any log ring.
  `stop()` tests two sizes one after the other while both queues grow.  The
  invariant (`EngineInvariant`) says that what `stop()` owes is in the queue and not
  handled, and is all of that as long as nothing came since the call.  The count of
  a queue goes down only after an element was handled, so a queue found empty owes
  nothing (`EmptyOwesNothing`), and an element handled after the tests came late
  (`HandledIsLate`).  The steps of the logger change none of this.
* **FeedAndEngineProofs**, the log: `LogFile`, for any ring size, number and length
  of messages and the two threads of the process (`LoggerAssumption`,
  `EngineAssumption`), races and overruns included.  `LogInv` says that the count
  covers what is pending, and, as long as two threads were not in `pushValue` at
  once, that the pending elements lie in one slot after the other from the read
  index on (`Ring`); with no more of them than slots, the one to be read is the
  last that was put in its slot.  And nobody logs any more when `main` stops the
  logger (`Quiet`), because the engine's thread was joined before.
* **OrderManagerInvariant, OrderManagerProofs**: `OrderManagerResponsesFit`,
  `OrderManagerWithinRisk` and `OrderManagerSettled`, for every set of prices,
  clip, limit and number of orders, from the inductive invariant of
  `OrdersInOnePlace`.  None of the three is inductive: `onOrderUpdate` compares no
  ids, so that a response fits its slot depends on what is on both paths.  The
  invariant says where an order can be.  Its NEW is on the way and nothing else
  is; or it is in the exchange's book and nothing that ends it is on the way; or
  such a response is on the way and is the last about its side (`Paths`,
  `Places`, `Current`, `Ids`).  The fills on the way follow on each other
  (`Chain`), so the quantity that the last of them leaves explains the difference
  between the exchange's position and the client's (`Amounts`), and a fill moves
  quantity from slot to position, which keeps their sum within the limit
  (`Limits`).  The first module states it and treats the trade engine's steps,
  the second those of the exchange.  The trade engine's part of the state is a
  record, because `moveOrders` updates it twice in one step.
* **OrderEntryInvariant, OrderEntryProofs**: `EntryRequestsInOrder`,
  `EntryResponsesFit` and `EntryRequestsConserved`, for any finite set of clients,
  any of them restarting any number of times, any sequencer limit and any
  `StableSize` (`OrderEntryAssumption`), from the inductive invariant of
  `EntryInvariant`.  What reaches the engine says nothing about the next pass, so
  the invariant follows a request along its way.  A connection the server would
  take requests from carries consecutive numbers that begin with the expected one
  (`Streams`); the expected number is one more than the client's requests in the
  queue and the sequencer together, and each request's own number is its place
  among them (`Numbers`); all come from the connection the client is bound to
  (`Bound`), and receive times do not decrease along a client's requests, those
  still on the connection included (`Times`).  So a stable sort by time keeps a
  client's requests in order (`SortedCounts`), although it mixes them with those
  of other clients.  Requests are counted, not filtered: `Count` is the size of a
  set of places, and a permutation of places keeps it (`CountImage`).  For the
  responses the invariant (`Deliverable`) says that the numbers on the way to the
  bound connection are consecutive and end before the server's next one, that an
  unbound connection has none, and that every response in the queue has the socket
  which the code asserts it has.  The theorem covers restarts because a restarted
  client's new connection is bound only if nothing was ever taken from the old one.

  `Accepted` and `Sent` are recursive functions, and what they compute is proved by
  induction over the turns of the loop.  The library's induction theorems have an
  operator as parameter, which the provers cannot instantiate; `SetInduction` states
  induction for a set of numbers instead, proved from the fact that a set of
  naturals has a least element, and `RecursionExists` that a function defined by
  iteration exists.

`PROJECT.json` names the theorems that state a property of a run.  TLC
finds no violation of `StreamInv`, `LogInv`, `BookInv` of the trading book,
`ProfitInv`, `AverageInv`, `RequestInv` and `ResponseInv` on the instances of their
runs, nor of `FeedInv` with three updates and no faults.  Each module takes two to
seven minutes from nothing.

Only model-checked:

* all liveness (the prover has no rules for fairness and `ENABLED`);
* `InSyncUnlessSpliced`: the consumer's book is the result of applying a whole
  cycle and then the queued updates.  A proof needs the book a cycle yields in
  closed form, the cycle each queued datagram comes from, and what arbitrary losses,
  repetitions and swaps leave of both; only the synthesizer's half is proved;
* `BlocksAreLinked` and `ImplementsBook` of the book on `std::unordered_map`: a
  level is the path along `next_order`, so that the invariant would have to carry
  the sequence of blocks of every level besides the pointers.  The list of levels,
  whose links have a description without paths, is proved.

## 5. Where code and documentation differ, and what the results assume

* **A snapshot made of two cycles** (`market_data_splice`, listed as a finding).
  `checkSnapshotSync` never compares the number in SNAPSHOT_START with the one in
  SNAPSHOT_END.  When the end of one cycle and the beginning of the next are
  lost, the consumer takes old orders for the book at the new number, and stays
  wrong.  `InSyncUnlessSpliced` shows that this is the only way to get out of
  step, for any losses, repetitions and reorderings within the bounds.
* **Two prices in one slot.**  `getOrdersAtPrice` uses `price %
  ME_MAX_PRICE_LEVELS` and resolves no collision.  With `Price = {1, 5}` and
  module `MEOrderBook` in place of `MCMEOrderBook`, `EntriesAgree` fails.
* **A full ring.**  `LFQueue` does not tell its producer that it is full, and
  overwrites elements that are unread or in use.  `IsFifo` says which ones, and
  that indices and count survive; the code relies on rings so large that it does
  not happen.  The publisher reads a slot after giving it back, so its late copy is
  at risk one element earlier: without `crowded`, `ForwardsWhatItSent` fails.
  `benchmarks/LOW_LATENCY_DESIGN_AND_HOT_PATH_REVIEW.md` (lines 577-587) says the
  same of the log queue, where `FileIsLog` promises nothing of an element whose
  slot is claimed again before it is read.
* **`std::sort` is not stable.**  Requests read together have one receive time.
  The library's sort keeps equal elements in order up to 16 of them, and a pass
  with more may let a cancel overtake its order: without `~overfull`,
  `RequestsInOrder` fails.  With it, it is proved for every `StableSize`.
* **Too many requests** in one pass end the exchange process with a FATAL in
  `addClientRequest`, for all clients.  The run has it; `RequestsConserved` speaks
  of the states without it.
* **A client that restarts** after the server took a request of it is not served:
  its new connection is not the socket the server has for it, and its requests are
  dropped without an answer.  `RequestsInOrder` says that the requests of two runs
  never mix, `RequestsConserved` of the first run only that nothing is lost.
* **Order across clients** holds within one pass over the connections only: a
  request that arrives on a connection already read is published in the next
  pass, after later ones (`common/tcp_server.cpp:37`; the comment at
  `exchange/order_server/order_server.h:150` speaks of the order of receipt).
* **CLEAR** leaves the best bid and offer and the pointers to freed levels, as
  `benchmarks/TRADING_ARCHITECTURE_REVIEW.md` says (lines 919-922).  Every recovery
  begins with it and adds the orders again, mostly at prices the book had before.
  Those orders are linked into freed levels and are at no level of the book: a side
  with no others has an INVALID best price although it has orders, and the
  algorithms see no market there.  Until a side has its first update the market
  maker quotes from the BBO of before the CLEAR, and may cross: without the
  condition on `stale`, `BBOIsTop` and `MakerDoesNotCross` fail.  With it, both are
  proved, lost orders included.
* **Uninitialised cost.**  `open_vwap_` has no initialiser; the profit is off by
  what it held (`PnlOffByInitialCost` says by exactly how much).
* **moveOrders** compares prices only, although the comment at
  `trading/strategy/order_manager.h:107` speaks of the quantity as well.
* **Cancels in the book on `std::unordered_map`.**  `cancel` tests `client_id <
  cid_oid_to_order_.size()`, the bound of an array in `MEOrderBook` and the number
  of clients met here.  A client whose id is not below that number cannot cancel.
  `benchmarks/ORDER_BOOK_DATA_STRUCTURES_REVIEW.md` describes it, so it is not
  listed as a finding; `ImplementsBook` shows that it is the only difference from
  `MEOrderBook` (`RejectHighClient`).
* **Two producers of one log queue.**  With the random algorithm `main` logs through
  the trade engine's logger in `sendClientRequest`, and in every case in `stop()`,
  while the engine's thread logs too.  The queue is made for one producer: two
  threads may take one slot.  `FileIsLog` shows that this and an overrun of the ring
  are the only ways for the file to differ from what was logged, and that even then
  as many elements are written as were pushed and the logger shuts down with an
  empty queue.  Requests have one producer: under the random
  algorithm the engine's thread sends none.
* **Positions at shutdown.**  `stop()` reads the positions from `main`'s thread
  without waiting for the engine's thread.  `PositionsComplete` shows that they
  can be torn only if something arrives during the call.
* **Shutdown under traffic.**  `main` waits for a minute without an event, and
  `stop()` for two empty queues, while the gateway and the consumer still fill them;
  under unending traffic either wait may last forever
  (`benchmarks/TRADING_ARCHITECTURE_REVIEW.md`, lines 967-968).  The run has such
  behaviours: `ProgramEnds` promises the end only once the exchange has ceased to
  send.
* **Two worries of `benchmarks/TRADING_ARCHITECTURE_REVIEW.md` do not come
  true.**  A late response does not change the successor of its order, and no
  slot stays in PENDING_CANCEL (lines 930-933): requests and responses keep their
  order, and a slot is reused only after the response that ends its order
  (`ResponsesFitSlots`, `CancelEnds`).  Open orders are not counted by the risk
  check (lines 940-946), yet the position stays within the limit, because there
  is one order per side and the check includes it (`PositionWithinRisk`).

## 6. Not modelled

* Formatting of log messages and of types; latency measurement; benchmarks and
  examples, and the optimised pool and logger, which only benchmarks use.
* System calls, thread affinity and clocks.
* Construction, arguments and signal handling of the two main programs.
  `exchange_main.cpp` sleeps until a signal, whose handler deletes the components
  between fixed sleeps and exits without joining their threads.
* The use of a freed block of the trading book's pools after the pool has handed it
  out again, while an entry of the level table still leads to it.
* Rounding of doubles in the position keeper and the features.
* The buffers of `McastSocket` (a datagram is a whole message list), the array of
  epoll events, and `send_sockets_`, to which nothing is added.
* The pool of price levels of the book on `std::unordered_map`, used as the pool of
  orders is, and its rings of levels, which are those of `PriceLevelRing`.
* `time_str_` of the trade engine, which both of its threads write: it reaches
  nothing but log messages.

The book starts from a table of null pointers, and clients do not send a NEW with
the id of an order still in the book (`OrderManager` counts ids up).  The hazards
in `PROJECT.json` without a property say why.

## 7. Plan

1. Engine to synthesizer: `MEOrderBook`'s own update stream in place of the free
   one in `MarketDataFeed`, and the client's ledger against its responses.
2. `OrderManager` on top of `OrderEntry`, so that order of delivery, restarts and
   dropped responses meet the slots; then the profit of `PositionKeeper` in the
   risk check.
3. Start and stop of the exchange's threads; `McastSocket` buffers.
4. Proofs: `InSyncUnlessSpliced` from `FeedInv` and an invariant of the consumer's
   two maps; the blocks and rings of the book on `std::unordered_map`.
