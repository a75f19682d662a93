# A formal model of the limit order book, its simulator and its data path

TLA+ modules kept beside the C++ code: an L3 order book, a matching engine that
crosses orders against it, a discrete-event simulator in which market flow and
an agent trade behind latency, the market-making policy from solver to
strategy, and the path of recorded market data from the venue to the statistics. TLC
checks the modules on small instances (`*.cfg`); TLAPS proves theorems for every
value of the constants (`*Proofs.tla`). `PROJECT.json` lists the runs, a
plausible bug that each property catches, the source lines of every definition,
the hazards and the findings.

    tlc -workers 2 -config OrderBookQueue.cfg MCOrderBook.tla
    tlapm OrderBookProofs.tla
    tlapm OrderBookRefinementProofs.tla
    tlapm SimulatorProofs.tla
    tlapm MatchingProofs.tla

and so for the other `*Proofs` modules. Paths below are relative to the repository root; `lob/` stands for `include/lob/`.


## 1. The system

### Components, state, operations

| component | code | state | operations | modules |
|---|---|---|---|---|
| order book | `lob/book/order_book.hpp`, `src/order_book.cpp` | order pool, free list, id map, per-level FIFO lists with totals, occupancy bitsets, cached touch, our queue positions | add, reduce, execute, remove, replace, clear, apply, queries | OrderBook, OrderBookRefinement |
| level scans | the same | bitset words | set_bit, clear_bit, scan_up, scan_down | BitScan |
| order id map | `lob/book/order_map.hpp` | open-addressing table | find, insert, erase (backward shift), clear | OrderMap, KeyMap |
| reference book | `lob/book/reference_book.hpp` | sorted maps of lists | the same interface | ReferenceBook |
| differential test | `tests/test_book_differential.cpp` | both books | the same calls to both | OrderBookRefinement |
| matching engine | `lob/sim/matching.hpp` | book, self-match rule, sliding fill log | submit_limit, submit_market, cancel, fill_at, consume_through, clear_fills | Crossing, Matching, FillWindow, FillLog |
| latency | `lob/sim/latency.hpp` | priority queue of messages | push, due | Simulator (which message may land next) |
| simulator | `lob/sim/simulator.hpp` | true book, view book, messages and market data in flight, fill indices, stats | one turn of `run`, send_limit, send_market, send_cancel, note_fills_read | Simulator |
| zero-intelligence flow | `lob/sim/flow.hpp` | what it believes rests, last observed touch, next id | next, on_applied, forget_order, observe | FlowGenerator |
| queue-reactive flow | the same | besides: reference price, queued events of a redrawing, current metaorder | the same | QueueReactiveFlow, Synthetic |
| driver | `lob/strat/driver.hpp` | order out per side, what is left of it, fills read | the agent callback | Driver |
| quoting strategies | `lob/strat/quoting.hpp` | none that is modelled | quote | any strategy, in Driver |
| policy state | `lob/policy/state.hpp` | none | encode, decode, buckets | PolicyState |
| decision process | `lob/policy/mdp.hpp`, `src/mdp.cpp` | parameters | validate, admissible, expand | DecisionProcess |
| solver | the same | values, policy, sweeps spent | solve | Solver |
| policy table file | `lob/policy/table.hpp`, `src/policy_table.cpp` | table, file | save, load, lookup | PolicyTable |
| tabulated strategy | `lob/strat/tabulated.hpp` | running minimum per side | track, side_state, quote | TabulatedPolicy |
| recorder | `tools/recorder_retry.py`, `tools/record_bitstamp.py` | phase of the session, backoff, deadline, buffered messages | the reconnect loop, one session | Recorder, Capture |
| Bitstamp decoder | `lob/feed/bitstamp.hpp`, `src/bitstamp.cpp` | table of orders heard of, last message number, counters | load_snapshot, decode_line, reset | BitstampDecoder |
| capture readers | `apps/stats/main.cpp`, `apps/replay/main.cpp` | decoder, book, followed orders | the loop over lines | CaptureReader, Accumulator |
| queue-reactive estimator | `lob/feat/queue_reactive.hpp` | counts and exposure by state | on_event, on_state | QueueReactiveEstimator |
| journal | `lob/measure/journal.hpp`, `src/journal.cpp` | write buffer, error flag, file | append, flush, close, read_all | Journal |
| histogram | `lob/measure/histogram.hpp`, `src/histogram.cpp` | counts by slot, extremes | record, corrected record, merge, percentile, reset | Histogram |

Not modelled: section 8.

### How they interact

**The simulator** is single-threaded. Its concurrency is in time: the agent decides
on a *view* of the book that lags, its messages travel with a delay drawn per
message, the market moves meanwhile. Five parties hold state about the same
orders: the exchange's book (`true_book_`), the agent's view (`view_book_`),
the generator's belief (`live_`), the driver's record of its quotes, and the
fill log with its readers. They are updated by direct calls (engine to book), by
queues (market data, messages in flight), by polling the log by index (publisher
and agent), and by call-backs (`on_applied`, `forget_order`, `observe`). Most
hazards are disagreements between two of these five.

**The data path** is a chain of copies of a book that nobody here owns. The venue
publishes messages; the recorder subscribes, buffers, takes a snapshot by a
second channel, then writes a marker, what it buffered and what follows, until
the connection fails and it starts again; the decoder keeps its own table of orders;
the book applies what the decoder makes of a line; the Accumulator looks at the
book before and after each event. A message lost, a session broken or a
snapshot that overlaps the messages makes one of the copies differ from the next.

**The policy** goes from `expand` (the process) through `solve` to a file, through `load` into the
strategy, which asks it about a state that it can only estimate.

### What is hard, and what makes each part correct

* **Order book.** Intrusive lists, a free list and an index that must agree after
  any sequence of calls. Correct when every slot is free or holds the order its
  id maps to; links are arrival order; totals, bitset and touch are what a
  walk would find; our queue positions are what a walk would find. All of it: when it
  behaves as a price-time book of plain queues.
* **Id map.** Backward-shift deletion across the wrap. Correct when it is a map for every hash.
* **Matching.** A loop that changes the level it walks. Correct when the fills
  are those of price-time priority stated in closed form, quantity is conserved, and no
  order of ours trades with another of ours.
* **Fill log.** A window trimmed behind two readers. Correct when each reader gets
  each fill once, in order.
* **Simulator.** Correct when fills are booked once, executions are published once and in
  order, the view lags and is never wrong, the run ends with everything landed.
* **Generators.** Belief about a book that others change. Correct when the belief is the book; when a
  redrawing leaves nothing of the book before.
* **Driver.** Belief about its own quotes, one turn late. Correct when no order of
  ours rests without the driver counting on it or its cancel under way.
* **Process, solver, table.** Correct when the transitions of an action are what can happen, with probabilities that
  sum to one; when the sweeps stay in their budget; when a table in use is one that a solve made, whole.
* **Tabulated strategy.** It reads a book that lags and its orders land late. Correct when the place it asks the table about is better
  than its true place by no more than what these two delays hide from it.
* **Recorder, decoder, readers.** Correct when the queues rebuilt from a whole capture are the venue's, a loss
  shows, the rows tell fills from cancels, and the recording lasts as long as it was asked to.
* **Estimator.** Correct when time and events are charged to the state they found, whichever sides the book has.
* **Journal.** Correct when one that reports no failure reads back whole.
* **Histogram.** Correct when a percentile is the slot of the sample of that rank, through merges and corrections.


## 2. The modules

    ReferenceBook <-- PriceTimeQueues <-- PriceTimeBook        abstract book
                        ^                       ^
                        |   OrderBook <-- MCOrderBook <-- OrderBookRefinement
                        |
        Crossing, FlowGenerator, Accumulator, BitstampDecoder, QueueReactiveEstimator
           |
           +-- Matching
           +-- Simulator (with FlowGenerator, FillWindow) <-- Driver
           +-- Synthetic (with QueueReactiveFlow, Accumulator, QueueReactiveEstimator)
           +-- Capture   (with CaptureReader = BitstampDecoder + Accumulator, and Recorder)

    PolicyState <-- DecisionProcess      Solver <-- PolicyTable      FillWindow <-- FillLog
         ^--------- TabulatedPolicy      OrderMap --> KeyMap         Journal  Histogram  BitScan
                 (all of these, side by side, in MCParts)

The MC modules hold what only TLC needs: views, symmetry, configurations, warm starts.

Books are *values*, and member functions are operators from a book to a book
and a result (`[book |-> ..., err |-> ...]`), so that a composition in the code
(replace is remove and then add; crossing is a loop of executes and cancels) is
a composition of operators here, and a lemma about an operator serves all its callers.
The generators, the decoder, the Accumulator and the estimator are values in the same way.

### The book and its matching

* **OrderBook** keeps one field per data member: `pool`, `levels`, `bits`,
  `best`, `map`, `free`, `own`. `Enqueue` is the mutating half of `add`,
  `Unlink` that of `remove`. Slots are indices, `NullOrder` is -1, a bitset
  is the set of its members. Statistics counters are left out. A free slot
  keeps the contents its last order left, as in the code.
* **ReferenceBook** is the oracle: a queue of entries per side and price.
  **PriceTimeQueues** adds to it what the fast book has and the oracle has not (window,
  capacity, the order of the checks, ownership); **PriceTimeBook** is the state machine
  over it, and the abstract specification of OrderBook.
* **OrderBookRefinement** reads the abstract queues off the links, and compares: step by
  step (`ImplementsPriceTimeBook`), query by query (`QueriesAgree`), and with the reference book as the
  differential test does (`ReferenceAgrees`). **BitScan** is the word-level code of the scans,
  which OrderBook takes as `CHOOSE` of the nearest member (`ScansFindTheNearest`); its state is the set of occupied levels,
  changed a bit at a time.
* **OrderBookProofs** (types, the pool, then the inductive invariant of queues, totals, touch and positions)
  and **OrderBookRefinementProofs** (the refinement, the oracle, the queries) hold the proofs, one lemma per
  operator and fact; each extends the one before.
* **OrderMap** is the table as a function on places; the hash is part of
  the state, any function from keys to places. **KeyMap** is its abstract specification.
  **BookIndexProofs** is about the two indexes of the book, the map and the scans.
* **Crossing** is `cross`, as a fold over at most as many steps as orders rest, and
  `submit_limit`/`submit_market`. **Matching** puts a book under any sequence of
  submissions. The book is the abstract one: OrderBook was shown to implement it.
  **MatchingProofs** is about it.
* **FillWindow** is the vector and its base index; **FillLog** the log with its readers (proofs in **RecordingProofs**,
  with those of the recorder and of the journal).

### The simulator and what drives it

* **FlowGenerator** is the belief and the zero-intelligence events. Random draws are
  existential: any side, any price the code could reach after `price_for`'s clamp to
  the observed touch, any size.
* **QueueReactiveFlow** adds the reference price, which moves when the best queue of a side
  empties, the redrawing of the book (queued events, handed out one per call), orders that
  the price has walked away from, and metaorders. Intensities decide only how often.
* **Synthetic** is the loop of `apps/stats` over that flow: draw, look with the Accumulator and the estimator,
  apply to the matching engine, tell the generator. One step is one turn.
* **Simulator** splits one turn of `run` where its parts can come apart (`pc`):
  draw, orders, feed, event, publish, agent; then drain. The agent is any
  agent. Nanoseconds are abstracted to what they decide: which messages have
  arrived. With `Jitter`, any message in flight may be next (each draws its own delay);
  without, the order is that of decisions, ties by id (`InFlight::Later`). Market data has one
  delay and is a queue: any prefix may have arrived.
* **Driver** replaces the agent by `run_strategy`'s lambda. The strategy is any
  one that does not cross the touch it sees and respects its inventory limit
  (`assemble`). Its time budget is abstracted: any turn may be too soon.
* **SimulatorProofs** holds the proofs about Simulator: lists and folds, what a submission does to the log and to the book, then
  the inductive invariants of publication, of the view and of booking; in its second half those about Driver.

### The policy

* **PolicyState** packs a position, two quotes and an imbalance into a number and back.
* **DecisionProcess** is `validate` and `expand`: a probability is a number of parts of `One`, so
  each transition has an exact number of parts of `One^6`. `rewards` are left out but for the events that earn them.
  A behaviour picks parameters and walks any admissible action and any transition.
* **Solver** is the control of modified policy iteration. Values are numbered by the sweep that made them, and what an
  improvement changes is any of small, large, and past what a discounted process can reach.
* **PolicyTable** is the file between `apps/solve` and the strategy: saved in place, cut short anywhere, written by
  another build, with a value out of range, read back item by item.
* **TabulatedPolicy** has the market's queue at two prices, our order in it, and the running minimum.
  **PolicyProofs** is about Solver, PolicyTable and TabulatedPolicy.

### The data path

* **Recorder** is the reconnect loop with its clock, backoff, deadline and stop flag.
* **BitstampDecoder** is `load_snapshot` and `decode_line`; a line is a record, and how JSON can fail is an outcome of reading it.
* **Accumulator** is the part of `apps/stats` that writes orders.csv: who is followed, and what a departing order's row says.
* **CaptureReader** is `apps/stats` and `apps/replay` over a capture's lines, with what each does at a session marker.
* **Capture** composes them with a venue. The venue is *external*: it publishes as the decoder's comments and tests expect
  (creation first, then the resting orders it trades with, then itself). Messages and snapshots travel apart; a message may be lost or damaged, or
  come without its traded size; a snapshot may be incomplete; a session may break at any point.
  **CaptureProofs** is about Capture, and extends MatchingProofs, as the venue is a matching engine.

### Measurement

* **Journal** is the writer with its buffer, the C library's buffer behind it and the file; a write may take any part of
  what it is given, in the middle of a record too, and the process may die. **Histogram** is the slot
  arithmetic by shifts, on values small enough for TLC and magnitudes that still double.
* **QueueReactiveEstimator** keeps, of its tables, what was last added and to which state.


## 3. The runs

Each passing run asks one question of one composition.

| cfg | module | question | bounds |
|---|---|---|---|
| OrderBookQueue | MCOrderBook | the invariants of the book after any calls, and our queue position never grows | 3 ids, 2 levels, pool 3, sizes 1-2 |
| OrderBookRefinement | OrderBookRefinement | implements PriceTimeBook; queries agree; the reference book agrees | 3 ids, pool 2, 5 levels of which 2 are used, a price just above the window, sizes 0-2 |
| Matching | MCMatching | price-time fills, conservation, self-match | 3 orders, 2 prices, 3 rules, sizes 0-2 |
| Parts | MCParts | the parts that work alone: fill log, id map, scans, journal, histogram, process, solver and table, tabulated queue | below |
| Simulator | MCSimulator | booking, publication; view and belief while the agent watches; the run ends with everything landed | 2 events and 1-2 messages, with and without latency, draws that differ or not; 3 events and none |
| Driver | MCDriver | nothing forgotten, never short, no orphans while messages keep their order | 2 turns after the opening, draws that differ or not |
| Capture | MCCapture | the rebuilt queues, the decoder's table against the book, nothing refused of a whole capture, losses, rows, the recording's end | 6 orders, 3 acts of the venue or faults, 1 fault, recordings of 2 to 5 units with backoff to 4 |
| Flow | MCSynthetic | the generator's belief, redrawings, rows, exposure while both sides are there | 3 draws on a warm book, 2 queues a side, metaorders of 1 child, redrawings of 1 order a queue |
| SimulatorView | MCSimulator | *violated*, section 6 | 3 events, 1 message, no latency |
| DriverFilled | MCDriver | *violated*, section 6 | 3 turns |
| CaptureReplay | MCCapture | *violated*, section 6 | as Capture |
| FlowExposure | MCSynthetic | *violated*, section 6 | as Flow |

In Parts, a behaviour picks one part and works it: two readers and three fills (`MaxFills`); four keys in four
slots, every hash; a journal of four records (`MaxEntries`) in batches of two; five samples (`MaxSamples`) into two
histograms with four slots a bucket and a ceiling of 20; a process with positions from -2 to 2, two price levels and three
queue buckets, under every candidate of `Candidates1`; solves of five sweeps (`MaxSweeps`) and three of them (`MaxSolves`) for a
table of two entries; two prices with up to three orders each (`MaxLevel`), the market's of one lot, up to two of which join a price (`MaxJoined`),
a message on its way (`MaxLag`), and a table that sees two lots deep (`Depth`); three words of three bits.

A simulator run has a *configuration*, chosen in `Init` from the constant
`Configs`: with latency or without, draws that may differ or not, the number of events,
and a bound on messages; so one run compares several.

Why the bounds are enough to be interesting. Three orders on a level have a
head, a middle and a tail, which is every case of `unlink`; levels at both ends of the window make the
touch jump a gap; a pool of two with three ids is exhausted. Words of three bits
make a scan start, cross and end in different words, at a first and at a last bit, over an empty word. Four keys in
four slots make chains that wrap, and every table up to full. Two events and two messages place an order of the agent,
trade it, and cancel it, before or after each other; three quiet events
rest, trade and take or delete, and trim the log. Three acts of a venue with two orders a side trade part of an order, amend
it and take it away, in one session or across a reconnect, with a message lost between two others; an order inside the seed guard and
one out of the window are among them. Three draws from a warm book consume the touch, move the reference price,
redraw the book and hand out what was queued. Two lots that join a price, and a message and an order on their way, let the market
join before the order was sent, while it is on its way and behind it, and let the estimate be read at any of these times. `MaxRank` (the bound on the 64-bit arrival counter) is far above what
any run reaches; `events` of a configuration is the caller's `n_events`; `actions`, `MaxActs`, `MaxFaults`, `MaxDraws`,
`RefillCap`, `RefillSizes`, `MetaCap` and the id sets are bounds of the model. `Overrun` bounds how late a session notices that its time is up.

Choices that are about checking only:

* `VIEW` (MCOrderBook): free slots' contents, the last error and the absolute values
  of ranks do not matter to the future; ranks are compared relative to the
  orders of the level. For the refinement the last result is kept. MCMatching:
  ids are interchangeable and the last call is read by action properties only. MCSynthetic: what the last step was and what it
  charged are read by action properties only.
* `SYMMETRY` (MCParts): the hash is arbitrary, so keys, and values, are interchangeable. Only safety is checked there.
* `CHECK_DEADLOCK FALSE` for Simulator, Driver, Capture, Flow and Parts: a run, a recording, a bounded sequence of calls ends.
* MCDriver starts with one order resting on each side: a driver does nothing until
  its view has a touch, and the two turns that build it are the same in every run.
  MCSynthetic starts with one order in each best queue and one that the price has walked away from: `apps/stats` warms the
  flow up before it measures. MCCapture starts with two orders a side, two units before the deadline; or with the whole
  time left and a venue that is silent, which is how long backoffs are reached. There the user interrupts only
  once the venue has done what it will: a recording that was cut short is a shorter recording.
* Matching numbers orders from one: `front_order_at` answers 0 for an empty level, so an
  order whose id is 0 hides its level from `cross`. No component hands out id 0; the fuzz
  decoder can.
* Flow has no drift (`DriftProb = FALSE`): section 6 says what is otherwise.


## 4. Fairness

`EverythingLands` (Simulator). `WF_vars(ControlStep)`: the loop is one
thread, each of its parts finishes, and the agent returns. `EventsAreHandled`
and `OrdersLand`: an event in hand is handled, and a message still in flight once the
loop is draining lands, since `drain_actions(now_ + 10 s)` applies all that arrive by then,
and the latency models of the repository draw micro- to milliseconds. These two are weak
fairness with what enables the step written out, because evaluating
`ENABLED` of a matching step costs TLC more than everything else in the run. No
fairness of the agent's sending, and none that picks one message before another.

`RecordingEnds` (Capture). Weak fairness of the reconnect loop's own steps (start, leave, wake) and of the end of a session:
the recorder reads its stream with a time limit and looks at its budget after every read, and the wait for the
subscription has a deadline of its own. Nothing is assumed about the venue, about messages arriving, or about sessions succeeding.


## 5. What is proved

All for every value of the constants, from the named assumptions only.

* `OrderBookProofs!TypeCorrect` and `OrderBookProofs!PoolIsPartitioned`, from
  `MaxOrdersAssumption`, `WindowAssumption`, `InputAssumption` and `MaxRankAssumption`. One
  lemma per operator says that it keeps `Book` and one that it keeps `PoolPartitionOf`;
  `Reduce` and `Replace` follow from those of `Remove`, `Shrink` and `Add`.
  The partition invariant is inductive together with the type: adding pops the slot
  at the end of the free list, which is not live and occurs once, and removing pushes a slot that
  was live and so not on the list.
* `OrderBookProofs!InvariantsAlwaysHold` (what `check_invariants` asserts), `PositionsAlwaysExact` and the action property
  `PositionsOnlyDrain`, from the same assumptions. The inductive invariant `IsSound` is `\E a : Sound(book, a)`, and `BookStaysSound` states it.
  `a` names the quantity in front of each resting order; a level's total is `a` of its tail and the tail's own
  quantity, a position of ours records `a` of its order, and `a` follows the links. None of the parts is inductive alone:
  `unlink` brings totals and positions down by a quantity that is right only if links, ranks and positions agree;
  a refused crossing keeps the sides apart only if the cached touch is exact; the touch is found again only if the bitset is that of the non-empty levels.
  The witness spares an induction over the queue in each operation: each lemma says how `a` changes (`JoinedAhead`, `MovedUp`),
  and only at the end is the walk that the properties speak of shown to be `a`.
* `OrderBookRefinementProofs!BookImplementsQueues`, from the same: OrderBook implements PriceTimeBook under the mapping `AbstractQueues`. `AbstractQueues`
  reads the links by recursion; the proof carries, as a witness again, a sequence of slots per level (`FifoIs`), in rank
  order. `ChainReadsTheQueue` says that the links spell the sequence out: were there an order whose chain is not
  the rest of its sequence, the one nearest the tail would be a counterexample. Each operation then appends to a sequence,
  removes an item or changes one quantity, and that is what the abstract operation does to the entries (`JoinQueue`, `WithQueue`).
  `BookIsReadable` is the invariant; it adds to `IsSound` that resting orders have prices the callers passed, without which
  the abstract queues would not show them all.
* From it `OracleAgrees` (the differential test: the same queues and errors as the reference book after any add
  or replace, from any reachable state) and `QueriesAlwaysAgree` (quantity, count, touch, ownership and queue position as answered from caches are
  what a walk of the queues finds). The second needs that `count` is the cardinality of the level (`CountsStay`) and that the fold
  over entries in PriceTimeQueues is the sum that `a` names (`QtySumIsTheTotal`, by least counterexample).
* `SimulatorProofs!ExecutionsArePublished`, from `MaxOrdersAssumption`, for any configurations, ids, prices, quantities and self-match rule.
  `PublicationInv` says that the window of the log tells the tape from its base on and ends where it ends (`LogTellsTape`), that the base is never past
  what was published (`MarksAreInside`), that what was published is the tape up to the mark (`PublishedTellsTape`), and that the mark is
  at the end while the agent acts, until it applies a message at once (`NoneIsMissing`). The property alone is not inductive: `Publish` copies from a
  window that other steps trim, fill and index.
* `SimulatorProofs!QuietViewLags`, from the same. `ViewInv` adds that while the agent is quiet nothing of its own is in flight, and that the view, with the
  feed replayed, is the exchange's book; between the handling of an event and the publication, with the
  executions about to be published replayed too. The step that matters is an aggressive order: `MarketOrderIsTold` says that the book it leaves is the book before
  with its executions applied one by one, by induction over the turns of `cross` (`CrossIsTold`, from `CrossStepIsTold`, one turn).
  A limit order that rests is what breaks this for an agent that is not quiet, and finding 1 is that.
* `SimulatorProofs!BookingIsExact`, from `MaxOrdersAssumption`, `WindowAssumption`, and `InputAssumption` and `OwnIdsAssumption` of Simulator:
  ids and numbers of events are naturals, prices and quantities integers, and there are finitely many prices, without which a best price need not exist.
  `BookingInv` says that everything numbers come from is typed (the exchange's book, the generator, the event in hand, the messages in flight) and that the
  counters account for the tape (`Accounts`): position, cash and fill counts against five columns over the fills. The work is in two places: a fill that
  `cross` makes has an integer price and quantity because it is made of a resting order and the best price of its side (`CrossStepKeepsTrading`, `BestIsAPrice`), and
  booking it moves position and cash by what it adds to the columns, whichever side and role was ours (`BookFillAccounts`).
* `SimulatorProofs!DriverForgetsNothing`, `DriverIsNeverShort` and `DriverLeavesNoOrphans`, for `DSpec` (which starts from the empty book), from the same and
  `SizeAssumption`: a quote is of at least one lot, as the strategies divide by it. `DriverInv` is one invariant for all three. Its core is `SafeExchange`: count the driver's quotes
  down by the fills that it has *not read yet*, and what is then left covers what rests (`Covers`); every order of ours that rests or is on its
  way is among those accounted for; and one on its way is not known to the exchange and has its whole size left. Without the unread fills nothing is inductive: a trade lowers what rests
  at once and the driver's count a turn later. `CrossTracks` says that a submission and the count of its fills go down together, for all turns of `cross`; `PushedIsUnread`
  and `DroppedIsRead` that the log hands the driver just those fills, however it is trimmed. The same lemmas are used with two sets of orders accounted for: those the driver counts on or ever cancelled
  (`QuotesAreSafe`), and, while messages keep their order, those it counts on or whose cancel is on its way (`OrdersAreFollowed`). The second needs that a cancel was decided in a later turn than
  its limit (`MessagesAreOrderly`), so it cannot land first; with draws that differ it can, and the property is then false. That ids of the market are never ours needs a count of what the generator has drawn (`DrawsAreCounted`).
* `MatchingProofs!FillsArePriceTimeHolds`, `NothingLostOrMadeHolds` and `NeverTradesWithItselfHolds`, from `IdsAssumption`, `InputAssumption` (both of Matching),
  `WindowAssumption` and `MaxOrdersAssumption`: finitely many ids and prices, no order with the id that stands for none. The state invariant is short (`EngineInv`: every order rests once and the pool holds
  them all); the work is inside one submission, where the property is a closed form and the code a loop. `Progress` follows the loop turn by turn with an *account* `t`, what each
  order of the book has traded so far: what is gone from the book is the first of what the order may meet (`FirstsGone`), each of it in full or prevented when it was reached
  (`GoneForAReason`), at most the next in part, and then nothing is left to trade (`OnlyTheNextInPart`); the fills tell the account (`CountsFills`) and it adds up to what the incoming order has lost (`AddsUp`).
  `TurnIs` is one turn; every turn that does not end the loop takes an order out, so the pool size is turns enough (`LoopEnds`). `SharesAreTraded` then reads each order's share
  off the account: what is in front of an order that traded in full, or in part, adds up to what was used before it (`InFrontCounts`), and what is in front of one that did not trade covers it all (`InFrontCovers`).
* `BookIndexProofs!OrderMapImplementsMap`, from `CapacityAssumption` and `NoValueAssumption`: OrderMap implements KeyMap, for every hash. The table goes round; its chains need not. `MapInv` says that keys are held once,
  that the size is their number, and that there is a *cut*, a slot that no entry's probe passes. Counted from the cut places are in a line, an entry stands at its home or after it, and all between is used
  (`Chained`). A probe then ends where its key is or would be (`ProbeFinds`, `ProbeMisses`); the backward shift keeps all chains whole but at its hole, which it moves on (`HoleMoves`) until
  nothing beyond needs it (`HoleIsFreed`, `ShiftingEnds`); an unused slot is a cut (`UnusedIsACut`), also when the table was full and the cut was elsewhere.
* `BookIndexProofs!ScansAreRight`, from `WordBitsAssumption` and `WordsAssumption`, for words of any width. Levels in different words are ordered as their words, in one word as their bits (`WordsInOrder`), so the first word that
  is not empty under its mask holds the nearest level (`WordBelow`, `WordAbove`); the loops over words are followed from the far end (`ScanDownFinds`, `ScanUpFinds`).
* `RecordingProofs!FillLogInv` (the inductive invariant) and from it
  `NothingUnreadIsDroppedHolds`, `EveryFillIsReadOnceHolds` and `WindowIsATailHolds`, from
  `ReadersAssumption` and `MaxFillsAssumption`. None of the three is inductive alone: trimming is
  harmless because `noted <= mark` for every reader and the window holds the fills from its base on (`MarksAreOrdered`,
  `WindowAgrees`), reading delivers the right fill because the window agrees with the tape.
* `PolicyProofs!BudgetIsKept` and `TableIsOneSolvesHolds`, from `MaxSweepsAssumption`, `EvalsAssumption`,
  `TableSizeAssumption` and `ShapesAssumption`. `TableInv` says that while the solver runs it has
  no verdict, so that a verdict of converged belongs to the sweep that chose the policy, and that the file is the beginning of a shipped table,
  a table of another shape, or one that load refuses; a beginning that passes every check of `load` is the whole.
* `PolicyProofs!PlaceIsShortByItsDelayHolds`, from `PricesAssumption`, `SizesAssumption`, `DepthAssumption`, `LatencyAssumption` and the assumptions of PolicyState: with latency and
  without, for any delay of orders and of pictures. Sizes shrink and grow, so two pictures of a price cannot be compared by what they show; the proof counts what has ever joined each price beside what is there. A size
  shown when so much had joined *bounds* the queue (`Bounds`): what is there now exceeds it by no more than what joined since, and what is ahead of our order by no more than what
  joined between then and its landing. Every picture of the feed is such a bound (`FeedBounds`), what has joined grows along the feed (`FeedGrows`), the picture our order was sent on
  is no later than those there are (`SentBefore`), and so the estimate is a bound that dates from the sending (`EstimateBounds`). `QueueInv` adds that our order stands once, at its price, while it rests (`OursWhereItRests`).
  The steps that matter compare sums over queues: joining adds its size (`JoiningAddsItsSize`), whatever leaves only lessens what was ahead
  (`RemovalLeavesOut`, `TradeLeavesOut`), and what is ahead of an order that lands is the size of its level (`WeJoinBehindAll`); `BucketsGrow` carries the bound over to the bucket.
* `RecordingProofs!RecordsItsTimeHolds`, from `DurationAssumption`, `BackoffAssumption` and `OverrunAssumption`. `RecorderInv` adds the types; the
  step that matters is the end of a session, after which the recorder is done or sleeps at most what is left.
* `CaptureProofs!LossIsReportedHolds`, from `OffersAssumption` and `RoomAssumption` of Capture (an offer is of a side, a price and at least one lot; the books have room for every order
  of the capture), and the assumptions of Matching, Recorder and the decoder's constants. `CaptureInv` counts the messages that have *passed*, which are
  written, buffered or lost: those on their way are the rest, with consecutive numbers (`OnTheWay`); the decoder's chain is never ahead of what has passed (`ReadSoFar`), and is behind it
  from the moment a message is lost to a session that has heard one until the next is read, whose predecessor is then not the last number, so a gap is counted (`LossIsHeld`).
  Two things make this work. What the venue publishes is numbered one by one however long it trades: its loop ends by the argument of `LoopEnds`, one turn per resting order (`TurnAllows`, `CrossAllows`).
  And whatever the decoder does with a message, its chain advances by that message alone: `DecodeIs` says for each of the outcomes of `decode_line` what it reports and what it
  tracks afterwards, `LoadSnapshotIs` what a snapshot loads, and `LinesRead` follows the chain through everything buffered before a snapshot.
* `CaptureProofs!BeliefIsTheBookHolds`, from the same assumptions and `OfferIdsAssumption` (the venue gives an id to one order). `BookInv` adds three parts to `CaptureInv`.
  Every message and the table give an order the side it was offered on (`SidesKept`). What is on its way or buffered creates each order once, and until a snapshot overlaps only orders the
  decoder does not hold (`NewsIsNew`); without this the decoder would place an order twice, and after an overlap it does. And table and book are in step (`StaysInStep`): what the table holds as resting is in
  the book with its side, price and size, and nothing else is. An event touches only the order it names (`ButFor`), so each outcome of `decode_line` need only be followed for
  the order of its message (`OutcomeInStep`, `LineTracks`, `LinesTrack`), and a snapshot seeds both alike (`SeededInStep`). That the decoder sends to rest only what does not cross comes from its own question to
  the book; that the venue announces an order once, on one side, comes from its own book and matching (`VenueFits`, `NobodyLeft`). Losses and damage need no case of their own: a message that is not read changes neither.
* `RecordingProofs!JournalTellsTheTruthHolds`, from `BatchAssumption` and `EntriesAssumption`. `JournalInv` says where what was appended is: in the C library's
  buffer and then in the writer's, as long as the writer has not failed, and after the close in the file,
  or how it began. What a short write leaves reads as whole records of the beginning, because the reader drops
  the part at the end; after a failed write nothing is claimed.

Induction over data is out of reach as the library states it (its theorems take an operator as parameter). Where the proofs meet a
recursion or a fold they argue from the least counterexample instead (`LeastExists`), which
needs a first-order statement for each. For the folds of the simulator this is done once: a fold is the end of a *walk* (`IsWalk`), a walk exists for each list
(`FoldExists`), two walks agree (`WalksAgree`) and join (`WalksJoin`), for every kind of step that `Onward` lists. For sums over finite sets it is the smallest set that is a counterexample
(`FewestExist`, `SumsExist`, `AnyFirst` in MatchingProofs), for the folds of the decoder and of its readers walks again (`FoldIsWalk` in CaptureProofs), for a function defined by recursion the first argument at which none exists (`CrossTurns`, `SumsExist` in PolicyProofs).

Only model-checked:

* Of Simulator, `QuietBeliefIsTheBook`. It needs a pool that never fills up, as in the run: the generator does not ask whether the
  book took its order (section 6).
* Of Capture, what is said of the venue's own book and of the rows (`QueuesAreTheMarkets`, `RowsTellTheSplit`), and the properties of Synthetic,
  Histogram and DecisionProcess: they are stated for a composition of many parts, or for
  what folds over lists of transitions and over slots compute, and are not proved yet (section 7).
* Liveness (`EverythingLands`, `RecordingEnds`) and whatever rests on `ENABLED`: out of the prover's reach.
* What the folds of Accumulator and Histogram compute for every input.


## 6. Findings

Each is a run that TLC ends with a counterexample, and a sentence of the
repository that it contradicts; `PROJECT.json` quotes them.

1. `SimulatorView`: with an order of the agent resting, the exchange refuses a market quote
   that would cross it, and the view accepts it: even without latency the two books part.
2. `DriverFilled`: a quote used up as it lands (an aggressor's fill) is never
   counted down; the driver believes it rests and does not replace it.
3. `CaptureReplay`: `apps/replay` never looks for the session markers that the recorder writes; after a reconnect it
   measures a book with orders of the session before.
4. `FlowExposure`: on a book with an empty side `on_state` (`lob/feat/queue_reactive.hpp:140`) only moves its clock. The stretch
   before a side empties is therefore charged to no state, of either side, while the event that emptied it was counted in its state (the counterexample, which a market order
   on a best queue of one order gives). The line has a second effect, past the end of that trace: the states of before are kept, and the first event that finds both sides
   again charges them with the stretch since the event before it, spent with a side empty.

What the premises of passing properties leave out, stated here because it is what the code does:

* `ReferenceAgrees`: inside the window and under capacity the two books still differ in
  the error for an add that is both duplicate and crossing, and nowhere else
  (`lob/book/reference_book.hpp:20` says there is no difference).
* `NoOrphansInOrder`: without its premise it is false. A cancel whose draw is shorter than
  its limit's lands first, counts as late, and the order then rests with nobody to
  cancel it.
* `QuietBeliefIsTheBook`: with an agent that trades it is false; an order of the agent takes part of one that the
  generator believes in. It is false too once the pool is full (`on_applied` is not told what the book answered); the run has room for
  every order that its events can add.
* `BeliefIsTheBook` (Synthetic) is of a flow without drift, and `RedrawingReplacesTheBook` promises only without drift that nothing is refused. With
  drift, which is the default (`lob/sim/flow.hpp:227`), the reference price steps onto orders of the other side, an add drawn at the new best queue crosses and is
  refused, though the two sides "cannot meet by construction" (`lob/sim/flow.hpp:1365`), and `on_applied`, which is not told, remembers it as resting. Without the
  premise, and with `DriftProb = TRUE`, TLC finds this in one step.
* `PercentilesAreWithinTheirSlot` says of the minimum only that it is in the slot of the least sample. `merge` records each slot at its lowest value,
  which lowers the minimum before the true one is compared with it (`src/histogram.cpp:197`), so it is not exact as the comment there has it.
* A metaorder picks its side first and may find it empty (`lob/sim/flow.hpp:1459`): the event then takes nothing.
* `PlaceIsShortByItsDelay` is weaker than what the header of the strategy claims, "an upper bound on our true queue position"
  (`lob/strat/tabulated.hpp:20`). That holds when nothing joins between the picture an order is sent on and its landing, in particular
  without latency. With latency, the default, it does not: an order is sent, the strategy reads one lot ahead of it, another joins, ours
  lands behind two. It is also of pictures that are late but true: what is shown is what the exchange had some messages ago. After finding 1
  the view holds a quote that the exchange refused, may in turn refuse one that the exchange took, and the bound holds no longer. A
  cancelled order of ours leaves at once in the model; in the code it stays until the cancel lands, unseen in the view, and can only take
  trades that would have hit the market's orders. One side is modelled, so an order that lands never crosses, and only the latest order is
  followed.
* `ExposureIsCharged` is of steps that start and end with both sides in the book; elsewhere it is false (finding 4).
* `QueuesAreTheMarkets` (Capture) is of captures without faults: after a loss an order of the table may be smaller than the market's, and the book
  refuses to delete what a fill has just used up. It and `BeliefIsTheBook` are also of captures without a snapshot that already holds what messages
  written after it say. The recorder cannot exclude that; the decoder then meets a creation of an order it knows. No property says what becomes of such an order:
  the repository expects a stale snapshot and only keeps it away from the touch (`lob/feed/bitstamp.hpp:180`).
* A first session that decodes no message makes `apps/stats` take the second marker for the header of the file, as a marker
  is a boundary only once events have been decoded; `CaughtUp` excludes it.
* An order that an `Execute` of the decoder uses up gets no row in orders.csv (`after_apply` in `apps/stats/main.cpp` closes
  only on deletes and reduces), so `RowsTellTheSplit` is about orders that left otherwise.
* A short write leaves a journal whose count still grows; only the flag says so. Appending after close is not guarded against.
* Merging histograms of different ceilings counts what overflowed in the sum again.
* Nothing compares the parameter hash of a table with that of the run that loads it (`src/mdp.cpp:147`).
* `insert` of the id map lets the last slot be filled; `find` and `erase` of an absent key
  then do not end. The order book never fills the table.
* The fills of the last drain are booked, and neither published nor read by the agent.


## 7. Plan

Done: the order book and its abstract specification, id map and scans, matching, fill log, both generators, simulator, driver; policy state, process,
solver, table and tabulated strategy; recorder, decoder, capture readers, accumulator and estimator; journal and histogram.
Proofs of all the safety properties of the order book, of its refinement and of its indexes, of the matching engine, of the fill log, of the simulator's booking, publication and view, of the driver, of the solver, of the table and
of the tabulated strategy's estimate, of the recorder and of the journal, and, of a capture, of the chain of message numbers and of the decoder's table.

Next, models: the tabulated strategy within Driver, on both sides of a book; a reader of a capture whose snapshot overlaps the messages; the other applications as loops over Simulator; the imbalance
part of the features, if a strategy that depends on it is modelled; markouts (each horizon marked once).

Next, proofs, each checked by TLC as an invariant of a run:

1. Simulator: the quiet generator is right about the book, as long as the pool has room for every event.
2. Capture: the queues rebuilt from a whole capture are the venue's.
3. DecisionProcess: the probabilities of a row sum to one.
4. Histogram: the walk over slots ends at the slot of the sample of the rank asked for.
5. Synthetic: the generator's belief, which needs the account of MatchingProofs for the events it applies.


## 8. Not modelled, and why

* **Floating-point formulas**: the individual strategies, the values of the solver, attribution and markouts, the averages of the
  features, the distributions of latency and flow. They are data here: any value they could take, when a property depends on it.
* **JSON cursor and line reader**: characters and I/O. How a field can fail to be read is an outcome in BitstampDecoder.
* **Clocks, calibration of the time-stamp counter, latency recorder**: measurement of hardware.
* **Arena and pool** (`lob/core/arena.hpp`): a free list like the order book's, which is modelled and proved; no component uses it. A
  double release is guarded by an assertion only.
* **Applications** other than stats and replay print what the libraries compute; of `apps/solve` the part between solver and file is in PolicyTable.
* **Offline tools and plots**, and the recorders of other venues beyond the loop they share.
* **Statistics** that no component reads back, log lines, layout.
