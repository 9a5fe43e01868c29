# TLA+ verification of the order management system

This directory holds TLA+ models of the OMS in `src/`, the TLC configurations
that check them and the TLAPS proofs about them. Paths are relative to the
directory above, so `src/include/book/order_book.hpp` is the order book.

## 1. The system

A desk (or a scripted producer) pushes `OrderCommand`s into a single-producer
single-consumer ring. One consumer thread owns the order book, the matching
engine and the write-ahead log: it pops a command, logs it, applies it, logs
the trades it made and, when the ring is empty, flushes the log and publishes
a snapshot of the book. The UI thread reads only published snapshots. Around
this core there are market-data replays, trading signals, a backtest and
reports, each of which runs on a book of its own.

| Component | State | Operations | Interacts through |
|---|---|---|---|
| `OrderBook` (`book/order_book.hpp`, `price_level.hpp`) | two pools, two hash indexes, a list of orders per level, a chain of levels per side, the best level of each side | `add_order`, `modify_order`, `cancel_order`, `execute_order`, queries, `build_l2_snapshot` | called by the engine and the replays, single-threaded |
| `PoolAllocator` (`memory/pool_allocator.hpp`) | free list linked by index, its head, a counter | `acquire`, `release`, `allocated` | compare-and-swap; used by the book from one thread |
| `MatchingEngine` (`engine/matching_engine.hpp`) | a reference to a book, counters | `submit_order`, `cancel_order`, `modify_order` | calls the book |
| `SPSCQueue` (`queue/spsc_queue.hpp`) | slots with sequence numbers, `head_`, `tail_` | `try_push`, `try_pop`, `size`, `empty` | shared by producer and consumer thread |
| `L2BookView` (`book/l2_book.hpp`) | two buffers, `read_index_` | `publish`, `load` | written by the consumer (and a replay task), read by the UI |
| `OmsEngine` (`engine/oms_engine.hpp`) | ring, engine, book | `submit*`, `process_all`, `process_one`, `pending` | producer and consumer thread |
| `WalWriter`, `WalReader`, `WalReplayer` (`io/wal.hpp`, `io/wal_replay.hpp`) | an open file, its buffer, a count | `append`, `flush`, `close`, `replay` | called by `process_all`, by the desk and by sessions |
| SPSC session (`app/session_services.hpp`) | an engine, a log, `done`; a book and signals for the simulation | one run: produce, drain, join, replay; `run_simulation_step` | two threads |
| Desk (`src/src/workstation.cpp`) | next id, active orders with their states, conditional orders | submit, modify, cancel, cancel-all, kill switch, tick, consumer loop, start, stop | producer of the ring, reader of the view |
| Background tasks (the same file) | four futures, four mutexes, three flags, the results | start, stop, draw a panel, close the window | write the results and the view the UI thread reads |
| Market data (`io/market_replay.hpp`, `lobster_feed.hpp`, `binance_trades_feed.hpp`, `app/real_data_modes.hpp`) | a feed, a book, counters | `replay_lobster`, `run_binance_trades` | drives a book of its own |
| Signals (`signals/*.hpp`) | windows and buckets | `on_trade`, `on_mid`, `compute` | called per bar |
| Statistics and backtest (`analytics/*.hpp`, `backtest/*.hpp`) | position, trades, equity, samples | `on_bar`, `result`, `compute_decay` | called per bar |
| Reports, console, entry points, clock, scripts | none of interest | output, dispatch | |

What makes each part correct, and what makes it hard:

* **Book.** Index, lists, chains, cached best levels and cached totals must
  agree after every call, whatever pool runs out in the middle of it; the
  hardest path is a `modify_order` that has unlinked the order when the pool of
  levels turns out to be empty. Orders of a level trade in the order they came.
* **Matching.** Price-time priority, no quantity made or lost, no crossed book
  left behind; `MAX_TRADES`, duplicate ids and full pools are the edge cases.
* **Ring.** Data race freedom of the slots over every lap and wrap, FIFO
  order, no spurious refusal, progress while the producer is stalled.
* **View.** What a reader copies is one snapshot, and not an old one; the consumer
  publishes symbol 0 on every turn, and a replay that ends publishes it as well.
* **Pool.** No node with two owners, none lost, with threads interleaving.
* **OMS and log.** The log explains the book; a crash at any point loses
  nothing that was shown; a session drains; the consumer can be joined.
* **Desk.** An order is sent at most once and never after it was withdrawn; an
  order sent is listed; a triggered stop is sent or taken off, however often the
  ring refuses it; what the list of orders says agrees with what was pushed. The hard part is that each push may be refused, that a ticket is
  judged on a snapshot, and that the consumer moves between any two pushes.
* **Tasks.** Results are shown whole, the UI thread is never blocked for good,
  and no task outlives what it writes to.
* **Sessions, signals, backtest.** Every event, share and unit of volume is
  accounted for, and the accounts of the backtest are those of its bars, with
  books that have no price and bars that have none.

`PROJECT.json` lists the hazards one by one, each at its line, with the
properties that cover it or the reason why none does.

## 2. Modules

| Module | Models | Kind |
|---|---|---|
| `BookOps` | the book as a value; every operation of `OrderBook` as a function of it | pure operators |
| `PriceTimeBook` | the book as a state machine over `BookOps` | abstract specification |
| `Links` | following a list or a chain for at most so many steps | pure operator |
| `OrderBook` | the pools, indexes, lists and chains, cell by cell (`LinkedSpec`) | implements `PriceTimeBook` |
| `Books` | each call made on the book as a value and on the linked one side by side | composes the two |
| `MatchOps` | every call of `MatchingEngine` as a function of the book | pure operators |
| `Matching` | one call, one step | abstract specification |
| `MatchingEngine` | one fill, one step | implements `Matching` |
| `BoundedFifo` / `SPSCQueue` | a queue of `Capacity` items / the ring, one memory access a step | abstract / implements it |
| `L2BookView` | publish and load, one word a step | |
| `FreeStack` / `PoolAllocator` | a stack of free cells / the free list, one atomic access a step | abstract / implements it |
| `WalReplay` | `apply_command`, log records and `WalReplayer::replay` | pure operators |
| `OmsEngine` | producer, consumer loop, log, crash, restart | composes the above |
| `Desk` | the UI thread's handlers, one push a step, against the consumer | composes `WalReplay`, a FIFO and a snapshot |
| `Tasks` | the background tasks, their mutexes and futures, the UI thread | |
| `Signals` | VPIN, momentum, imbalance, blend, in exact fractions | pure operators |
| `Analytics` | the accounts of the backtest, the pairs of the decay, statistics and profile | pure operators |
| `MarketSession` | LOBSTER replay, Binance tape, simulation, the backtest on bars | composes the two above and `BookOps` |
| `LinksProofs`, `BookLemmas` | lemmas about `Links`, induction and quotients; about `BookOps`, `MatchOps`, sums | TLAPS |
| `BookProofs` | theorems about `PriceTimeBook`, `OrderBook` and `Books` | TLAPS |
| `LockFreeProofs` | theorems about `L2BookView`, `PoolAllocator` and `SPSCQueue` | TLAPS |
| `DeskProofs` | theorems about `Desk` and `Tasks` | TLAPS |
| `MatchingEngineProofs`, `OmsEngineProofs`, `MarketSessionProofs` | theorems about the module of that name | TLAPS |
| `MCBooks`, `MCLockFree` | both books side by side; what threads share without a lock, one part in each behaviour | TLC |
| `MC*` (the others) | finite instances of one module | TLC |

Each layer uses the specification of the one below rather than its code:
`PoolAllocator` implements `FreeStack`, which is what `OrderBook` takes a pool
to be (a sequence of free cells); `OrderBook` implements `PriceTimeBook`, whose
operators `MatchingEngine` calls; `MatchingEngine` implements `Matching`, whose
operators `OmsEngine` calls once per command; `SPSCQueue` implements
`BoundedFifo`, which is the `queue` of `OmsEngine` and the `ring` of `Desk`.
`Desk` takes the consumer in three steps (apply a command, find the ring empty,
publish); `OmsEngine` takes the same consumer apart but has any producer.

### Correspondence

* A book `b` has `b.orders[id]` (the index of orders: an order or `NoOrder`)
  and `b.queue[<<side, price>>]` (the list of a level, oldest first; a level
  exists exactly when its queue is not empty). In `OrderBook` the memory `m`
  has the fields of the structs: `m.order[c]` and `m.level[l]` are the cells
  of the two pools, `m.order_pool` and `m.level_pool` the free cells,
  `m.order_index`, `m.level_index` and `m.best` the members of the class.
  `AbstractBook` reads the book off this memory, by `Walk` along the links.
* Every operation returns the code's `bool` in `ok`, and models its whole
  body: a cancel that empties a level removes the level and gives its cell
  back in the same step.
* In `MatchingEngine`, `call`, `left` and `trades` are the arguments and the
  locals of the `submit_order` under way, `Fill` is a turn of its loop, `Rest`
  is what follows it. `before` and `capped` are history.
* In `SPSCQueue`, `L2BookView` and `PoolAllocator` the `pc` of a thread is its
  place in the function, and the locals have the names they have there.
  Steps that touch only locals are merged with the access before them.
  In `L2BookView` `latest`, `floor`, `flips`, `overlapped`, `mixed` and `gotMixed`
  are history: which publication ended last, which was the last one when the load
  began, how many ended since, and whether another publish overlapped them.
* In `OmsEngine`, `pc` is the consumer's place in its loop and in
  `process_all`; `buffer` is the stdio buffer, `file` what the system has been
  given. `accepted`, `handled` and `shown` are history.

* In `Desk` a handler of the UI thread (`SubmitTicket`,
  `ProcessConditionalOrders`, `CancelAll`, ...) runs in one step but for its
  pushes, which it leaves in `outbox`; `Push` makes the next one and does what
  the code does with its result (`ListedAfter`, `ArmedAfter`). The next handler
  starts when `outbox` is empty. `desk_orders` and `conditional_orders` are the
  vectors of the code, by id. `Elsewhere` and `Replays` are the snapshots of
  other symbols and of replays, which handlers may see instead of the book's.
  `added`, `refused`, `withdrawn`, `simulated` (orders the simulation sent, which
  the desk never lists) and `lost` (stops that fired at once into a full ring) are
  history.
* In `Tasks`, `task[k]` is the place of a task in its lambda, `todo` the words
  it has still to write, `ui` the place of the UI thread; `result` and `report`
  have two words each, holding the number of the run they are of (its
  `Init` and `Next` are called `TasksInit` and `TasksNext`). `Close`,
  `Waited` and `Destroyed` are the destructor and the members going after it.
* In `MarketSession` an action is a turn of a loop: `ReplayMessage` is one
  message of `replay_lobster` with its sample, `TapeTrade` one trade of
  `run_binance_trades`, `SimulationStep` one `run_simulation_step`, `Bar`,
  `Reset` and `AskResult` the calls of a `BacktestEngine`. `flow`, `cancelled`,
  `unknown` and `extra` are history.

### What is abstracted

* Statistics counters, timestamps, padding and formatting are left out.
* `level_key` is taken to be injective: true for prices within 2^55 ticks of
  zero. `Price` and `Quantity` are not near the limits of `int64_t`; the
  counters of the ring, which do wrap in principle, are words of `Word` values.
* A `double` of the signals and the backtest is a number of parts, `Unit` to the
  whole, with `Unit` a multiple of all divisors that occur (`SignalAssumption`),
  so that no quotient is rounded where the code does not truncate.
* Price scales, CSV fields and ticker names do not appear; a line is its
  record, with the number of its fields, which decides whether it is kept.
* `MAX_TRADES` (64), the pools and the buffers are constants of the modules.
* Memory model: atomic accesses are sequentially consistent, but for the
  relaxed stores of `head_` and `tail_`, which another thread may see before
  or after the release of the slot. The words of an L2 buffer and the storage
  of a slot are plain memory, copied word by word in any order.
* The engine has one caller, as in all of the code: the consumer thread.
* In `OmsEngine` writes do not fail, the process runs with a log, and a replay
  is given pools of the live size. `process_one` has no caller and no action.
  A crash is that of the process, not of the machine.

## 3. Runs

`tlc -config X.cfg M.tla` for each row, with the pair `PROJECT.json` names.
All runs check for deadlock but `market` and `market_decay`, whose sessions
end, and `tasks`, whose window may be closed.

| Run | Instance | Question and answer |
|---|---|---|
| `books` | 5 ids, 3 of them interchangeable, 3 prices (bids at one of them), 4 orders, 3 levels, quantity 2 added, 1-2 modified and executed | Every call on both books: the same answer, the same orders in the same queues, the same queries read off the pointers. Insertion and removal at the front, in the middle and at the end of a chain of three; both pools running out, also in the middle of a modify; every path that gives cells back. |
| `book_fifo` | the value, with 1 level | *Violated*: a refused modify sends the order to the back. |
| `matching` | 4 ids, 2 prices, quantities 0, 1, 3, 3 orders, 2 levels, `MaxTrades` 2 | Partial and full fills over one and two makers and over two levels, the cap reached with a third maker left, full pools, duplicate ids, `qty <= 0`; refinement. |
| `matching_cap` | 4 ids, 2 orders, `MaxTrades` 1 | *Violated*: the cap leaves a crossed book. |
| `lock_free` | view: 2 publishers (the consumer and a replay), 2 words, 3 publications. Ring: 2 values, 2 slots, counters modulo 4, 9 pushes. Pool: 2 threads, 1 of them acquiring, 3 nodes | Every overlap of a load with up to three publishes, which may overlap each other; more than four laps of the ring and two wraps of its counters; acquire against release, release against release, spurious failures of the weak compare-and-swap. |
| `view_torn` | the view with 1 publisher, 4 publications | *Violated*: two publishes tear a load, though the consumer alone publishes. |
| `oms` | 5 commands to choose from, 4 per process, ring of 2, buffer of 2 records | A modify that trades with one and with two makers, in part and in full, and names the wrong side, adds that trade, cancels too early and too late; a crash at every step; both consumer loops. |
| `oms_replay` | the same | *Violated*: a replay counts a trade of an add twice. |
| `desk` | 2 ids, ring of 2, 7 tickets (each kind, stops of both sides), simulated orders, one change, one other symbol, one replay | Every handler with every place of the consumer; a ring that is full at the first, the second or no push of a handler. |
| `tasks` | 4 tasks, 3 starts | Any three runs, of one kind or of several, with the panels, the Stop button and the end of the desk at every step. |
| `market` | 6 messages of 11 kinds, 4 trades, 10 simulated events, 4 bars; buckets of 2, windows of 2, `Unit` 120 | The accounts of replay, tape, simulation and backtest after every event. |
| `market_decay` | the replay of `market` | *Violated*: a return is taken from `INVALID_PRICE`. |

In `lock_free` a behaviour uses one part, the variable `part` says which, and
the others stay at their initial states: the state space is the sum of theirs.
In `books` an order at the middle price, the anchor, is added first and added
again whenever it is gone, so that the three others have a chain to build
around it, and a fifth order finds all cells taken. The type invariant of a module is either a property of its run or
the first conjunct of one (`LogExplainsBook`, `ListAgreesWithSubmissions`,
`ReplayAddsUp`, `ResultsAreOfOneRun`, `PoolKeepsItsNodes`); those of
`MatchingEngine`, `L2BookView` and `SPSCQueue` are proved.

Why the bounds are enough: a level needs three orders and a chain three levels
for every case of the pointer code (first, middle, last); a pool shows all its
edge cases once it can be empty and non-empty around a call; a ring of two
slots is the smallest the code allows and laps soonest; with one publisher the
second publication after a load began is the first to write the buffer it
reads, so three let it find a publication and be overtaken twice, and let two
publishes overlap before, during or after a whole one; the proof has no such
bound; a torn snapshot needs two words. Ids are model values and
interchangeable where the code only compares them (`SYMMETRY`), in runs of
safety properties only. Two orders of a desk are enough to meet each other, to
be triggered out of order and to fill a ring of two while the ticket after them
is refused; `ModifyAgain` is FALSE, that is, an order is modified once, since a
second modify differs from the first in nothing a property tells apart. Three
starts have one task run against another, or again, while a third is begun. Six
messages are enough to submit two orders, cancel a part, execute and cancel the
rest; ten events are two rounds of the simulation's five, which reach a cancel
and an execution with `CancelBack` 1 and `ExecuteBack` 2. A trade of three
units closes one bucket of two or, with one unit there, two at once.

The bounds written into guards are `MaxPushes` (ring), `MaxVersions` (view),
`MaxCommands` (OMS), `ModifyAgain` and the number of ids (desk), `MaxStarts`
(tasks) and `MaxEvents` (sessions). The other models have finite state by their pools.

### Properties worth knowing

* `LinkedBookIsTheBook` (both books): after every call, accepted or refused,
  pointers and value hold the same orders in the same places and gave the same
  answer.
* `RejectedKeepsOrders`, `FifoWhenAccepted` (book): a refused call changes no
  order, an accepted one lets none overtake another.
* `QueriesMatchOrders` (lists): the cached best levels and totals never lie.
* `MemorySound` (lists): each cell is in the pool or in exactly one list, and
  in the index, and the links of a list mirror each other.
* `PriceTimePriority` (matching): when an order has traded, whatever stood
  before it on its side when the call began has traded in full.
* `RemainderDroppedOnlyWhenFull` (matching): why an order may vanish.
* `RefusedOnlyWhenFullOrEmpty`, `SizeWrapsOnlyDuringPush` (ring).
* `PoolKeepsItsNodes` (pool): a stack, step by step; no node has two owners and
  none is lost.
* `PublishedIsImmutable`, `TornOnlyByTwoPublishes`, `NeverOlderThanLatest` (view):
  what a reader of the double buffer does get, whoever publishes. They promise
  nothing of a publication whose publish another one overlapped (`mixed`): two
  publishes at once may write one buffer, or flip the index back.
* `LogExplainsBook`, `ShownIsRecoverable`, `TradesLoggedAreTheTradesMade`,
  `NothingLeftBehind`, `ConsumerGoesOn` (OMS); `ErrorsAreRefusals`: a log of a faultless session
  may report errors on replay, and they are the engine's own refusals.
* `TransientOnlyTakes`, `CancelPendingIsTrue`, `ListAgreesWithSubmissions`
  (desk): each states its exception, the push that was refused and ignored.
  `ListAgreesWithSubmissions` says that no order is sent twice, that an order sent
  is listed (the simulation's own are not the desk's), and that an order listed in
  any state was sent, is about to be, waits for its trigger, or was taken off by
  cancel-all. The exception is `lost`, a stop that fired at once into a full ring:
  it stays listed as pending and was never sent.
* `WithdrawnStaysOut`, `TriggeredIsSent` (desk): retries of
  triggered orders against cancel-all and a full ring. `TriggeredIsSent` is a
  leads-to: an order armed whose trigger is met is in the end sent or withdrawn,
  or its trigger is no longer met; one dropped unsent violates it.
* `JudgedRightIfCurrent` (desk): the checks of a ticket, which the desk makes
  on a snapshot, agree with what the matcher would do with that book.
* `ResultsAreOfOneRun`, `SaidToBeOverIsOver` (tasks): each with its
  exception, two writers at once and the future of the tape.
* `ReplayAddsUp`, `BucketsAreTheFlow`, `EquityIsOfTheBars` (sessions):
  running state against what the events, the flow and the bars add up to.

Each property of each passing run has a mutant in `PROJECT.json`: a plausible
bug in a mapped definition under which TLC finds the property violated. The
mutants are operators beside the definition they replace, marked as such.

### Fairness

* `SPSCQueue!FairSpec`: weak fairness of the consumer's steps.
  `consumer_loop` (`src/src/workstation.cpp:450`) polls for as long as it
  runs. The producer is not fair: it may stop in the middle of a push.
* `OmsEngine!FairSpec`: weak fairness of the consumer's place (`Turn`), which
  amounts to weak fairness of `Consume`: each place is left after finitely
  many steps of the consumer. It is written so because TLC evaluates ENABLED
  of a matching call slowly. Producer, stop, crash and restart are not fair.

* `MCLockFree!LockFreeSpec` is fair to the ring's consumer as above.
* `Desk!FairSpec`: weak fairness of the tick that finds a triggered order, of
  the pushes of a handler and of the consumer. The main loop draws frames, each
  with a `tick` (`workstation.cpp:296`), until the window is closed; a handler
  runs to its end; the consumer polls. The user is not fair. The three are
  written by their effect on the variables they change.
* `Tasks!TasksFairSpec`: weak fairness of each task, which has a thread of its own,
  and of the UI thread once it has begun something. No mutex is assumed fair,
  and no task to get its lock when the UI thread takes it again and again.

Everything else is safety and needs none.

## 4. Disagreements found

1. A refused `modify_order` costs the order its time priority
   (`order_book.hpp:84`; `src/README.md:163`): run `book_fifo`.
2. `MAX_TRADES` leaves a crossed book (`matching_engine.hpp:32`;
   `src/README.md:168`): run `matching_cap`. `OnlyTheCapCrosses` shows that
   nothing else does.
3. A load of the L2 view may be torn (`l2_book.hpp:52`;
   `src/src/workstation.cpp:371`): run `view_torn`.
4. A replay counts the trades of adds twice (`wal_replay.hpp:53`, against the
   comment on line 52): run `oms_replay`.
5. A decay pair may use a book without a price (`alpha_decay.hpp:49`, against
   line 18): run `market_decay`. `compute_decay` looks for a mid of 0, but a
   book of one side has `INVALID_PRICE`.

Met on the way and not given a run of their own: the comment on transient
tickets (`workstation.cpp:387`) does not hold when the ring takes the order and
refuses its cancel; the order rests (`TransientOnlyTakes` names the case).
`result()` of the backtest does not close the open position
(`market_replay.hpp:137` says it does). The kill switch says "Trading halted"
and halts nothing (`workstation.cpp:417`, 882). `min_spread()` is always
`INVALID_PRICE` (`market_stats.hpp:27`). An order once modified, or once marked
"Cancel pending", cannot be cancelled again from the desk. Further: the comments on
`PriceLevel::prev` and `next` (`price_level.hpp:15-16`) are the wrong way
round; with `Acquirers` set to both threads, `OneOwner` of `PoolAllocator`
fails (ABA), so the pool must keep to one acquiring thread, as it does; the
replay task (`workstation.cpp:608`) publishes symbol 0 beside the consumer, and
when the two overlap the snapshot readers are sent to may be a mixture, or still
be written: the exception `mixed` of the view's properties; `capacity()` of
the ring says one less than it holds; the log is truncated at each start.

## 5. Proofs

`tlapm M.tla` for the eight proof modules. All leaves are checked by SMT, Zenon
or, for temporal steps, LS4. The theorems hold for all values of the constants
that satisfy the named assumptions of the modules, which TLC evaluates on the
instances too:

* `BookAssumption`: prices and quantities are integers, the pools are not empty,
  `NoOrder` is no order and `InvalidPrice` no price; `MaxTradesAssumption`: a
  call may make at least one trade;
* `RingAssumption`: the capacity divides the size of the counters, as the
  powers of two of the code do, and is smaller; `ViewAssumption`;
* `PoolAssumption`: the pool has a node, the threads are finitely many; its
  theorem is about one acquiring thread, which its statement says;
* `OmsAssumption`: buffer, queue and batch hold at least one item;
* `DeskAssumption`: ids are given out from 1 on, and the inputs are of their
  types;
* `SignalAssumption`, `AnalyticsAssumption`, `SessionAssumption`: windows and
  buckets hold at least one item, prices are positive and finitely many, the
  inputs are of their types.

**Induction.** The library's induction theorems take the property as an operator
parameter, which the installed provers cannot instantiate. `InductionTo` of
`LinksProofs` takes it as a set of numbers instead: a set that has 0, and with
`k - 1` also `k`, has all numbers up to `n`. Every recursion the theorems are
about is therefore a recursive *function* of a number (`Fills`, `Total`,
`Walk`, `OfType`, `Replay`, `InOrder`, `BarsOf`), of which a first lemma shows, by that
induction, that it exists (`FillsRun`, `TotalRuns`, `ReplayRun`, ...); the next
ones say what one turn adds (`...Append`), and the proofs above use no more. A
sum over a *set* (the shares of all orders, the profile of all levels) is
`Summed`: a function on the subsets that has 0 for the empty one and for any
other what the element taken out adds. It exists for every finite set, has
one value, and changes by as much as one summand (`SummedChanged`), which is
all an account needs.

* **`LinksProofs`, `BookLemmas`**: that `Walk` reads off the links the
  sequence they spell out (`WalkReads`), however long the walk is allowed to
  be; what the operators of `BookOps` do: removing and appending in a queue,
  then one lemma for each operation, saying that it keeps a sound book sound,
  what it does to every order and that it lets no order overtake another; then
  what the calls of `MatchOps` do (`SubmitOrderFacts`, `SubmitOrderTakes`).
* **`BookProofs`**, the book as a value: `InvHolds` with the inductive invariant
  `SoundBook(book) /\ ok \in BOOLEAN`, that is the type, `QueuesHold` and
  `FitsPools`. None of the three is inductive alone: taking an order out of
  the queue of its level needs to know that it is there, once, and counting
  the levels after an operation needs to know that only that queue changed.
  From it `TypeCorrect`, `QueuesAlwaysMatchOrders`, `AlwaysWithinPools`,
  `TimePriority` (`FifoWhenAccepted`) and `RejectionIsHarmless`
  (`RejectedKeepsOrders`), the last two as action properties.
* **`BookProofs`**, the linked book: the invariant `Agrees(m, b, ...)` says that
  there *are* sequences of cells, one per level and one per side, which heads,
  tails, links, counts and cached totals of the memory `m` spell out, that pools and
  indexes share out the cells, and that all this is the book `b`. Neither half is
  inductive without the other: that a link written into a cell breaks no other list
  needs that no cell is in two lists, and that needs where every freed cell
  went. In the middle of an operation the memory agrees with a book but for
  the order in hand and but for one level that may be empty. So each helper of
  `order_book.hpp` is shown to lead from one such memory to another, and each
  operation is put together from the helpers, with all its early returns: a
  modify that unlinks its order, finds no level and puts the order back is one of them.
  From it `TheLinkedBookIsTheBook` (`LinkedBookIsTheBook`), `MemoryIsSound`
  (`MemorySound`), `QueriesAreRight` (`QueriesMatchOrders`) and, for the linked
  book on its own, the refinement `LinkedBookImplementsPriceTimeBook`.
* **`MatchingEngineProofs`**: the invariant joins the soundness of `book` and
  `before` with what the loop has done so far: no order of quantity zero
  rests, orders in the book are those of `before` with no more quantity and
  in the same places, and who has traded in full is no longer there. From it
  `TypeCorrect`, `BookAlwaysSound`, `TradesByPriority` (`PriceTimePriority`),
  `TradesFairlyPriced` (`TradesAtMakersPrice`) and `CrossedByTheCapAlone`
  (`OnlyTheCapCrosses`). The existence of a best price uses that a non-empty
  finite set of integers has a least element, from the library's theorems.
  Three results speak of a whole call and need an invariant that remembers its
  beginning: `DropsOnlyWhenFull` (`RemainderDroppedOnlyWhenFull`, an action
  property) that the id of a call under way does not rest; `QuantityIsConserved`
  (`QuantityConserved`) that for each maker the trades so far and its present
  quantity add up to what it had in `before`, a sum along the trades;
  `EngineImplementsMatching` (`ImplementsMatching`) that `Fills` continued
  from the present book, quantity and trades gives what it gives from
  `before`, so that the loop's end is the effect of the atomic call and every
  turn before it a stutter.
* **`LockFreeProofs`**, the ring: the invariant gives each thread's place by the number of
  items ever published (`pushed`) and given back (`popped`), and says of every
  number of the window of `Capacity` numbers from `popped` on whether its slot
  is full or free and what its sequence word is. Without the window nothing
  could be said of a slot seen a second time, after the counters wrapped: two
  numbers of one window are never equal modulo the capacity (`CloseRestsDiffer`; the
  lemmas on `%` come first). From it `NeverInTheSameSlot` (`NoSlotRace`),
  `NeverRefusedForNothing` (`RefusedOnlyWhenFullOrEmpty`),
  `SizeIsRightBetweenPushes` (`SizeWrapsOnlyDuringPush`) and the refinement
  `RingImplementsFifo` (`ImplementsFifo`), whose queue is the storage of the
  slots of the window that are full.
* **`LockFreeProofs`**, the view, for any number of publishers: a publish that no
  other one overlaps is the only one under way, and writes the buffer that is not
  the one to read; the publishes that overlap are all in `overlapped`, whatever they
  do. The invariant relates the words a load has still to copy to the publication
  it found, until a publish begins behind it in the buffer it reads. From it
  `PublishedStays` (`PublishedIsImmutable`), `OnePublishTearsNothing`
  (`TornOnlyByTwoPublishes`) and `NothingOlder` (`NeverOlderThanLatest`), for any
  number of words and publications.
* **`LockFreeProofs`**, the pool, for one acquiring thread: `PoolInv` has a
  sequence of nodes that the links spell out from `free_head_` on, and one place for
  each node, in it or in the hands of one thread. What keeps the stack a stack is
  what the acquiring thread has read and not yet used: the node it saw at the
  head stays on the list and keeps its link (`ReadStillTrue`), because only an
  acquiring thread takes nodes off the list.
  From it `PoolIsAStack` (`PoolKeepsItsNodes`: every step is one of `FreeStack`,
  no node has two owners, none is lost), for any number of releasing threads.
* **`OmsEngineProofs`**: the invariant says that the file followed by the buffer
  is a log of whole steps, that a replay of it gives the book (but for the one
  command logged and not yet applied), that its commands are those handled
  and its trade records theirs, and that the file is such a log too, of an
  earlier moment that is not before the one last shown. That the *file* is
  recoverable at every step cannot be shown without the buffer: a flush makes
  the one of the other. From it `TheLogExplainsTheBook` (`LogExplainsBook`),
  `WhatIsShownIsInTheFile` (`ShownIsRecoverable`), `TheTradesLogged`
  (`TradesLoggedAreTheTradesMade`), `TheErrorsAreRefusals`
  (`ErrorsAreRefusals`), `NothingIsLeftBehind` (`NothingLeftBehind`) and
  `RecoveryIsExact`: in every state, crashed or not, a replay of the file gives
  the book its commands make and as many errors as the engine refused of them.
* **`DeskProofs`**: `Inv` follows an order from the desk through `outbox` and
  `ring` to the book. The properties speak of the ring and the book, but what
  keeps them true is what the running handler has still to push, and which
  handler it is: a ticket that is refused ends and so takes its own cancel
  with it, a triggered order that is refused stays armed and must not have
  been sent, a cancel is behind its order wherever the two are (`CancelsLast`),
  and the cancel of an immediate order is right behind it or next in the outbox
  (`OnlyTakes`). `Accounted` ties the list to all that: an order listed was sent or is
  armed, withdrawn or lost, or the running handler has it still to push. From it `TheListAgrees` (`ListAgreesWithSubmissions`),
  `WhatIsWithdrawnStaysOut` (`WithdrawnStaysOut`), `PendingCancelsAreTrue`
  (`CancelPendingIsTrue`) and `ImmediateOrdersOnlyTake`
  (`TransientOnlyTakes`), for any snapshots, torn or foreign ones included: none of
  the four depends on what a handler reads.
* **`DeskProofs`**, the judgement of a ticket: `CurrentJudgementIsRight`
  (`JudgedRightIfCurrent`), for every depth of the snapshot. The desk adds up rows
  of a snapshot, the matcher takes orders one by one; between the two stands
  `Stock`, what the orders of a set have left. The rows within the limit are
  the stock of some orders of the other side (`StockOfRows`, which needs that
  the rows of a snapshot are of different prices); a fill takes as much from the
  stock as from the taker, or leaves it alone (`CoversKept`); and while the
  stock covers what is left there is an order to trade with
  (`CoveredTrades`). The displayed depth need not hold all of them.
* **`DeskProofs`**, the tasks: `TasksInv` says of each task what it has still to
  write, who holds each mutex, of which run each word of a result and of the report
  is, and what the UI thread has read so far. From it `ResultsAreWhole`
  (`ResultsAreOfOneRun`) and `EndedIsTrue` (`SaidToBeOverIsOver`), for any number of
  starts.
* **`MarketSessionProofs`** has an invariant for each of three accounts.
  `FlowInv`: with `n` buckets closed, `n * BucketVolume` and the open bucket are
  the flow, and the two sides of the open one fall short of it by at most `n`; the loop
  of `on_trade` keeps it turn by turn. From it `VpinHoldsTheFlow`
  (`BucketsAreTheFlow`). `SessionInv`: the profile of all levels is the
  shares of all orders and what was executed or cancelled (`Summed` on both
  sides), and each kind of message moves shares from one account to another;
  no level shows more than its profile. From it `ReplayIsAccounted` (`ReplayAddsUp`), the
  type invariant included. `BarsInv`: equity, position and turnover are sums
  over the bars so far (`AccountsOf`), the peak is the highest point of the curve,
  and the drawdown is reached by one pair of points and by none exceeded (`Falls`);
  a bar without a price changes none of it. From it `BacktestIsOfTheBars`
  (`EquityIsOfTheBars`).

Only model-checked: liveness (`ConsumerGoesOn`, `TriggeredIsSent`,
`PublishedIsTaken`, `UiComesBack`), since fairness and ENABLED are beyond the
prover. Every invariant and every action property of a passing run is a theorem.

## 6. Plan

1. *Done*: book, pool, matching, ring, view, OMS with its log, desk, tasks,
   market sessions with signals and backtest; the proofs above.
2. Larger instances: three orders at the desk, so that a simulated order trades
   between two of the user's.

## 7. Not modelled

* The rendering of the workstation with the charts, histories and metrics
  behind it, the synthetic snapshots of symbols without a feed (any snapshot
  may appear in `Desk`), the HTML report and the console: output. Races on data
  that is only drawn are listed as hazards.
* The menu, entry points and demos: dispatch and scripts over the components.
* Splitting of CSV lines, price scales, ticker names and the byte layout of the
  log: conversions no property is about.
* Sharpe ratio, Pearson correlation, the moving average `ema_` (read by
  nobody) and the order of `top_levels`: real-valued, or display only.
* Failing writes, two streams on one log file, and pools of another size in a
  replay: see the hazards.
* Clock, benchmark code, tests, build files and data scripts.

The `components` of `PROJECT.json` list every part with its status.
