# TLA+ models of trading_interface

These modules model the run-time core of `trading_interface`: how a strategy's context,
the exchange's hub, the wakeup schedulers, the timer heap and the storage work together
when several threads use them; the simulator and the replay of recorded prices; the order
book on its persistent tree; and the smaller parts everything is built from. TLC checks
them on small instances, and TLAPS proves the invariants that matter most for every value
of the constants. Paths below are relative to `src/src/`.

## 1. The system

| Component | State it keeps | Operations that change it | Model |
|---|---|---|---|
| `BasicContext` (`common/basic_context.*`) | `_queue`, `_timed_queue`, `_scheduled_time`, `_event_time`, batches of orders per exchange, registered completion callbacks | `init`, `on_event` (six overloads), `on_scheduler`, `set_timer`, `clear_timer`, `place`, `replace`, `cancel`, `update_account`, `update_instrument`, `subscribe`, `unsubscribe`, `set_var`, destructor | `EventLoop`, `UpdateRequests`; partly |
| `BasicExchangeContext`, the hub (`common/basic_exchange.*`) | `_subscriptions`, two waiting lists, `_orders`, one mutex | `subscribe`, `unsubscribe`, `update_ticker`, `income_data`, `update_account`/`update_instrument`, `object_updated`, `batch_place`, `order_state_changed`, `order_fill`, `restore_orders`/`order_restore`, `disconnect` | `ExchangeHub`, `UpdateRequests` |
| `RealTimeScheduler` (`common/context_scheduler.*`) | queue of (time, ident, function), one thread, a condition variable, a stop flag | `reschedule`, `worker`, `stop` | `RealTimeScheduler`, `WakeupService` |
| `ManualControlScheduler` (`common/context_scheduler.cpp`) | the same queue, a time set from outside | `reschedule`, `set_time` | `SimExchange` |
| `PriorityQueue` (`common/priority_queue.h`) | a vector | `push`, `emplace`, `pop`, `replace`, `erase` | `PriorityQueue`, `OrderedItems` |
| `MemoryStorage` (`common/memory_storage.*`) | variables, orders, fills, the open transaction and its depth | `begin_transaction`, `commit`, `rollback`, `put_*`, `erase_var`, and what is read back | `MemoryStorage`, `TransactionalStore` |
| `SchedulerRealTime` on `Scheduler` (`common/scheduler.h`) | a queue of items, `_cur_time`, `_wk_time`, a thread | `insert`, `replace`, `update`, `erase`, `set_time`, `worker` | `GenericScheduler` |
| `atomic_future` (`common/atomic_future.h`) | a flag and a value constructed by hand | `set`, `reset`, `get`, `try_get`, `wait` | `AtomicFuture` |
| Orders (`common/basic_order.*`, `trading_ifc/order.h`, `fill.h`) | status, fills, last report | `update_report`, `add_fill` | `Orders`; partly |
| Simulated exchange (`simulator/sim_exchange.*`) | queue of records and a timer | `add_record`, `on_timer`, `update_*` | `SimExchange`, `Replay`; partly |
| Simulator backend (`simulator/simulator.*`) | tickers, active orders, subscriptions | `create_order`, `batch_place`, `batch_cancel`, `subscribe`, `unsubscribe` | `Simulator`; partly |
| Simulated account, instrument, ACB (`simulator/simulator_account.*`, `simulator_instrument.*`, `common/acb.h`) | equity, positions, the overall position | `record_fill`, `close_position` | `SimulAccount` |
| Persistent tree and order book (`trading_ifc/wandering_bst.h`, `orderbook.h`) | shared immutable nodes | `insert`, `replace`, `erase`, iterators; `update_*`, `remove_*_to` | `WanderingTree`, `OrderBook`, `PriceLevels` |
| Instrument, position, ticker (`trading_ifc/*.h`) | none | conversions | `InstrumentRules`; partly |
| Function wrapper (`trading_ifc/function.h`) | a callable in a buffer or on the heap | construction, moves, destruction | `FunctionWrapper` |
| Module loader (`common/loader.*`, `trading_ifc/module*.h`) | loaded modules, lists of factories | `add_module`, `create_strategy`, `create_exchange` | `ModuleRepository`; partly |
| Configuration (`trading_ifc/config_desc.h`, `config.h`, `common/config_desc.*`) | the schema of a form; values | conversion to JSON | `ConfigSchema`, `ConfigJson`; partly |
| Locks (`_queue_mx`, the hub's `_mx`, the simulated exchange's, the scheduler's) and resumed coroutines (`trading_ifc/coro_support.h`) | owner of each mutex | the calls that take one while they hold another | `LockOrder` |
| Handles, log, tools, examples, build files | little or none | forwarding, formatting, input and output | left out |

### How they interact

    exchange threads --> ExchangeHub --on_event--> BasicContext --reschedule--> RealTimeScheduler
                            ^   (hub._mx held)     (_queue_mx)                       |
                            |                          ^                             |
                            +-- batch_place, cancel,   +------- on_scheduler --------+
                                subscribe, update_*             (no lock held)

* An exchange's threads call the hub, which finds the targets of an event and calls their
  `on_event` with its own mutex held; the context queues the event under `_queue_mx` and may
  ask the scheduler for a wakeup, which takes the scheduler's mutex. The locks are
  taken in this order: simulated exchange, hub, context, scheduler. `on_scheduler` releases `_queue_mx` before it
  executes an event, calls the strategy or the hub, and the scheduler's worker releases its
  mutex before it calls a function. The exception is a coroutine that awaited a timer: it goes on with
  `_queue_mx` held. `LockOrder` models the four kinds of mutexes and who takes which while holding others.
* `on_scheduler` drains the queue, then fires due timers, then asks for its next wakeup, then
  (without a lock) hands the collected orders to the exchanges and commits the transaction.
* The strategy's callbacks run in `on_scheduler`, and `on_init` on the thread that calls
  `init`; they call back into the context.
* A back test replaces the thread by `ManualControlScheduler`: the program adds records to `SimExchange`
  and calls `set_time`, whose loop runs the exchange's timer and the contexts' wakeups one after the other.
* The simulator executes an order within `batch_place`, against the last ticker and on a
  simulated account, and tells the order's target at once.
* The order book, the future, the function wrapper, the generic scheduler, the loader and the configuration
  are used through values and calls only; they share no state with the rest.

### What is hard

* `_queue_mx` is released around every callback, so events arrive while the front of the queue is
  being executed, while timers run, and between the re-arming and the end of a wake.
* The scheduler holds one entry per context, which `notify_queue` (only ever to an earlier
  time) and the end of `on_scheduler` (to any time) overwrite, from different threads.
* Callbacks throw; `on_unhandled_exception` may let the program go on in the middle of a wake.
* The hub asks the exchange once for many clients, and forgets lazily.
* The worker of the scheduler is notified of an earlier wakeup while it may be on its way to
  sleep; the scheduler may be destroyed by a function it runs.
* Exchanges repeat themselves: reports, fills and answers may come twice, or too late.
* Transactions nest; a storage must neither lose a fill nor apply it twice.
* The generic scheduler remembers the earliest announcement it ever made, not what its worker sleeps for.
* A replay shows one record per call and relies on its own entry among the contexts' for the rest.
* One order closes, reduces and opens positions of both sides; money is booked in each branch.
* The tree stores heights in nodes that older versions share, and frees nodes while it rebalances.
* Values and callables are constructed, moved and destroyed by hand in raw space.

`PROJECT.json` lists these hazards with the line where each one bites and the properties that
watch it.

### What makes each component correct

| Component | Properties |
|---|---|
| Event loop | every accepted event is queued at its turn until it is applied, and does not wait once it was (unless its exception was swallowed); a pending timer and a waiting event always have a wakeup; orders leave with the wake that collected them, once; what was applied is committed |
| Hub | a subscriber's stream is running, and who waits for an update is answered, unless the service answers within the call; open orders are routed to their owner as long as it is there; nothing about an order follows its final report |
| Scheduler | the worker never sleeps past the earliest wakeup, nor while somebody is due; it calls one function at a time, none too early, none once stopped; the destructor returns and leaves nothing behind |
| Heap | the front is an earliest item after every operation; no item is lost or doubled |
| Storage | a transaction is visible as a whole or not at all; a skipped duplicate is stored |
| Update requests | a registered callback has always somebody who will call it, unless the service answers within the call; the callback that asked is called for an answer to its request |
| Replay | prices come out in the order of their time, each once; time never passes a price that was not shown; `set_time` comes back, unless somebody has subscribed a stream |
| Generic scheduler | what is scheduled before everything announced until then is seen and run in time |
| Simulator | every order has one outcome; no fill makes or loses money but where the code counts twice; only hedging holds both sides; the reported position agrees with the positions, except after a fill that opened one |
| Order book | its trees stay balanced search trees; iterators visit every price in order; each update changes the levels it should and no other; no key is read after its node was freed |
| Future, function wrapper | a reader finds a living value; a callable has one holder and is destroyed once |
| Loader, configuration | the newest module with a name makes the object; a form read back from JSON is the declared one |

## 2. Modules

| Module | What it is |
|---|---|
| `EventLoop` | the context's loop with the scheduler's entry for it, clocks, batches, exceptions and the transaction of a wake |
| `EventLoopProofs` | theorems about it |
| `ExchangeHub` | the hub with its targets and the service behind it |
| `ExchangeHubProofs` | theorems about it |
| `RealTimeScheduler`, `WakeupService` | the scheduler, and the service it provides to any number of contexts |
| `PriorityQueue`, `OrderedItems` | the heap with one round of sifting per step, and the priority queue it implements |
| `SchedulerProofs` | theorems about the heap and the scheduler, with both refinements |
| `MemoryStorage`, `TransactionalStore` | the storage, and the store that what is read from it implements |
| `MemoryStorageProofs` | the duplicates, and that refinement |
| `UpdateRequests`, `UpdateRequestsProofs` | one update request through contexts, hub and service and back; theorems |
| `SimExchange`, `Replay` | the replay of prices on the manually driven scheduler, and what a back test is promised |
| `Simulator`, `SimulAccount`, `Orders`, `InstrumentRules` | the simulator's backend on an account, with the orders' status and the arithmetic of an instrument |
| `SimulationProofs` | theorems about the replay, and about the backend and its account |
| `OrderBook`, `WanderingTree`, `PriceLevels` | the book, the tree under it, and the two functions from prices to amounts it implements |
| `GenericScheduler` | the scheduler of `common/scheduler.h` |
| `LockOrder` | the mutexes of contexts, hubs, the simulated exchange and the scheduler, and the calls that nest them |
| `AtomicFuture`, `FunctionWrapper`, `ModuleRepository` | the future, the callable, the loader |
| `ToolboxProofs` | theorems about these five, about the order book with its tree, and about the conversion of a configuration, a section for each |
| `Intervals` | lemmas several proofs rest on: a nonempty set of time points has a least one, and what a loop over a sequence computes exists and keeps what every round keeps |
| `ConfigSchema`, `ConfigJson` | the controls of a form as their constructors make them, and their conversion to JSON |
| `MC*` | model values and definitions for TLC; `MCServices`, `MCTrades` and `MCToolbox` extend modules that share no state and put them side by side (section 3) |

Definitions named `...Keeps`, `...Forgets` and the like, each under a comment "Mutant", are
variants of an action with a plausible bug. They are not part of `Next`; putting one in the
place of the action it varies shows that a property can fail.

### EventLoop

A step is what the code does while it holds `_queue_mx`, or between two acquisitions of it, so
the lock itself needs no variable. `pc` is where `on_scheduler` stands: `drain`, `item` and
`book` inside the loop over the queue, `on_ticker` to `on_timer` while the strategy's code runs,
`flush` after the lock is released for good, `dead` after an exception was thrown on. The
variables `queue`, `timers`, `scheduledTime`, `eventTime`, `toPlace` and `toCancel` are the
members of the class; `slot` and `now` are the context's entry and the clock of
`WakeupService`, which `RealTimeScheduler` is proved to implement.

* `OnEvent`, `OnMarketData`: the overloads of `on_event` (`basic_context.cpp:41-94`). Reports,
  fills and updates are numbered in the order of acceptance. Market data are merged into a
  queued event, and the first data of an instrument are queued without `notify_queue`.
* `SetTimer`, `ClearTimer`, `Place` (also `replace`), `Cancel`: the calls a strategy makes, at any
  moment its code runs, also in `on_init`.
* `Wake`, `EnterDrain`, `ReadTicker` ... `TimerReturns`: `on_scheduler` and the operators of the
  queued events. `HandOver` and `TouchMovedOrder` model that an event's order is moved into the
  callback: an event executed again after a swallowed exception finds a moved-from order. `swallowed` remembers the events of such exceptions.
* `Flush`, `Commit`, `Rethrow`, `Swallow`: what follows the locked part, and the `catch`.
* `Tick`: the clock. `now` is the value the scheduler's thread last read.

`on_scheduler` is `noexcept`, so an exception that is thrown on ends the program (`dead`). The storage is reduced to which events' records are
`pending` or `committed`; `MemoryStorage` has the rest.

### ExchangeHub

One step per critical section; the one loop that matters, `send_subscription_notify`, is one step
per entry (`sweep`), with the lock held. `subs`, `waiting` and `owner` are the maps (who waits is a set: nothing depends on
the order in which `object_updated` calls them); `alive` and
`inbox` are the targets; `streams`, `asked` and `stage` the service (an external program,
modelled from the calls the hub makes to it and gets from it). `Subscribe` and `UpdateTicker` (by `RequestStream`) and
`UpdateObject` let the service answer within the call or later. The hub enters the subscriber, or who waits, only after that call, and its mutex is
recursive: data sent within the call find nobody, so that the hub unsubscribes the stream and then enters a subscriber without one (`lapsed`), and an
answer within the call is heard by nobody (`unheard`). `RestoreBegin` and `RestoreEnd` are `order_restore`, which changes the map of orders
without the lock: another change of the map meanwhile destroys entries (`mislaid`).
`Disconnect` is the loop that erases while it iterates: it skips the entry after each
erased one and runs off the map after the last (`Hung`).

### RealTimeScheduler

`entry` is the queue as the function from contexts to wakeups. `worker` is the thread: waiting (with
the time it waits for), running a function, or out. `Reschedule` is one critical section;
`Wait` and `RunDue` are what `worker` does between two releases of the lock; `Resume`, `TimeOut` and
`WakeForNothing` are the condition variable; `SetStop`, `NotifyStop` and `EndStop` are `stop()`, from
outside or from the function the thread runs (`inside`). Joining a thread that was never started
ends in phase `terminated`. Callers hold a share of the scheduler, so it is destroyed
only when nobody calls it.

### PriorityQueue

The vector, and `sift`/`at` for the loop of `heapify_up` or `heapify_down`. Positions are counted from 1, so the
parent of `k` is `k \div 2`. `call` remembers which operation the caller made, so that
`OrderedItems` can tell taking from erasing.

### MemoryStorage

`db` holds the stored variables, orders and fills, `trn` the queued writes, `depth` the transaction
counter. `Work` is the database a commit would leave, by the loop of `commit`, and
`Matching` the search of `load_fills`; both are recursive functions on positions, so that they can be proved about.
`Report` and `DeliverFill` are what the events of the context do. A queued order
is read when the write runs. `BasicOrder::to_binary` returns nothing at this commit, and nothing is stored then;
`Orders` are those of an implementation that returns something. `Fill` is the set of
fills the exchange reports, as a constant: the same ID with one timestamp or with several. `LoadLast`, `LoadSince`,
`LoadOpenOrders` and `EnumVars` are what a restarted strategy reads; `TransactionalStore` is
implemented by what they return (`Loaded`), not by the maps behind them. What becomes of a key that is put again is left open
in `TransactionalStore` (the old entry or the new one): the storage keeps the old one (item 17), a storage that replaces it would be as good an implementation.

### UpdateRequests

`Request` is the locked part of `update_account` (`update_instrument` is the same code), `CallHub` the call of the hub
after the lock was released, where the service answers later (`AnswersLater`) or within the call, before the context is in the list
(`AnswersWithin`, as the simulated exchange does; `unheard`), `ObjectUpdated` the hub's answer to all who wait, `Begin`, `Call`,
`Erase` and `EraseResumes` the event that calls and erases the callbacks: plain callbacks may ask
again while they are called, coroutines when the erasure resumes them. Each callback has a
`Mark`: whether it made the context ask, joined one that did, or has seen an update completed.

### SimExchange

Nothing runs in parallel in a back test, so a step is one call of the program or one round of the loop of
`set_time`. `queue` is the scheduler's queue as a function of the idents; time 0 is `Timestamp::min()`.
`OnTimer` is the whole of `on_timer`: it shows a ticker or drops a book update (`Give`), wakes whoever the hub tells,
and makes the exchange's next entry; or it does not come back from the hub (`hung`), whose loop never ends when a target has a stream (`streaming`, item 10). `RunContext` is a context's function: it may request updates, answered within the call,
change its subscriptions, and ask for another wakeup, also in the past. `records` is the queue of prices, `shown` the tickers given to the hub.

### Simulator

Everything runs under one lock, so a step is a call. `TryMarketOrder` returns an order's outcome as `try_market_order` does, branch by
branch, with the account as `RecordFill` and `ClosePosition` leave it (also when the order is rejected in the
end). `active` is the set of the orders in `_active_orders` (their sequence decides nothing); `order` keeps the status of every order with the number of reports its
owner heard. `SimulAccount` has the account as a value and pure operators over it; averages are kept as
sums, multiplied by `Scale`, so that a quotient is exact when `Scale` is a multiple of every divisor that occurs. The loops over positions
are recursive functions on the places of the list (`AcbOf`, `Closed`, `LeftAfter`). The branch of `BatchReplace` that
amends an order can never be reached, because the search compares the active orders with the new order.

### WanderingTree, OrderBook

A tree is a value: nested records, with the height stored in each node as the code stores it. `Trees[n]` are the trees of height
`n` and below, and what the code does by recursion on a tree is a function on those of its height. `InsertAt` and
`DeleteAt` are a call of the code's recursive functions with their rotations, given what the recursive calls return; `InsertInternal` and `DeleteInternal` tie the
knot. `DeleteAt` keeps that result for each key, as the recursion erases another key below a node with two children. `misread` records whether `finkey` was
read after the node it points into was copied and freed by a double rotation. Iterators are stacks of nodes (`Begin`, `End`,
`GoLeft`, `GoRight`, `Bound`). A loop that removes levels (`RemoveTo`) has as many rounds as the tree has nodes, of which the last ones
change nothing. `OrderBook` has one step per call of the book; a call that reads the
first level of an empty side ends the behaviour (`valid`). `PriceLevels` says what the calls should do, and allows reading nothing
(`Break`) as the alternative where a side loses all its levels or has none, so that a book with the missing test would implement it too.

### GenericScheduler

`_mx` is held from where the worker takes it to where it gives it up, so each such stretch is a step: `Take` runs one item, `Sleep` is the
end of `set_time` with the wait. `early` marks, as history, the items that were scheduled before everything announced
until then. The front of the heap is an earliest item (`NextEvent`), which holds for at most five items; `MaxItems` bounds the queue, and `ItemBound` assumes that
it is at most five.

### LockOrder

The other modules treat a critical section as one step. Here `held` is the stack of mutexes of each thread with the call that took each, and `want` what
a thread waits for. An action per call says when it may lock what: from `Outside` of every lock, or from within another
call's (`In`). What a call does outside of locks is left out, so that `on_scheduler` and `update_account` are
the stretches they lock in, in any order; any thread may call anything, which is more than the program does. `Blockers` knows that only the
hub's mutex is recursive. `ResumeSleeper` is the destructor of an awaited timer's function; `Resumed` tells a thread that has not
come back from it.

### AtomicFuture, FunctionWrapper, ModuleRepository

`AtomicFuture` has a step for every access to the flag and for the begin and end of the value's construction. In
`FunctionWrapper` an object is raw space, empty or a callable, `destroyed` counts destructor calls. `ModuleRepository` leaves open
(`shared`) whether the dynamic linker binds `Factory::first` of all modules to one variable.

### ConfigSchema, ConfigJson

`ConfigSchema` has an operator per constructor of `namespace params`; choices and rules are sequences of pairs, as in the code; defaults and bounds of ranges are model values with an order nobody
uses. In `ConfigJson`, a JSON object is a function from its members' names, and what the JSON library makes of a list of pairs with a name twice is one of them (`AsObject`); `ControlToJson` takes over, skips and
nests what `control_to_json` does, given what becomes of the controls it holds (`inner`). What the code does by recursion on a control is `Json[n]`, a function on
the controls at most `n` deep, in terms of those less deep: a control holds its controls by value, so each has a depth, and two assumptions
on the constant `Controls` say that (`DepthAssumption`) and what the constructors can make (`ControlAssumption`). `Read` is what a user interface can make of the JSON, `Meant` the declared control
without what the code leaves out on purpose or by mistake (section 6), its lists of pairs without their order and repetitions (`Unordered`).

## 3. What TLC checks

| Run | Module, configuration | Distinct states | Properties and what the run shows |
|---|---|---|---|
| event_loop | `MCEventLoop`, `EventLoop.cfg` | 1 447 421 | `QueueComplete`, `UnseenIsQueued`, `NoOrderLeftBehind`, `SentOnce`: Every interleaving of exchange threads, on_scheduler and the strategy's calls, exceptions thrown again or swallowed: reports, fills and updates stay complete and in order, every wake hands over the orders it collected, once. |
| event_loop_live | `MCEventLoop`, `EventLoopLive.cfg` | 102 734 | `EventsArmed`, `AppliedIsCommitted`, `TimersFire`, `PunctualEventsApplied`: Under a fair scheduler and an endless feed of one instrument, also while on_init runs: timers and punctual events always have a wakeup, every timer fires or is cleared, every punctual event is applied, and what was applied is committed. |
| hub_market | `MCExchangeHub`, `HubMarket.cfg` | 144 760 | `SubscribersServed`, `WaitersAnswered`, `OneShotsServed`: Two targets subscribe streams and single tickers, unsubscribe, ask for updates and leave, a service that answers, whether in the call or later: the service sends every stream somebody is subscribed to and everybody who waits is served, unless the hub's lock is stuck or the service answered within the call. |
| hub_routing | `MCExchangeHub`, `HubRouting.cfg` | 411 612 | `OpenOrdersRouted`, `FinalReportIsLast`: Orders placed and restored, a service that repeats its events, update requests and targets that leave: open orders keep their target, a final report is the last a target hears of an order. |
| heap | `MCPriorityQueue`, `Heap.cfg` | 14 254 | `IsPriorityQueue`: Six items pushed, popped and moved in every order, erased while at most five are queued: the queue implements OrderedItems. |
| services | `MCServices`, `Services.cfg` | 141 110 | `NoOversleep`, `GoneIsUnused`, `IsWakeupService`, `DueIsCalled`, `StopReturns`, `NoCallbackStranded`, `FirstIsFresh`, `CallbacksRun`, `IsReplay`, `SetTimeReturns`: The worker never waits past the earliest wakeup and never sleeps while somebody is due, the scheduler implements `WakeupService`, and its destructor returns. A registered callback has somebody who will call it, the one that asked gets an answer to come, and all are called, but behind an answer within the call. A back test shows its prices in the order of their time, each once, and `set_time` comes back unless a stream is subscribed. |
| trades | `MCTrades`, `Trades.cfg` | 908 857 | `DuplicatesAreStored`, `IsTransactionalStore`, `OneOutcome`, `OverallSumsUp`, `WorthConserved`, `TwoSidesOnlyByHedge`: Commits and rollbacks are those of `TransactionalStore`, and what is skipped as a duplicate is stored and read back by its label. Every order has one outcome, no fill makes or loses money except the one the code counts twice, and the reported position is right after every change of the account but a fill that opens a position. |
| toolbox | `MCToolbox`, `Toolbox.cfg` | 203 673 | `EarlierIsSeen`, `ReadsAreAlive`, `OneOwner`, `NewestMakes`, `FormIsAsDeclared`, `BooksBalanced`, `KeyOutlivesUse`, `IteratorsWalk`, `IsPriceLevels`, `NobodyWaitsInACircle`: The parts that stand alone, each on its own: the generic scheduler never sleeps over what was scheduled earlier than all before it, a future's readers find a living value, a callable has one owner, the newest module makes what is created by name, a form read back from JSON is the declared one, the trees of an order book stay balanced and readable in order and the book implements `PriceLevels`, and nobody waits for locks in a circle. |
| sleeper_blocks | `MCLockOrder`, `SleeperBlocks.cfg` | violated | `SleepersGoOn`: A coroutine that awaited a timer is resumed with the context's lock held, and what it calls next waits for its own thread. |
| gone_targets | `MCExchangeHub`, `GoneTargets.cfg` | violated | `DisconnectDisposes`: `disconnect` is documented to dispose open orders, subscriptions and updates (`basic_exchange.h:20-22`); it leaves a target's orders, and every second subscription. |
| never_called | `UpdateRequests`, `NeverCalled.cfg` | violated | `CalledWhenComplete`: `update_account` is documented to call its function when the update is complete (`strategy_context.h:328`); with a service that answers within the call, as the simulated exchange does, it never does. |
| stale_position | `MCSimulator`, `StalePosition.cfg` | violated | `PositionIsNet`: `get_position` is documented to return longs less shorts (`account.h:59-60`); after a fill that opened a position it returns what was calculated before. |

* **event_loop** - Every interleaving of exchange threads, `on_scheduler` and the strategy's calls on
  one instrument with tickers and order books, two numbered events of any kind, one timer, one order and
  two exchanges, with exceptions thrown on or swallowed. Two events are enough for one to
  arrive before, during and after the other's execution; one instrument's market item can be at
  the head or behind. The run sets `RearmElapsed`: the strategy may set timers already due.
* **event_loop_live** - The same loop under fairness with two timers, while `on_init` may still run.
  Fairness: the scheduler calls due functions (`Wake`) and the code it runs ends (`Worker`, `InitReturns`), and
  the clock goes on; nothing is assumed of the strategy or of the exchanges, whose feed may
  be endless. `RearmElapsed` is off and one instrument feeds, as the two ways to starve timers
  (section 6) would otherwise be found.
* **hub_market** - Two targets subscribe, ask for single tickers and updates, and one leaves; a service that
  answers. Fairness: targets execute what is queued; the notifying thread goes on; the service
  answers requests and sends data for streams it was asked for again and again (strong fairness, as
  the lock may be taken by others in between). The properties leave out what section 6 describes: a hub whose lock is
  `Stuck`, and what the service answers or sends within the call (`unheard`, `lapsed`).
* **hub_routing** - Orders placed and restored by two targets that may both leave, a service that
  repeats final reports and sends fills after them, updates requested by both.
* **heap** - Six items of four time points in every order of push, pop and replace; erase while
  at most five are queued, which is where it is right (section 6). Items are symmetric. `IsPriorityQueue`
  shows that the vector implements `OrderedItems`.
* **services**, **trades**, **toolbox** - The modules such a run extends share no state. Each behaviour is one of a single part, chosen at
  first (`part`), while the others rest in their initial state, so that the states are the sum of those of the parts. In `MCServices` the fairness of each
  part's specification (`ThreadProceeds`, `RequestsProceed`, the fairness of `FairExchange`) is asked of the part that runs.
* **services**, the scheduler - Three contexts, wakeups at once, at three further instants, due and to come; the scheduler destroyed from outside and from
  inside. Fairness: the thread runs and its functions return, waits time out, the clock goes on, a
  destructor that was entered goes on. `DueIsCalled` excepts contexts overtaken for ever by others' immediate wakeups.
* **trades**, the storage - Nested transactions (depth two, three queued writes) over a variable, an order and
  two fills, one of which is reported with two timestamps, with and without a label.
* **services**, the requests - Three contexts with two callbacks each and one more inside the loop, a service that answers later or within the
  call. Fairness: the service answers what it works on and a context's thread applies the event, which is a punctual one (`PunctualEventsApplied`).
* **trades**, the simulator - Four orders out of seventeen setups: both sides, amounts below, at and above the
  other positions', all behaviors, volumes of money in market and limit orders, each type of order, closing by each kind of id; two tickers,
  one of which has no asks, so that liquidity and price change. Leverage 1 and an equity of 6 make the third or fourth order run
  out of money.
* **services**, the back test - Two contexts, two records at times 0 to 2 (equal ones included), streams subscribed and cancelled at any time. The contexts'
  wakeups are not bounded: `SetTimeReturns` speaks of contexts that from some moment on ask only for wakeups which the running
  `set_time` does not come to (`AskAhead`). Fairness: the loop of `set_time` goes on (`Round`).
* **toolbox** - Scheduler: two idents, instants 0 to 2, four calls, at most four items.
  Future: two readers, two values. Functions: three objects, three callables. Loader: two modules that share a name and a library
  without entry point, three additions, two objects. Configuration: every pair of top-level controls of all
  classes, with options and ranges at and off their defaults, choices and rules in another order and with a name twice, and containers nested three deep. Order book: asks at five prices,
  which is what a tree of height three with every rotation needs, on both
  ways of insertion and deletion (the theorems cover any number of prices); bids at two prices with two amounts, for the replacement of an amount and the other
  ordering; every reachable pair of trees is visited. Locks: three threads, one context, one exchange, the simulated exchange's mutex and the
  scheduler's, so that a circle may have three threads; the theorem covers more of each.
* **sleeper_blocks** - Two threads, one context, one exchange. The shortest counterexample has four states; with several workers TLC may print a longer one, with a step of the other thread in it: `on_scheduler` (or
  `clear_timer`) takes `_queue_mx`, destroys the timer's function, and the coroutine resumed by it asks for the same mutex (section 6, item 39).
* **gone_targets** - A target that places an order, subscribes to two tickers and leaves: the order, or the second subscription, stays in the hub's maps (section 6, item 9).
* **never_called** - Two contexts with one callback each, under the fairness of `FairRequests`: the service answers within the first
  context's call, and the callback is listed behind a request that is over (section 6, item 8).
* **stale_position** - The first order that opens a position (section 6, item 28).

### Bounds

`MaxTime`, `LastTime`, `MaxEvents`, `MaxTimers`, `MaxInbox`, `MaxEmits`, `MaxAsked`, `MaxSize`, `MaxDepth`, `MaxQueued`,
`MaxReports`, `MaxFills`, `MaxCallbacks`, `MaxOrders`, `MaxRecords`, `MaxItems`, `MaxCalls`, `MaxSets`, `MaxCallables`, `MaxAdded`,
`MaxObjects` and `MaxControls` bound what is unbounded in the code (or, for time,
practically so). They stand in the guards of the actions that
grow the counted thing. `MaxTimers` is at most five by assumption (`TimersAssumption`), since `EventLoop` takes the front of the
timers to be an earliest one, which `PriorityQueue` guarantees up to there; `GenericScheduler` uses the same heap, and `MaxItems` is at most five for the same reason (`ItemBound`). `CHECK_DEADLOCK FALSE` stands where every bound may
be reached, the program may end, or the hub's lock may be taken for ever.

## 4. What is proved

The theorems hold for every number of instruments, exchanges, orders, timers and items of a scheduler's heap (up to five at
once), events, contexts, records, callers, callbacks and instants, under the named assumptions of the modules.

* **EventLoopProofs.** `QueueComplete` says that no event is lost (`NoneIsLost`) and that none waits once it was applied (`NoneIsLeft`), except the head while its
  callback runs, and one whose exception was swallowed. `QueueInv` adds to `TypeOK` and `NoneIsLost` that the executing item
  heads the queue and fits `pc` (`HeadRuns`) and that only the head can be applied already
  (`QueueAhead`); `NoneIsLost` alone is not inductive, as popping the front would lose an
  event that had not been applied. Given `QueueInv`, `NoneIsLeft` speaks of the head only (`LeftIsHead`), and is kept by every step. From them follow `QueueIsComplete` and `EventsAppliedInOrder`, exceptions
  included. `WakeupsArmed` proves `TimersArmed` and `EventsArmed` when exceptions are never
  swallowed: `Armed` says what holds already while the batches are flushed, and that while a timer's function
  runs nothing punctual waits. `OrdersSentOnce` follows from `BatchedUnsent`. (`AppliedInOrder` and
  `TimersArmed` are no properties of a run any more: the theorems contain them.)
  `BatchesAreHandedOver` (`NoOrderLeftBehind`) rests on `BatchesFlushed`: outside of wakes the batches are empty from the first
  wake on, and while they are flushed those already handed over are. It assumes `~WakeInInit`: a wake that overlaps `on_init`
  may end before `on_init` places its orders (items 5 and 6). `AppliedEventsAreCommitted` rests on `AppliedIsStored`, the
  same statement with the open transaction in it, and assumes that exceptions are not swallowed, since a fill whose callback threw is applied and not stored
  (item 4). `MarketDataAreRead` needs no assumption: `MarketInv` adds to `UnseenIsQueued` that an instrument has at most one
  queued event, and that what the event being executed has read is not unseen, so that removing it removes nothing unseen.
* **ExchangeHubProofs.** `HubTypes` first. `HubServesSubscribers`: the loop of `send_subscription_notify` stands at a
  subscriber and, as long as it has counted nobody, has passed none (`LoopInv`), so that a stream is given up only when nobody
  is left, or within the call that asked for it (`lapsed`). `HubRoutesOrders` speaks of targets that are connected: an order not placed or not yet restored is nobody's, and a restore in progress is of an order
  that is not restored (`RouteInv`). `HubFinalReportIsLast` adds that an order whose final report is queued for a target is done
  and not that target's (`FinalInv`), so that neither a repetition nor a restore can send it anything. `HubStaysStuck`: `Stuck`, which the
  liveness properties except, is permanent, because whoever could change the map needs the lock.
* **SchedulerProofs.** The heap: `HeapInv` is the order between parents and children, excepting the element that is being sifted, whose parent and
  children are in order with each other. That the front is an earliest item follows for one position after the other, as
  each element is no earlier than its parent (`FirstIsEarliest`). Erasing keeps the invariant only up to five items (`HeapIsPriorityQueue` assumes
  `EraseSize <= 5`): there the last element, which takes the erased one's place, is never earlier than its new parent (`LastIsNotEarlier`);
  with six it may be, and `erase` sifts down only (item 16). The other operations may find any number of items.
  The scheduler: `SchedulerInv` adds to the types and `NoOversleep` the relation of
  `stop()` and the thread (`StopInv`). From it follow `WakeupsAreKept`, `StopIsFinal`, and
  `Refinement`: the scheduler implements `WakeupService`, which is what `EventLoop` assumes of its
  `slot`.
* **MemoryStorageProofs.** `StoreInv`: the types; a write is queued only in a transaction, and one of an order only once it has been
  reported; whatever was skipped is in the database. From it and from what `load_fills` returns (`MatchingFinds`, `MatchingAll`) follows `SkippedFillsAreStored`. For
  `StorageIsTransactional`, what is loaded is the database itself (`LoadedIsDb`), a write that is queued changes what a commit would leave by one more
  round of its loop (`FinalOfAppend`), a new report of an order whose write is queued changes only that order's entry (`FinalOfReport`), and so each call is a step of
  `TransactionalStore` (a key that is stored keeps its entry, which is one of the two that it allows) or changes nothing that can be read.
* **UpdateRequestsProofs.** `UpdatesInv` is inductive: `CallbacksAreCovered`, with those behind an answer within the call as the one exception (`unheard`). For
  `FirstCallbacksAreFresh` two facts are added in `FreshInv`: of a request, a place in the hub's list, an
  answer and a running loop a context has at most one (`OneAnswerAhead`), and only the first callback
  can be the one that asked, which then still waits (`FirstWaits`).
* **SimulationProofs.** The replay: `ExchangeIsArmed`: with records left the exchange has its entry at the earliest of
  them (`ReplayInv`). The times and the number of records are any; a notification may hang. From it `Refinement`: every behaviour of the exchange on the manually driven scheduler is a
  `Replay`. The entry of the earliest record is what keeps `TakeFront` of a context from passing it.
  The backend: `BackendInv` is `OneOutcome` with an account that is well formed (`AccountInv`): ids tell the positions apart and are below the
  counter, amounts are positive, and the overall position has an amount if it has a side. That is what makes every fill, and every closing of a position by
  any id, report an amount (`FoundIs`, `OrdersHaveOneOutcome`). `CostsAreKept` is about the overall position as it is stored and reported: whatever closes or reduces
  positions calculates it again from the list (`RecordFillIs`, `ClosePositionIs`), and what is calculated sums up (`CurrentSumsUp`); only a fill of a market or limit order that ends in
  `OpenRest` leaves it, and then unchanged. That what is calculated sums up: a trade moves the average-cost view's locked and open profit by just what its position makes at
  any price (`TradeGains`), since the part of a sum that stays and the part that leaves make it up, however the quotients are rounded (`SharesSumUp`).
  `MoneyIsConserved`: closing keeps the worth at its price (`ClosedIs`), a position that was just opened is worth nothing (`NoPnlAtOpen`), and a position that is reduced
  is larger than what reduces it (`LeftNeverGrows`) and, as ids are told apart, the only one that counts twice (`ReduceFirstIs`).
  `BothSidesAreHedged`: what remains opens a position only when none of the other side is left (`OpenRestIs`). The theorems hold for any rules of an instrument,
  leverage, tickers and setups with the types and `NoVolumeAtZero` (section 5).
* **ToolboxProofs.** `EarlierItemsAreSeen`, from `SeenInv` and `ItemBound`: an item scheduled before all announcements until
  then stays within what the worker waits for, whatever else is scheduled, replaced and erased.
  `LocksAreOrdered`, from `LockInv`: a mutex has one owner, and whoever has not resumed a coroutine holds mutexes of ascending ranks and
  waits for one above them (`Before`: or for the same hub's, which is recursive). Along a circle of waiting threads the
  ranks would grow for ever, and there are four.
  `FutureReadsAreAlive`: the flag is set only while there is a value, except in the middle of a reset, when nobody reads (`FutureInv`).
  `CallablesHaveOneOwner`: each callable is held by one object and not destroyed, or destroyed once and held by nobody (`OwnedOrDestroyed`); a callable
  not yet made is held by none. `NewestModuleMakes`: modules are opened in the order in which they were added first (`OpenedInOrder`), so that
  the last opened of a list of factories is the newest, with one list as with several.

  The order book, for any finite or infinite set of prices and amounts. First, each recursive function is shown to be what the code computes of a node
  from what it computes of the children (`NodesDef`, `InsertDef`, `DeletionsDef`, `LeftSpineDef`, `PathToDef`), and what holds of the empty tree and of a node whenever it holds
  of the children holds of every tree (`TreeInduction`). The inductive invariant `BookInv` is that both trees are `Good`, that is `Balanced` and `Ordered` (a search tree), and that
  nothing was misread; the order belongs to it because what a deletion leaves below a node with two children, and the levels that a tree stands for, depend on it.
  *Insertion*: a call returns a balanced tree that is at most one higher, and if it is higher it leans to the side of the new key (`Grew`), which
  makes the rotation the code chooses the right one (`InsertedLeft`, `InsertedRight`). Where a key was freed (`gone`), the tree has not become higher, and so no level above
  has to rotate and reads it: that is `BookReadsLiveKeys`. *Deletion*: the four cases restore the balance of a node off by two and
  lower it by at most one (`ErasedOver`), and the least key of the right subtree takes the erased one's place (`FirstIsLeast`, `DeleteErases`).
  Rotations regroup entries and keep the order of keys (`Regrouped`, `RegroupedTwice`). From this `BookIsBalanced`.
  `BookImplementsLevels`: what `insert`, `replace` and `erase` leave stands for the function that `PriceLevels` says (`LevelStored`,
  `LevelsWithout`), and the loop that removes the better levels ends with none of them, since each of its rounds takes a key away and there are not more keys than nodes (`RemovesAllBetter`); where no level is left, the book's misread is the `Break` that `PriceLevels` allows.
  `BookIteratorsWalk`: the path an iterator holds is the one a search for its key takes (`SpineIsFirst`); going on from
  it leads to the path of the next key in either direction (`OnwardIsNext`, by how a path continues under one more root: `OnwardUnder`, `ClimbUnder`), and a search for a key that is
  not there ends next to its place (`SearchEnds`).

  The configuration (`FormsAreAsDeclared`), for forms of any depth: rules, options and ranges are read as they were, as far as a JSON object has no order (`ObjectIsFunction`, `UnorderedOptions`), with every choice of defaults left out
  (`OptionsAreRead`, `NumberRangeIsRead`, `DateRangeIsRead`, `TimeRangeIsRead`); a control of any class is read as it was declared, provided
  those it holds are (`ControlIsRead`); so every control is, by induction on its depth (`DepthIsRead`). That `hide_seconds` is always written is what tells
  the range of a time from that of a date (`RangeIsRead`).

What a loop computes is an induction over data. Where a proof needs one it is carried out with sets: `Intervals` orders the initial segments
of an interval by inclusion, which is well-founded (`IntervalInduction`), and from that has the function a loop computes (`LoopExists`).

Only model-checked is all liveness (`TimersFire`, `PunctualEventsApplied`, `WaitersAnswered`, `OneShotsServed`, `DueIsCalled`, `StopReturns`,
`CallbacksRun`, `SetTimeReturns`), which is out of reach of the proof system. Every safety property that a passing run checks is proved.

## 5. Assumptions

* The system clock does not go back.
* `on_scheduler` is never run by two threads for one context (the scheduler has one
  thread; the real one is proved to run one function at a time).
* The erasure of a multimap's entry computes the next position before it destroys the
  entry's value, as the common library does; the coroutine resumed by that destruction runs before
  the loop goes on.
* A strategy calls its context only from its callbacks and from `on_init`. Coroutines await updates, not timers, except in
  `LockOrder`: what they would do in `EventLoop` after a timer is to block its thread (item 39).
* Lock acquisition and the condition variable behave as the standard says; spurious wakeups are modelled.
* The simulator's and the account's numbers are whole; rounding of floating point is not modelled. The sources of the simulator's backend do not compile at
  this commit; the model is what they say, with `Order::State::pending`, which does not exist, as a state of its own.
* An instrument with a least volume gets no limit orders (`NoVolumeAtZero`): before the first ticker such an order is filled at a price of zero (item 25), where
  the least amount is that volume divided by zero, an infinite number in the code and undefined over whole numbers. A ticker with a volume has a price (`TickerTypes`).
* A limit order whose amount is a volume is placed only when there is a price on its side (`Priced`): before the first ticker the code divides by zero.
* The generic scheduler's queue holds at most five items (`ItemBound`), as the context's timers do (`TimersAssumption`), since beyond that `erase` may leave an item
  above an earlier one (item 16).
* The JSON library makes an object of a list of pairs: each name once, with one of its values.
* The elements `atomic_future` stores are constructed without exceptions, and what is marked "NOT MT SAFE" is called while nobody else uses the future.

## 6. What the code does that its users may not expect

Each of these was met while modelling. The models contain the behaviour; properties are conditioned
or excepted where it would violate them, as named in brackets.

1. The first market data of an instrument are queued without a wakeup (`basic_context.cpp:49`). They are read when something
   else wakes the context (`OnMarketData`).
2. Data that are merged into the event being executed, after its flags were read, are removed with it
   (`basic_context.cpp:52`) [`PastReading` in `UnseenIsQueued`].
3. An event accepted while a timer's function runs has no wakeup (`basic_context.h:180`) [`late`].
4. After a swallowed exception, `on_scheduler` neither removes the event that threw nor asks for a wakeup
   (`basic_context.h:193`); with `_scheduled_time` at its old value the context may not wake again [`WakeupsArmed` assumes that
   exceptions are not swallowed]. Such an event may already be applied, and is executed again [`swallowed` in `QueueComplete`]. A fill whose callback threw has been applied but not stored [`AppliedIsCommitted` is checked without swallowing].
5. Orders placed in `on_init` stay in their batch until a wake (`basic_context.cpp:31`), which
   nobody asks for [`eventTime` in `NoOrderLeftBehind`].
6. `on_init` runs on the caller's thread and may overlap `on_scheduler` (`basic_context.cpp:31`) [`WakeInInit`].
7. The loop over the queue ends only when it is empty: the feeds of two instruments can keep timers and
   batches waiting for ever (`basic_context.h:174`) [`TimersFire` is checked with one feed].
8. An answer given within `update_account` or `update_instrument` finds nobody, and the caller waits behind a request that is over
   (`basic_exchange.cpp:120`) [`unheard`]: no callback is called any more [run `never_called`]. The simulated exchange answers so (`sim_exchange.cpp:25`).
   Data sent within `subscribe` find nobody either: the stream is unsubscribed (`basic_exchange.cpp:83`), and the subscriber is entered after that
   (`:18`, `:110`) [`lapsed`]. The simulator's backend answers so (`simulator.cpp:36`).
9. `disconnect` skips the entry after each one it erases, and steps past the end after the last
   (`basic_exchange.cpp:154`) [`Stuck`]. Orders of a target that is gone keep pointing to it (`:152`) [run `gone_targets`; `OpenOrdersRouted` speaks of targets
   that are there].
10. A stream subscription is visited for ever (`basic_exchange.cpp:77`) [`Stuck`; `hung` in `SetTimeReturns`: in a back test `set_time` does not come back].
11. `update_ticker` answers at once if somebody else is already subscribed, also when no data have come yet
    (`basic_exchange.cpp:112`).
12. `order_restore` changes the map of orders without the lock (`basic_exchange.cpp:200`) [`mislaid`].
13. A fill that comes after the final report is dropped (`basic_exchange.cpp:186`).
14. Wakeups at once (`Timestamp::min()`) of other contexts overtake a due one, for ever if they keep
    coming (`context_scheduler.cpp:130`) [`OthersAskAhead`].
15. A scheduler that was never asked for a wakeup throws from its destructor (`context_scheduler.cpp:115`), and
    `create_scheduler` returns an empty pointer (`context_scheduler.cpp:171`).
16. `erase` of the heap sifts only down (`priority_queue.h:81`) [`EraseSize`, `TimersAssumption`].
17. `put_var` and `put_order` use `emplace`: a stored variable keeps its first value, a stored order
    its first content (`memory_storage.cpp:127,133`), although `set` is documented to "store value"
    (`strategy_context.h:208`) [`TransactionalStore` allows both].
18. `is_duplicate_fill` finds only fills younger than the one asked about (`memory_storage.cpp:41`), and
    none of the open transaction: a fill reported again with its own timestamp is stored twice.
19. `rollback` discards the writes of the enclosing transactions too (`memory_storage.cpp:6`); `TransactionalStore` says the same.
20. A callback that asks again from inside is called again at once, for ever if it always does
    (`basic_context.cpp:275`).
21. A callback that joins a request whose answer is already queued is called for that answer, although
    the update was complete before it asked (`basic_context.cpp:194`) [`FirstIsFresh` speaks of the callback that asked].

The order book and its tree:

22. `update_from_ticker`, `remove_ask_to` and `remove_bid_to` read the first level of a side that is empty or that they
    have just emptied (`orderbook.h:42`) [`valid`; `PriceLevels` allows it]; on a new book the first ticker does, which is what `update_from_ticker` is
    documented for (`orderbook.h:71-75`).
23. `upper_bound` of a key that is there returns its predecessor (`wandering_bst.h:64`), and of one that is not may stay on a smaller
    neighbour; nothing calls it, and no property speaks of it.

The simulator:

24. An order that is to replace another one is always rejected as not found (`simulator.cpp:104`).
25. A limit order trades the larger of its amount and the ticker's volume instead of the smaller, returns the price as the amount, and is rejected
    as too small if it does not cross (`TryLimit`). A buy limit before the first ticker is filled at a price of zero.
26. `unsubscribe` erases the wrong part of the list of targets (`Unsubscribe`).
27. `record_fill` realizes the whole of a position that it only reduces, and leaves the rest at its old price, so that its profit counts twice
    [`Reduced` in `WorthConserved`]; it reports the whole position as filled. When the rest of an order has no margin it returns that
    rest as if it had been filled (`simulator_account.cpp:75`).
28. `calc_blocked` is always zero, the overall position is not calculated again after a position was opened (`OpenRest`) [run `stale_position`; `OverallSumsUp` excepts it], and without leverage
    the margin divides by zero.
29. `is_order` is false for every setup, so that totals are zero, the side is empty and options are absent for whoever asks the order.

The simulated exchange:

30. `on_timer` tests for a ticker twice, so that book updates are taken from the queue and dropped (`sim_exchange.cpp:117`) [`shown` counts tickers].
31. `add_record` of a ticker takes no lock, and the manually driven scheduler has none: all calls must come from one thread. The destructor leaves
    the exchange's entry in the scheduler, with a dangling pointer. `batch_place`, `batch_cancel` and `restore_orders` are empty.

The smaller parts:

32. The generic scheduler never raises `_wk_time`: once it was reached, a later item can be slept over (`scheduler.h:258`) [`early`]. With more than five items its heap may be out of order (item 16) [`ItemBound`]. `set_time` reads
    the front of an empty queue and raises `_cur_time` into the future (`:99`). Nothing sets `_stop`, and destroying the joinable thread ends the program.
33. `atomic_future::set` notifies nobody; a reader that sleeps in `wait` wakes only by chance [`Unblock` has no fairness].
34. A function that was moved away is still "valid", and calling one that held a large callable dereferences null (`function.h:107`).
35. The loader never unloads a module; a file without entry point stays loaded after the exception; a file added twice is listed twice
    (`loader.cpp:20`). Modules may share one list of factories [`shared`], so that a module can create another one's strategies.
36. `get_var` returns nothing, `enum_vars` with a prefix is empty, and with a start after its end runs past the map (`memory_storage.cpp:102`).
37. A time control has the class "date" in JSON (`config_desc.cpp:202`); whether a section is shown is not written, and a compound has no name. Sections inside groups
    or sections, and sections and groups inside compounds, are dropped (`:96`) [`Meant`]. Choices and rules become JSON objects (`:27`, `:170`), so that their order and repetitions depend on
    the library [`Unordered`].
38. The context's destructor schedules an empty function and does not wait for an `on_scheduler` that is running (`basic_context.cpp:10`).

The coroutines:

39. `on_scheduler` locks `_queue_mx` again before it destroys the function of the timer it has called (`basic_context.h:185`), and
    `clear_timer` erases a timer with the lock held (`basic_context.cpp:214`). That function's destructor resumes the coroutine
    that awaited the timer (`coro_support.h:50`), so that its next `sleep_for`, `set_timer` or `update_account` waits for its own thread for ever, and a call
    of a hub takes the locks in the reverse order [run `sleeper_blocks`; `Resumed` in `NobodyWaitsInACircle`]. `strategy_context.h:441` documents "sleep
    until timestamp reached - coroutines".

## 7. Not modelled, and what is left

* The destruction of a context against a running `on_scheduler`: what follows the race is undefined behaviour. `join`
  of a thread never started ends the program (item 15).
* The mutexes of the simulator's backend, which nobody connects to a hub at this commit, are not in `LockOrder`.
* Values: `get_last_ticker` and the contents of order books in a context, the values of a configuration, the options of orders the simulator does not read,
  inverted contracts and rounding.
* Unloading of modules, the handles (they forward), the log, the header tool, examples, tests and build files.
