------------------------------ MODULE EventLoop ------------------------------
(***************************************************************************)
(* The execution loop of a strategy context: class BasicContext, with the  *)
(* one entry it keeps in the shared scheduler.  Exchange threads push      *)
(* events (on_event), the scheduler's thread runs on_scheduler, and the    *)
(* strategy's callbacks, run by on_scheduler, set timers and place orders. *)
(*                                                                         *)
(* A step is what the code does while it holds _queue_mx, or between two   *)
(* acquisitions of it; the lock itself therefore needs no variable.        *)
(*                                                                         *)
(* Reports, fills and completed updates are numbered in the order in which *)
(* on_event accepts them.  Market data carries no payload (the strategy    *)
(* reads the last value from the exchange), so only whether the exchange   *)
(* holds something the strategy has yet to read is kept (unseen).          *)
(***************************************************************************)
EXTENDS Integers, Sequences, FiniteSets

CONSTANTS
    Instruments,    \* instruments with a subscription
    Exchanges,      \* keys of BasicContext::_exchanges
    Orders,         \* orders the strategy may create
    Venue,          \* the exchange of an order's account
    TimerIds,       \* TimerID values the strategy uses
    EventKinds,     \* kinds of numbered events the exchanges emit
    MaxTime,        \* last instant before Timestamp::max()
    MaxEvents,      \* bound on numbered events
    MaxTimers,      \* bound on timers pending at once
    Recoveries,     \* what on_unhandled_exception may do, {}: nothing throws
    WakeInInit,     \* the scheduler may fire before init() has returned
    RearmElapsed    \* the strategy may set a timer that is already due

Kinds == {"report", "fill", "update"}
MarketTypes == {"ticker", "orderbook"}

ASSUME TimeAssumption == MaxTime \in Nat \ {0}
ASSUME BoundsAssumption == MaxEvents \in Nat
\* PriorityQueue::erase keeps its heap a heap up to five elements only (module
\* PriorityQueue): up to there front() is the earliest timer, as used below.
ASSUME TimersAssumption == MaxTimers \in 0 .. 5
ASSUME VenueAssumption == Venue \in [Orders -> Exchanges]
ASSUME ModeAssumption ==
    /\ EventKinds \subseteq Kinds
    /\ Recoveries \subseteq {"rethrow", "swallow"}
    /\ WakeInInit \in BOOLEAN
    /\ RearmElapsed \in BOOLEAN

Immediately == 0                \* Timestamp::min()
Never == MaxTime + 1            \* Timestamp::max(); as slot: no entry
Time == 0 .. Never
Timer == [id : TimerIds, at : 1 .. MaxTime]

VARIABLES
    queue,          \* _queue
    timers,         \* _timed_queue, as the set of its items
    scheduledTime,  \* _scheduled_time
    slot,           \* this context's entry in the scheduler, Never if none
    now,            \* the scheduler's clock
    eventTime,      \* _event_time
    pc,             \* where on_scheduler is, "idle" when it is not running
    boot,           \* init(): "on_init" until it returns, then "ready"
    toPlace,        \* Batches::_batch_place, per exchange
    toCancel,       \* Batches::_batch_cancel, per exchange
    toFlush,        \* exchanges flush_batches has not come to yet
    timesSent,      \* how often an order was handed to batch_place (2 = more)
    unseen,         \* market data to be read, unless merged into an event past reading it
    pushed,         \* number of the last event accepted by on_event
    handled,        \* number of the last event applied
    late,           \* events accepted while a timer's function was running
    skipped,        \* fills recognised as duplicates
    swallowed,      \* events whose callback threw, when the exception was swallowed
    pending,        \* events written in the open transaction
    committed       \* events whose record is committed

loopVars  == <<queue, timers>>
schedVars == <<scheduledTime, slot>>
orderVars == <<toPlace, toCancel, toFlush, timesSent>>
feedVars  == <<unseen, pushed, late>>
storeVars == <<handled, skipped, swallowed, pending, committed>>
clockVars == <<now, eventTime, boot>>
vars == <<loopVars, schedVars, orderVars, feedVars, storeVars, clockVars, pc>>

InStrategy == {"on_ticker", "on_orderbook", "on_order", "on_fill", "on_update", "on_timer"}
Locations == {"idle", "drain", "item", "book", "flush", "dead"} \cup InStrategy

\* The callbacks of numbered events.
ItemCallbacks == {"on_order", "on_fill", "on_update"}

\* The strategy's code is running: a callback, or on_init on the caller's thread.
StrategyRuns == pc # "dead" /\ (pc \in InStrategy \/ boot = "on_init")

MarketItem == [kind : {"market"}, i : Instruments, types : SUBSET MarketTypes]
NumberedItem == [kind : Kinds, n : 1 .. MaxEvents, moved : BOOLEAN]
Numbered(item) == item.kind \in Kinds

\* What front() may be, and front().tp (one value, or none).
FrontTimers(ts) == {t \in ts : \A u \in ts : t.at <= u.at}
FrontTime(ts) == {t.at : t \in FrontTimers(ts)}

-----------------------------------------------------------------------------
(* Scheduling *)

\* Mutant: the timers are looked at first.
TimersFirstTarget(q, ts) ==
    CASE ts # {}                -> FrontTime(ts)
      [] ts = {} /\ q # <<>>    -> {Immediately}
      [] ts = {} /\ q = <<>>    -> {Never}

NotifyTarget(q, ts) ==
    CASE q # <<>>               -> {Immediately}
      [] q = <<>> /\ ts = {}    -> {Never}
      [] q = <<>> /\ ts # {}    -> FrontTime(ts)

\* notify_queue, with q and ts the queues after the change that called it
NotifyQueue(q, ts) ==
    \E tp \in NotifyTarget(q, ts) :
        IF scheduledTime > tp
        THEN scheduledTime' = tp /\ slot' = tp
        ELSE UNCHANGED schedVars

\* The end of on_scheduler's locked part.  Without timers the scheduler's entry,
\* if an event has made one meanwhile, stays.
Reschedule ==
    IF timers # {}
    THEN \E tp \in FrontTime(timers) : scheduledTime' = tp /\ slot' = tp
    ELSE scheduledTime' = Never /\ UNCHANGED slot

-----------------------------------------------------------------------------
(* Exchange threads: the on_event overloads *)

\* on_event(order, report), on_event(order, fill), on_event(account) and
\* on_event(instrument)
OnEvent(kind) ==
    /\ pc # "dead"
    /\ pushed < MaxEvents
    /\ LET q == Append(queue, [kind |-> kind, n |-> pushed + 1, moved |-> FALSE]) IN
       /\ queue' = q
       /\ NotifyQueue(q, timers)
    /\ pushed' = pushed + 1
    /\ late' = IF pc = "on_timer" THEN late \cup {pushed + 1} ELSE late
    /\ UNCHANGED <<timers, orderVars, unseen, storeVars, clockVars, pc>>

QueuedMarketItems(i) == {k \in 1 .. Len(queue) : queue[k].kind = "market" /\ queue[k].i = i}

\* The front event, an instrument's, is being executed and has read this kind of data.
PastReading(i, type) ==
    /\ pc \in (IF type = "ticker" THEN {"on_ticker", "book", "on_orderbook"} ELSE {"on_orderbook"})
    /\ Head(queue).i = i

\* Mutant: what is merged is forgotten.
OnMarketDataForgets(i, type) ==
    /\ pc # "dead"
    /\ unseen' = IF PastReading(i, type) THEN unseen ELSE [unseen EXCEPT ![i] = @ \cup {type}]
    /\ IF QueuedMarketItems(i) = {}
       THEN /\ queue' = Append(queue, [kind |-> "market", i |-> i, types |-> {type}])
            /\ UNCHANGED schedVars
       ELSE /\ NotifyQueue(queue, timers)
            /\ UNCHANGED queue
    /\ UNCHANGED <<timers, orderVars, pushed, late, storeVars, clockVars, pc>>

\* income_data stores the value and calls on_event(instrument, type): the event is
\* merged into a queued one of the same instrument, also into the one being executed,
\* and only then is the queue notified.
OnMarketData(i, type) ==
    /\ pc # "dead"
    /\ unseen' = IF PastReading(i, type) THEN unseen ELSE [unseen EXCEPT ![i] = @ \cup {type}]
    /\ IF QueuedMarketItems(i) = {}
       THEN /\ queue' = Append(queue, [kind |-> "market", i |-> i, types |-> {type}])
            /\ UNCHANGED schedVars
       ELSE \E k \in QueuedMarketItems(i) :
            /\ \A j \in QueuedMarketItems(i) : k <= j
            /\ queue' = [queue EXCEPT ![k].types = @ \cup {type}]
            /\ NotifyQueue(queue, timers)
    /\ UNCHANGED <<timers, orderVars, pushed, late, storeVars, clockVars, pc>>

-----------------------------------------------------------------------------
(* The strategy: calls it makes from a callback or from on_init *)

SetTimer(t) ==
    /\ StrategyRuns
    /\ t \notin timers /\ Cardinality(timers) < MaxTimers
    /\ RearmElapsed \/ t.at > eventTime
    /\ timers' = timers \cup {t}
    /\ NotifyQueue(queue, timers \cup {t})
    /\ UNCHANGED <<queue, orderVars, feedVars, storeVars, clockVars, pc>>

\* The scheduler's entry is left alone: it may fire with nothing to do.
ClearTimer(t) ==
    /\ StrategyRuns
    /\ t \in timers
    /\ timers' = timers \ {t}
    /\ UNCHANGED <<queue, schedVars, orderVars, feedVars, storeVars, clockVars, pc>>

Placed(o) == timesSent[o] > 0 \/ o \in toPlace[Venue[o]]

Place(o) ==
    /\ StrategyRuns
    /\ ~Placed(o)
    /\ toPlace' = [toPlace EXCEPT ![Venue[o]] = @ \cup {o}]
    /\ UNCHANGED <<loopVars, schedVars, toCancel, toFlush, timesSent, feedVars,
                   storeVars, clockVars, pc>>

Cancel(o) ==
    /\ StrategyRuns
    /\ Placed(o)
    /\ toCancel' = [toCancel EXCEPT ![Venue[o]] = @ \cup {o}]
    /\ UNCHANGED <<loopVars, schedVars, toPlace, toFlush, timesSent, feedVars,
                   storeVars, clockVars, pc>>

StrategyCall ==
    \/ \E t \in Timer : SetTimer(t) \/ ClearTimer(t)
    \/ \E o \in Orders : Place(o) \/ Cancel(o)

InitReturns ==
    /\ boot = "on_init" /\ pc # "dead"
    /\ boot' = "ready"
    /\ UNCHANGED <<loopVars, schedVars, orderVars, feedVars, storeVars, now, eventTime, pc>>

-----------------------------------------------------------------------------
(* The scheduler's thread: on_scheduler *)

\* The scheduler removes the entry and calls on_scheduler, which opens the
\* transaction.
Wake ==
    /\ pc = "idle"
    /\ slot <= now
    /\ WakeInInit \/ boot = "ready"
    /\ slot' = Never
    /\ eventTime' = now
    /\ pc' = "drain"
    /\ UNCHANGED <<loopVars, scheduledTime, orderVars, feedVars, storeVars, now, boot>>

\* Mutant: the timer that fires is not removed.
FireTimerKeeps ==
    /\ \E t \in FrontTimers(timers) : t.at <= eventTime
    /\ pc' = "on_timer"
    /\ UNCHANGED <<timers, schedVars, toFlush>>

FireTimer ==
    /\ \E t \in FrontTimers(timers) : t.at <= eventTime /\ timers' = timers \ {t}
    /\ pc' = "on_timer"
    /\ UNCHANGED <<schedVars, toFlush>>

StartFlush ==
    /\ toFlush' = Exchanges
    /\ pc' = "flush"

Finish ==
    /\ \A t \in timers : t.at > eventTime
    /\ Reschedule
    /\ StartFlush
    /\ UNCHANGED timers

\* What follows under the lock once the queue is q: the next item, or the timers.
\* The queue is not looked at again after the first timer.
Continue(q) ==
    /\ queue' = q
    /\ IF q # <<>>
       THEN pc' = "item" /\ UNCHANGED <<timers, schedVars, toFlush>>
       ELSE FireTimer \/ Finish

EnterDrain ==
    /\ pc = "drain"
    /\ Continue(queue)
    /\ UNCHANGED <<toPlace, toCancel, timesSent, feedVars, storeVars, clockVars>>

\* EvMarketData: the ticker part, then the order book part.  The flags are read
\* without the lock, the data is what the exchange holds at that moment.
ReadTicker ==
    /\ pc = "item" /\ Head(queue).kind = "market"
    /\ IF "ticker" \in Head(queue).types
       THEN /\ pc' = "on_ticker"
            /\ unseen' = [unseen EXCEPT ![Head(queue).i] = @ \ {"ticker"}]
       ELSE pc' = "book" /\ UNCHANGED unseen
    /\ UNCHANGED <<loopVars, schedVars, orderVars, pushed, late, storeVars, clockVars>>

ReadOrderBook ==
    /\ pc = "book"
    /\ IF "orderbook" \in Head(queue).types
       THEN /\ pc' = "on_orderbook"
            /\ unseen' = [unseen EXCEPT ![Head(queue).i] = @ \ {"orderbook"}]
            /\ UNCHANGED <<loopVars, schedVars, toFlush>>
       ELSE Continue(Tail(queue)) /\ UNCHANGED unseen
    /\ UNCHANGED <<toPlace, toCancel, timesSent, pushed, late, storeVars, clockVars>>

TickerReturns ==
    /\ pc = "on_ticker"
    /\ pc' = "book"
    /\ UNCHANGED <<loopVars, schedVars, orderVars, feedVars, storeVars, clockVars>>

\* Mutant: the event is not removed.
OrderBookReturnsKeeps ==
    /\ pc = "on_orderbook"
    /\ Continue(queue)
    /\ UNCHANGED <<toPlace, toCancel, timesSent, feedVars, storeVars, clockVars>>

OrderBookReturns ==
    /\ pc = "on_orderbook"
    /\ Continue(Tail(queue))
    /\ UNCHANGED <<toPlace, toCancel, timesSent, feedVars, storeVars, clockVars>>

HandOver == queue' = [queue EXCEPT ![1].moved = TRUE]

\* EvOrderStatus: apply the report, store the order, hand the order over.
ApplyReport ==
    /\ pc = "item" /\ Head(queue).kind = "report" /\ ~Head(queue).moved
    /\ handled' = Head(queue).n
    /\ pending' = pending \cup {Head(queue).n}
    /\ HandOver
    /\ pc' = "on_order"
    /\ UNCHANGED <<timers, schedVars, orderVars, feedVars, skipped, swallowed, committed, clockVars>>

OrderReturns ==
    /\ pc = "on_order"
    /\ Continue(Tail(queue))
    /\ UNCHANGED <<toPlace, toCancel, timesSent, feedVars, storeVars, clockVars>>

\* EvOrderFill: the storage may know the fill; otherwise it is applied, handed
\* over, and stored when on_fill has returned its label.
SkipFill ==
    /\ pc = "item" /\ Head(queue).kind = "fill" /\ ~Head(queue).moved
    /\ handled' = Head(queue).n
    /\ skipped' = skipped \cup {Head(queue).n}
    /\ Continue(Tail(queue))
    /\ UNCHANGED <<toPlace, toCancel, timesSent, feedVars, swallowed, pending, committed, clockVars>>

ApplyFill ==
    /\ pc = "item" /\ Head(queue).kind = "fill" /\ ~Head(queue).moved
    /\ handled' = Head(queue).n
    /\ HandOver
    /\ pc' = "on_fill"
    /\ UNCHANGED <<timers, schedVars, orderVars, feedVars, skipped, swallowed, pending, committed, clockVars>>

\* Mutant: the fill is not stored.
FillReturnsUnstored ==
    /\ pc = "on_fill"
    /\ Continue(Tail(queue))
    /\ UNCHANGED <<toPlace, toCancel, timesSent, feedVars, storeVars, clockVars>>

FillReturns ==
    /\ pc = "on_fill"
    /\ pending' = pending \cup {Head(queue).n}
    /\ Continue(Tail(queue))
    /\ UNCHANGED <<toPlace, toCancel, timesSent, feedVars, handled, skipped, swallowed, committed, clockVars>>

\* EvUpdateAccount, EvUpdateInstrument: run the completion callbacks.
RunCompletions ==
    /\ pc = "item" /\ Head(queue).kind = "update"
    /\ handled' = Head(queue).n
    /\ pc' = "on_update"
    /\ UNCHANGED <<loopVars, schedVars, orderVars, feedVars, skipped, swallowed, pending, committed, clockVars>>

\* Mutant: the event is not removed, and runs again.
UpdateReturnsKeeps ==
    /\ pc = "on_update"
    /\ Continue(queue)
    /\ UNCHANGED <<toPlace, toCancel, timesSent, feedVars, storeVars, clockVars>>

UpdateReturns ==
    /\ pc = "on_update"
    /\ Continue(Tail(queue))
    /\ UNCHANGED <<toPlace, toCancel, timesSent, feedVars, storeVars, clockVars>>

\* The timer's function is destroyed; it resumes no coroutine (LockOrder).
TimerReturns ==
    /\ pc = "on_timer"
    /\ FireTimer \/ Finish
    /\ UNCHANGED <<queue, toPlace, toCancel, timesSent, feedVars, storeVars, clockVars>>

\* An order left in the queue after it was moved from is a null pointer.
TouchMovedOrder ==
    /\ pc = "item" /\ Numbered(Head(queue)) /\ Head(queue).moved
    /\ pc' = "dead"
    /\ UNCHANGED <<loopVars, schedVars, orderVars, feedVars, storeVars, clockVars>>

\* Mutant: an exchange is handed the orders of every exchange.
FlushEveryBatch(e) ==
    /\ pc = "flush" /\ e \in toFlush
    /\ toFlush' = toFlush \ {e}
    /\ timesSent' = [o \in Orders |->
            IF o \in UNION {toPlace[f] : f \in Exchanges} /\ timesSent[o] < 2
            THEN timesSent[o] + 1 ELSE timesSent[o]]
    /\ toPlace' = [toPlace EXCEPT ![e] = {}]
    /\ toCancel' = [toCancel EXCEPT ![e] = {}]
    /\ UNCHANGED <<loopVars, schedVars, feedVars, storeVars, clockVars, pc>>

\* flush_batches, one exchange: its cancels, then its orders.
Flush(e) ==
    /\ pc = "flush" /\ e \in toFlush
    /\ toFlush' = toFlush \ {e}
    /\ timesSent' = [o \in Orders |->
            IF o \in toPlace[e] /\ timesSent[o] < 2 THEN timesSent[o] + 1 ELSE timesSent[o]]
    /\ toPlace' = [toPlace EXCEPT ![e] = {}]
    /\ toCancel' = [toCancel EXCEPT ![e] = {}]
    /\ UNCHANGED <<loopVars, schedVars, feedVars, storeVars, clockVars, pc>>

Commit ==
    /\ pc = "flush" /\ toFlush = {}
    /\ committed' = committed \cup pending
    /\ pending' = {}
    /\ pc' = "idle"
    /\ UNCHANGED <<loopVars, schedVars, orderVars, feedVars, handled, skipped, swallowed, clockVars>>

\* A callback, or the exchange applying a report or a fill, throws.
MayThrow == pc \in InStrategy \/ (pc = "item" /\ Numbered(Head(queue)))

\* on_unhandled_exception throws again: rollback, and the noexcept function ends
\* the program.
Rethrow ==
    /\ "rethrow" \in Recoveries /\ MayThrow
    /\ pending' = {}
    /\ pc' = "dead"
    /\ UNCHANGED <<loopVars, schedVars, orderVars, feedVars, handled, skipped, swallowed, committed, clockVars>>

\* Mutant: a swallowed exception skips flush_batches.
SwallowWithoutFlush ==
    /\ "swallow" \in Recoveries /\ MayThrow
    /\ pc' = "flush"
    /\ UNCHANGED <<loopVars, schedVars, orderVars, feedVars, storeVars, clockVars>>

\* on_unhandled_exception returns: the item stays at the front of the queue and
\* nothing is rescheduled.
Swallow ==
    /\ "swallow" \in Recoveries /\ MayThrow
    /\ swallowed' = IF pc \in ItemCallbacks THEN swallowed \cup {handled} ELSE swallowed
    /\ StartFlush
    /\ UNCHANGED <<loopVars, schedVars, toPlace, toCancel, timesSent, feedVars, handled, skipped, pending,
                   committed, clockVars>>

Tick ==
    /\ now < MaxTime /\ pc # "dead"
    /\ now' = now + 1
    /\ UNCHANGED <<loopVars, schedVars, orderVars, feedVars, storeVars, eventTime, boot, pc>>

-----------------------------------------------------------------------------
Init ==
    /\ queue = <<>> /\ timers = {}
    /\ scheduledTime = Never /\ slot = Never
    /\ now = 1 /\ eventTime = Immediately
    /\ pc = "idle" /\ boot = "on_init"
    /\ toPlace = [e \in Exchanges |-> {}] /\ toCancel = [e \in Exchanges |-> {}]
    /\ toFlush = {} /\ timesSent = [o \in Orders |-> 0]
    /\ unseen = [i \in Instruments |-> {}]
    /\ pushed = 0 /\ handled = 0
    /\ late = {} /\ skipped = {} /\ swallowed = {} /\ pending = {} /\ committed = {}

Feed ==
    \/ \E kind \in EventKinds : OnEvent(kind)
    \/ \E i \in Instruments, type \in MarketTypes : OnMarketData(i, type)

CallbackReturns ==
    \/ TickerReturns \/ OrderBookReturns \/ OrderReturns
    \/ FillReturns \/ UpdateReturns \/ TimerReturns

Worker ==
    \/ EnterDrain
    \/ ReadTicker \/ ReadOrderBook
    \/ ApplyReport \/ SkipFill \/ ApplyFill \/ RunCompletions \/ TouchMovedOrder
    \/ CallbackReturns
    \/ \E e \in Exchanges : Flush(e)
    \/ Commit

Next ==
    \/ Feed
    \/ StrategyCall \/ InitReturns
    \/ Wake \/ Worker
    \/ Rethrow \/ Swallow
    \/ Tick

Spec == Init /\ [][Next]_vars

\* The scheduler's thread keeps running, a callback returns, on_init returns, the
\* clock advances and a due entry is fired.  Nothing is promised of the exchanges.
FairSpec == Spec /\ WF_vars(Worker) /\ WF_vars(Wake) /\ WF_vars(InitReturns) /\ WF_vars(Tick)
-----------------------------------------------------------------------------
(* Properties *)

\* The types of the variables; an item is running only while it heads the queue.
TypeOK ==
    /\ queue \in Seq(MarketItem \cup NumberedItem)
    /\ timers \subseteq Timer
    /\ scheduledTime \in Time /\ slot \in Time
    /\ now \in 1 .. MaxTime /\ eventTime \in 0 .. MaxTime
    /\ pc \in Locations /\ boot \in {"on_init", "ready"}
    /\ toPlace \in [Exchanges -> SUBSET Orders] /\ toCancel \in [Exchanges -> SUBSET Orders]
    /\ toFlush \subseteq Exchanges /\ timesSent \in [Orders -> 0 .. 2]
    /\ unseen \in [Instruments -> SUBSET MarketTypes]
    /\ pushed \in 0 .. MaxEvents /\ handled \in 0 .. MaxEvents
    /\ late \subseteq 1 .. MaxEvents /\ skipped \subseteq 1 .. MaxEvents
    /\ swallowed \subseteq 0 .. MaxEvents
    /\ pending \subseteq 1 .. MaxEvents /\ committed \subseteq 1 .. MaxEvents

\* While on_scheduler is not running, the scheduler holds an entry for the context
\* no later than its earliest timer: no interleaving of set_timer, clear_timer,
\* on_event and the reschedule at the end of a wake leaves a timer without a
\* wakeup.
TimersArmed ==
    pc = "idle" => \A t \in timers : slot <= t.at

\* While on_scheduler is not running, an event in the queue has an immediate wakeup,
\* unless on_event accepted it while a timer's function was running: the one window
\* in which the queue is no longer looked at and notify_queue can do nothing.
EventsArmed ==
    pc = "idle" =>
        \A k \in 1 .. Len(queue) :
            Numbered(queue[k]) /\ queue[k].n \notin late => slot = Immediately

\* Reports, fills and updates wait in the order in which the exchanges emitted them,
\* and none is lost from the queue before it is applied.
NoneIsLost ==
    /\ \A j, k \in 1 .. Len(queue) :
          j < k /\ Numbered(queue[j]) /\ Numbered(queue[k]) => queue[j].n < queue[k].n
    /\ \A n \in (handled + 1) .. pushed :
          \E k \in 1 .. Len(queue) : Numbered(queue[k]) /\ queue[k].n = n

\* An event that has been applied is queued no longer, except the last one: while its
\* callback runs, when its callback has ended the program, and after its callback threw
\* and on_unhandled_exception swallowed that; then it is executed again.
NoneIsLeft ==
    \A k \in 1 .. Len(queue) :
        Numbered(queue[k]) /\ queue[k].n <= handled =>
            /\ k = 1 /\ queue[k].n = handled
            /\ pc \in ItemCallbacks \cup {"dead"} \/ handled \in swallowed

\* Reports, fills and updates are complete and in order: whatever on_event accepted and
\* was not applied waits where its turn is, and nothing that was applied waits to be
\* applied again, unless its callback threw and the exception was swallowed.
QueueComplete == NoneIsLost /\ NoneIsLeft

\* A step applies at most the next event.
AppliedInOrder == [][handled' \in {handled, handled + 1}]_vars

\* Market data that arrive are read: while the strategy has yet to read something, an
\* event that will make it do so is queued, unless the data came in the one window in
\* which they are merged into an event that is past reading them and is then removed.
UnseenIsQueued ==
    \A i \in Instruments : \A type \in unseen[i] :
        \E k \in QueuedMarketItems(i) : type \in queue[k].types

\* Once on_scheduler has run, no order or cancel waits for another wakeup: each
\* wake, also one that ends in a swallowed exception, hands over what it collected.
NoOrderLeftBehind ==
    pc = "idle" /\ eventTime # Immediately /\ boot = "ready" =>
        \A e \in Exchanges : toPlace[e] = {} /\ toCancel[e] = {}

\* No order is handed to batch_place twice.
SentOnce == \A o \in Orders : timesSent[o] <= 1

\* When on_scheduler has returned, its transaction is closed, and every report and
\* fill it applied is committed (updates are not stored), fills recognised as
\* duplicates excepted.
AppliedIsCommitted ==
    pc = "idle" =>
        /\ pending = {}
        /\ EventKinds \cap {"update"} = {} => 1 .. handled = committed \cup skipped

\* A pending timer is fired or cleared, however busy the feed of one instrument is
\* (the feeds of two may keep on_scheduler draining the queue for ever), provided the
\* strategy does not keep setting timers that are already due.
TimersFire == \A t \in Timer : (t \in timers) ~> (t \notin timers \/ pc = "dead")

\* An event that found no timer function running is eventually applied.
PunctualEventsApplied ==
    \A n \in 1 .. MaxEvents :
        (n <= pushed /\ n \notin late) ~> (handled >= n \/ pc = "dead")

-----------------------------------------------------------------------------
(* The invariants above as parts of inductive ones. *)

ItemRuns == {"item", "on_ticker", "book", "on_orderbook", "on_order", "on_fill", "on_update"}

\* The executing item heads the queue, and its location fits its kind.
HeadRuns ==
    /\ pc \in ItemRuns => queue # <<>>
    /\ pc \in {"on_ticker", "book", "on_orderbook"} => queue[1].kind = "market"
    /\ pc \in {"on_order", "on_fill", "on_update"} => Numbered(queue[1]) /\ queue[1].n = handled

\* Only the head can have been applied already, and nothing beyond pushed waits.
QueueAhead ==
    /\ handled <= pushed
    /\ \A k \in 1 .. Len(queue) : Numbered(queue[k]) =>
           /\ queue[k].n <= pushed
           /\ queue[k].n > handled \/ (k = 1 /\ queue[k].n = handled)

\* The inductive invariant behind TypeOK, QueueComplete and AppliedInOrder, to which
\* NoneIsLeft is added.
QueueInv == TypeOK /\ HeadRuns /\ QueueAhead /\ NoneIsLost

\* Once the timers are re-armed, also while the batches are flushed, the scheduler's
\* entry is no later than _scheduled_time, than any timer, and immediate if a
\* punctual event waits; while timers run, all that waits came late.
Armed ==
    /\ pc \in {"idle", "flush"} =>
        /\ slot <= scheduledTime
        /\ \A t \in timers : slot <= t.at
        /\ \A k \in 1 .. Len(queue) :
              Numbered(queue[k]) /\ queue[k].n \notin late => slot = Immediately
    /\ pc = "on_timer" => \A k \in 1 .. Len(queue) : Numbered(queue[k]) => queue[k].n \in late

\* An order in a batch is in its own exchange's and was never sent.
BatchedUnsent ==
    /\ \A e \in Exchanges : \A o \in toPlace[e] : Venue[o] = e /\ timesSent[o] = 0
    /\ \A o \in Orders : timesSent[o] <= 1

\* Batches are empty between wakes, and while they are flushed, except those of the
\* exchanges flush_batches has yet to come to; before the first wake on_init may fill
\* them.
BatchesFlushed ==
    /\ pc # "idle" \/ eventTime # Immediately => boot = "ready"
    /\ pc = "idle" /\ eventTime # Immediately =>
          \A e \in Exchanges : toPlace[e] = {} /\ toCancel[e] = {}
    /\ pc = "flush" => \A e \in Exchanges \ toFlush : toPlace[e] = {} /\ toCancel[e] = {}

\* An instrument has one event at most, and what the event being executed has read is
\* not unseen any more: when the event goes, nothing unseen goes with it.
MarketInv ==
    /\ UnseenIsQueued
    /\ \A i \in Instruments : \A j, k \in QueuedMarketItems(i) : j = k
    /\ pc \in {"on_ticker", "book", "on_orderbook"} => "ticker" \notin unseen[Head(queue).i]
    /\ pc = "on_orderbook" => "orderbook" \notin unseen[Head(queue).i]

\* What is applied is stored, in the open transaction or a committed one, except the
\* fill whose on_fill is running.
AppliedIsStored ==
    /\ pc = "idle" => pending = {}
    /\ \A k \in 1 .. Len(queue) : Numbered(queue[k]) => queue[k].kind \in EventKinds
    /\ "update" \notin EventKinds /\ pc # "dead" =>
          1 .. handled = committed \cup skipped \cup pending
                            \cup (IF pc = "on_fill" THEN {handled} ELSE {})
=============================================================================
