----------------------------- MODULE SimExchange -----------------------------
(***************************************************************************)
(* A back test: class SimExchange, which replays recorded prices, on the   *)
(* manually driven scheduler (ManualControlScheduler) that the strategies' *)
(* contexts share with it.  Nothing runs in parallel: the program records  *)
(* prices and calls set_time, whose loop runs one function per step.  The  *)
(* contexts and the hub between them and the exchange are external here    *)
(* (EventLoop and ExchangeHub model them): a context asks for wakeups, and *)
(* whatever the exchange tells the hub may wake some of them at            *)
(* Timestamp::min(), time 0 of the model.                                  *)
(***************************************************************************)
EXTENDS Integers, Sequences, FiniteSets

CONSTANTS
    Strategies,     \* strategies' contexts
    Exchange,       \* the exchange, ident of its entry
    LastTime,       \* last time point
    MaxRecords      \* bound on the records added

ASSUME ExchangeIsNoContext == Exchange \notin Strategies
ASSUME TimeBound == LastTime \in Nat \ {0}
ASSUME RecordBound == MaxRecords \in Nat

Users == Strategies \cup {Exchange}
Times == 0 .. LastTime
NoEntry == LastTime + 1
Records == [n : 1 .. MaxRecords, tp : Times, kind : {"ticker", "book"}]

VARIABLES
    queue,          \* _queue of the scheduler: the entry of each ident, NoEntry without one
    curTime,        \* _cur_time
    goal,           \* the argument of the set_time that runs, 0 outside of it
    records,        \* _price_data
    shown,          \* tickers given to income_data, in order
    added,          \* number of records added
    streaming,      \* a context has a stream of the tickers subscribed in the hub
    hung            \* income_data did not come back

exchangeVars == <<queue, curTime, goal, records, shown, added, streaming, hung>>

FrontTime(S) == CHOOSE t \in Times : (\E r \in S : r.tp = t) /\ \A r \in S : t <= r.tp

LaterOf(s, t) == IF s < t THEN t ELSE s

\* reschedule_queue: the ident's entry is moved, or made.
Entered(e, u, t) == [e EXCEPT ![u] = t]

\* Contexts the hub notifies ask for an immediate wakeup.
Woken(e, W) == [u \in Users |-> IF u \in W THEN 0 ELSE e[u]]

\* SimExchange::reschedule
RescheduleExchange(e, S) == IF S = {} THEN e ELSE Entered(e, Exchange, FrontTime(S))

-----------------------------------------------------------------------------
(* The program, outside of set_time *)

AddRecord(tp, kind) ==
    /\ goal = 0
    /\ added < MaxRecords
    /\ added' = added + 1
    /\ records' = records \cup {[n |-> added', tp |-> tp, kind |-> kind]}
    /\ queue' = RescheduleExchange(queue, records')
    /\ UNCHANGED <<curTime, goal, shown, streaming, hung>>

\* A context asks for its first wakeup, or another one, from the program's thread.
Ask(c, t) ==
    /\ goal = 0
    /\ queue' = Entered(queue, c, t)
    /\ UNCHANGED <<curTime, goal, records, shown, added, streaming, hung>>

\* A context subscribes a stream, or the last one is cancelled (subscribe of the exchange
\* is empty, so no data come within the call).
Stream ==
    /\ goal = 0
    /\ streaming' = ~streaming
    /\ UNCHANGED <<queue, curTime, goal, records, shown, added, hung>>

SetTime(t) ==
    /\ goal = 0
    /\ goal' = t
    /\ UNCHANGED <<queue, curTime, records, shown, added, streaming, hung>>

-----------------------------------------------------------------------------
(* set_time: one round of its loop, and its end *)

\* The front entry is taken if it is before the goal, and the clock set to it.
TakeFront(u) ==
    /\ goal # 0 /\ ~hung
    /\ queue[u] < goal
    /\ \A v \in Users : queue[u] <= queue[v]
    /\ curTime' = LaterOf(curTime, queue[u])

\* income_data, and book updates that are dropped: the hub notifies some contexts.  If one
\* of them has a stream it is notified for ever (NotifyOne of ExchangeHub).
Give(r, W) ==
    /\ records' = records \ {r}
    /\ shown' = IF r.kind = "ticker" THEN Append(shown, r) ELSE shown
    /\ hung' = (r.kind = "ticker" /\ streaming)
    /\ r.kind = "book" => W = {}
    /\ hung' => W # {}

\* Mutants: a record of this very moment is left for later; the entry is not renewed.
OnTimerStrict ==
    /\ TakeFront(Exchange)
    /\ LET woken(W) == Woken(Entered(queue, Exchange, NoEntry), W)
       IN  IF records # {} /\ FrontTime(records) < curTime'
           THEN \E r \in records, W \in SUBSET Strategies :
                /\ r.tp = FrontTime(records)
                /\ Give(r, W)
                /\ queue' = IF hung' THEN woken(W) ELSE RescheduleExchange(woken(W), records')
           ELSE queue' = RescheduleExchange(woken({}), records) /\ UNCHANGED <<records, shown, hung>>
    /\ UNCHANGED <<goal, added, streaming>>

OnTimerOnce ==
    /\ TakeFront(Exchange)
    /\ LET woken(W) == Woken(Entered(queue, Exchange, NoEntry), W)
       IN  IF records # {} /\ FrontTime(records) <= curTime'
           THEN \E r \in records, W \in SUBSET Strategies :
                /\ r.tp = FrontTime(records)
                /\ Give(r, W)
                /\ queue' = woken(W)
           ELSE queue' = RescheduleExchange(woken({}), records) /\ UNCHANGED <<records, shown, hung>>
    /\ UNCHANGED <<goal, added, streaming>>

\* on_timer: one record, given to the hub if it is a ticker; the other branch tests for
\* a ticker again, so that an update of an order book is dropped.
OnTimer ==
    /\ TakeFront(Exchange)
    /\ LET woken(W) == Woken(Entered(queue, Exchange, NoEntry), W)
       IN  IF records # {} /\ FrontTime(records) <= curTime'
           THEN \E r \in records, W \in SUBSET Strategies :
                /\ r.tp = FrontTime(records)
                /\ Give(r, W)
                /\ queue' = IF hung' THEN woken(W) ELSE RescheduleExchange(woken(W), records')
           ELSE queue' = RescheduleExchange(woken({}), records) /\ UNCHANGED <<records, shown, hung>>
    /\ UNCHANGED <<goal, added, streaming>>

\* update_account and update_instrument answer within the call: the contexts that wait
\* for the object are woken.
Update(e, W) == Woken(e, W)

\* A context's function: it may request updates, change its subscriptions, and ask for its
\* next wakeup.
RunContext(c) ==
    /\ TakeFront(c)
    /\ \E W \in SUBSET Strategies, t \in Times \cup {NoEntry} :
        queue' = IF t = NoEntry
                 THEN Update(Entered(queue, c, NoEntry), W)
                 ELSE Entered(Update(Entered(queue, c, NoEntry), W), c, t)
    /\ streaming' \in BOOLEAN
    /\ UNCHANGED <<goal, records, shown, added, hung>>

\* set_time ends when the front entry is not before its argument.
Return ==
    /\ goal # 0 /\ ~hung
    /\ \A u \in Users : queue[u] >= goal
    /\ curTime' = LaterOf(curTime, goal)
    /\ goal' = 0
    /\ UNCHANGED <<queue, records, shown, added, streaming, hung>>

-----------------------------------------------------------------------------
ExchangeInit ==
    /\ queue = [u \in Users |-> NoEntry]
    /\ curTime = 0 /\ goal = 0
    /\ records = {} /\ shown = <<>> /\ added = 0
    /\ streaming = FALSE /\ hung = FALSE

Round == OnTimer \/ (\E c \in Strategies : RunContext(c)) \/ Return

ExchangeNext ==
    \/ \E t \in Times : \E k \in {"ticker", "book"} : AddRecord(t, k)
    \/ \E c \in Strategies, t \in Times : Ask(c, t)
    \/ \E t \in Times \ {0} : SetTime(t)
    \/ Stream
    \/ Round

ExchangeSpec == ExchangeInit /\ [][ExchangeNext]_exchangeVars

\* The thread that called set_time runs on.
FairExchange == ExchangeSpec /\ WF_exchangeVars(Round)

-----------------------------------------------------------------------------
ExchangeTypeOK ==
    /\ queue \in [Users -> 0 .. NoEntry]
    /\ curTime \in Times /\ goal \in Times
    /\ records \subseteq Records
    /\ added \in 0 .. MaxRecords
    /\ streaming \in BOOLEAN /\ hung \in BOOLEAN

\* The exchange has its wakeup at the time of its earliest record, whatever was added,
\* shown and dropped (reschedule at the end of add_record and on_timer).
Armed == records # {} /\ ~hung => queue[Exchange] = FrontTime(records)

\* The exchange and the scheduler together are a replay: on_timer gives out one record
\* per call and relies on its own entry for the rest, on_timer's "<=" meeting set_time's
\* "<", and on the contexts' entries not moving the clock past it.
R == INSTANCE Replay WITH Prices <- Records, MaxTime <- LastTime, now <- curTime
IsReplay == R!Spec

\* From some moment on, contexts ask only for wakeups that the running set_time does not
\* come to.
AskAhead ==
    <>[][\A c \in Strategies :
            queue'[c] >= goal \/ (queue'[c] = queue[c] /\ ~RunContext(c))]_exchangeVars

\* set_time comes back: every round shows a record or runs a context for a wakeup it
\* asked for, and none is repeated for ever.  Unless contexts ask for wakeups before its
\* argument for ever, or one of them has a stream subscribed when a ticker is shown.
SetTimeReturns == AskAhead => (goal # 0 ~> (goal = 0 \/ hung))
=============================================================================
