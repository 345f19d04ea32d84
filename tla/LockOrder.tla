------------------------------ MODULE LockOrder ------------------------------
(***************************************************************************)
(* The mutexes of the strategies' contexts (_queue_mx), of the exchanges'  *)
(* hubs (_mx, recursive), of the simulated exchange and of the scheduler,  *)
(* and which call takes one while its thread holds others.  What the other *)
(* modules do in one step, as it runs under a lock, is several steps here: *)
(* a thread asks for a mutex, gets it, goes on, and gives it back.  Any    *)
(* thread may make any call, also those only the scheduler's thread makes; *)
(* what a call does while it holds no mutex is left out, so that a call is *)
(* the stretches it is made of, in any order.  The mutexes of the backend  *)
(* (Simulator, SimulAccount) call none of these.                           *)
(***************************************************************************)
EXTENDS Integers, Sequences

CONSTANTS
    Threads,        \* of exchanges, of the scheduler, and the program's
    Contexts,
    Hubs            \* of the exchanges

VARIABLES
    held,           \* thread -> the mutexes it holds, and for which call, last one last
    want            \* thread -> what it waits for, or is about to take

lockVars == <<held, want>>

Queue(c) == [kind |-> "context", of |-> c]
Hub(h) == [kind |-> "hub", of |-> h]
Sim == [kind |-> "simulated", of |-> "exchange"]
Scheduler == [kind |-> "scheduler", of |-> "all"]
Mutex == {Queue(c) : c \in Contexts} \cup {Hub(h) : h \in Hubs} \cup {Sim, Scheduler}

Frame(m, call) == [mx |-> m, call |-> call]
Nothing == Frame([kind |-> "none", of |-> "none"], "none")

MutexesOf(t) == {held[t][k].mx : k \in DOMAIN held[t]}

\* The thread executes code: outside of every lock, or under one that a call took.
Outside(t) == want[t] = Nothing /\ held[t] = <<>>
Innermost(t) == held[t][Len(held[t])]
In(t, calls) == want[t] = Nothing /\ held[t] # <<>> /\ Innermost(t).call \in calls

\* The thread resumed a coroutine under a lock, and has not come back from it.
Resumed(t) == want[t].call = "resumed" \/ \E k \in DOMAIN held[t] : held[t][k].call = "resumed"

Lock(t, m, call) ==
    /\ want' = [want EXCEPT ![t] = Frame(m, call)]
    /\ UNCHANGED held

-----------------------------------------------------------------------------
(* Contexts *)

SetTimer(t, c) == Outside(t) /\ Lock(t, Queue(c), "set_timer")
ClearTimer(t, c) == Outside(t) /\ Lock(t, Queue(c), "clear_timer")

\* update_account and update_instrument register the callback; the hub is called later.
Register(t, c) == Outside(t) /\ Lock(t, Queue(c), "register")

\* The stretches of on_scheduler; the one after a timer's function destroys that function.
OnScheduler(t, c) ==
    Outside(t) /\ \E call \in {"on_scheduler", "after_timer"} : Lock(t, Queue(c), call)

OnEvent(t, c) == In(t, {"notify"}) /\ Lock(t, Queue(c), "on_event")

\* The function of a coroutine that awaits a timer resumes it in its destructor, where a
\* fired or cleared timer is destroyed: the strategy goes on with the context's lock held,
\* and calls the context again (set_timer, clear_timer, update_*) or through it a hub.
ResumeSleeper(t) ==
    /\ In(t, {"after_timer", "clear_timer"})
    /\ \/ Lock(t, Innermost(t).mx, "resumed")
       \/ \E h \in Hubs : Lock(t, Hub(h), "resumed")

-----------------------------------------------------------------------------
(* Hubs and their services *)

\* Mutant: the hub is called by the context before it releases its lock.
HubCallUnderLock(t, h) ==
    (Outside(t) \/ In(t, {"register"})) /\ Lock(t, Hub(h), "call")

\* subscribe, unsubscribe, get_last_ticker, get_last_orderbook, update_account,
\* update_instrument, batch_place and disconnect.
HubCall(t, h) == Outside(t) /\ Lock(t, Hub(h), "call")

\* object_updated, order_state_changed and order_fill: the service may answer within a
\* call of its hub.
Answer(t, h) ==
    /\ Outside(t) \/ (In(t, {"call", "resumed"}) /\ Innermost(t).mx = Hub(h))
    /\ Lock(t, Hub(h), "notify")

\* income_data, also from the timer of the simulated exchange.
IncomeData(t, h) == (Outside(t) \/ In(t, {"on_timer"})) /\ Lock(t, Hub(h), "notify")

OnTimer(t) == Outside(t) /\ Lock(t, Sim, "on_timer")
AddRecord(t) == Outside(t) /\ Lock(t, Sim, "add_record")

-----------------------------------------------------------------------------
(* The scheduler *)

\* reschedule: from notify_queue, from the end of on_scheduler, from the simulated exchange,
\* and from a context's destructor.
Reschedule(t) ==
    /\ \/ Outside(t)
       \/ In(t, {"set_timer", "on_event", "on_scheduler", "after_timer", "on_timer", "add_record"})
    /\ Lock(t, Scheduler, "reschedule")

\* The thread of the scheduler looks at its queue, and runs no function meanwhile.
Work(t) == Outside(t) /\ Lock(t, Scheduler, "worker")

-----------------------------------------------------------------------------
(* Mutexes *)

\* Whoever stops a thread from taking what it wants: itself too, unless the mutex is recursive.
Blockers(t) ==
    {u \in Threads : want[t].mx \in MutexesOf(u) /\ (u # t \/ want[t].mx.kind # "hub")}

Acquire(t) ==
    /\ want[t] # Nothing /\ Blockers(t) = {}
    /\ held' = [held EXCEPT ![t] = Append(@, want[t])]
    /\ want' = [want EXCEPT ![t] = Nothing]

Release(t) ==
    /\ want[t] = Nothing /\ held[t] # <<>>
    /\ held' = [held EXCEPT ![t] = SubSeq(@, 1, Len(@) - 1)]
    /\ UNCHANGED want

LockInit ==
    /\ held = [t \in Threads |-> <<>>]
    /\ want = [t \in Threads |-> Nothing]

ContextStep(t) ==
    \/ ResumeSleeper(t)
    \/ \E c \in Contexts :
        OnScheduler(t, c) \/ OnEvent(t, c) \/ SetTimer(t, c) \/ ClearTimer(t, c) \/ Register(t, c)

HubStep(t) == \E h \in Hubs : HubCall(t, h) \/ Answer(t, h) \/ IncomeData(t, h)

LockNext ==
    \E t \in Threads :
        \/ ContextStep(t) \/ HubStep(t)
        \/ OnTimer(t) \/ AddRecord(t) \/ Reschedule(t) \/ Work(t)
        \/ Acquire(t) \/ Release(t)

LockSpec == LockInit /\ [][LockNext]_lockVars

-----------------------------------------------------------------------------
\* No threads wait for one another in a circle, and none for itself: hubs call contexts
\* with their lock held, contexts the scheduler, services their hubs, but never the other
\* way round (BasicExchangeContext, BasicContext, RealTimeScheduler, SimExchange).  Who
\* has resumed a coroutine under a lock is left out: see SleepersGoOn.
NobodyWaitsInACircle ==
    \A S \in SUBSET {t \in Threads : ~Resumed(t)} :
        S # {} => \E t \in S : want[t] = Nothing \/ Blockers(t) \cap S = {}

\* A coroutine that awaits a timer sleeps until the timestamp is reached, and then goes on
\* (sleep_until, sleep_for): what it calls does not wait for its own thread.
SleepersGoOn == \A t \in Threads : Resumed(t) => t \notin Blockers(t)
=============================================================================
