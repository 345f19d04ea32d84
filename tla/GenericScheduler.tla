--------------------------- MODULE GenericScheduler ---------------------------
(***************************************************************************)
(* The scheduler of common/scheduler.h: class template SchedulerRealTime   *)
(* around Scheduler, whose worker thread is started by the first item.     *)
(* Threads insert, replace, update and erase items while the worker sleeps *)
(* or runs one.  _mx is held from where the worker takes it to where it    *)
(* gives it up (in execute, or in a wait), so each such stretch is a step, *)
(* and each call of another thread is one.                                 *)
(*                                                                         *)
(* The queue is the priority queue of module PriorityQueue, within the     *)
(* size in which its erase keeps the order (at most five items).           *)
(***************************************************************************)
EXTENDS Integers, FiniteSets

CONSTANTS
    Idents,         \* idents of the callers
    MaxTime,        \* last instant of the system clock
    MaxItems,       \* bound on the items in the queue
    MaxCalls        \* bound on the calls that schedule something

ASSUME ClockBound == MaxTime \in Nat
\* PriorityQueue::erase may break the order of a larger heap; then the front is not always an
\* earliest item.
ASSUME ItemBound == MaxItems \in 0 .. 5
ASSUME CallBound == MaxCalls \in Nat

Times == 0 .. MaxTime
Forever == MaxTime + 1

\* An item: n tells it from the others, early that it was scheduled before every item
\* announced until then (history, for the properties).
Item == [n : 1 .. MaxCalls, tp : Times, ident : Idents, early : BOOLEAN]

VARIABLES
    queue,          \* _queue
    curTime,        \* _cur_time
    wkTime,         \* _wk_time, Forever for time_point::max()
    worker,         \* "none", "started", "running" an item, or "waiting"
    tm,             \* argument of the worker's set_time
    alarm,          \* what the worker waits until, Forever without a time
    signalled,      \* the waiting worker was notified
    clock,          \* the system clock
    calls           \* calls that scheduled something

vars == <<queue, curTime, wkTime, worker, tm, alarm, signalled, clock, calls>>

Later(s, t) == IF s < t THEN t ELSE s

\* get_next_event
NextEvent(q) ==
    IF q = {} THEN Forever ELSE CHOOSE t \in Times : (\E x \in q : x.tp = t) /\ \A x \in q : t <= x.tp

-----------------------------------------------------------------------------
(* Calls of the other threads, and of the functions the worker runs *)

\* Mutants: the time of the last announcement is not kept; the worker is not woken.
NotifyOld(q) ==
    LET next == NextEvent(queue) IN
    IF next < wkTime
    THEN /\ wkTime' = next
         /\ signalled' = (signalled \/ worker = "waiting")
         /\ worker' = IF worker = "none" THEN "started" ELSE worker
    ELSE UNCHANGED <<wkTime, signalled, worker>>

\* notify: only an event before every one announced so far.
Notify(q) ==
    LET next == NextEvent(q) IN
    IF next < wkTime
    THEN /\ wkTime' = next
         /\ signalled' = (signalled \/ worker = "waiting")
         /\ worker' = IF worker = "none" THEN "started" ELSE worker
    ELSE UNCHANGED <<wkTime, signalled, worker>>

NewItem(i, t) == [n |-> calls + 1, tp |-> t, ident |-> i, early |-> t < wkTime]

Scheduled(q) ==
    /\ calls < MaxCalls
    /\ queue' = q
    /\ calls' = calls + 1
    /\ Notify(q)
    /\ UNCHANGED <<curTime, tm, alarm, clock>>

OfIdent(i) == {x \in queue : x.ident = i}

\* insert: the ident need not be unique.
Insert(i, t) ==
    /\ Cardinality(queue) < MaxItems
    /\ Scheduled(queue \cup {NewItem(i, t)})

\* Scheduler::reschedule: the item found first takes the new time and object.
Rescheduled(x, t) == (queue \ {x}) \cup {NewItem(x.ident, t)}

Replace(i, t) ==
    \/ OfIdent(i) = {} /\ Insert(i, t)
    \/ \E x \in OfIdent(i) : Scheduled(Rescheduled(x, t))

Update(i, t) == \E x \in OfIdent(i) : Scheduled(Rescheduled(x, t))

Erase(i) ==
    /\ \E x \in OfIdent(i) : queue' = queue \ {x}
    /\ UNCHANGED <<curTime, wkTime, worker, tm, alarm, signalled, clock, calls>>

-----------------------------------------------------------------------------
(* The worker, from where it has _mx to where it gives it up *)

\* The front item is due: it is taken and run, unlocked.
Take(limit) ==
    \E x \in queue :
        /\ x.tp <= limit /\ x.tp = NextEvent(queue)
        /\ queue' = queue \ {x}
        /\ curTime' = Later(curTime, x.tp)
        /\ worker' = "running"
        /\ tm' = limit
        /\ UNCHANGED <<alarm, signalled>>

\* None is due: the time is raised to the front's, which may be in the future, or, the
\* queue being empty, to whatever the element after its end holds.  Then the worker waits.
Sleep(limit) ==
    /\ NextEvent(queue) > limit
    /\ \E t \in Times :
        /\ queue # {} => t = NextEvent(queue)
        /\ curTime' = Later(curTime, t)
    /\ worker' = "waiting"
    /\ alarm' = NextEvent(queue)
    /\ signalled' = FALSE
    /\ tm' = limit
    /\ UNCHANGED queue

\* set_time, get_next_event and wait.
Loop(limit) ==
    /\ Take(limit) \/ Sleep(limit)
    /\ UNCHANGED <<wkTime, clock, calls>>

Start == worker = "started" /\ Loop(clock)

\* execute returns: the loop of the same set_time goes on.
Finish == worker = "running" /\ Loop(tm)

\* wait_until returns: notified, or at its time.
WakeUp == worker = "waiting" /\ (signalled \/ alarm <= clock) /\ Loop(clock)

\* A wait may return for no reason.
Spurious == worker = "waiting" /\ Loop(clock)

Tick ==
    /\ clock < MaxTime
    /\ clock' = clock + 1
    /\ UNCHANGED <<queue, curTime, wkTime, worker, tm, alarm, signalled, calls>>

-----------------------------------------------------------------------------
Init ==
    /\ queue = {} /\ curTime = 0 /\ wkTime = Forever
    /\ worker = "none" /\ tm = 0 /\ alarm = Forever /\ signalled = FALSE
    /\ clock = 0 /\ calls = 0

Calls ==
    \E i \in Idents :
        \/ \E t \in Times : Insert(i, t) \/ Replace(i, t) \/ Update(i, t)
        \/ Erase(i)

Worker == Start \/ Finish \/ WakeUp

Next == Calls \/ Worker \/ Spurious \/ Tick

Spec == Init /\ [][Next]_vars

-----------------------------------------------------------------------------
TypeOK ==
    /\ queue \subseteq Item
    /\ curTime \in Times /\ tm \in Times /\ clock \in Times
    /\ wkTime \in 0 .. Forever /\ alarm \in 0 .. Forever
    /\ worker \in {"none", "started", "running", "waiting"}
    /\ signalled \in BOOLEAN /\ calls \in 0 .. MaxCalls

\* The worker will look at the queue no later than at the item's time.
Covered(x) ==
    /\ worker # "none"
    /\ worker = "waiting" => signalled \/ alarm <= x.tp

\* An item scheduled before everything announced until then wakes the worker, and stays
\* in its sight whatever else is scheduled, replaced and erased (notify, worker).  Of an
\* item that is not earlier than some past announcement this cannot be said: _wk_time is
\* never raised, and the worker may have gone to sleep for longer since.
EarlierIsSeen == \A x \in queue : x.early => Covered(x)
=============================================================================
