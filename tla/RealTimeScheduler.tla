-------------------------- MODULE RealTimeScheduler --------------------------
(***************************************************************************)
(* The scheduler with a thread of its own: template RealTimeScheduler with *)
(* SingleThreadExecutor.  Contexts ask for wakeups from any thread         *)
(* (reschedule), one worker thread waits for the earliest and calls its    *)
(* function with the lock released, and the last owner of the scheduler    *)
(* destroys it, on another thread or inside a function it called.          *)
(*                                                                         *)
(* A step is what a thread does while it holds _mx.  An ident has at most  *)
(* one item in the queue, so the queue is a function; that front() is an   *)
(* earliest item is what module PriorityQueue checks.                      *)
(***************************************************************************)
EXTENDS Integers

CONSTANTS
    Idents,         \* the contexts
    MaxTime         \* last instant before Timestamp::max()

ASSUME ClockAssumption == MaxTime \in Nat \ {0}
ASSUME IdentAssumption == "nobody" \notin Idents

Never == MaxTime + 1            \* Timestamp::max(); as entry: not in the queue
Time == 0 .. Never

VARIABLES
    entry,          \* _queue: the time point of each ident's item
    clock,          \* system_clock
    worker,         \* the worker thread, see Locations
    deadline,       \* what it waits until, Never: the wait without a time
    now,            \* the local variable now of worker()
    current,        \* whose function it runs, or "nobody"
    phase,          \* "open", then the steps of stop(), then "gone"
    inside          \* stop() runs on the worker's thread

vars == <<entry, clock, worker, deadline, now, current, phase, inside>>

Locations == {"unborn",     \* no thread yet
              "born",       \* started, the lock not yet acquired
              "waiting",    \* on the condition variable
              "woken",      \* off it, the lock not yet acquired again
              "running",    \* a function, without the lock
              "exited"}

Stopped == phase # "open"               \* _stop
Queued == {i \in Idents : entry[i] # Never}

\* What front() may be, and the time point of front() (the only member), or Never.
Earliest == {i \in Queued : \A j \in Idents : entry[i] <= entry[j]}
TopTime == {t \in Time : /\ \A i \in Idents : t <= entry[i]
                         /\ t = Never \/ \E i \in Idents : entry[i] = t}

\* tm < toptime, also when the queue is empty.  Mutant: the wrong way round.
Later(t) == \A i \in Idents : t > entry[i]
Earlier(t) == \A i \in Idents : t < entry[i]

-----------------------------------------------------------------------------
(* Clients *)

\* reschedule.  Every caller owns a share of the scheduler, so none calls once it
\* is being destroyed.  A time in the past (Timestamp::min()) asks for a wakeup at once.
Reschedule(i, t) ==
    /\ phase = "open"
    /\ entry' = [entry EXCEPT ![i] = t]
    /\ worker' = CASE worker = "unborn" -> "born"
                   [] worker = "waiting" /\ Earlier(t) -> "woken"
                   [] OTHER -> worker
    /\ UNCHANGED <<clock, deadline, now, current, phase, inside>>

-----------------------------------------------------------------------------
(* The worker, each time it holds the lock *)

\* The loop's condition, and the wait the next round begins with.
Wait ==
    /\ current' = "nobody"
    /\ IF Stopped
       THEN worker' = "exited" /\ UNCHANGED deadline
       ELSE worker' = "waiting" /\ deadline' \in TopTime
    /\ UNCHANGED entry

\* Mutants: _stop is not looked at between functions; what is due just now is left out.
RunDueStopped(time) ==
    IF \E i \in Earliest : entry[i] <= time
    THEN \E i \in Earliest :
         /\ entry' = [entry EXCEPT ![i] = Never]
         /\ worker' = "running" /\ current' = i
         /\ UNCHANGED deadline
    ELSE Wait

RunDueStrict(time) ==
    IF ~Stopped /\ \E i \in Earliest : entry[i] < time
    THEN \E i \in Earliest :
         /\ entry' = [entry EXCEPT ![i] = Never]
         /\ worker' = "running" /\ current' = i
         /\ UNCHANGED deadline
    ELSE Wait

\* The inner loop: the next due function, or back to the outer loop.
RunDue(time) ==
    IF ~Stopped /\ \E i \in Earliest : entry[i] <= time
    THEN \E i \in Earliest :
         /\ entry' = [entry EXCEPT ![i] = Never]
         /\ worker' = "running" /\ current' = i
         /\ UNCHANGED deadline
    ELSE Wait

Start ==
    /\ worker = "born"
    /\ Wait
    /\ UNCHANGED <<clock, now, phase, inside>>

\* A wait may end for no reason; one with a time also ends at that time.
TimeOut ==
    /\ worker = "waiting" /\ deadline <= clock
    /\ worker' = "woken"
    /\ UNCHANGED <<entry, clock, deadline, now, current, phase, inside>>

WakeForNothing ==
    /\ worker = "waiting" /\ deadline > clock
    /\ worker' = "woken"
    /\ UNCHANGED <<entry, clock, deadline, now, current, phase, inside>>

\* The clock is read once for all functions that are due.
Resume ==
    /\ worker = "woken"
    /\ IF deadline = Never
       THEN Wait /\ UNCHANGED now
       ELSE now' = clock /\ RunDue(clock)
    /\ UNCHANGED <<clock, phase, inside>>

\* The function returns: the thread leaves at once if stop() ran on it.
Returns ==
    /\ worker = "running"
    /\ IF inside
       THEN /\ phase = "gone"
            /\ worker' = "exited" /\ current' = "nobody"
            /\ UNCHANGED <<entry, deadline>>
       ELSE RunDue(now)
    /\ UNCHANGED <<clock, now, phase, inside>>

-----------------------------------------------------------------------------
(* stop(), called by the destructor: the flag, the notification, the end *)

SetStop ==
    /\ phase = "open"
    /\ phase' = "notify"
    /\ inside' \in IF worker = "running" THEN BOOLEAN ELSE {FALSE}
    /\ UNCHANGED <<entry, clock, worker, deadline, now, current>>

\* Mutant: the thread is not notified.
NotifyNobody ==
    /\ phase = "notify"
    /\ phase' = "end"
    /\ UNCHANGED <<entry, clock, worker, deadline, now, current, inside>>

NotifyStop ==
    /\ phase = "notify"
    /\ phase' = "end"
    /\ worker' = IF worker = "waiting" THEN "woken" ELSE worker
    /\ UNCHANGED <<entry, clock, deadline, now, current, inside>>

\* Mutant: the thread is detached in either case.
EndStopDetaches ==
    /\ phase = "end"
    /\ phase' = IF worker = "unborn" THEN "terminated" ELSE "gone"
    /\ UNCHANGED <<entry, clock, worker, deadline, now, current, inside>>

\* detach on its own thread, join on another; joining a thread that was never
\* started throws out of the destructor, which ends the program.
EndStop ==
    /\ phase = "end"
    /\ inside \/ worker \in {"exited", "unborn"}
    /\ phase' = IF worker = "unborn" THEN "terminated" ELSE "gone"
    /\ UNCHANGED <<entry, clock, worker, deadline, now, current, inside>>

Tick ==
    /\ clock < MaxTime
    /\ clock' = clock + 1
    /\ UNCHANGED <<entry, worker, deadline, now, current, phase, inside>>

-----------------------------------------------------------------------------
Init ==
    /\ entry = [i \in Idents |-> Never]
    /\ clock = 1
    /\ worker = "unborn" /\ deadline = Never
    /\ now = 0 /\ current = "nobody"
    /\ phase = "open" /\ inside = FALSE

Worker == Start \/ Resume \/ Returns
Stop == SetStop \/ NotifyStop \/ EndStop

Next ==
    \/ \E i \in Idents, t \in 0 .. MaxTime : Reschedule(i, t)
    \/ Worker \/ TimeOut \/ WakeForNothing
    \/ Stop
    \/ Tick

Spec == Init /\ [][Next]_vars

\* The thread is scheduled and its functions return, waits time out, time passes,
\* and a destructor that was entered runs on.
ThreadProceeds ==
    /\ WF_vars(Worker) /\ WF_vars(TimeOut) /\ WF_vars(Tick)
    /\ WF_vars(NotifyStop \/ EndStop)

FairSpec == Spec /\ ThreadProceeds

-----------------------------------------------------------------------------
(* Properties *)

TypeOK ==
    /\ entry \in [Idents -> Time]
    /\ clock \in 1 .. MaxTime
    /\ worker \in Locations
    /\ deadline \in Time
    /\ now \in 0 .. clock
    /\ current \in Idents \cup {"nobody"}
    /\ phase \in {"open", "notify", "end", "gone", "terminated"}
    /\ inside \in BOOLEAN

\* No wakeup is lost: the thread never waits beyond the earliest item.
NoOversleep == worker = "waiting" => \A i \in Idents : deadline <= entry[i]

\* Once stop() has returned, nothing uses the scheduler any more: its thread has
\* left, or is in the function that destroyed it.
GoneIsUnused == phase = "gone" => worker = "exited" \/ (inside /\ worker = "running")

\* The scheduler is the wakeup service the contexts are written against.
Service == INSTANCE WakeupService WITH open <- ~Stopped
IsWakeupService == Service!Spec

Due(i) == entry[i] <= clock

\* From some moment on, contexts other than i ask only for wakeups to come.
OthersAskAhead(i) ==
    <>[][\A j \in Idents \ {i} : entry'[j] \in {entry[j], Never} \/ entry'[j] > clock]_vars

\* A context that asked for a wakeup gets it when it is due, unless it asks for another
\* or the other contexts ask for wakeups at once for ever, which overtake it.
DueIsCalled ==
    \A i \in Idents : OthersAskAhead(i) => (Due(i) ~> (~Due(i) \/ Stopped))

\* A destructor that is entered returns, and the thread leaves.
StopReturns ==
    (Stopped /\ worker # "unborn") ~> (phase = "gone" /\ worker = "exited")

-----------------------------------------------------------------------------
(* The invariants above as parts of an inductive one. *)

\* The function that runs has a client, and stop() on its own thread keeps it
\* running until it has detached it.
StopInv ==
    /\ current # "nobody" <=> worker = "running"
    /\ inside => Stopped /\ (phase = "gone" \/ worker = "running")
    /\ worker = "exited" => Stopped

SchedulerInv == TypeOK /\ NoOversleep /\ StopInv /\ GoneIsUnused
=============================================================================
