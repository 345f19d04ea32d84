----------------------------- MODULE ToolboxProofs -----------------------------
(***************************************************************************)
(* Theorems about the parts that stand alone (MCToolbox): the generic      *)
(* scheduler, the atomic future, the function wrapper, the module          *)
(* repository, the JSON of a configuration, the order of the locks, and    *)
(* the order book with its tree.                                           *)
(* They share no state; each has a section with its inductive invariant.   *)
(***************************************************************************)
EXTENDS GenericScheduler, AtomicFuture, FunctionWrapper, ModuleRepository, ConfigJson, LockOrder,
        OrderBook, Intervals, SequenceTheorems, TLAPS

-----------------------------------------------------------------------------
(* The generic scheduler: what is scheduled before everything announced until then never
   escapes the worker. *)

SeenInv == queue \subseteq Item /\ EarlierIsSeen

\* get_next_event gives the least time of the queue.
LEMMA NextEventIsLeast ==
    ASSUME NEW q \in SUBSET Item, NEW x \in q
    PROVE  NextEvent(q) \in Times /\ NextEvent(q) <= x.tp
<1> DEFINE Tps == {y.tp : y \in q}
<1>1. Tps \in SUBSET (0 .. MaxTime) /\ Tps # {}
  BY DEF Item, Times
<1> HIDE DEF Tps
<1>2. PICK t \in Tps : \A s \in Tps : t <= s
  BY <1>1, LeastTimeExists, ClockBound
<1>3. t \in Times /\ (\E y \in q : y.tp = t) /\ \A y \in q : t <= y.tp
  BY <1>1, <1>2 DEF Tps, Times
<1> QED BY <1>3 DEF NextEvent

\* Scheduling, of any kind: q is the queue before, less at most what is replaced.
LEMMA ScheduledIsSeen ==
    ASSUME SeenInv, NEW q \in SUBSET queue, NEW i \in Idents, NEW t \in Times,
           wkTime \in 0 .. Forever, calls \in 0 .. MaxCalls,
           Scheduled(q \cup {NewItem(i, t)})
    PROVE  SeenInv'
<1>1. PICK new \in Item : new = NewItem(i, t) /\ new.tp = t /\ new.early = (t < wkTime)
  <2>1. NewItem(i, t) \in Item
    BY CallBound DEF NewItem, Item, Scheduled
  <2>2. NewItem(i, t).tp = t /\ NewItem(i, t).early = (t < wkTime)
    BY DEF NewItem
  <2> QED BY <2>1, <2>2, Zenon
<1> DEFINE next == NextEvent(q \cup {new})
<1>2. q \cup {new} \in SUBSET Item
  BY <1>1 DEF SeenInv
<1>3. next \in Times /\ next <= t
  BY <1>1, <1>2, NextEventIsLeast
<1>4. Scheduled(q \cup {new}) /\ queue' = q \cup {new} /\ alarm' = alarm
  <2>1. Scheduled(q \cup {new})
    BY <1>1
  <2> QED BY <2>1 DEF Scheduled
<1>5. /\ worker' = worker \/ (worker = "none" /\ worker' = "started")
      /\ signalled => signalled'
  <2>1. CASE next < wkTime
    <3>1. /\ signalled' = (signalled \/ worker = "waiting")
          /\ worker' = IF worker = "none" THEN "started" ELSE worker
      BY <1>4, <2>1 DEF Scheduled, Notify
    <3>2. signalled => signalled'
      BY <3>1, Zenon
    <3> QED BY <3>1, <3>2
  <2>2. CASE ~(next < wkTime)
    <3>1. signalled' = signalled /\ worker' = worker
      BY <1>4, <2>2 DEF Scheduled, Notify
    <3> QED BY <3>1, Zenon
  <2> QED BY <2>1, <2>2
<1>6. next < wkTime => worker' # "none" /\ (worker' = "waiting" => signalled')
  BY <1>4 DEF Scheduled, Notify
<1>7. ASSUME NEW x \in q, x.early
      PROVE  Covered(x)'
  <2>1. Covered(x)
    BY <1>7 DEF SeenInv, EarlierIsSeen
  <2> QED BY <1>4, <1>5, <2>1 DEF Covered
<1>8. ASSUME new.early
      PROVE  Covered(new)'
  <2>1. t < wkTime
    BY <1>1, <1>8
  <2>2. next < wkTime
    BY <1>3, <2>1 DEF Times, Forever
  <2> QED BY <1>6, <2>2 DEF Covered
<1>9. EarlierIsSeen'
  <2>1. ASSUME NEW x \in queue', x.early
        PROVE  Covered(x)'
    <3>1. x \in q \/ x = new
      BY <1>4
    <3>2. CASE x \in q
      BY <1>7, <2>1, <3>2
    <3>3. CASE x = new
      <4>1. new.early
        BY <2>1, <3>3, Zenon
      <4>2. Covered(new)'
        BY <1>8, <4>1
      <4> QED BY <3>3, <4>2 DEF Covered
    <3> QED BY <3>1, <3>2, <3>3
  <2> QED BY <2>1, Zenon DEF EarlierIsSeen
<1> QED BY <1>2, <1>4, <1>9 DEF SeenInv

\* The worker either runs an item or sleeps no longer than until the front item.
LEMMA LoopIsSeen ==
    ASSUME SeenInv, NEW limit, Loop(limit)
    PROVE  SeenInv'
<1>1. CASE Take(limit)
  BY <1>1 DEF Take, SeenInv, EarlierIsSeen, Covered
<1>2. CASE Sleep(limit)
  <2>1. queue' = queue /\ worker' = "waiting" /\ alarm' = NextEvent(queue)
    BY <1>2 DEF Sleep
  <2>2. \A x \in queue : alarm' <= x.tp
    BY <2>1, NextEventIsLeast DEF SeenInv
  <2> QED BY <2>1, <2>2 DEF SeenInv, EarlierIsSeen, Covered
<1> QED BY <1>1, <1>2 DEF Loop

\* Times and counts keep their ranges.
RangesOK == wkTime \in 0 .. Forever /\ calls \in 0 .. MaxCalls

LEMMA NextSeenInv == SeenInv /\ RangesOK /\ [Next]_vars => (SeenInv /\ RangesOK)'
<1> SUFFICES ASSUME SeenInv, RangesOK, [Next]_vars
             PROVE  SeenInv' /\ RangesOK'
  OBVIOUS
<1>1. ASSUME NEW q \in SUBSET queue, NEW i \in Idents, NEW t \in Times,
             Scheduled(q \cup {NewItem(i, t)})
      PROVE  SeenInv' /\ RangesOK'
  <2>1. SeenInv'
    BY <1>1, ScheduledIsSeen DEF RangesOK
  <2>2. calls' \in 0 .. MaxCalls
    BY <1>1, CallBound DEF Scheduled, RangesOK
  <2>3. NewItem(i, t) \in Item
    BY <1>1, CallBound DEF NewItem, Item, Scheduled, RangesOK
  <2>4. NextEvent(q \cup {NewItem(i, t)}) \in Times
    BY <2>3, NextEventIsLeast DEF SeenInv
  <2>5. wkTime' \in 0 .. Forever
    BY <1>1, <2>4, ClockBound DEF Scheduled, Notify, RangesOK, Times, Forever
  <2> QED BY <2>1, <2>2, <2>5 DEF RangesOK
<1>2. ASSUME NEW i \in Idents, NEW t \in Times, Insert(i, t)
      PROVE  SeenInv' /\ RangesOK'
  BY <1>1, <1>2 DEF Insert
<1>3. ASSUME NEW i \in Idents, NEW t \in Times, NEW x \in OfIdent(i),
             Scheduled(Rescheduled(x, t))
      PROVE  SeenInv' /\ RangesOK'
  <2>1. x.ident = i /\ Rescheduled(x, t) = (queue \ {x}) \cup {NewItem(i, t)}
    BY DEF OfIdent, Rescheduled
  <2>2. Scheduled((queue \ {x}) \cup {NewItem(i, t)})
    BY <1>3, <2>1, Zenon
  <2>3. queue \ {x} \in SUBSET queue
    OBVIOUS
  <2> QED BY <1>1, <2>2, <2>3
<1>4. ASSUME NEW i \in Idents, Erase(i)
      PROVE  SeenInv' /\ RangesOK'
  BY <1>4 DEF Erase, SeenInv, EarlierIsSeen, Covered, RangesOK
<1>5. ASSUME NEW limit, Loop(limit)
      PROVE  SeenInv' /\ RangesOK'
  BY <1>5, LoopIsSeen DEF Loop, RangesOK
<1>6. CASE Tick
  BY <1>6 DEF Tick, SeenInv, EarlierIsSeen, Covered, RangesOK
<1>7. CASE UNCHANGED vars
  BY <1>7 DEF vars, SeenInv, EarlierIsSeen, Covered, RangesOK
<1>8. ASSUME NEW i \in Idents, NEW t \in Times, Replace(i, t) \/ Update(i, t)
      PROVE  SeenInv' /\ RangesOK'
  BY <1>2, <1>3, <1>8 DEF Replace, Update
<1>9. CASE Worker \/ Spurious
  BY <1>5, <1>9 DEF Worker, Start, Finish, WakeUp, Spurious
<1> QED BY <1>2, <1>4, <1>6, <1>7, <1>8, <1>9 DEF Next, Calls

LEMMA InitSeenInv == Init => SeenInv /\ RangesOK
BY CallBound, ClockBound DEF Init, SeenInv, EarlierIsSeen, RangesOK, Forever

\* An item scheduled before everything announced until then is never slept over by the
\* worker (notify and worker of SchedulerRealTime), however the calls and the worker
\* interleave.
THEOREM EarlierItemsAreSeen == Spec => []EarlierIsSeen
<1>1. SeenInv => EarlierIsSeen
  BY DEF SeenInv
<1> QED BY <1>1, InitSeenInv, NextSeenInv, PTL DEF Spec

-----------------------------------------------------------------------------
(* The order of the locks: nobody waits in a circle without a coroutine that was resumed
   under a lock; everybody else takes mutexes in the order of their ranks. *)

ContextCalls == {"set_timer", "clear_timer", "register", "on_scheduler", "after_timer", "on_event"}
HubCalls == {"call", "notify"}
SimCalls == {"on_timer", "add_record"}
SchedulerCalls == {"reschedule", "worker"}
AllCalls == ContextCalls \cup HubCalls \cup SimCalls \cup SchedulerCalls \cup {"resumed"}

\* A mutex of a lower rank is taken first.
Rank(m) ==
    IF m.kind = "simulated" THEN 1
    ELSE IF m.kind = "hub" THEN 2
    ELSE IF m.kind = "context" THEN 3 ELSE 4

\* A call takes a mutex of its kind.
Fits(f) ==
    /\ f.call \in ContextCalls => f.mx.kind = "context"
    /\ f.call \in HubCalls => f.mx.kind = "hub"
    /\ f.call \in SimCalls => f.mx.kind = "simulated"
    /\ f.call \in SchedulerCalls => f.mx.kind = "scheduler"

Frames == {f \in [mx : Mutex, call : AllCalls] : Fits(f)}

LockTypes ==
    /\ held \in [Threads -> Seq(Frames)]
    /\ want \in [Threads -> Frames \cup {Nothing}]

\* The later mutex has a higher rank, or is the same recursive one.
Before(m, n) == Rank(m) < Rank(n) \/ (m = n /\ m.kind = "hub")

Ascending(t) ==
    /\ \A i \in DOMAIN held[t] : \A j \in DOMAIN held[t] :
        (i < j /\ \A k \in 1 .. j : held[t][k].call # "resumed")
            => Before(held[t][i].mx, held[t][j].mx)
    /\ (want[t] # Nothing /\ ~Resumed(t)) => \A i \in DOMAIN held[t] : Before(held[t][i].mx, want[t].mx)

\* A mutex has one owner.
Exclusive == \A t \in Threads : \A u \in Threads : t # u => MutexesOf(t) \cap MutexesOf(u) = {}

LockInv == LockTypes /\ (\A t \in Threads : Ascending(t)) /\ Exclusive

-----------------------------------------------------------------------------
\* The kinds of the mutexes.
LEMMA MutexKinds ==
    /\ \A c \in Contexts : Queue(c) \in Mutex /\ Queue(c).kind = "context"
    /\ \A h \in Hubs : Hub(h) \in Mutex /\ Hub(h).kind = "hub"
    /\ Sim \in Mutex /\ Sim.kind = "simulated"
    /\ Scheduler \in Mutex /\ Scheduler.kind = "scheduler"
    /\ \A m \in Mutex : m.kind \in {"context", "hub", "simulated", "scheduler"}
<1>1. \A c \in Contexts : Queue(c) \in Mutex /\ Queue(c).kind = "context"
  BY DEF Mutex, Queue
<1>2. \A h \in Hubs : Hub(h) \in Mutex /\ Hub(h).kind = "hub"
  BY DEF Mutex, Hub
<1>3. Sim \in Mutex /\ Sim.kind = "simulated" /\ Scheduler \in Mutex /\ Scheduler.kind = "scheduler"
  BY DEF Mutex, Sim, Scheduler
<1>4. ASSUME NEW m \in Mutex
      PROVE  m.kind \in {"context", "hub", "simulated", "scheduler"}
  <2>1. (\E c \in Contexts : m = Queue(c)) \/ (\E h \in Hubs : m = Hub(h)) \/ m = Sim \/ m = Scheduler
    BY DEF Mutex
  <2> QED BY <1>1, <1>2, <1>3, <2>1
<1> QED BY <1>1, <1>2, <1>3, <1>4

\* The order is transitive.
LEMMA BeforeIsTransitive ==
    ASSUME NEW l, NEW m, NEW n, Before(l, m), Before(m, n)
    PROVE  Before(l, n)
BY DEF Before, Rank

\* A frame of a call that fits.
LEMMA FrameFits ==
    ASSUME NEW m \in Mutex, NEW call \in AllCalls, Fits(Frame(m, call))
    PROVE  Frame(m, call) \in Frames /\ Frame(m, call) # Nothing
<1>1. Frame(m, call) \in Frames
  BY DEF Frames, Frame
<1>2. Frame(m, call).mx = m /\ Nothing.mx.kind = "none"
  BY DEF Frame, Nothing
<1> QED BY <1>1, <1>2, MutexKinds

\* Whoever asks for a mutex in the order of the ranks keeps the invariant.
LEMMA LockKeepsInv ==
    ASSUME LockInv, NEW t \in Threads, NEW m \in Mutex, NEW call \in AllCalls,
           Fits(Frame(m, call)), Lock(t, m, call), want[t] = Nothing,
           call = "resumed" \/ held[t] = <<>>
             \/ Rank(Innermost(t).mx) < Rank(m) \/ (Innermost(t).mx = m /\ m.kind = "hub")
    PROVE  LockInv'
<1>1. held' = held /\ want' = [want EXCEPT ![t] = Frame(m, call)]
  BY DEF Lock
<1>2. LockTypes'
  BY <1>1, FrameFits DEF LockInv, LockTypes
<1>3. Exclusive'
  <2>1. \A u : MutexesOf(u)' = MutexesOf(u)
    BY <1>1 DEF MutexesOf
  <2> QED BY <2>1 DEF LockInv, Exclusive
<1>4. ASSUME NEW u \in Threads, u # t
      PROVE  Ascending(u)'
  <2>1. want'[u] = want[u] /\ Ascending(u)
    BY <1>1, <1>4 DEF LockInv, LockTypes
  <2> QED BY <1>1, <2>1 DEF Ascending, Resumed
<1>5. want'[t] = Frame(m, call) /\ want'[t].mx = m /\ want'[t].call = call
  BY <1>1 DEF LockInv, LockTypes, Frame
<1>6. ASSUME ~Resumed(t)', NEW i \in DOMAIN held[t]
      PROVE  Before(held[t][i].mx, m)
  <2> DEFINE n == Len(held[t])
  <2>1. held[t] \in Seq(Frames) /\ n \in Nat /\ DOMAIN held[t] = 1 .. n
    BY DEF LockInv, LockTypes
  <2>2. n \in DOMAIN held[t] /\ i \in 1 .. n /\ held[t] # <<>>
    BY <2>1
  <2>3. call # "resumed" /\ \A k \in 1 .. n : held[t][k].call # "resumed"
    BY <1>1, <1>5, <1>6, <2>1 DEF Resumed
  <2>4. Before(held[t][n].mx, m)
    BY <2>2, <2>3 DEF Before, Innermost
  <2>5. CASE i = n
    BY <2>4, <2>5
  <2>6. CASE i # n
    <3>1. i < n
      BY <2>1, <2>2, <2>6
    <3>2. Before(held[t][i].mx, held[t][n].mx)
      BY <2>2, <2>3, <3>1 DEF LockInv, Ascending
    <3> QED BY <2>4, <3>2, BeforeIsTransitive
  <2> QED BY <2>5, <2>6
<1>7. Ascending(t)'
  <2>1. \A i \in DOMAIN held'[t] : \A j \in DOMAIN held'[t] :
            (i < j /\ \A k \in 1 .. j : held'[t][k].call # "resumed")
                => Before(held'[t][i].mx, held'[t][j].mx)
    BY <1>1 DEF LockInv, Ascending
  <2> QED BY <1>1, <1>5, <1>6, <2>1 DEF Ascending
<1> QED BY <1>2, <1>3, <1>4, <1>7 DEF LockInv

\* What the guard In says of the innermost mutex.
LEMMA InnermostOf ==
    ASSUME LockInv, NEW t \in Threads, NEW callers, In(t, callers)
    PROVE  /\ want[t] = Nothing /\ held[t] # <<>>
           /\ Innermost(t) \in Frames /\ Innermost(t).call \in callers
<1>1. held[t] \in Seq(Frames) /\ held[t] # <<>>
  BY DEF LockInv, LockTypes, In
<1>2. Len(held[t]) \in DOMAIN held[t]
  BY <1>1
<1>3. Innermost(t) \in Frames
  BY <1>1, <1>2 DEF Innermost
<1> QED BY <1>1, <1>3 DEF In

-----------------------------------------------------------------------------
LEMMA ContextStepKeepsInv ==
    ASSUME LockInv, NEW t \in Threads, ContextStep(t)
    PROVE  LockInv'
<1> USE MutexKinds
<1>1. CASE ResumeSleeper(t)
  <2>1. Innermost(t) \in Frames /\ want[t] = Nothing
    BY <1>1, InnermostOf DEF ResumeSleeper
  <2>2. Innermost(t).mx \in Mutex
    BY <2>1 DEF Frames
  <2>3. \A m \in Mutex : Fits(Frame(m, "resumed"))
    BY DEF Fits, Frame, ContextCalls, HubCalls, SimCalls, SchedulerCalls
  <2>4. "resumed" \in AllCalls
    BY DEF AllCalls
  <2>5. PICK m \in Mutex : Lock(t, m, "resumed")
    BY <1>1, <2>2 DEF ResumeSleeper
  <2> QED BY <2>1, <2>3, <2>4, <2>5, LockKeepsInv
<1>2. ASSUME NEW c \in Contexts, NEW call \in ContextCalls, Outside(t), Lock(t, Queue(c), call)
      PROVE  LockInv'
  <2>1. Fits(Frame(Queue(c), call)) /\ call \in AllCalls
    BY DEF Fits, Frame, ContextCalls, HubCalls, SimCalls, SchedulerCalls, AllCalls
  <2>2. want[t] = Nothing /\ held[t] = <<>>
    BY <1>2 DEF Outside
  <2> QED BY <1>2, <2>1, <2>2, LockKeepsInv
<1>3. ASSUME NEW c \in Contexts, OnEvent(t, c)
      PROVE  LockInv'
  <2>1. Lock(t, Queue(c), "on_event") /\ In(t, {"notify"})
    BY <1>3 DEF OnEvent
  <2>2. Innermost(t) \in Frames /\ Innermost(t).call = "notify" /\ want[t] = Nothing
    BY <2>1, InnermostOf
  <2>3. Innermost(t).mx.kind = "hub"
    BY <2>2 DEF Frames, Fits, HubCalls
  <2>4. Rank(Innermost(t).mx) < Rank(Queue(c))
    BY <2>3 DEF Rank
  <2>5. Fits(Frame(Queue(c), "on_event")) /\ "on_event" \in AllCalls
    BY DEF Fits, Frame, ContextCalls, HubCalls, SimCalls, SchedulerCalls, AllCalls
  <2> QED BY <2>1, <2>2, <2>4, <2>5, LockKeepsInv
<1>4. ASSUME NEW c \in Contexts,
             SetTimer(t, c) \/ ClearTimer(t, c) \/ Register(t, c) \/ OnScheduler(t, c)
      PROVE  LockInv'
  BY <1>2, <1>4 DEF SetTimer, ClearTimer, Register, OnScheduler, ContextCalls
<1> QED BY <1>1, <1>3, <1>4 DEF ContextStep

LEMMA HubStepKeepsInv ==
    ASSUME LockInv, NEW t \in Threads, HubStep(t)
    PROVE  LockInv'
<1> USE MutexKinds
<1>1. \A h \in Hubs : \A call \in HubCalls : Fits(Frame(Hub(h), call)) /\ call \in AllCalls
  BY DEF Fits, Frame, ContextCalls, HubCalls, SimCalls, SchedulerCalls, AllCalls
<1>2. ASSUME NEW h \in Hubs, NEW call \in HubCalls, Outside(t), Lock(t, Hub(h), call)
      PROVE  LockInv'
  <2>1. want[t] = Nothing /\ held[t] = <<>>
    BY <1>2 DEF Outside
  <2> QED BY <1>1, <1>2, <2>1, LockKeepsInv
<1>3. ASSUME NEW h \in Hubs, HubCall(t, h)
      PROVE  LockInv'
  BY <1>2, <1>3 DEF HubCall, HubCalls
<1>4. ASSUME NEW h \in Hubs, Answer(t, h), ~Outside(t)
      PROVE  LockInv'
  <2>1. Lock(t, Hub(h), "notify") /\ In(t, {"call", "resumed"}) /\ Innermost(t).mx = Hub(h)
    BY <1>4 DEF Answer
  <2>2. want[t] = Nothing
    BY <2>1, InnermostOf
  <2> QED BY <1>1, <2>1, <2>2, LockKeepsInv DEF HubCalls
<1>5. ASSUME NEW h \in Hubs, IncomeData(t, h), ~Outside(t)
      PROVE  LockInv'
  <2>1. Lock(t, Hub(h), "notify") /\ In(t, {"on_timer"})
    BY <1>5 DEF IncomeData
  <2>2. Innermost(t) \in Frames /\ Innermost(t).call = "on_timer" /\ want[t] = Nothing
    BY <2>1, InnermostOf
  <2>3. Innermost(t).mx.kind = "simulated"
    BY <2>2 DEF Frames, Fits, SimCalls
  <2>4. Rank(Innermost(t).mx) < Rank(Hub(h))
    BY <2>3 DEF Rank
  <2> QED BY <1>1, <2>1, <2>2, <2>4, LockKeepsInv DEF HubCalls
<1>6. ASSUME NEW h \in Hubs, Answer(t, h) \/ IncomeData(t, h), Outside(t)
      PROVE  LockInv'
  BY <1>2, <1>6 DEF Answer, IncomeData, HubCalls
<1> QED BY <1>3, <1>4, <1>5, <1>6 DEF HubStep

LEMMA SimStepKeepsInv ==
    ASSUME LockInv, NEW t \in Threads, OnTimer(t) \/ AddRecord(t)
    PROVE  LockInv'
<1>1. PICK call \in SimCalls : Outside(t) /\ Lock(t, Sim, call)
  BY DEF OnTimer, AddRecord, SimCalls
<1>2. Fits(Frame(Sim, call)) /\ call \in AllCalls
  BY MutexKinds DEF Fits, Frame, ContextCalls, HubCalls, SimCalls, SchedulerCalls, AllCalls
<1>3. want[t] = Nothing /\ held[t] = <<>>
  BY <1>1 DEF Outside
<1> QED BY <1>1, <1>2, <1>3, LockKeepsInv, MutexKinds

LEMMA SchedulerStepKeepsInv ==
    ASSUME LockInv, NEW t \in Threads, Reschedule(t) \/ Work(t)
    PROVE  LockInv'
<1>1. PICK call \in SchedulerCalls : Lock(t, Scheduler, call)
  BY DEF Reschedule, Work, SchedulerCalls
<1>2. Fits(Frame(Scheduler, call)) /\ call \in AllCalls
  BY MutexKinds DEF Fits, Frame, ContextCalls, HubCalls, SimCalls, SchedulerCalls, AllCalls
<1>3. CASE Outside(t)
  <2>1. want[t] = Nothing /\ held[t] = <<>>
    BY <1>3 DEF Outside
  <2> QED BY <1>1, <1>2, <2>1, LockKeepsInv, MutexKinds
<1>4. CASE ~Outside(t)
  <2> DEFINE callers == {"set_timer", "on_event", "on_scheduler", "after_timer", "on_timer", "add_record"}
  <2>1. In(t, callers)
    BY <1>4 DEF Reschedule, Work
  <2>2. Innermost(t) \in Frames /\ Innermost(t).call \in callers /\ want[t] = Nothing
    BY <2>1, InnermostOf
  <2>3. Innermost(t).mx.kind \in {"context", "simulated"}
    BY <2>2 DEF Frames, Fits, ContextCalls, SimCalls
  <2>4. Rank(Innermost(t).mx) < Rank(Scheduler)
    BY <2>3, MutexKinds DEF Rank
  <2> QED BY <1>1, <1>2, <2>2, <2>4, LockKeepsInv, MutexKinds
<1> QED BY <1>3, <1>4

-----------------------------------------------------------------------------
LEMMA AcquireKeepsInv ==
    ASSUME LockInv, NEW t \in Threads, Acquire(t)
    PROVE  LockInv'
<1> DEFINE f == want[t]
           n == Len(held[t])
<1>1. /\ want[t] # Nothing /\ Blockers(t) = {}
      /\ held' = [held EXCEPT ![t] = Append(@, f)]
      /\ want' = [want EXCEPT ![t] = Nothing]
  BY DEF Acquire
<1>2. held[t] \in Seq(Frames) /\ f \in Frames /\ n \in Nat
  BY <1>1 DEF LockInv, LockTypes
<1>3. LockTypes'
  <2>1. Append(held[t], f) \in Seq(Frames)
    BY <1>2
  <2> QED BY <1>1, <2>1 DEF LockInv, LockTypes
<1>4. /\ held'[t] = Append(held[t], f) /\ want'[t] = Nothing
      /\ \A u \in Threads : u # t => held'[u] = held[u] /\ want'[u] = want[u]
  BY <1>1 DEF LockInv, LockTypes
<1>5. /\ DOMAIN held[t] = 1 .. n /\ DOMAIN held'[t] = 1 .. n + 1
      /\ held'[t][n + 1] = f /\ \A k \in 1 .. n : held'[t][k] = held[t][k]
  BY <1>2, <1>4
<1> HIDE DEF n, f
<1>6. MutexesOf(t)' = MutexesOf(t) \cup {f.mx}
  BY <1>2, <1>5 DEF MutexesOf
<1>7. \A u \in Threads : u # t => MutexesOf(u)' = MutexesOf(u) /\ f.mx \notin MutexesOf(u)
  <2>1. \A u \in Threads : u # t => MutexesOf(u)' = MutexesOf(u)
    BY <1>4 DEF MutexesOf
  <2>2. \A u \in Threads : u # t => f.mx \notin MutexesOf(u)
    BY <1>1 DEF Blockers, f
  <2> QED BY <2>1, <2>2
<1>8. Exclusive'
  BY <1>6, <1>7 DEF LockInv, Exclusive
<1>9. ASSUME NEW u \in Threads, u # t
      PROVE  Ascending(u)'
  BY <1>4, <1>9 DEF LockInv, Ascending, Resumed
<1>10. Ascending(t)'
  <2> SUFFICES ASSUME NEW i \in 1 .. n + 1, NEW j \in 1 .. n + 1, i < j,
                      \A k \in 1 .. j : held'[t][k].call # "resumed"
               PROVE  Before(held'[t][i].mx, held'[t][j].mx)
    BY <1>4, <1>5 DEF Ascending
  <2>1. i \in 1 .. n
    BY <1>2
  <2>2. CASE j = n + 1
    <3>1. f.call # "resumed" /\ \A k \in 1 .. n : held[t][k].call # "resumed"
      BY <1>2, <1>5, <2>2
    <3>2. ~Resumed(t) /\ want[t] = f
      BY <1>5, <3>1 DEF Resumed, f
    <3>3. Before(held[t][i].mx, f.mx)
      BY <1>1, <1>5, <2>1, <3>2 DEF LockInv, Ascending
    <3> QED BY <1>5, <2>1, <2>2, <3>3
  <2>3. CASE j # n + 1
    <3>1. j \in 1 .. n /\ \A k \in 1 .. j : k \in 1 .. n
      BY <1>2, <2>3
    <3>2. \A k \in 1 .. j : held[t][k].call # "resumed"
      BY <1>5, <3>1
    <3>3. Before(held[t][i].mx, held[t][j].mx)
      BY <1>5, <2>1, <3>1, <3>2 DEF LockInv, Ascending
    <3> QED BY <1>5, <2>1, <3>1, <3>3
  <2> QED BY <2>2, <2>3
<1> QED BY <1>3, <1>8, <1>9, <1>10 DEF LockInv

LEMMA ReleaseKeepsInv ==
    ASSUME LockInv, NEW t \in Threads, Release(t)
    PROVE  LockInv'
<1> DEFINE n == Len(held[t])
           rest == SubSeq(held[t], 1, n - 1)
<1>1. /\ want[t] = Nothing /\ held[t] # <<>> /\ want' = want
      /\ held' = [held EXCEPT ![t] = rest]
  BY DEF Release
<1>2. held[t] \in Seq(Frames) /\ n \in Nat \ {0}
  BY <1>1 DEF LockInv, LockTypes
<1>3. /\ rest \in Seq(Frames) /\ DOMAIN rest = 1 .. n - 1 /\ DOMAIN held[t] = 1 .. n
      /\ \A k \in 1 .. n - 1 : rest[k] = held[t][k]
  BY <1>2
<1>4. /\ held'[t] = rest /\ want'[t] = Nothing
      /\ \A u \in Threads : u # t => held'[u] = held[u]
  BY <1>1 DEF LockInv, LockTypes
<1> HIDE DEF n, rest
<1>5. LockTypes'
  BY <1>1, <1>3 DEF LockInv, LockTypes
<1>6. \A u \in Threads : MutexesOf(u)' \subseteq MutexesOf(u)
  <2>1. MutexesOf(t)' \subseteq MutexesOf(t)
    BY <1>2, <1>3, <1>4 DEF MutexesOf
  <2>2. \A u \in Threads : u # t => MutexesOf(u)' = MutexesOf(u)
    BY <1>4 DEF MutexesOf
  <2> QED BY <2>1, <2>2
<1>7. Exclusive'
  BY <1>6 DEF LockInv, Exclusive
<1>8. ASSUME NEW u \in Threads, u # t
      PROVE  Ascending(u)'
  BY <1>1, <1>4, <1>8 DEF LockInv, Ascending, Resumed
<1>9. Ascending(t)'
  <2> SUFFICES ASSUME NEW i \in 1 .. n - 1, NEW j \in 1 .. n - 1, i < j,
                      \A k \in 1 .. j : held'[t][k].call # "resumed"
               PROVE  Before(held'[t][i].mx, held'[t][j].mx)
    <3>1. DOMAIN held'[t] = 1 .. n - 1
      BY <1>3, <1>4
    <3> QED BY <1>4, <3>1 DEF Ascending
  <2>1. i \in 1 .. n /\ j \in 1 .. n /\ \A k \in 1 .. j : k \in 1 .. n - 1
    BY <1>2
  <2>2. \A k \in 1 .. j : held[t][k].call # "resumed"
    BY <1>3, <1>4, <2>1
  <2>3. Before(held[t][i].mx, held[t][j].mx)
    BY <1>3, <2>1, <2>2 DEF LockInv, Ascending
  <2> QED BY <1>3, <1>4, <2>3
<1> QED BY <1>5, <1>7, <1>8, <1>9 DEF LockInv

LEMMA NextLockInv == LockInv /\ [LockNext]_lockVars => LockInv'
<1> SUFFICES ASSUME LockInv, [LockNext]_lockVars
             PROVE  LockInv'
  OBVIOUS
<1>1. CASE UNCHANGED lockVars
  <2>1. held' = held /\ want' = want
    BY <1>1 DEF lockVars
  <2>2. LockTypes'
    BY <2>1 DEF LockInv, LockTypes
  <2>3. ASSUME NEW t \in Threads
        PROVE  Ascending(t)'
    BY <2>1 DEF LockInv, Ascending, Resumed
  <2>4. \A t : MutexesOf(t)' = MutexesOf(t)
    BY <2>1 DEF MutexesOf
  <2> QED BY <2>2, <2>3, <2>4 DEF LockInv, Exclusive
<1>2. CASE LockNext
  BY <1>2, ContextStepKeepsInv, HubStepKeepsInv, SimStepKeepsInv, SchedulerStepKeepsInv,
     AcquireKeepsInv, ReleaseKeepsInv DEF LockNext
<1> QED BY <1>1, <1>2

LEMMA InitLockInv == LockInit => LockInv
<1> SUFFICES ASSUME LockInit
             PROVE  LockInv
  OBVIOUS
<1>1. LockTypes
  BY DEF LockInit, LockTypes
<1>2. \A t \in Threads : DOMAIN held[t] = {} /\ want[t] = Nothing
  <2>1. \A t \in Threads : held[t] = <<>> /\ want[t] = Nothing
    BY DEF LockInit
  <2>2. <<>> \in Seq(Frames) /\ Len(<<>>) = 0
    OBVIOUS
  <2>3. DOMAIN <<>> = 1 .. 0
    BY <2>2
  <2>4. 1 .. 0 = {}
    OBVIOUS
  <2> QED BY <2>1, <2>3, <2>4
<1>3. \A t \in Threads : Ascending(t)
  BY <1>2 DEF Ascending
<1>4. \A t \in Threads : MutexesOf(t) = {}
  BY <1>2 DEF MutexesOf
<1> QED BY <1>1, <1>3, <1>4 DEF LockInv, Exclusive

-----------------------------------------------------------------------------
\* Along the waiting threads of a circle the ranks of what they want would grow for ever.
LEMMA WantsAscend ==
    ASSUME LockInv, NEW t \in Threads, NEW u \in Blockers(t),
           want[t] # Nothing, want[u] # Nothing, ~Resumed(u), Blockers(u) # {}
    PROVE  Rank(want[t].mx) < Rank(want[u].mx)
<1>1. u \in Threads /\ want[t].mx \in MutexesOf(u) /\ (u # t \/ want[t].mx.kind # "hub")
  BY DEF Blockers
<1>2. PICK i \in DOMAIN held[u] : want[t].mx = held[u][i].mx
  BY <1>1 DEF MutexesOf
<1>3. Before(want[t].mx, want[u].mx)
  BY <1>1, <1>2 DEF LockInv, Ascending
<1>4. ASSUME want[t].mx = want[u].mx, want[t].mx.kind = "hub"
      PROVE  FALSE
  <2>1. PICK w \in Threads : want[u].mx \in MutexesOf(w) /\ (w # u \/ want[u].mx.kind # "hub")
    BY DEF Blockers
  <2>2. w # u /\ want[u].mx \in MutexesOf(u)
    BY <1>1, <1>4, <2>1
  <2>3. MutexesOf(w) \cap MutexesOf(u) = {}
    BY <1>1, <2>1, <2>2 DEF LockInv, Exclusive
  <2> QED BY <2>1, <2>2, <2>3
<1> QED BY <1>3, <1>4 DEF Before

LEMMA NoCircle == LockInv => NobodyWaitsInACircle
<1> SUFFICES ASSUME LockInv, NEW S \in SUBSET {t \in Threads : ~Resumed(t)}, NEW s \in S,
                    \A t \in S : want[t] # Nothing /\ Blockers(t) \cap S # {}
             PROVE  FALSE
  BY DEF NobodyWaitsInACircle
<1>1. ASSUME NEW t \in S
      PROVE  \E u \in S : Rank(want[t].mx) < Rank(want[u].mx)
  <2>1. PICK u \in S : u \in Blockers(t)
    BY <1>1
  <2>2. ~Resumed(u) /\ want[u] # Nothing /\ want[t] # Nothing /\ Blockers(u) # {} /\ t \in Threads
    OBVIOUS
  <2> QED BY <2>1, <2>2, WantsAscend
<1>2. \A t \in S : Rank(want[t].mx) \in 1 .. 4
  BY DEF Rank
<1>3. PICK t2 \in S : Rank(want[s].mx) < Rank(want[t2].mx)
  BY <1>1
<1>4. PICK t3 \in S : Rank(want[t2].mx) < Rank(want[t3].mx)
  BY <1>1
<1>5. PICK t4 \in S : Rank(want[t3].mx) < Rank(want[t4].mx)
  BY <1>1
<1>6. PICK t5 \in S : Rank(want[t4].mx) < Rank(want[t5].mx)
  BY <1>1
<1> QED BY <1>2, <1>3, <1>4, <1>5, <1>6

\* However many contexts, exchanges and threads there are: as hubs call contexts, and both
\* the scheduler, with their locks held, and never the other way round, nobody waits in a
\* circle, unless a coroutine was resumed under a lock (BasicContext, BasicExchangeContext).
THEOREM LocksAreOrdered == LockSpec => []NobodyWaitsInACircle
<1> QED BY InitLockInv, NextLockInv, NoCircle, PTL DEF LockSpec

-----------------------------------------------------------------------------
(* The atomic future: whoever reads, reads a value. *)

\* The flag is set only while there is a value, reset excepted, which no reader sees.
FutureInv ==
    /\ valid \in BOOLEAN
    /\ reader \in [Readers -> {"idle", "test", "blocked", "read"}]
    /\ writer \in {"idle", "construct", "publish", "unmark"}
    /\ valid /\ writer = "idle" => value = "alive"
    /\ writer \in {"construct", "publish"} => ~valid
    /\ writer = "publish" => value = "alive"
    /\ writer = "unmark" => \A r \in Readers : reader[r] = "idle"
    /\ \A r \in Readers : reader[r] = "read" => valid

LEMMA FutureStep == FutureInv /\ [FutureNext]_futureVars => FutureInv'
<1> SUFFICES ASSUME FutureInv, [FutureNext]_futureVars
             PROVE  FutureInv'
  OBVIOUS
<1>1. CASE Set
  BY <1>1 DEF Set, Ready, FutureInv
<1>2. CASE Constructed
  BY <1>2 DEF Constructed, FutureInv
<1>3. CASE Publish
  BY <1>3 DEF Publish, FutureInv
<1>4. CASE Reset
  BY <1>4 DEF Reset, FutureInv
<1>5. CASE Unmark
  BY <1>5 DEF Unmark, FutureInv
<1>6. ASSUME NEW r \in Readers, NEW w \in BOOLEAN, Come(r, w)
      PROVE  FutureInv'
  BY <1>6 DEF Come, FutureInv
<1>7. ASSUME NEW r \in Readers, Test(r)
      PROVE  FutureInv'
  BY <1>7 DEF Test, Ready, FutureInv
<1>8. ASSUME NEW r \in Readers, Unblock(r) \/ Done(r)
      PROVE  FutureInv'
  BY <1>8 DEF Unblock, Done, FutureInv
<1>9. CASE UNCHANGED futureVars
  BY <1>9 DEF futureVars, FutureInv
<1> QED BY <1>1, <1>2, <1>3, <1>4, <1>5, <1>6, <1>7, <1>8, <1>9 DEF FutureNext

\* Any number of readers, of sets and of resets: get, wait, try_get and the copy
\* constructor find a value that is constructed and not destroyed (atomic_future.h).
THEOREM FutureReadsAreAlive == FutureSpec => []ReadsAreAlive
<1>1. FutureInit => FutureInv
  BY DEF FutureInit, FutureInv
<1>2. FutureInv => ReadsAreAlive
  BY DEF FutureInv, ReadsAreAlive
<1> QED BY <1>1, <1>2, FutureStep, PTL DEF FutureSpec

-----------------------------------------------------------------------------
(* The function wrapper: a callable has one owner, and is destroyed once. *)

Holders(h, f) == {s \in Functions_ : h[s].fn = f}

\* Somebody holds the callable and nobody destroyed it, or the other way round.
OwnedOrDestroyed(h, d, f) ==
    \/ d[f] = 0 /\ \E s \in Functions_ : Holders(h, f) = {s}
    \/ d[f] = 1 /\ Holders(h, f) = {}

FunctionInv ==
    /\ holds \in [Functions_ -> [kind : {"raw", "invalid", "small", "large", "placed"}, fn : Nat]]
    /\ made \in 0 .. MaxCallables
    /\ destroyed \in [Callables -> Nat]
    /\ \A s \in Functions_ : holds[s].fn <= made
    /\ \A f \in Callables : f > made => destroyed[f] = 0
    /\ \A f \in 1 .. made : OwnedOrDestroyed(holds, destroyed, f)

\* What is not held by s, or is held by another, is not touched when s lets go.
LEMMA Released ==
    ASSUME FunctionInv, NEW s \in Functions_, NEW new,
           new.fn = 0, new \in [kind : {"raw", "invalid", "small", "large", "placed"}, fn : Nat],
           holds' = [holds EXCEPT ![s] = new], destroyed' = Destroyed(s), made' = made
    PROVE  FunctionInv'
<1>1. \A u \in Functions_ : holds'[u] = IF u = s THEN new ELSE holds[u]
  BY DEF FunctionInv
<1>2. \A f \in Callables : destroyed'[f] = IF f = holds[s].fn THEN destroyed[f] + 1 ELSE destroyed[f]
  BY DEF Destroyed
<1>3. ASSUME NEW f \in 1 .. made
      PROVE  OwnedOrDestroyed(holds', destroyed', f)
  <2>1. OwnedOrDestroyed(holds, destroyed, f) /\ f \in Callables /\ f # 0
    BY CallablesBound DEF FunctionInv, Callables
  <2>2. CASE f = holds[s].fn
    <3>1. Holders(holds, f) = {s} /\ destroyed[f] = 0
      BY <2>1, <2>2 DEF OwnedOrDestroyed, Holders
    <3>2. \A u \in Functions_ : holds[u].fn = f => u = s
      BY <3>1 DEF Holders
    <3>3. Holders(holds', f) = {}
      BY <1>1, <2>1, <3>2 DEF Holders
    <3>4. destroyed'[f] = 1
      BY <1>2, <2>1, <2>2, <3>1
    <3> QED BY <3>3, <3>4 DEF OwnedOrDestroyed
  <2>3. CASE f # holds[s].fn
    <3>1. Holders(holds', f) = Holders(holds, f)
      BY <1>1, <2>1, <2>3 DEF Holders
    <3>2. destroyed'[f] = destroyed[f]
      BY <1>2, <2>1, <2>3
    <3> QED BY <2>1, <3>1, <3>2 DEF OwnedOrDestroyed
  <2> QED BY <2>2, <2>3
<1>4. /\ holds' \in [Functions_ -> [kind : {"raw", "invalid", "small", "large", "placed"}, fn : Nat]]
      /\ \A u \in Functions_ : holds'[u].fn <= made
  BY <1>1, CallablesBound DEF FunctionInv
<1>5. destroyed' \in [Callables -> Nat]
  BY DEF FunctionInv, Destroyed
<1>6. \A f \in Callables : f > made => destroyed'[f] = 0
  BY <1>2, CallablesBound DEF FunctionInv
<1> QED BY <1>3, <1>4, <1>5, <1>6 DEF FunctionInv

\* What o held is s's now, and what s held was destroyed, if it held anything.
LEMMA Moved ==
    ASSUME FunctionInv, NEW s \in Functions_, NEW o \in Functions_, s # o,
           holds' = [holds EXCEPT ![s] = MovedTo(o), ![o] = MovedFrom(o)],
           destroyed' = Destroyed(s), made' = made
    PROVE  FunctionInv'
<1>1. /\ holds'[s] = holds[o] /\ holds'[o] = [holds[o] EXCEPT !.fn = 0]
      /\ \A u \in Functions_ : u # s /\ u # o => holds'[u] = holds[u]
      /\ holds'[o].fn = 0
  BY DEF FunctionInv, MovedTo, MovedFrom
<1>2. \A f \in Callables : destroyed'[f] = IF f = holds[s].fn THEN destroyed[f] + 1 ELSE destroyed[f]
  BY DEF Destroyed
<1>3. ASSUME NEW f \in 1 .. made
      PROVE  OwnedOrDestroyed(holds', destroyed', f)
  <2>1. OwnedOrDestroyed(holds, destroyed, f) /\ f \in Callables /\ f # 0
    BY CallablesBound DEF FunctionInv, Callables
  <2>2. CASE f = holds[s].fn
    <3>1. Holders(holds, f) = {s} /\ destroyed[f] = 0
      BY <2>1, <2>2 DEF OwnedOrDestroyed, Holders
    <3>2. \A u \in Functions_ : holds[u].fn = f => u = s
      BY <3>1 DEF Holders
    <3>3. Holders(holds', f) = {}
      BY <1>1, <2>1, <3>2 DEF Holders
    <3>4. destroyed'[f] = 1
      BY <1>2, <2>1, <2>2, <3>1
    <3> QED BY <3>3, <3>4 DEF OwnedOrDestroyed
  <2>3. CASE f = holds[o].fn /\ f # holds[s].fn
    <3>1. Holders(holds, f) = {o} /\ destroyed[f] = 0
      BY <2>1, <2>3 DEF OwnedOrDestroyed, Holders
    <3>2. \A u \in Functions_ : holds[u].fn = f => u = o
      BY <3>1 DEF Holders
    <3>3. Holders(holds', f) = {s}
      BY <1>1, <2>1, <2>3, <3>2 DEF Holders
    <3>4. destroyed'[f] = 0
      BY <1>2, <2>1, <2>3, <3>1
    <3> QED BY <3>3, <3>4 DEF OwnedOrDestroyed
  <2>4. CASE f # holds[o].fn /\ f # holds[s].fn
    <3>1. Holders(holds', f) = Holders(holds, f)
      BY <1>1, <2>1, <2>4 DEF Holders
    <3>2. destroyed'[f] = destroyed[f]
      BY <1>2, <2>1, <2>4
    <3> QED BY <2>1, <3>1, <3>2 DEF OwnedOrDestroyed
  <2> QED BY <2>2, <2>3, <2>4
<1>4. /\ holds' \in [Functions_ -> [kind : {"raw", "invalid", "small", "large", "placed"}, fn : Nat]]
      /\ \A u \in Functions_ : holds'[u].fn <= made
  BY <1>1, CallablesBound DEF FunctionInv, MovedTo, MovedFrom
<1>5. destroyed' \in [Callables -> Nat]
  BY DEF FunctionInv, Destroyed
<1>6. \A f \in Callables : f > made => destroyed'[f] = 0
  BY <1>2, CallablesBound DEF FunctionInv
<1> QED BY <1>3, <1>4, <1>5, <1>6 DEF FunctionInv

\* Nothing is destroyed by giving up what holds nothing.
LEMMA NothingDestroyed ==
    ASSUME FunctionInv, NEW s \in Functions_, holds[s] = Raw
    PROVE  Destroyed(s) = destroyed
<1>1. \A f \in Callables : f # holds[s].fn
  BY CallablesBound DEF Raw, Callables
<1> QED BY <1>1 DEF Destroyed, FunctionInv

LEMMA FunctionStep == FunctionInv /\ [FunctionNext]_functionVars => FunctionInv'
<1> SUFFICES ASSUME FunctionInv, [FunctionNext]_functionVars
             PROVE  FunctionInv'
  OBVIOUS
<1>1. ASSUME NEW s \in Functions_, ConstructEmpty(s)
      PROVE  FunctionInv'
  <2>1. destroyed' = Destroyed(s)
    BY <1>1, NothingDestroyed DEF ConstructEmpty
  <2> QED BY <1>1, <2>1, Released DEF ConstructEmpty, Invalid
<1>2. ASSUME NEW s \in Functions_, Clear(s) \/ Destroy(s)
      PROVE  FunctionInv'
  BY <1>2, Released DEF Clear, Destroy, Invalid, Raw
<1>3. ASSUME NEW s \in Functions_, NEW o \in Functions_, MoveConstruct(s, o) \/ MoveAssign(s, o)
      PROVE  FunctionInv'
  <2>1. CASE s # o
    <3>1. destroyed' = Destroyed(s)
      BY <1>3, <2>1, NothingDestroyed DEF MoveConstruct, MoveAssign
    <3> QED BY <1>3, <2>1, <3>1, Moved DEF MoveConstruct, MoveAssign
  <2>2. CASE s = o
    BY <1>3, <2>2 DEF MoveConstruct, MoveAssign, FunctionInv
  <2> QED BY <2>1, <2>2
<1>4. ASSUME NEW s \in Functions_, NEW k \in {"small", "large", "placed"}, Construct(s, k)
      PROVE  FunctionInv'
  <2>1. /\ holds[s].fn = 0 /\ made \in Nat /\ made' = made + 1 /\ made' \in 1 .. MaxCallables
        /\ holds' = [holds EXCEPT ![s] = [kind |-> k, fn |-> made']] /\ destroyed' = destroyed
    BY <1>4, CallablesBound DEF Construct, Raw, Wrap, FunctionInv
  <2>2. \A u \in Functions_ : holds'[u] = IF u = s THEN [kind |-> k, fn |-> made'] ELSE holds[u]
    BY <2>1 DEF FunctionInv
  <2>3. \A u \in Functions_ : holds[u].fn \in Nat /\ holds[u].fn <= made
    BY DEF FunctionInv
  <2>4. OwnedOrDestroyed(holds', destroyed', made')
    <3>1. Holders(holds', made') = {s}
      BY <2>1, <2>2, <2>3 DEF Holders
    <3>2. destroyed'[made'] = 0
      BY <2>1 DEF FunctionInv, Callables
    <3> QED BY <3>1, <3>2 DEF OwnedOrDestroyed
  <2>5. ASSUME NEW f \in 1 .. made
        PROVE  OwnedOrDestroyed(holds', destroyed', f)
    <3>1. Holders(holds', f) = Holders(holds, f)
      BY <2>1, <2>2 DEF Holders
    <3> QED BY <2>1, <3>1 DEF OwnedOrDestroyed, FunctionInv
  <2>6. \A f \in 1 .. made' : OwnedOrDestroyed(holds', destroyed', f)
    <3>1. \A f \in 1 .. made' : f \in 1 .. made \/ f = made'
      BY <2>1
    <3> QED BY <2>4, <2>5, <3>1, Zenon
  <2>7. /\ holds' \in [Functions_ -> [kind : {"raw", "invalid", "small", "large", "placed"}, fn : Nat]]
        /\ \A u \in Functions_ : holds'[u].fn <= made'
    BY <2>1, <2>2, <2>3 DEF FunctionInv
  <2>8. destroyed' \in [Callables -> Nat] /\ \A f \in Callables : f > made' => destroyed'[f] = 0
    BY <2>1, CallablesBound DEF FunctionInv, Callables
  <2>9. made' \in 0 .. MaxCallables
    BY <2>1, CallablesBound
  <2> QED BY <2>6, <2>7, <2>8, <2>9 DEF FunctionInv
<1>5. CASE UNCHANGED functionVars
  BY <1>5 DEF functionVars, FunctionInv, OwnedOrDestroyed, Holders
<1> QED BY <1>1, <1>2, <1>3, <1>4, <1>5 DEF FunctionNext

\* However many functions are moved, assigned over one another and over themselves,
\* cleared and destroyed, each callable is destroyed once and has one holder until then
\* (function.h).
THEOREM CallablesHaveOneOwner == FunctionSpec => []OneOwner
<1>1. FunctionInit => FunctionInv
  BY CallablesBound DEF FunctionInit, FunctionInv, Raw
<1>2. FunctionInv => OneOwner
  <2> SUFFICES ASSUME FunctionInv, NEW f \in 1 .. made
               PROVE  Cardinality(Holders(holds, f)) + destroyed[f] = 1
    BY DEF OneOwner, Holders
  <2>1. OwnedOrDestroyed(holds, destroyed, f)
    BY DEF FunctionInv
  <2>2. CASE destroyed[f] = 0 /\ \E s \in Functions_ : Holders(holds, f) = {s}
    <3>1. PICK s \in Functions_ : Holders(holds, f) = {s}
      BY <2>2
    <3>2. Cardinality(Holders(holds, f)) = 1
      BY <3>1, FS_Singleton, Zenon
    <3> QED BY <2>2, <3>2
  <2>3. CASE destroyed[f] = 1 /\ Holders(holds, f) = {}
    BY <2>3, FS_EmptySet
  <2> QED BY <2>1, <2>2, <2>3 DEF OwnedOrDestroyed
<1> QED BY <1>1, <1>2, FunctionStep, PTL DEF FunctionSpec

-----------------------------------------------------------------------------
(* The module repository: of the modules with a name the newest makes the object. *)

Object == [name : Names, of : Modules, added : Nat]

\* NewestMakes, of one object.
AddedFirst(n, ms, m) == {i \in 1 .. n : ms[i] = m}
NewestOf(x, ms) ==
    /\ Offers(x.of, x.name) /\ AddedFirst(x.added, ms, x.of) # {}
    /\ \A m \in Modules :
          Offers(m, x.name) /\ AddedFirst(x.added, ms, m) # {} =>
              \E i \in AddedFirst(x.added, ms, x.of), j \in AddedFirst(x.added, ms, m) : j <= i

\* Files are opened once, and modules in the order in which they were added first.
OpenedInOrder(ms, os) ==
    /\ \A p, q \in DOMAIN os : os[p] = os[q] => p = q
    /\ \A i \in DOMAIN ms : \E p \in DOMAIN os : os[p] = ms[i]
    /\ \A p \in DOMAIN os : os[p] \in Modules => \E i \in DOMAIN ms : ms[i] = os[p]
    /\ \A i \in DOMAIN ms : \A p, q \in DOMAIN os :
          q <= p /\ os[p] = ms[i] /\ os[q] \in Modules => \E j \in DOMAIN ms : j <= i /\ ms[j] = os[q]

RepositoryInv ==
    /\ modules \in Seq(Modules) /\ opened \in Seq(Modules \cup Libraries)
    /\ objects \in Seq(Object)
    /\ \A o \in DOMAIN objects :
          objects[o].added \in DOMAIN modules /\ NewestOf(objects[o], modules)
    /\ OpenedInOrder(modules, opened)

\* The last position of a sequence with a property, given as the set of all of them.
LEMMA LastOf ==
    ASSUME NEW n \in Nat, NEW T \in SUBSET (1 .. n), T # {}
    PROVE  \E t \in T : \A u \in T : u <= t
<1> DEFINE Back == {n - t : t \in T}
<1>1. Back \in SUBSET (0 .. n) /\ Back # {}
  <2>1. \A t \in T : n - t \in 0 .. n
    OBVIOUS
  <2> QED BY <2>1
<1> HIDE DEF Back
<1>2. PICK b \in Back : \A c \in Back : b <= c
  BY <1>1, LeastTimeExists
<1>3. PICK t \in T : b = n - t
  BY DEF Back
<1>4. ASSUME NEW u \in T
      PROVE  u <= t
  <2>1. n - u \in Back /\ u \in Int /\ t \in Int
    BY DEF Back
  <2>2. n - t <= n - u
    BY <1>2, <1>3, <2>1
  <2> QED BY <2>1, <2>2
<1> QED BY <1>4

\* Inventory::find gives, of the modules in the list that offer the name, the one whose
\* file was opened last.
LEMMA FindsLastOpened ==
    ASSUME opened \in Seq(Modules \cup Libraries), NEW m, NEW n, Has(m, n),
           \A p, q \in DOMAIN opened : opened[p] = opened[q] => p = q,
           \A f \in Inventory(m) : \E p \in DOMAIN opened : opened[p] = f
    PROVE  /\ Find(m, n) \in Inventory(m) /\ Offers(Find(m, n), n)
           /\ \A p, q \in DOMAIN opened :
                 opened[p] = Find(m, n) /\ opened[q] \in Inventory(m) /\ Offers(opened[q], n)
                     => q <= p
<1> DEFINE at(f) == CHOOSE i \in DOMAIN opened : opened[i] = f
           Offering == {p \in DOMAIN opened : opened[p] \in Inventory(m) /\ Offers(opened[p], n)}
<1>1. \A p \in DOMAIN opened : at(opened[p]) = p
  OBVIOUS
<1>2. Offering \in SUBSET (1 .. Len(opened)) /\ Len(opened) \in Nat
  OBVIOUS
<1>3. Offering # {}
  <2>1. PICK f \in Inventory(m) : Offers(f, n)
    BY DEF Has
  <2>2. PICK p \in DOMAIN opened : opened[p] = f
    OBVIOUS
  <2> QED BY <2>1, <2>2
<1> HIDE DEF at
<1>4. PICK last \in Offering : \A p \in Offering : p <= last
  <2> HIDE DEF Offering
  <2> QED BY <1>2, <1>3, LastOf
<1>5. \A f \in Inventory(m) : Offers(f, n) => at(f) \in Offering /\ opened[at(f)] = f
  BY <1>1
<1> DEFINE Last(f) == Offers(f, n) /\ \A g \in Inventory(m) : Offers(g, n) => at(g) <= at(f)
<1>6. opened[last] \in Inventory(m) /\ Last(opened[last])
  BY <1>1, <1>4, <1>5
<1>7. Find(m, n) = CHOOSE f \in Inventory(m) : Last(f)
  BY Zenon DEF Find, at
<1>8. Find(m, n) \in Inventory(m) /\ Last(Find(m, n))
  <2> HIDE DEF Last
  <2> QED BY <1>6, <1>7
<1>9. \A p, q \in DOMAIN opened :
          opened[p] = Find(m, n) /\ opened[q] \in Inventory(m) /\ Offers(opened[q], n) => q <= p
  BY <1>1, <1>8
<1> QED BY <1>8, <1>9

\* create_something: what it makes satisfies NewestMakes at that moment.
LEMMA CreatesNewest ==
    ASSUME RepositoryInv, NEW n \in Names, \E i \in DOMAIN modules : Has(modules[i], n)
    PROVE  /\ LastWith(n) \in Modules
           /\ NewestOf([name |-> n, of |-> LastWith(n), added |-> Len(modules)], modules)
<1> DEFINE Having == {i \in DOMAIN modules : Has(modules[i], n)}
           Last(i) == Has(modules[i], n) /\ \A j \in DOMAIN modules : Has(modules[j], n) => j <= i
           i0 == CHOOSE i \in DOMAIN modules : Last(i)
           f0 == LastWith(n)
<1>1. modules \in Seq(Modules) /\ opened \in Seq(Modules \cup Libraries)
      /\ OpenedInOrder(modules, opened) /\ DOMAIN modules = 1 .. Len(modules)
      /\ DOMAIN opened = 1 .. Len(opened)
  BY DEF RepositoryInv
<1>2. i0 \in DOMAIN modules /\ Last(i0)
  <2>1. Having \in SUBSET (1 .. Len(modules)) /\ Having # {} /\ Len(modules) \in Nat
    BY <1>1
  <2>2. PICK i \in Having : \A j \in Having : j <= i
    <3> HIDE DEF Having
    <3> QED BY <2>1, LastOf
  <2>3. i \in DOMAIN modules /\ Last(i)
    BY <2>2
  <2> HIDE DEF Last
  <2> QED BY <2>3
<1>3. f0 = Find(modules[i0], n)
  BY Zenon DEF LastWith
<1> HIDE DEF i0
<1>4. modules[i0] \in Modules
  BY <1>1, <1>2
<1>5. Inventory(modules[i0]) \subseteq Modules
      /\ \A f \in Inventory(modules[i0]) : \E p \in DOMAIN opened : opened[p] = f
  BY <1>1, <1>2, <1>4 DEF Inventory, InSeq, OpenedInOrder
<1>6. /\ f0 \in Inventory(modules[i0]) /\ Offers(f0, n)
      /\ \A p, q \in DOMAIN opened :
            opened[p] = f0 /\ opened[q] \in Inventory(modules[i0]) /\ Offers(opened[q], n)
                => q <= p
  BY <1>1, <1>2, <1>3, <1>5, FindsLastOpened DEF OpenedInOrder
<1> HIDE DEF f0
<1> DEFINE added(m) == AddedFirst(Len(modules), modules, m)
<1>7. f0 \in Modules /\ added(f0) # {}
  <2>1. PICK p \in DOMAIN opened : opened[p] = f0
    BY <1>5, <1>6
  <2>2. PICK i \in DOMAIN modules : modules[i] = f0
    BY <1>1, <1>5, <1>6, <2>1 DEF OpenedInOrder
  <2> QED BY <1>1, <1>5, <1>6, <2>2 DEF AddedFirst
<1>8. ASSUME NEW m \in Modules, Offers(m, n), added(m) # {}
      PROVE  \E i \in added(f0), j \in added(m) : j <= i
  <2>1. PICK k \in DOMAIN modules : modules[k] = m
    BY <1>1, <1>8 DEF AddedFirst
  <2>2. CASE shared
    <3>1. PICK p \in DOMAIN opened : opened[p] = f0
      BY <1>5, <1>6
    <3>2. PICK q \in DOMAIN opened : opened[q] = m
      BY <1>1, <2>1 DEF OpenedInOrder
    <3>3. m \in Inventory(modules[i0])
      BY <2>2, <3>2 DEF Inventory, InSeq
    <3>4. q <= p
      BY <1>6, <1>8, <3>1, <3>2, <3>3
    <3>5. PICK i \in added(f0) : TRUE
      BY <1>7
    <3>6. i \in DOMAIN modules /\ modules[i] = f0
      BY <1>1, <3>5 DEF AddedFirst
    <3>7. PICK j \in DOMAIN modules : j <= i /\ modules[j] = m
      BY <1>1, <3>1, <3>2, <3>4, <3>6 DEF OpenedInOrder
    <3>8. j \in added(m)
      BY <1>1, <3>7 DEF AddedFirst
    <3> QED BY <3>5, <3>7, <3>8
  <2>3. CASE ~shared
    <3>1. f0 = modules[i0] /\ Inventory(m) = {m}
      BY <1>6, <2>3 DEF Inventory
    <3>2. Has(modules[k], n)
      BY <1>8, <2>1, <3>1 DEF Has
    <3>3. k <= i0
      BY <1>2, <3>2
    <3>4. i0 \in added(f0) /\ k \in added(m)
      BY <1>1, <1>2, <2>1, <3>1 DEF AddedFirst
    <3> QED BY <3>3, <3>4
  <2> QED BY <2>2, <2>3
<1>9. NewestOf([name |-> n, of |-> f0, added |-> Len(modules)], modules)
  BY <1>6, <1>7, <1>8 DEF NewestOf
<1> QED BY <1>7, <1>9 DEF f0

\* What is added later changes nothing for the objects that were made before.
LEMMA AddedLater ==
    ASSUME NEW ms \in Seq(Modules), NEW m \in Modules, NEW x, x.added \in DOMAIN ms, NewestOf(x, ms)
    PROVE  x.added \in DOMAIN Append(ms, m) /\ NewestOf(x, Append(ms, m))
<1>1. /\ \A i \in 1 .. x.added : Append(ms, m)[i] = ms[i]
      /\ x.added \in DOMAIN Append(ms, m)
  BY AppendProperties
<1>2. \A f : AddedFirst(x.added, Append(ms, m), f) = AddedFirst(x.added, ms, f)
  BY <1>1 DEF AddedFirst
<1> QED BY <1>1, <1>2 DEF NewestOf

LEMMA AddModuleStep ==
    ASSUME RepositoryInv, NEW m \in Modules, AddModule(m)
    PROVE  RepositoryInv'
<1>1. /\ modules \in Seq(Modules) /\ opened \in Seq(Modules \cup Libraries)
      /\ OpenedInOrder(modules, opened)
      /\ modules' = Append(modules, m) /\ objects' = objects
      /\ opened' = Opened(m)
  BY DEF RepositoryInv, AddModule
<1>2. /\ modules' \in Seq(Modules) /\ Len(modules') = Len(modules) + 1 /\ Len(modules) \in Nat
      /\ \A i \in DOMAIN modules : i \in DOMAIN modules' /\ modules'[i] = modules[i]
      /\ Len(modules') \in DOMAIN modules' /\ modules'[Len(modules')] = m
      /\ \A i \in DOMAIN modules' : i \in DOMAIN modules \/ i = Len(modules')
      /\ \A i \in DOMAIN modules' : i <= Len(modules')
  BY <1>1, AppendProperties
<1>3. \A o \in DOMAIN objects :
          objects[o].added \in DOMAIN modules' /\ NewestOf(objects[o], modules')
  BY <1>1, AddedLater DEF RepositoryInv
<1>4. opened' \in Seq(Modules \cup Libraries) /\ OpenedInOrder(modules', opened')
  <2>1. CASE m \in InSeq(opened)
    <3>1. opened' = opened /\ \E p \in DOMAIN opened : opened[p] = m
      BY <1>1, <2>1 DEF Opened, InSeq
    <3>2. ASSUME NEW i \in DOMAIN modules', NEW p \in DOMAIN opened, NEW q \in DOMAIN opened,
                 q <= p, opened[p] = modules'[i], opened[q] \in Modules
          PROVE  \E j \in DOMAIN modules' : j <= i /\ modules'[j] = opened[q]
      <4>1. CASE i \in DOMAIN modules
        BY <1>1, <1>2, <3>2, <4>1 DEF OpenedInOrder
      <4>2. CASE i = Len(modules')
        BY <1>1, <1>2, <3>2, <4>2 DEF OpenedInOrder
      <4> QED BY <1>2, <4>1, <4>2
    <3>3. \A i \in DOMAIN modules' : \E p \in DOMAIN opened : opened[p] = modules'[i]
      BY <1>1, <1>2, <3>1 DEF OpenedInOrder
    <3>4. \A p \in DOMAIN opened : opened[p] \in Modules =>
              \E i \in DOMAIN modules' : modules'[i] = opened[p]
      BY <1>1, <1>2 DEF OpenedInOrder
    <3>5. \A p, q \in DOMAIN opened : opened[p] = opened[q] => p = q
      BY <1>1 DEF OpenedInOrder
    <3>6. OpenedInOrder(modules', opened)
      BY <3>2, <3>3, <3>4, <3>5 DEF OpenedInOrder
    <3> QED BY <1>1, <3>1, <3>6
  <2>2. CASE m \notin InSeq(opened)
    <3>1. /\ opened' = Append(opened, m)
          /\ \A p \in DOMAIN opened : opened[p] # m
      BY <1>1, <2>2 DEF Opened, InSeq
    <3>2. /\ opened' \in Seq(Modules \cup Libraries)
          /\ \A p \in DOMAIN opened : p \in DOMAIN opened' /\ opened'[p] = opened[p]
          /\ Len(opened') \in DOMAIN opened' /\ opened'[Len(opened')] = m
          /\ \A p \in DOMAIN opened' : p \in DOMAIN opened \/ p = Len(opened')
          /\ \A p \in DOMAIN opened : p < Len(opened')
      BY <1>1, <3>1, AppendProperties
    <3>3. \A p, q \in DOMAIN opened' : opened'[p] = opened'[q] => p = q
      BY <1>1, <3>1, <3>2 DEF OpenedInOrder
    <3>4. \A i \in DOMAIN modules' : \E p \in DOMAIN opened' : opened'[p] = modules'[i]
      BY <1>1, <1>2, <3>2 DEF OpenedInOrder
    <3>5. \A p \in DOMAIN opened' : opened'[p] \in Modules =>
              \E i \in DOMAIN modules' : modules'[i] = opened'[p]
      BY <1>1, <1>2, <3>2 DEF OpenedInOrder
    <3>6. ASSUME NEW i \in DOMAIN modules', NEW p \in DOMAIN opened', NEW q \in DOMAIN opened',
                 q <= p, opened'[p] = modules'[i], opened'[q] \in Modules
          PROVE  \E j \in DOMAIN modules' : j <= i /\ modules'[j] = opened'[q]
      <4>1. CASE i = Len(modules')
        BY <1>2, <3>5, <3>6, <4>1
      <4>2. CASE i \in DOMAIN modules
        <5>1. modules'[i] # m
          BY <1>1, <1>2, <3>1, <4>2 DEF OpenedInOrder
        <5>2. p \in DOMAIN opened
          BY <3>2, <3>6, <5>1
        <5>3. q \in DOMAIN opened
          BY <1>1, <3>2, <3>6, <5>2
        <5> QED BY <1>1, <1>2, <3>2, <3>6, <4>2, <5>2, <5>3 DEF OpenedInOrder
      <4> QED BY <1>2, <4>1, <4>2
    <3> QED BY <3>2, <3>3, <3>4, <3>5, <3>6 DEF OpenedInOrder
  <2> QED BY <2>1, <2>2
<1> QED BY <1>1, <1>2, <1>3, <1>4 DEF RepositoryInv

LEMMA AddLibraryStep ==
    ASSUME RepositoryInv, NEW f \in Libraries, AddLibrary(f)
    PROVE  RepositoryInv'
<1>1. /\ opened \in Seq(Modules \cup Libraries) /\ OpenedInOrder(modules, opened)
      /\ opened' = Opened(f) /\ modules' = modules /\ objects' = objects
      /\ modules \in Seq(Modules) /\ f \notin Modules
  BY FilesAreOfOneKind DEF RepositoryInv, AddLibrary
<1>2. CASE f \in InSeq(opened)
  BY <1>1, <1>2 DEF RepositoryInv, Opened
<1>3. CASE f \notin InSeq(opened)
  <2>1. /\ opened' = Append(opened, f)
        /\ \A p \in DOMAIN opened : opened[p] # f
    BY <1>1, <1>3 DEF Opened, InSeq
  <2>2. /\ opened' \in Seq(Modules \cup Libraries)
        /\ \A p \in DOMAIN opened : p \in DOMAIN opened' /\ opened'[p] = opened[p]
        /\ \A p \in DOMAIN opened' : p \in DOMAIN opened \/ (p = Len(opened') /\ opened'[p] = f)
    BY <1>1, <2>1, AppendProperties
  <2>3. \A i \in DOMAIN modules : modules[i] # f
    BY <1>1
  <2>4. OpenedInOrder(modules, opened')
    BY <1>1, <2>1, <2>2, <2>3 DEF OpenedInOrder
  <2> QED BY <1>1, <2>2, <2>4 DEF RepositoryInv
<1> QED BY <1>2, <1>3

LEMMA CreateStep ==
    ASSUME RepositoryInv, NEW n \in Names, Create(n)
    PROVE  RepositoryInv'
<1> DEFINE x == [name |-> n, of |-> LastWith(n), added |-> Len(modules)]
<1>1. /\ objects \in Seq(Object) /\ modules \in Seq(Modules)
      /\ objects' = Append(objects, x) /\ UNCHANGED <<shared, modules, opened>>
      /\ \E i \in DOMAIN modules : Has(modules[i], n)
  BY DEF RepositoryInv, Create
<1>2. LastWith(n) \in Modules /\ NewestOf(x, modules)
  BY <1>1, CreatesNewest
<1>3. x \in Object /\ x.added \in DOMAIN modules
  BY <1>1, <1>2 DEF Object
<1> HIDE DEF x
<1>4. /\ objects' \in Seq(Object)
      /\ \A o \in DOMAIN objects' :
            (o \in DOMAIN objects /\ objects'[o] = objects[o]) \/ objects'[o] = x
  BY <1>1, <1>3, AppendProperties
<1>5. \A o \in DOMAIN objects' :
          objects'[o].added \in DOMAIN modules /\ NewestOf(objects'[o], modules)
  BY <1>2, <1>3, <1>4 DEF RepositoryInv
<1> QED BY <1>1, <1>4, <1>5 DEF RepositoryInv

\* An object is made by the newest of the modules with its name: a module added later
\* replaces the earlier ones, in any order of additions, with libraries among them, and
\* whether or not the loader gives all modules one list of factories (loader.cpp).
THEOREM NewestModuleMakes == RepositorySpec => []NewestMakes
<1>1. RepositoryInit => RepositoryInv
  <2> SUFFICES ASSUME RepositoryInit
               PROVE  RepositoryInv
    OBVIOUS
  <2>1. /\ modules = <<>> /\ opened = <<>> /\ objects = <<>>
        /\ \A i : i \notin 1 .. 0
    BY DEF RepositoryInit
  <2>2. DOMAIN modules = 1 .. 0 /\ DOMAIN opened = 1 .. 0 /\ DOMAIN objects = 1 .. 0
    BY <2>1
  <2> QED BY <2>1, <2>2 DEF RepositoryInv, OpenedInOrder
<1>2. RepositoryInv /\ [RepositoryNext]_repositoryVars => RepositoryInv'
  <2>1. RepositoryInv /\ UNCHANGED repositoryVars => RepositoryInv'
    BY DEF RepositoryInv, repositoryVars
  <2> QED BY <2>1, AddModuleStep, AddLibraryStep, CreateStep DEF RepositoryNext
<1>3. RepositoryInv => NewestMakes
  BY DEF RepositoryInv, NewestMakes, NewestOf, Added, AddedFirst
<1> QED BY <1>1, <1>2, <1>3, PTL DEF RepositorySpec

-----------------------------------------------------------------------------
(* The configuration.  What the code does by recursion on a control is first shown to be what   *)
(* it does of a control and of those it holds; then a control is read as it was declared if     *)
(* those it holds are, so by induction on the depth every control is.                           *)

\* An empty object.
LEMMA NoMembers == DOMAIN <<>> = {} /\ \A F : (DOMAIN F = {} /\ F = [x \in {} |-> F[x]]) => F = <<>>
  OBVIOUS

\* Pairs made an object.
LEMMA ObjectIsFunction ==
    ASSUME NEW pairs
    PROVE  /\ AsObject(pairs) = [k \in DOMAIN AsObject(pairs) |-> AsObject(pairs)[k]]
           /\ AsObject(<<>>) = <<>>
<1>1. AsObject(pairs) = [k \in DOMAIN AsObject(pairs) |-> AsObject(pairs)[k]]
  BY DEF AsObject
<1>2. AsObject(<<>>) = <<>>
  <2> DEFINE all == {<<>>[k] : k \in DOMAIN <<>>}
             V(key) == CHOOSE v \in {p[2] : p \in all} : <<key, v>> \in all
             K == {p[1] : p \in all}
  <2>1. K = {}
    BY NoMembers
  <2>2. AsObject(<<>>) = [key \in K |-> V(key)]
    BY Zenon DEF AsObject
  <2> HIDE DEF V, K
  <2>3. /\ DOMAIN AsObject(<<>>) = {}
        /\ AsObject(<<>>) = [x \in {} |-> AsObject(<<>>)[x]]
    BY <2>1, <2>2
  <2> QED BY <2>3, NoMembers
<1> QED BY <1>1, <1>2

\* Rules are read as an object.
LEMMA RulesAreRead ==
    ASSUME NEW rules
    PROVE  /\ ReadRules(VisibilityToJson(rules)) = AsObject(rules)
           /\ ReadRules(<<>>) = <<>>
<1> DEFINE json == VisibilityToJson(rules)
           values == AsObject(rules)
<1>1. json = [v \in DOMAIN values |->
                IF values[v] = <<>> THEN [true |-> TRUE] ELSE [list |-> values[v]]]
  BY Zenon DEF VisibilityToJson
<1>2. values = [v \in DOMAIN values |-> values[v]]
  BY ObjectIsFunction
<1> HIDE DEF json, values
<1>3. DOMAIN json = DOMAIN values
  BY <1>1
<1>4. ASSUME NEW v \in DOMAIN values
      PROVE  (IF "true" \in DOMAIN json[v] THEN <<>> ELSE json[v].list) = values[v]
  <2>1. CASE values[v] = <<>>
    <3>1. json[v] = [true |-> TRUE]
      BY <1>1, <2>1
    <3>2. "true" \in DOMAIN json[v]
      BY <3>1
    <3> QED BY <2>1, <3>2
  <2>2. CASE values[v] # <<>>
    <3>1. json[v] = [list |-> values[v]]
      BY <1>1, <2>2
    <3>2. "true" \notin DOMAIN json[v] /\ json[v].list = values[v]
      BY <3>1
    <3> QED BY <3>2
  <2> QED BY <2>1, <2>2
<1>5. ReadRules(json) = values
  BY <1>2, <1>3, <1>4 DEF ReadRules
<1>6. ReadRules(<<>>) = <<>>
  BY NoMembers DEF ReadRules
<1> QED BY <1>5, <1>6 DEF json, values

\* Options, their rules without an order.
UnorderedOptions(o) == [o EXCEPT !.show_if = AsObject(@), !.hide_if = AsObject(@)]

\* Options are read so, also those that are left out.
LEMMA OptionsAreRead ==
    ASSUME NEW o, o = Options(o.read_only, o.show_if, o.hide_if)
    PROVE  /\ o = DefaultOpts => ReadOptions(<<>>) = UnorderedOptions(o)
           /\ ReadOptions(OptionsToJson(o)) = UnorderedOptions(o)
<1> DEFINE N == {"read_only", "show_if", "hide_if"}
           json == OptionsToJson(o)
           V(f) == IF f = "read_only" THEN o[f] ELSE AsObject(o[f])
<1>1. DOMAIN o = N /\ UnorderedOptions(o) = [f \in N |-> V(f)]
  BY DEF Options, UnorderedOptions
<1>2. /\ DOMAIN DefaultOpts = N
      /\ DefaultOpts.show_if = <<>> /\ DefaultOpts.hide_if = <<>>
  BY DEF DefaultOpts, Options
<1>3. /\ DOMAIN json = {f \in N : o[f] # DefaultOpts[f]}
      /\ \A f \in DOMAIN json :
            json[f] = IF f = "read_only" THEN o[f] ELSE VisibilityToJson(o[f])
  BY <1>2 DEF OptionsToJson, NotDefault
<1>4. \A f \in N \ {"read_only"} :
        /\ ReadRules(VisibilityToJson(o[f])) = V(f) /\ DefaultOpts[f] = <<>>
        /\ o[f] = <<>> => V(f) = <<>>
  <2>1. \A f \in N : ReadRules(VisibilityToJson(o[f])) = AsObject(o[f])
    BY RulesAreRead
  <2>2. AsObject(<<>>) = <<>>
    BY ObjectIsFunction
  <2>3. \A f \in N \ {"read_only"} : DefaultOpts[f] = <<>>
    BY <1>2
  <2> QED BY <2>1, <2>2, <2>3
<1>5. ReadRules(<<>>) = <<>>
  BY NoMembers DEF ReadRules
<1>6. V("read_only") = o["read_only"]
  OBVIOUS
<1>7. ReadOptions(json) = UnorderedOptions(o)
  <2> HIDE DEF json, V
  <2>1. ASSUME NEW f \in N
        PROVE  ReadOptions(json)[f] = V(f)
    BY <1>2, <1>3, <1>4, <1>5, <1>6 DEF ReadOptions, Member
  <2>2. ReadOptions(json) = [f \in N |-> ReadOptions(json)[f]]
    BY <1>2 DEF ReadOptions
  <2> QED BY <1>1, <2>1, <2>2
<1>8. ASSUME o = DefaultOpts
      PROVE  ReadOptions(<<>>) = UnorderedOptions(o)
  <2> HIDE DEF V
  <2>1. ASSUME NEW f \in N
        PROVE  ReadOptions(<<>>)[f] = V(f)
    BY <1>2, <1>4, <1>5, <1>6, <1>8, NoMembers DEF ReadOptions, Member
  <2>2. ReadOptions(<<>>) = [f \in N |-> ReadOptions(<<>>)[f]]
    BY <1>2 DEF ReadOptions
  <2> QED BY <1>1, <2>1, <2>2
<1> QED BY <1>7, <1>8

\* Ranges of numbers, dates and times are read as they were, but those that are left out.
LEMMA NumberRangeIsRead ==
    ASSUME NEW r, r = Part(r, DOMAIN DefaultNumberRange)
    PROVE  /\ Filled(NumberRangeToJson(r), DefaultNumberRange) = r
           /\ Filled(<<>>, DefaultNumberRange) = DefaultNumberRange
<1> DEFINE N == DOMAIN DefaultNumberRange
           json == NumberRangeToJson(r)
<1>1. r = [f \in N |-> r[f]] /\ DefaultNumberRange = [f \in N |-> DefaultNumberRange[f]]
  BY DEF Part, DefaultNumberRange, NumberRange
<1>2. /\ DOMAIN json = {f \in N : r[f] # DefaultNumberRange[f]}
      /\ \A f \in DOMAIN json : json[f] = r[f]
  BY DEF NumberRangeToJson, NotDefault, Part
<1>3. Filled(json, DefaultNumberRange) = r
  <2> HIDE DEF json
  <2> QED BY <1>1, <1>2 DEF Filled, Member
<1>4. Filled(<<>>, DefaultNumberRange) = DefaultNumberRange
  BY <1>1, NoMembers DEF Filled, Member
<1> QED BY <1>3, <1>4

LEMMA DateRangeIsRead ==
    ASSUME NEW r, r = Part(r, DOMAIN DefaultDateRange)
    PROVE  /\ Filled(DateRangeToJson(r), DefaultDateRange) = r
           /\ Filled(<<>>, DefaultDateRange) = DefaultDateRange
           /\ "hide_seconds" \notin DOMAIN DateRangeToJson(r)
<1> DEFINE N == DOMAIN DefaultDateRange
           json == DateRangeToJson(r)
<1>1. /\ r = [f \in N |-> r[f]] /\ DefaultDateRange = [f \in N |-> DefaultDateRange[f]]
      /\ N = {"min", "max"}
  BY DEF Part, DefaultDateRange, DateRange
<1>2. /\ DOMAIN json = {f \in N : r[f] # DefaultDateRange[f]}
      /\ \A f \in DOMAIN json : json[f] = r[f]
  BY DEF DateRangeToJson, NotDefault, Part
<1>3. Filled(json, DefaultDateRange) = r
  <2> HIDE DEF json
  <2> QED BY <1>1, <1>2 DEF Filled, Member
<1>4. Filled(<<>>, DefaultDateRange) = DefaultDateRange
  BY <1>1, NoMembers DEF Filled, Member
<1>5. "hide_seconds" \notin DOMAIN json
  <2> HIDE DEF json
  <2> QED BY <1>1, <1>2
<1> QED BY <1>3, <1>4, <1>5

LEMMA TimeRangeIsRead ==
    ASSUME NEW r, r = Part(r, DOMAIN DefaultTimeRange)
    PROVE  /\ Filled(TimeRangeToJson(r), DefaultTimeRange) = r
           /\ "hide_seconds" \in DOMAIN TimeRangeToJson(r)
<1> DEFINE N == DOMAIN DefaultTimeRange
           json == TimeRangeToJson(r)
<1>1. r = [f \in N |-> r[f]] /\ "hide_seconds" \in N
  BY DEF Part, DefaultTimeRange, TimeRange
<1>2. /\ DOMAIN json = {f \in N : r[f] # DefaultTimeRange[f]} \cup {"hide_seconds"}
      /\ \A f \in DOMAIN json : json[f] = r[f]
  BY DEF TimeRangeToJson, NotDefault, Part
<1>3. Filled(json, DefaultTimeRange) = r
  <2> HIDE DEF json
  <2> QED BY <1>1, <1>2 DEF Filled, Member
<1> QED BY <1>2, <1>3

\* What a control of any class is made of.
IsControl(c) ==
    /\ c.class \in DOMAIN Members
    /\ c = Part(c, Fields(c.class))
    /\ c.opts = Options(c.opts.read_only, c.opts.show_if, c.opts.hide_if)
    /\ c.class \in Ranged => c.range = Part(c.range, DOMAIN DefaultRange(c.class))

\* The members of an object that are a control's own.
LEMMA MembersAreOthers ==
    ASSUME NEW class \in DOMAIN Members
    PROVE  /\ class \in {"text", "text_input", "text_area", "number", "slider", "checkbox", "select",
                         "date", "time", "select_tz"} \cup Containers
           /\ \A f \in {"class", "opts", "options", "range", "controls", "shown"} :
                f \notin Members[class]
           /\ class \in Containers => Members[class] = IF class = "compound" THEN {} ELSE {"name"}
<1>1. class \in {"text", "text_input", "text_area", "number", "slider", "checkbox", "select",
                 "date", "time", "select_tz", "group", "section", "compound"}
  BY DEF Members
<1>2. Members[class] \in SUBSET {"name", "default", "size", "rows", "choices"}
  BY <1>1 DEF Members
<1>3. class \in Containers => Members[class] = IF class = "compound" THEN {} ELSE {"name"}
  BY DEF Members, Containers
<1> QED BY <1>1, <1>2, <1>3 DEF Containers

\* A control without the order of its choices and rules is otherwise the same.
LEMMA UnorderedIs ==
    ASSUME NEW c, IsControl(c)
    PROVE  /\ Unordered(c) = [f \in Fields(c.class) |-> Unordered(c)[f]]
           /\ Unordered(c).opts = UnorderedOptions(c.opts)
           /\ Unordered(c).class = c.class
           /\ c.class \in Ranged => Unordered(c).range = c.range
           /\ \A f \in Members[c.class] :
                Unordered(c)[f] = IF f = "choices" THEN AsObject(c.choices) ELSE c[f]
<1> DEFINE D == Fields(c.class)
           V(f) == CASE f = "choices" -> AsObject(c.choices)
                     [] f = "opts" -> UnorderedOptions(c.opts)
                     [] OTHER -> c[f]
<1>1. DOMAIN c = D
  <2> HIDE DEF D
  <2> QED BY DEF IsControl, Part, D
<1>2. Unordered(c) = [f \in D |-> V(f)]
  <2>1. Unordered(c) = [f \in DOMAIN c |-> V(f)]
    BY Zenon DEF Unordered, UnorderedOptions
  <2> HIDE DEF V, D
  <2> QED BY <1>1, <2>1
<1>3. /\ {"class", "opts"} \cup Members[c.class] \subseteq D
      /\ c.class \in Ranged => "range" \in D
  BY DEF Fields
<1>4. \A f \in D : Unordered(c)[f] = V(f)
  <2> HIDE DEF V, D
  <2> QED BY <1>2
<1>5. V("opts") = UnorderedOptions(c.opts) /\ V("class") = c.class /\ V("range") = c.range
  OBVIOUS
<1>6. ASSUME NEW f \in Members[c.class]
      PROVE  V(f) = IF f = "choices" THEN AsObject(c.choices) ELSE c[f]
  <2>1. f # "opts"
    BY MembersAreOthers DEF IsControl
  <2> QED BY <2>1
<1>7. Unordered(c) = [f \in D |-> Unordered(c)[f]]
  <2> HIDE DEF V, D
  <2> QED BY <1>2
<1> HIDE DEF V, D
<1>8. /\ Unordered(c).opts = UnorderedOptions(c.opts) /\ Unordered(c).class = c.class
      /\ c.class \in Ranged => Unordered(c).range = c.range
  BY <1>3, <1>4, <1>5
<1>9. \A f \in Members[c.class] :
            Unordered(c)[f] = IF f = "choices" THEN AsObject(c.choices) ELSE c[f]
  BY <1>3, <1>4, <1>6
<1> QED BY <1>7, <1>8, <1>9 DEF D

\* What is written of a control.
LEMMA ControlIsWritten ==
    ASSUME NEW c, IsControl(c), NEW inner
    PROVE  LET json == ControlToJson(c, inner)
               own == {"class"} \cup Members[c.class]
                      \cup (IF c.class \in Containers THEN {"controls"} ELSE {})
           IN  /\ DOMAIN json = own \cup {f \in {"options"} : c.opts # DefaultOpts}
                       \cup {f \in {"range"} : c.class \in Ranged /\ c.range # DefaultRange(c.class)}
               /\ json.class = ClassOf(c)
               /\ \A f \in Members[c.class] : json[f] = Unordered(c)[f]
               /\ c.class \in Containers => json.controls = inner
               /\ Member(json, "options", <<>>)
                    = IF c.opts = DefaultOpts THEN <<>> ELSE OptionsToJson(c.opts)
               /\ c.class \in Ranged =>
                    Member(json, "range", <<>>)
                        = IF c.range = DefaultRange(c.class) THEN <<>> ELSE RangeToJson(c)
<1> DEFINE json == ControlToJson(c, inner)
           own == {"class"} \cup Members[c.class]
                  \cup (IF c.class \in Containers THEN {"controls"} ELSE {})
           W == own \cup {f \in {"options"} : c.opts # DefaultOpts}
                    \cup {f \in {"range"} : c.class \in Ranged /\ c.range # DefaultRange(c.class)}
           V(f) == CASE f = "class" -> ClassOf(c)
                     [] f = "options" -> OptionsToJson(c.opts)
                     [] f = "range" -> RangeToJson(c)
                     [] f = "controls" -> inner
                     [] f = "choices" -> AsObject(c.choices)
                     [] OTHER -> c[f]
<1>1. json = [f \in W |-> V(f)]
  <2> DEFINE written == {"class"} \cup Members[c.class]
                   \cup SkipIfDefault("options", c.opts, DefaultOpts)
                   \cup (IF c.class \notin Ranged THEN {}
                         ELSE SkipIfDefault("range", c.range, DefaultRange(c.class)))
                   \cup (IF c.class \in Containers THEN {"controls"} ELSE {})
  <2>1. json = [f \in written |-> V(f)]
    BY Zenon DEF ControlToJson
  <2>2. written = W
    BY DEF SkipIfDefault
  <2> QED BY <2>1, <2>2, Zenon
<1>2. DOMAIN json = W /\ \A f \in W : json[f] = V(f)
  <2> HIDE DEF json, W, V
  <2> QED BY <1>1
<1>3. /\ \A f \in {"class", "opts", "options", "range", "controls", "shown"} : f \notin Members[c.class]
  BY MembersAreOthers DEF IsControl
<1>4. V("class") = ClassOf(c) /\ V("options") = OptionsToJson(c.opts) /\ V("range") = RangeToJson(c)
      /\ V("controls") = inner /\ \A f \in Members[c.class] : V(f) = Unordered(c)[f]
  <2>1. ASSUME NEW f \in Members[c.class]
        PROVE  V(f) = IF f = "choices" THEN AsObject(c.choices) ELSE c[f]
    BY <1>3
  <2>2. \A f \in Members[c.class] :
            Unordered(c)[f] = IF f = "choices" THEN AsObject(c.choices) ELSE c[f]
    BY <1>3, UnorderedIs
  <2> HIDE DEF V
  <2>3. \A f \in Members[c.class] : V(f) = Unordered(c)[f]
    BY <2>1, <2>2
  <2> QED BY <2>3 DEF V
<1>5. json.class = ClassOf(c) /\ \A f \in Members[c.class] : json[f] = Unordered(c)[f]
  <2> HIDE DEF json, V
  <2> QED BY <1>2, <1>4
<1>6. c.class \in Containers => json.controls = inner
  <2> HIDE DEF json, V
  <2> QED BY <1>2, <1>4
<1>7. Member(json, "options", <<>>) = IF c.opts = DefaultOpts THEN <<>> ELSE OptionsToJson(c.opts)
  <2>1. "options" \in W <=> c.opts # DefaultOpts
    BY <1>3
  <2> HIDE DEF json, V, W
  <2> QED BY <1>2, <1>4, <2>1 DEF Member
<1>8. c.class \in Ranged =>
        Member(json, "range", <<>>) = IF c.range = DefaultRange(c.class) THEN <<>> ELSE RangeToJson(c)
  <2>1. c.class \in Ranged => ("range" \in W <=> c.range # DefaultRange(c.class))
    BY <1>3
  <2> HIDE DEF json, V, W
  <2> QED BY <1>2, <1>4, <2>1 DEF Member
<1>9. DOMAIN json = W
  BY <1>2
<1> HIDE DEF json
<1> QED BY <1>5, <1>6, <1>7, <1>8, <1>9 DEF json

\* A range is read as it was; but a time of the default range has that of a date.
LEMMA RangeIsRead ==
    ASSUME NEW c, IsControl(c), c.class \in Ranged
    PROVE  ReadRange(ClassOf(c), IF c.range = DefaultRange(c.class) THEN <<>> ELSE RangeToJson(c))
             = IF c.class = "time" /\ c.range = DefaultTimeRange THEN DefaultDateRange ELSE c.range
<1>1. c.range = Part(c.range, DOMAIN DefaultRange(c.class))
  BY DEF IsControl
<1>2. CASE c.class \in {"number", "slider"}
  <2>1. /\ DefaultRange(c.class) = DefaultNumberRange /\ RangeToJson(c) = NumberRangeToJson(c.range)
        /\ ClassOf(c) = c.class /\ c.class # "date" /\ c.class # "time"
    BY <1>2 DEF DefaultRange, RangeToJson, ClassOf
  <2>2. \A json : ReadRange(ClassOf(c), json) = Filled(json, DefaultNumberRange)
    BY <2>1 DEF ReadRange
  <2> QED BY <1>1, <2>1, <2>2, NumberRangeIsRead
<1>3. CASE c.class = "date"
  <2>1. /\ DefaultRange(c.class) = DefaultDateRange /\ RangeToJson(c) = DateRangeToJson(c.range)
        /\ ClassOf(c) = "date"
    BY <1>3 DEF DefaultRange, RangeToJson, ClassOf
  <2>2. \A json : "hide_seconds" \notin DOMAIN json =>
                 ReadRange("date", json) = Filled(json, DefaultDateRange)
    BY DEF ReadRange
  <2>3. "hide_seconds" \notin DOMAIN <<>>
    BY NoMembers
  <2> QED BY <1>1, <1>3, <2>1, <2>2, <2>3, DateRangeIsRead
<1>4. CASE c.class = "time"
  <2>1. /\ DefaultRange(c.class) = DefaultTimeRange /\ RangeToJson(c) = TimeRangeToJson(c.range)
        /\ ClassOf(c) = "date"
    BY <1>4 DEF DefaultRange, RangeToJson, ClassOf
  <2>2. \A json : ReadRange("date", json) = IF "hide_seconds" \in DOMAIN json
                                            THEN Filled(json, DefaultTimeRange)
                                            ELSE Filled(json, DefaultDateRange)
    BY DEF ReadRange
  <2>3. "hide_seconds" \notin DOMAIN <<>>
    BY NoMembers
  <2>4. Filled(<<>>, DefaultDateRange) = DefaultDateRange
    <3>1. DefaultDateRange = Part(DefaultDateRange, DOMAIN DefaultDateRange)
      BY DEF DefaultDateRange, DateRange, Part
    <3> QED BY <3>1, DateRangeIsRead
  <2> QED BY <1>1, <1>4, <2>1, <2>2, <2>3, <2>4, TimeRangeIsRead
<1> QED BY <1>2, <1>3, <1>4 DEF Ranged

\* A control is read as it was declared, provided that its controls are.
LEMMA ControlIsRead ==
    ASSUME NEW c, IsControl(c), NEW inner, NEW read
    PROVE  ReadControl(ControlToJson(c, inner), read) = MeantControl(Unordered(c), read)
<1> DEFINE json == ControlToJson(c, inner)
           u == Unordered(c)
           own == {"class"} \cup Members[c.class]
                  \cup (IF c.class \in Containers THEN {"controls"} ELSE {})
           lacking == {f \in {"options"} : c.opts # DefaultOpts}
                      \cup {f \in {"range"} : c.class \in Ranged /\ c.range # DefaultRange(c.class)}
           D == own \cup {"opts"} \cup (IF c.class \in Ranged THEN {"range"} ELSE {})
           range == IF c.class = "time" /\ c.range = DefaultTimeRange THEN DefaultDateRange ELSE c.range
           V(f) == CASE f = "class" -> ClassOf(c)
                     [] f = "opts" -> u.opts
                     [] f = "range" -> range
                     [] f = "controls" -> read
                     [] OTHER -> u[f]
<1>1. /\ DOMAIN json = own \cup lacking
      /\ json.class = ClassOf(c)
      /\ \A f \in Members[c.class] : json[f] = u[f]
      /\ Member(json, "options", <<>>) = IF c.opts = DefaultOpts THEN <<>> ELSE OptionsToJson(c.opts)
      /\ c.class \in Ranged =>
           Member(json, "range", <<>>) = IF c.range = DefaultRange(c.class) THEN <<>> ELSE RangeToJson(c)
  <2>1. DOMAIN json = own \cup {f \in {"options"} : c.opts # DefaultOpts}
                       \cup {f \in {"range"} : c.class \in Ranged /\ c.range # DefaultRange(c.class)}
    BY ControlIsWritten, Zenon
  <2>2. DOMAIN json = own \cup lacking
    <3> HIDE DEF json
    <3> QED BY <2>1
  <2> QED BY <2>2, ControlIsWritten, Zenon
<1>2. \A f \in {"class", "opts", "options", "range", "controls", "shown"} : f \notin Members[c.class]
  BY MembersAreOthers DEF IsControl
<1>3. json.class \in Ranged <=> c.class \in Ranged
  <2> HIDE DEF json
  <2> QED BY <1>1 DEF ClassOf, Ranged
<1>0. /\ u = [f \in Fields(c.class) |-> u[f]] /\ DOMAIN u = Fields(c.class)
      /\ u.opts = UnorderedOptions(c.opts) /\ u.class = c.class
      /\ c.class \in Ranged => u.range = c.range
  <2>1. /\ u = [f \in Fields(c.class) |-> u[f]]
        /\ u.opts = UnorderedOptions(c.opts) /\ u.class = c.class
        /\ c.class \in Ranged => u.range = c.range
    BY UnorderedIs
  <2> HIDE DEF u
  <2> QED BY <2>1
<1>4. ReadOptions(Member(json, "options", <<>>)) = u.opts
  <2>1. c.opts = Options(c.opts.read_only, c.opts.show_if, c.opts.hide_if)
    BY DEF IsControl
  <2> HIDE DEF json, u
  <2> QED BY <1>0, <1>1, <2>1, OptionsAreRead
<1>5. c.class \in Ranged => ReadRange(json.class, Member(json, "range", <<>>)) = range
  <2> HIDE DEF json
  <2> QED BY <1>1, RangeIsRead
<1>6. ReadControl(json, read) = [f \in D |-> V(f)]
  <2> DEFINE E == (DOMAIN json \ {"options"}) \cup {"opts"}
                  \cup (IF json.class \in Ranged THEN {"range"} ELSE {})
             U(f) == CASE f = "opts" -> ReadOptions(Member(json, "options", <<>>))
                       [] f = "range" -> ReadRange(json.class, Member(json, "range", <<>>))
                       [] f = "controls" -> read
                       [] OTHER -> json[f]
  <2>1. ReadControl(json, read) = [f \in E |-> U(f)]
    BY Zenon DEF ReadControl
  <2>2. E = D
    <3> HIDE DEF json
    <3>1. "options" \notin own /\ \A f \in lacking : f = "options" \/ (f = "range" /\ c.class \in Ranged)
      BY <1>2
    <3> HIDE DEF own, lacking
    <3> QED BY <1>1, <1>3, <3>1
  <2>3. ASSUME NEW f \in D
        PROVE  U(f) = V(f)
    <3>1. CASE f = "opts"
      BY <1>4, <3>1
    <3>2. CASE f = "range"
      <4>1. c.class \in Ranged
        BY <1>2, <3>2
      <4>2. U(f) = ReadRange(json.class, Member(json, "range", <<>>)) /\ V(f) = range
        BY <3>2
      <4> HIDE DEF U, V, json, range
      <4> QED BY <1>5, <4>1, <4>2
    <3>3. CASE f = "controls"
      BY <3>3
    <3>4. CASE f = "class"
      BY <1>1, <3>4
    <3>5. CASE f \in Members[c.class]
      <4>1. f \notin {"class", "opts", "options", "range", "controls"}
        BY <1>2, <3>5
      <4>2. U(f) = json[f] /\ V(f) = u[f]
        BY <4>1
      <4> HIDE DEF U, V, json, u
      <4> QED BY <1>1, <3>5, <4>2
    <3> HIDE DEF U, V
    <3> QED BY <3>1, <3>2, <3>3, <3>4, <3>5
  <2> HIDE DEF U, V, E, D
  <2> QED BY <2>1, <2>2, <2>3
<1> HIDE DEF u
<1>7. MeantControl(u, read) = [f \in D |-> V(f)]
  <2>1. u = [f \in Fields(c.class) |-> u[f]]
    BY <1>0
  <2>2. CASE c.class = "time"
    <3>1. MeantControl(u, read) = [u EXCEPT !.class = "date",
                  !.range = IF @ = DefaultTimeRange THEN DefaultDateRange ELSE @]
      <4>1. u.class = "time" /\ u.class \notin Containers
        BY <1>0, <2>2 DEF Containers
      <4> QED BY <4>1, Zenon DEF MeantControl
    <3>2. Fields(c.class) = D
      BY <2>2 DEF Fields, Ranged, Containers
    <3>3. u = [f \in D |-> u[f]]
      BY <2>1, <3>2
    <3>4. "class" \in D /\ "range" \in D /\ c.class \in Ranged /\ u.range = c.range
      BY <1>0, <2>2 DEF Ranged
    <3>5. ASSUME NEW f \in D
          PROVE  V(f) = IF f = "class" THEN "date" ELSE IF f = "range" THEN range ELSE u[f]
      <4>1. f # "controls"
        BY <1>2, <2>2 DEF Containers
      <4> QED BY <2>2, <4>1 DEF ClassOf
    <3> DEFINE e == [u EXCEPT !.class = "date"]
               m == [e EXCEPT !.range = IF @ = DefaultTimeRange THEN DefaultDateRange ELSE @]
    <3>6. /\ e = [f \in D |-> IF f = "class" THEN "date" ELSE u[f]]
      <4> HIDE DEF D
      <4> QED BY <3>3, <3>4
    <3>7. m = [f \in D |-> IF f = "class" THEN "date" ELSE IF f = "range" THEN range ELSE u[f]]
      <4> HIDE DEF D, e
      <4> QED BY <2>2, <3>4, <3>6
    <3>8. MeantControl(u, read) = m
      BY <3>1
    <3> HIDE DEF V, D, m
    <3> QED BY <3>5, <3>7, <3>8
  <2>3. CASE c.class \in Containers
    <3> DEFINE C == DOMAIN u \ ({"shown"} \cup IF u.class = "compound" THEN {"name"} ELSE {})
    <3>1. MeantControl(u, read) = [f \in C |-> IF f = "controls" THEN read ELSE u[f]]
      BY <1>0, <2>3 DEF MeantControl, Containers
    <3>2. DOMAIN u = Fields(c.class)
      BY <1>0
    <3>3. Members[c.class] = IF c.class = "compound" THEN {} ELSE {"name"}
      BY <2>3, MembersAreOthers DEF IsControl
    <3>4. C = D
      BY <1>0, <2>3, <3>2, <3>3 DEF Fields, Ranged, Containers
    <3>5. ASSUME NEW f \in D
          PROVE  V(f) = IF f = "controls" THEN read ELSE u[f]
      <4>1. f \in {"class", "opts", "controls", "name"}
        BY <2>3, <3>3 DEF Ranged, Containers
      <4>2. ClassOf(c) = u.class
        BY <1>0, <2>3 DEF ClassOf, Containers
      <4> QED BY <4>1, <4>2
    <3> HIDE DEF V, D, C
    <3> QED BY <3>1, <3>4, <3>5
  <2>4. CASE c.class # "time" /\ c.class \notin Containers
    <3>1. MeantControl(u, read) = u
      BY <1>0, <2>4 DEF MeantControl
    <3>2. Fields(c.class) = D
      BY <2>4 DEF Fields, Containers
    <3>3. ASSUME NEW f \in D
          PROVE  V(f) = u[f]
      <4>1. f # "controls"
        BY <1>2, <2>4 DEF Ranged
      <4>2. f = "range" => c.class \in Ranged
        BY <1>2
      <4> QED BY <1>0, <2>4, <4>1, <4>2 DEF ClassOf
    <3> HIDE DEF V, D
    <3> QED BY <2>1, <3>1, <3>2, <3>3
  <2> QED BY <2>2, <2>3, <2>4
<1> QED BY <1>6, <1>7 DEF u

\* What is kept of some controls are some of them.
LEMMA NotSkippedAreSome ==
    ASSUME NEW S, NEW s \in Seq(S), NEW classes
    PROVE  NotSkipped(s, classes) \in Seq(S)
<1> DEFINE n == Len(s)
           Round(k, x) == IF s[k].class \in classes THEN x ELSE Append(x, s[k])
           Step == [k \in 1 .. n |-> [x \in Seq(S) |-> Round(k, x)]]
           Rounds(f) == [k \in 0 .. n |-> IF k = 0 THEN <<>> ELSE Round(k, f[k - 1])]
           kept == CHOOSE f : f = Rounds(f)
<1>1. n \in Nat /\ \A k \in 1 .. n : s[k] \in S
  OBVIOUS
<1>2. PICK f : IsLoop(f, n, Seq(S), <<>>, Step)
  <2>1. Step \in [1 .. n -> [Seq(S) -> Seq(S)]]
    BY <1>1
  <2>2. <<>> \in Seq(S)
    OBVIOUS
  <2> HIDE DEF Step
  <2> QED BY <1>1, <2>1, <2>2, LoopExists
<1>3. f = Rounds(f)
  <2>1. ASSUME NEW k \in 1 .. n
        PROVE  f[k] = Round(k, f[k - 1])
    <3>1. f[k - 1] \in Seq(S)
      BY <1>1, <1>2 DEF IsLoop
    <3>2. f[k] = Step[k][f[k - 1]]
      BY <1>2 DEF IsLoop
    <3> HIDE DEF Round
    <3> QED BY <3>1, <3>2
  <2>2. \A k \in 0 .. n : f[k] = IF k = 0 THEN <<>> ELSE Round(k, f[k - 1])
    <3>1. \A k \in 0 .. n : k = 0 \/ k \in 1 .. n
      BY <1>1
    <3> HIDE DEF n, Round
    <3> QED BY <1>2, <2>1, <3>1 DEF IsLoop
  <2>3. f = [k \in 0 .. n |-> f[k]]
    BY <1>2 DEF IsLoop
  <2> HIDE DEF n, Round
  <2> QED BY <2>2, <2>3
<1>4. kept = Rounds(kept)
  <2> HIDE DEF Rounds
  <2> QED BY <1>3
<1>5. \A k \in 0 .. n : kept[k] = IF k = 0 THEN <<>> ELSE Round(k, kept[k - 1])
  <2> HIDE DEF kept, Round, n
  <2> QED BY <1>4
<1>6. NotSkipped(s, classes) = kept[n]
  BY DEF NotSkipped
<1> DEFINE T == {k \in 0 .. n : kept[k] \in Seq(S)}
<1>7. 0 \in T
  <2>1. 0 \in 0 .. n /\ <<>> \in Seq(S)
    BY <1>1
  <2> HIDE DEF kept, Round, n
  <2> QED BY <1>5, <2>1
<1>8. ASSUME NEW k \in 1 .. n, k - 1 \in T
      PROVE  k \in T
  <2>1. k \in 0 .. n /\ k # 0
    BY <1>1
  <2>2. kept[k] = Round(k, kept[k - 1]) /\ kept[k - 1] \in Seq(S)
    <3> HIDE DEF kept, Round, n
    <3> QED BY <1>5, <1>8, <2>1
  <2>3. \A x \in Seq(S) : Round(k, x) \in Seq(S)
    BY <1>1
  <2> HIDE DEF kept, Round, n
  <2> QED BY <2>1, <2>2, <2>3
<1>9. n \in T
  <2>1. \A k \in 0 .. n : k \in T
    <3> HIDE DEF T, n
    <3> QED BY <1>1, <1>7, <1>8, IntervalInduction
  <2> HIDE DEF T
  <2> QED BY <1>1, <2>1
<1> HIDE DEF kept
<1> QED BY <1>6, <1>9

-----------------------------------------------------------------------------
(* A depth from the one before *)

JsonOf(n, lower) ==
    [c \in Controls[n] |->
        ControlToJson(c, IF c.class \notin Containers THEN <<>>
                         ELSE LET kept == NotSkipped(c.controls, Skipped(c.class))
                              IN  [k \in DOMAIN kept |-> lower[kept[k]]])]

ReadOf(n, lower) ==
    [json \in Forms[n] |->
        ReadControl(json, IF "controls" \notin DOMAIN json THEN <<>>
                          ELSE [k \in DOMAIN json.controls |-> lower[json.controls[k]]])]

MeantOf(n, lower) ==
    [c \in Controls[n] |->
        MeantControl(Unordered(c), IF c.class \notin Containers THEN <<>>
                        ELSE LET fit == NotSkipped(c.controls, IF c.class # "compound" THEN {"section"}
                                                         ELSE {"group", "section"})
                             IN  [k \in DOMAIN fit |-> lower[fit[k]]])]

DepthOf(what, n, lower) ==
    CASE what = "json"  -> JsonOf(n, lower)
      [] what = "read"  -> ReadOf(n, lower)
      [] what = "meant" -> MeantOf(n, lower)

\* What needs nothing of a depth below the least is defined at every depth.
LEMMA DepthsExist ==
    ASSUME NEW what, \A x, y : DepthOf(what, 0, x) = DepthOf(what, 0, y)
    PROVE  \E f : f = [n \in 0 .. MaxDepth |-> DepthOf(what, n, f[n - 1])]
<1> DEFINE Is(f, m) == f = [n \in 0 .. m |-> DepthOf(what, n, f[n - 1])]
           Known == {m \in 0 .. MaxDepth : \E f : Is(f, m)}
<1>1. MaxDepth \in Nat
  BY DepthAssumption
<1>2. 0 \in Known
  <2> DEFINE f == [n \in 0 .. 0 |-> DepthOf(what, 0, <<>>)]
  <2>1. \A n \in 0 .. 0 : f[n] = DepthOf(what, n, f[n - 1])
    <3>1. \A n \in 0 .. 0 : n = 0 /\ f[n] = DepthOf(what, 0, <<>>)
      OBVIOUS
    <3>2. DepthOf(what, 0, <<>>) = DepthOf(what, 0, f[0 - 1])
      OBVIOUS
    <3> HIDE DEF f
    <3> QED BY <3>1, <3>2
  <2>2. Is(f, 0)
    <3>1. f = [n \in 0 .. 0 |-> f[n]]
      OBVIOUS
    <3> HIDE DEF f
    <3> QED BY <2>1, <3>1
  <2> HIDE DEF Is, f
  <2> QED BY <1>1, <2>2
<1>3. ASSUME NEW m \in 1 .. MaxDepth, m - 1 \in Known
      PROVE  m \in Known
  <2>1. PICK f : Is(f, m - 1)
    BY <1>3
  <2> DEFINE g == [n \in 0 .. m |-> IF n = m THEN DepthOf(what, m, f[m - 1]) ELSE f[n]]
  <2>2. ASSUME NEW n \in 0 .. m
        PROVE  g[n] = DepthOf(what, n, g[n - 1])
    <3>1. CASE n = m
      <4>1. m - 1 \in 0 .. m /\ m - 1 # m
        BY <1>1
      <4>2. g[n] = DepthOf(what, m, f[m - 1]) /\ g[m - 1] = f[m - 1]
        BY <3>1, <4>1
      <4> HIDE DEF g
      <4> QED BY <3>1, <4>2
    <3>2. CASE n # m
      <4>1. n \in 0 .. (m - 1) /\ g[n] = f[n]
        BY <1>1, <3>2
      <4>2. f[n] = DepthOf(what, n, f[n - 1])
        BY <2>1, <4>1, Zenon
      <4>3. CASE n = 0
        <5>1. DepthOf(what, 0, f[0 - 1]) = DepthOf(what, 0, g[0 - 1])
          <6> HIDE DEF g
          <6> QED OBVIOUS
        <5> HIDE DEF g
        <5> QED BY <4>1, <4>2, <4>3, <5>1
      <4>4. CASE n # 0
        <5>1. n - 1 \in 0 .. m /\ n - 1 # m
          BY <1>1, <3>2, <4>4
        <5>2. g[n - 1] = f[n - 1]
          BY <5>1
        <5> HIDE DEF g
        <5> QED BY <4>1, <4>2, <5>2
      <4> QED BY <4>3, <4>4
    <3> QED BY <3>1, <3>2
  <2>3. Is(g, m)
    <3>1. g = [n \in 0 .. m |-> g[n]]
      OBVIOUS
    <3> HIDE DEF g
    <3> QED BY <2>2, <3>1
  <2>4. m \in 0 .. MaxDepth
    BY <1>1
  <2> HIDE DEF Is, g
  <2> QED BY <2>3, <2>4
<1>4. MaxDepth \in Known
  <2>1. \A m \in 0 .. MaxDepth : m \in Known
    <3> HIDE DEF Known
    <3> QED BY <1>1, <1>2, <1>3, IntervalInduction
  <2> HIDE DEF Known
  <2> QED BY <1>1, <2>1
<1> QED BY <1>4

\* Json is what its definition says.
LEMMA JsonDef == \A n \in 0 .. MaxDepth : Json[n] = JsonOf(n, Json[n - 1])
<1> DEFINE P(f) == f = [n \in 0 .. MaxDepth |-> JsonOf(n, f[n - 1])]
<1>1. \A n, x : DepthOf("json", n, x) = JsonOf(n, x)
  BY DEF DepthOf
<1>2. ASSUME NEW x, NEW y
      PROVE  JsonOf(0, x) = JsonOf(0, y)
  <2>1. \A c \in Controls[0] : c.class \notin Containers
    BY DepthAssumption
  <2> QED BY <2>1 DEF JsonOf
<1>3. \E f : P(f)
  <2>1. \A x, y : DepthOf("json", 0, x) = DepthOf("json", 0, y)
    BY <1>1, <1>2
  <2>2. PICK f : f = [n \in 0 .. MaxDepth |-> DepthOf("json", n, f[n - 1])]
    BY <2>1, DepthsExist
  <2>3. P(f)
    BY <1>1, <2>2
  <2> QED BY <2>3
<1>4. Json = CHOOSE f : P(f)
  BY DEF Json, JsonOf
<1>5. P(Json)
  <2> HIDE DEF P
  <2> QED BY <1>3, <1>4
<1> QED BY <1>5, Zenon

\* Meant is what its definition says.
LEMMA MeantDef == \A n \in 0 .. MaxDepth : Meant[n] = MeantOf(n, Meant[n - 1])
<1> DEFINE P(f) == f = [n \in 0 .. MaxDepth |-> MeantOf(n, f[n - 1])]
<1>1. \A n, x : DepthOf("meant", n, x) = MeantOf(n, x)
  BY DEF DepthOf
<1>2. ASSUME NEW x, NEW y
      PROVE  MeantOf(0, x) = MeantOf(0, y)
  <2>1. \A c \in Controls[0] : c.class \notin Containers
    BY DepthAssumption
  <2> QED BY <2>1 DEF MeantOf
<1>3. \E f : P(f)
  <2>1. \A x, y : DepthOf("meant", 0, x) = DepthOf("meant", 0, y)
    BY <1>1, <1>2
  <2>2. PICK f : f = [n \in 0 .. MaxDepth |-> DepthOf("meant", n, f[n - 1])]
    BY <2>1, DepthsExist
  <2>3. P(f)
    BY <1>1, <2>2
  <2> QED BY <2>3
<1>4. Meant = CHOOSE f : P(f)
  BY DEF Meant, MeantOf
<1>5. P(Meant)
  <2> HIDE DEF P
  <2> QED BY <1>3, <1>4
<1> QED BY <1>5, Zenon

\* Controls of every depth are controls.
LEMMA DepthsHoldControls ==
    ASSUME NEW n \in 0 .. MaxDepth, NEW c \in Controls[n]
    PROVE  IsControl(c)
  BY ControlAssumption DEF IsControl

\* Only what holds controls is written with some.
LEMMA ContainersHaveControls ==
    ASSUME NEW n \in 0 .. MaxDepth, NEW c \in Controls[n], NEW inner
    PROVE  "controls" \in DOMAIN ControlToJson(c, inner) <=> c.class \in Containers
<1> DEFINE json == ControlToJson(c, inner)
           own == {"class"} \cup Members[c.class]
                  \cup (IF c.class \in Containers THEN {"controls"} ELSE {})
<1>1. IsControl(c)
  BY DepthsHoldControls
<1>2. "controls" \notin Members[c.class]
  BY <1>1, MembersAreOthers DEF IsControl
<1>3. DOMAIN json = own \cup {f \in {"options"} : c.opts # DefaultOpts}
                     \cup {f \in {"range"} : c.class \in Ranged /\ c.range # DefaultRange(c.class)}
  BY <1>1, ControlIsWritten, Zenon
<1> HIDE DEF json
<1>4. "controls" \in DOMAIN json <=> c.class \in Containers
  BY <1>2, <1>3
<1> QED BY <1>4 DEF json

\* What is written of a control of a depth.
LEMMA JsonOfControl ==
    ASSUME NEW n \in 0 .. MaxDepth, NEW c \in Controls[n]
    PROVE  LET kept == NotSkipped(c.controls, Skipped(c.class))
           IN  Json[n][c] = ControlToJson(c, IF c.class \notin Containers THEN <<>>
                                ELSE [k \in DOMAIN kept |-> Json[n - 1][kept[k]]])
<1>1. Json[n] = JsonOf(n, Json[n - 1])
  BY JsonDef
<1> QED BY <1>1, Zenon DEF JsonOf

\* Read is what its definition says.
LEMMA ReadDef == \A n \in 0 .. MaxDepth : Read[n] = ReadOf(n, Read[n - 1])
<1> DEFINE P(f) == f = [n \in 0 .. MaxDepth |-> ReadOf(n, f[n - 1])]
<1>1. \A n, x : DepthOf("read", n, x) = ReadOf(n, x)
  BY DEF DepthOf
<1>2. ASSUME NEW x, NEW y
      PROVE  ReadOf(0, x) = ReadOf(0, y)
  <2>1. \A c \in Controls[0] : c.class \notin Containers
    BY DepthAssumption
  <2>2. 0 \in 0 .. MaxDepth
    BY DepthAssumption
  <2>3. ASSUME NEW json \in Forms[0]
        PROVE  "controls" \notin DOMAIN json
    <3>1. PICK c \in Controls[0] : json = Json[0][c]
      BY <2>2 DEF Forms
    <3>2. PICK inner : Json[0][c] = ControlToJson(c, inner)
      BY <2>2, JsonOfControl, Zenon
    <3> QED BY <2>1, <2>2, <3>1, <3>2, ContainersHaveControls
  <2> QED BY <2>3 DEF ReadOf
<1>3. \E f : P(f)
  <2>1. \A x, y : DepthOf("read", 0, x) = DepthOf("read", 0, y)
    BY <1>1, <1>2
  <2>2. PICK f : f = [n \in 0 .. MaxDepth |-> DepthOf("read", n, f[n - 1])]
    BY <2>1, DepthsExist
  <2>3. P(f)
    BY <1>1, <2>2
  <2> QED BY <2>3
<1>4. Read = CHOOSE f : P(f)
  BY DEF Read, ReadOf
<1>5. P(Read)
  <2> HIDE DEF P
  <2> QED BY <1>3, <1>4
<1> QED BY <1>5, Zenon

\* A control of any depth is read as it was declared: by induction on the depth.
LEMMA DepthIsRead ==
    \A n \in 0 .. MaxDepth : \A c \in Controls[n] : Read[n][Json[n][c]] = Meant[n][c]
<1> DEFINE AsDeclared(n) == \A c \in Controls[n] : Read[n][Json[n][c]] = Meant[n][c]
           S == {n \in 0 .. MaxDepth : AsDeclared(n)}
<1>0. MaxDepth \in Nat
  BY DepthAssumption
<1>1. ASSUME NEW n \in 0 .. MaxDepth, n # 0 => AsDeclared(n - 1)
      PROVE  AsDeclared(n)
  <2> SUFFICES ASSUME NEW c \in Controls[n]
               PROVE  Read[n][Json[n][c]] = Meant[n][c]
    OBVIOUS
  <2> DEFINE kept == NotSkipped(c.controls, Skipped(c.class))
             inner == IF c.class \notin Containers THEN <<>>
                      ELSE [k \in DOMAIN kept |-> Json[n - 1][kept[k]]]
             json == ControlToJson(c, inner)
             read == IF "controls" \notin DOMAIN json THEN <<>>
                     ELSE [k \in DOMAIN json.controls |-> Read[n - 1][json.controls[k]]]
             fit == NotSkipped(c.controls, IF c.class # "compound" THEN {"section"}
                                           ELSE {"group", "section"})
             meant == IF c.class \notin Containers THEN <<>>
                      ELSE [k \in DOMAIN fit |-> Meant[n - 1][fit[k]]]
  <2>1. Json[n][c] = json
    BY JsonOfControl, Zenon
  <2>2. json \in Forms[n]
    <3> HIDE DEF json
    <3> QED BY <2>1 DEF Forms
  <2>3. Read[n][json] = ReadControl(json, read)
    <3>1. Read[n] = ReadOf(n, Read[n - 1])
      BY ReadDef
    <3> HIDE DEF json
    <3> QED BY <2>2, <3>1, Zenon DEF ReadOf
  <2>4. Meant[n][c] = MeantControl(Unordered(c), meant)
    <3>1. Meant[n] = MeantOf(n, Meant[n - 1])
      BY MeantDef
    <3> QED BY <3>1, Zenon DEF MeantOf
  <2>5. fit = kept
    <3>1. (IF c.class # "compound" THEN {"section"} ELSE {"group", "section"}) = Skipped(c.class)
      BY DEF Skipped
    <3> QED BY <3>1, Zenon
  <2>6. "controls" \in DOMAIN json <=> c.class \in Containers
    BY ContainersHaveControls
  <2>7. read = meant
    <3>1. CASE c.class \notin Containers
      <4> HIDE DEF json
      <4> QED BY <2>6, <3>1
    <3>2. CASE c.class \in Containers
      <4>1. n # 0 /\ n - 1 \in 0 .. MaxDepth /\ c.controls \in Seq(Controls[n - 1])
        BY <1>0, <3>2, DepthAssumption
      <4>2. kept \in Seq(Controls[n - 1])
        BY <4>1, NotSkippedAreSome
      <4>3. json.controls = inner
        BY <3>2, DepthsHoldControls, ControlIsWritten, Zenon
      <4> HIDE DEF json, kept
      <4>4. inner = [k \in DOMAIN kept |-> Json[n - 1][kept[k]]]
        BY <3>2
      <4>5. ASSUME NEW k \in DOMAIN kept
            PROVE  Read[n - 1][Json[n - 1][kept[k]]] = Meant[n - 1][kept[k]]
        <5>1. kept[k] \in Controls[n - 1]
          BY <4>2
        <5> QED BY <1>1, <4>1, <5>1
      <4>6. read = [k \in DOMAIN kept |-> Read[n - 1][Json[n - 1][kept[k]]]]
        <5>1. read = [k \in DOMAIN inner |-> Read[n - 1][inner[k]]]
          <6> HIDE DEF inner
          <6> QED BY <2>6, <3>2, <4>3
        <5>2. DOMAIN inner = DOMAIN kept /\ \A k \in DOMAIN kept : inner[k] = Json[n - 1][kept[k]]
          BY <4>4
        <5> HIDE DEF inner, read
        <5> QED BY <5>1, <5>2
      <4>7. meant = [k \in DOMAIN kept |-> Meant[n - 1][kept[k]]]
        <5>1. meant = [k \in DOMAIN fit |-> Meant[n - 1][fit[k]]]
          BY <3>2, Zenon
        <5> HIDE DEF fit, meant
        <5> QED BY <2>5, <5>1, Zenon
      <4> HIDE DEF read, meant
      <4> QED BY <4>5, <4>6, <4>7
    <3> QED BY <3>1, <3>2
  <2>8. ReadControl(json, read) = MeantControl(Unordered(c), read)
    <3> HIDE DEF inner, read
    <3> QED BY DepthsHoldControls, ControlIsRead
  <2> HIDE DEF json, read, meant
  <2> QED BY <2>1, <2>3, <2>4, <2>7, <2>8
<1>2. 0 \in S
  <2> HIDE DEF AsDeclared
  <2> QED BY <1>0, <1>1
<1>3. ASSUME NEW n \in 1 .. MaxDepth, n - 1 \in S
      PROVE  n \in S
  <2>1. n \in 0 .. MaxDepth /\ AsDeclared(n - 1)
    BY <1>0, <1>3
  <2> HIDE DEF AsDeclared
  <2> QED BY <1>1, <2>1
<1>4. \A n \in 0 .. MaxDepth : n \in S
  <2> HIDE DEF S
  <2> QED BY <1>0, <1>2, <1>3, IntervalInduction
<1> QED BY <1>4

\* The controls of a schema are controls that occur.
SchemaInv == schema \in Seq(Controls[MaxDepth])

\* A form of any depth, of any controls with any options, ranges and values, is built as it
\* was declared, although what equals a default and what does not fit are left out.
THEOREM FormsAreAsDeclared == ConfigSpec => []FormIsAsDeclared
<1>1. ConfigInit => SchemaInv
  BY DEF ConfigInit, SchemaInv
<1>2. SchemaInv /\ [ConfigNext]_schema => SchemaInv'
  <2> SUFFICES ASSUME SchemaInv, [ConfigNext]_schema
               PROVE  SchemaInv'
    OBVIOUS
  <2>1. CASE NextStrategy
    BY <2>1 DEF NextStrategy, SchemaInv
  <2>2. ASSUME NEW c \in Controls[MaxDepth], Declare(c)
        PROVE  SchemaInv'
    BY <2>2 DEF Declare, SchemaInv
  <2>3. CASE UNCHANGED schema
    BY <2>3 DEF SchemaInv
  <2> QED BY <2>1, <2>2, <2>3 DEF ConfigNext
<1>3. SchemaInv => FormIsAsDeclared
  <2> SUFFICES ASSUME SchemaInv
               PROVE  FormIsAsDeclared
    OBVIOUS
  <2> DEFINE json == ConfigSchemaToJson(schema)
  <2>1. DOMAIN json = DOMAIN schema /\ \A k \in DOMAIN schema : json[k] = Json[MaxDepth][schema[k]]
    BY DEF ConfigSchemaToJson
  <2>2. ASSUME NEW k \in DOMAIN schema
        PROVE  Read[MaxDepth][json[k]] = Meant[MaxDepth][schema[k]]
    <3>1. schema[k] \in Controls[MaxDepth]
      BY DEF SchemaInv
    <3>2. MaxDepth \in 0 .. MaxDepth
      BY DepthAssumption
    <3> HIDE DEF json
    <3> QED BY <2>1, <3>1, <3>2, DepthIsRead
  <2>3. [k \in DOMAIN json |-> Read[MaxDepth][json[k]]] = [k \in DOMAIN schema |-> Meant[MaxDepth][schema[k]]]
    <3> HIDE DEF json
    <3> QED BY <2>1, <2>2
  <2> QED BY <2>3, Zenon DEF FormIsAsDeclared
<1> QED BY <1>1, <1>2, <1>3, PTL DEF ConfigSpec

-----------------------------------------------------------------------------
(* The order book.  What the code does by recursion on a tree is first shown to be what it   *)
(* does of a node and of its children; then a tree is balanced after every insertion and      *)
(* deletion, holds what it should, and a book of two trees implements PriceLevels.            *)

(* Trees *)

\* What holds of 0, and of k + 1 whenever it holds of k, holds of every number.
LEMMA NumberInduction ==
    ASSUME NEW S, 0 \in S, \A k \in Nat : k \in S => k + 1 \in S
    PROVE  Nat \subseteq S
<1> SUFFICES ASSUME NEW n \in Nat
             PROVE  n \in S
  OBVIOUS
<1>1. \A k \in 1 .. n : k - 1 \in S => k \in S
  OBVIOUS
<1>2. n \in 0 .. n
  OBVIOUS
<1> QED BY <1>1, <1>2, IntervalInduction

\* The trees of height n and below, by those of lower height.
TreesStep(lower, n) ==
    {Nil} \cup {t \in [key : Keys, val : Values, height : 1 .. n, left : lower, right : lower] :
                   t.left.height < t.height /\ t.right.height < t.height}

\* Trees is what its definition says.
LEMMA TreesDef ==
    \A n \in Nat : Trees[n] = IF n = 0 THEN {Nil} ELSE TreesStep(Trees[n - 1], n)
<1> DEFINE Is(f, n) == f = [i \in 0 .. n |-> IF i = 0 THEN {Nil} ELSE TreesStep(f[i - 1], i)]
           Known == {n \in Nat : \E f : Is(f, n)}
           F(n) == CHOOSE f : Is(f, n)
           All == [n \in Nat |-> F(n)[n]]
<1>1. 0 \in Known
  <2> DEFINE f == [i \in 0 .. 0 |-> {Nil}]
  <2>1. Is(f, 0)
    OBVIOUS
  <2> QED BY <2>1
<1>2. ASSUME NEW n \in Nat, n \in Known
      PROVE  n + 1 \in Known
  <2>1. PICK f : Is(f, n)
    BY <1>2
  <2> DEFINE g == [i \in 0 .. (n + 1) |-> IF i = n + 1 THEN TreesStep(f[n], n + 1) ELSE f[i]]
  <2>2. ASSUME NEW i \in 0 .. (n + 1)
        PROVE  g[i] = IF i = 0 THEN {Nil} ELSE TreesStep(g[i - 1], i)
    <3>1. CASE i = n + 1
      <4>1. g[i] = TreesStep(f[n], n + 1) /\ g[n] = f[n] /\ i - 1 = n /\ i # 0
        BY <3>1
      <4> QED BY <3>1, <4>1
    <3>2. CASE i # n + 1
      <4>1. i \in 0 .. n /\ g[i] = f[i]
        BY <3>2
      <4>2. i # 0 => i - 1 \in 0 .. (n + 1) /\ i - 1 # n + 1
        BY <3>2
      <4>3. i # 0 => g[i - 1] = f[i - 1]
        BY <4>2
      <4>4. f[i] = IF i = 0 THEN {Nil} ELSE TreesStep(f[i - 1], i)
        BY <2>1, <4>1
      <4> QED BY <4>1, <4>3, <4>4
    <3> QED BY <3>1, <3>2
  <2>3. Is(g, n + 1)
    <3>1. g = [i \in 0 .. (n + 1) |-> g[i]]
      OBVIOUS
    <3> HIDE DEF g
    <3> QED BY <2>2, <3>1
  <2>4. n + 1 \in Nat
    OBVIOUS
  <2> HIDE DEF Is, g
  <2> QED BY <2>3, <2>4
<1>3. ASSUME NEW n \in Nat
      PROVE  Is(F(n), n)
  <2>1. Nat \subseteq Known
    <3> HIDE DEF Known
    <3> QED BY <1>1, <1>2, NumberInduction
  <2>2. \E f : Is(f, n)
    BY <2>1
  <2> HIDE DEF Is
  <2> QED BY <2>2
<1> HIDE DEF F
<1>8. ASSUME NEW n \in Nat, NEW i \in 0 .. n
      PROVE  F(n)[i] = IF i = 0 THEN {Nil} ELSE TreesStep(F(n)[i - 1], i)
  <2>1. F(n) = [j \in 0 .. n |-> IF j = 0 THEN {Nil} ELSE TreesStep(F(n)[j - 1], j)]
    BY <1>3
  <2> QED BY <2>1, Zenon
<1> HIDE DEF Is
<1>4. ASSUME NEW n \in Nat
      PROVE  F(n + 1)[n] = F(n)[n]
  <2> DEFINE Same == {i \in 0 .. n : F(n + 1)[i] = F(n)[i]}
  <2>1. 0 \in Same
    <3>1. 0 \in 0 .. n /\ 0 \in 0 .. (n + 1)
      OBVIOUS
    <3>2. F(n + 1)[0] = {Nil} /\ F(n)[0] = {Nil}
      BY <1>8, <3>1
    <3> QED BY <3>1, <3>2
  <2>2. ASSUME NEW i \in 1 .. n, i - 1 \in Same
        PROVE  i \in Same
    <3>0. i \in 0 .. n /\ i \in 0 .. (n + 1) /\ i # 0
      OBVIOUS
    <3>1. F(n + 1)[i] = TreesStep(F(n + 1)[i - 1], i)
      BY <1>8, <3>0
    <3>2. F(n)[i] = TreesStep(F(n)[i - 1], i)
      BY <1>8, <3>0
    <3> QED BY <2>2, <3>1, <3>2
  <2>3. \A i \in 0 .. n : i \in Same
    <3> HIDE DEF Same
    <3> QED BY <2>1, <2>2, IntervalInduction
  <2> QED BY <2>3
<1>5. All = [n \in Nat |-> IF n = 0 THEN {Nil} ELSE TreesStep(All[n - 1], n)]
  <2>1. ASSUME NEW n \in Nat
        PROVE  All[n] = IF n = 0 THEN {Nil} ELSE TreesStep(All[n - 1], n)
    <3>1. F(n)[n] = IF n = 0 THEN {Nil} ELSE TreesStep(F(n)[n - 1], n)
      <4>1. n \in 0 .. n
        OBVIOUS
      <4> QED BY <1>8, <4>1
    <3>2. CASE n = 0
      BY <3>1, <3>2
    <3>3. CASE n # 0
      <4>1. n - 1 \in Nat /\ (n - 1) + 1 = n
        BY <3>3
      <4>2. F(n)[n - 1] = F(n - 1)[n - 1]
        BY <4>1, <1>4
      <4>3. All[n - 1] = F(n - 1)[n - 1] /\ All[n] = F(n)[n]
        BY <4>1
      <4> QED BY <3>1, <3>3, <4>2, <4>3
    <3> QED BY <3>2, <3>3
  <2>2. All = [n \in Nat |-> All[n]]
    OBVIOUS
  <2> HIDE DEF All
  <2> QED BY <2>1, <2>2
<1>6. Trees = [n \in Nat |-> IF n = 0 THEN {Nil} ELSE TreesStep(Trees[n - 1], n)]
  <2> DEFINE P(f) == f = [n \in Nat |-> IF n = 0 THEN {Nil} ELSE TreesStep(f[n - 1], n)]
  <2>1. Trees = CHOOSE f : P(f)
    BY DEF Trees, TreesStep
  <2>2. \E f : P(f)
    BY <1>5
  <2> HIDE DEF P
  <2>3. P(Trees)
    BY <2>1, <2>2
  <2> QED BY <2>3 DEF P
<1> QED BY <1>6

\* Trees of a height are trees of every greater one.
LEMMA TreesGrow ==
    ASSUME NEW m \in Nat, NEW n \in Nat, m <= n
    PROVE  Trees[m] \subseteq Trees[n]
<1> DEFINE S == {k \in Nat : Trees[k] \subseteq Trees[k + 1]}
           T == {k \in Nat : Trees[m] \subseteq Trees[m + k]}
<1>1. Trees[0] = {Nil}
  BY TreesDef
<1>2. ASSUME NEW k \in Nat
      PROVE  Trees[k + 1] = TreesStep(Trees[k], k + 1)
  <2>1. k + 1 \in Nat /\ k + 1 # 0 /\ (k + 1) - 1 = k
    OBVIOUS
  <2> QED BY <2>1, TreesDef
<1>3. 0 \in S
  BY <1>1, <1>2 DEF TreesStep
<1>4. ASSUME NEW k \in Nat, k \in S
      PROVE  k + 1 \in S
  <2>1. Trees[k + 1] = TreesStep(Trees[k], k + 1) /\ k + 1 \in Nat
    BY <1>2
  <2>2. Trees[(k + 1) + 1] = TreesStep(Trees[k + 1], (k + 1) + 1)
    BY <1>2
  <2>3. Trees[k] \subseteq Trees[k + 1]
    BY <1>4
  <2>4. 1 .. (k + 1) \subseteq 1 .. ((k + 1) + 1)
    OBVIOUS
  <2>5. TreesStep(Trees[k], k + 1) \subseteq TreesStep(Trees[k + 1], (k + 1) + 1)
    <3> DEFINE A == Trees[k]
               B == Trees[k + 1]
               I == 1 .. (k + 1)
               J == 1 .. ((k + 1) + 1)
    <3>1. A \subseteq B /\ I \subseteq J
      BY <2>3, <2>4
    <3> HIDE DEF A, B, I, J
    <3>2. [key : Keys, val : Values, height : I, left : A, right : A]
          \subseteq [key : Keys, val : Values, height : J, left : B, right : B]
      BY <3>1
    <3> QED BY <3>2 DEF TreesStep, I, J, A, B
  <2> QED BY <2>1, <2>2, <2>5
<1>5. \A k \in Nat : Trees[k] \subseteq Trees[k + 1]
  <2>1. Nat \subseteq S
    <3> HIDE DEF S
    <3> QED BY <1>3, <1>4, NumberInduction
  <2> QED BY <2>1
<1>6. 0 \in T
  BY m + 0 = m
<1>7. ASSUME NEW k \in Nat, k \in T
      PROVE  k + 1 \in T
  <2>1. m + k \in Nat /\ (m + k) + 1 = m + (k + 1) /\ k + 1 \in Nat
    OBVIOUS
  <2>2. Trees[m + k] \subseteq Trees[(m + k) + 1]
    BY <1>5, <2>1
  <2>3. Trees[m] \subseteq Trees[m + (k + 1)]
    BY <1>7, <2>1, <2>2
  <2> QED BY <2>1, <2>3
<1>8. n - m \in T
  <2>1. Nat \subseteq T
    <3> HIDE DEF T
    <3> QED BY <1>6, <1>7, NumberInduction
  <2> QED BY <2>1
<1> QED BY <1>8, m + (n - m) = n

AllTrees == UNION {Trees[n] : n \in Nat}

\* A tree is a tree of its own height; without a height it is none at all.
LEMMA TreeShape ==
    ASSUME NEW t \in AllTrees
    PROVE  /\ t.height \in Nat /\ t \in Trees[t.height]
           /\ t = Nil <=> t.height = 0
           /\ t # Nil =>
                /\ t.key \in Keys /\ t.val \in Values
                /\ t = Node(t.key, t.val, t.height, t.left, t.right)
                /\ t.left \in AllTrees /\ t.right \in AllTrees
                /\ t.left \in Trees[t.height - 1] /\ t.right \in Trees[t.height - 1]
                /\ t.left.height < t.height /\ t.right.height < t.height
<1> DEFINE Shaped(s) ==
              /\ s.height \in Nat /\ s \in Trees[s.height]
              /\ s = Nil <=> s.height = 0
              /\ s # Nil =>
                   /\ s.left \in Trees[s.height - 1] /\ s.right \in Trees[s.height - 1]
                   /\ s.left.height < s.height /\ s.right.height < s.height
           S == {n \in Nat : \A s \in Trees[n] : Shaped(s)}
<1>0. Nil.height = 0
  BY DEF Nil
<1>1. Trees[0] = {Nil}
  BY TreesDef
<1>2. 0 \in S
  BY <1>0, <1>1
<1>3. ASSUME NEW n \in Nat, n \in S
      PROVE  n + 1 \in S
  <2>1. Trees[n + 1] = TreesStep(Trees[n], n + 1)
    <3>1. n + 1 \in Nat /\ n + 1 # 0 /\ (n + 1) - 1 = n
      OBVIOUS
    <3> QED BY <3>1, TreesDef
  <2>2. ASSUME NEW s \in Trees[n + 1], s # Nil
        PROVE  Shaped(s)
    <3>1. /\ s \in [key : Keys, val : Values, height : 1 .. (n + 1), left : Trees[n], right : Trees[n]]
          /\ s.left.height < s.height /\ s.right.height < s.height
      BY <2>1, <2>2 DEF TreesStep
    <3>2. s.height \in 1 .. (n + 1) /\ s.left \in Trees[n] /\ s.right \in Trees[n]
      BY <3>1
    <3>3. Shaped(s.left) /\ Shaped(s.right)
      BY <1>3, <3>2
    <3>4. s.height \in Nat /\ s.height # 0 /\ s.height - 1 \in Nat
          /\ s.left.height \in Nat /\ s.right.height \in Nat
          /\ s.left.height <= s.height - 1 /\ s.right.height <= s.height - 1
      BY <3>1, <3>2, <3>3
    <3>5. s.left \in Trees[s.height - 1]
      <4>1. Trees[s.left.height] \subseteq Trees[s.height - 1]
        BY <3>4, TreesGrow
      <4> QED BY <4>1, <3>3
    <3>6. s.right \in Trees[s.height - 1]
      <4>1. Trees[s.right.height] \subseteq Trees[s.height - 1]
        BY <3>4, TreesGrow
      <4> QED BY <4>1, <3>3
    <3>7. s \in Trees[s.height]
      <4>1. Trees[s.height] = TreesStep(Trees[s.height - 1], s.height)
        BY <3>4, TreesDef
      <4>2. s.height \in 1 .. s.height
        BY <3>4
      <4>3. s \in [key : Keys, val : Values, height : 1 .. s.height,
                   left : Trees[s.height - 1], right : Trees[s.height - 1]]
        BY <3>1, <3>5, <3>6, <4>2
      <4> QED BY <3>1, <4>1, <4>3 DEF TreesStep
    <3> QED BY <2>2, <3>1, <3>4, <3>5, <3>6, <3>7
  <2>3. Shaped(Nil)
    BY <1>0, <1>1
  <2>4. n + 1 \in Nat /\ \A s \in Trees[n + 1] : Shaped(s)
    BY <2>2, <2>3
  <2> HIDE DEF Shaped
  <2> QED BY <2>4
<1>4. Shaped(t)
  <2>1. Nat \subseteq S
    <3> HIDE DEF S
    <3> QED BY <1>2, <1>3, NumberInduction
  <2> HIDE DEF Shaped
  <2> QED BY <2>1 DEF AllTrees
<1>5. ASSUME t # Nil
      PROVE  /\ t.key \in Keys /\ t.val \in Values
             /\ t = Node(t.key, t.val, t.height, t.left, t.right)
             /\ t.left \in AllTrees /\ t.right \in AllTrees
  <2>1. t.height # 0 /\ t.height - 1 \in Nat
    BY <1>4, <1>5
  <2>2. t \in TreesStep(Trees[t.height - 1], t.height)
    BY <1>4, <2>1, TreesDef
  <2>3. t \in [key : Keys, val : Values, height : 1 .. t.height,
               left : Trees[t.height - 1], right : Trees[t.height - 1]]
    BY <1>5, <2>2 DEF TreesStep
  <2>4. t = Node(t.key, t.val, t.height, t.left, t.right) /\ t.key \in Keys /\ t.val \in Values
    BY <2>3 DEF Node
  <2>5. t.left \in AllTrees /\ t.right \in AllTrees
    BY <2>1, <2>3 DEF AllTrees
  <2> QED BY <2>4, <2>5
<1> QED BY <1>4, <1>5

\* A node over lower trees is a tree.
LEMMA NodeIsTree ==
    ASSUME NEW k \in Keys, NEW v \in Values, NEW h \in Nat, NEW l \in AllTrees, NEW r \in AllTrees,
           l.height < h, r.height < h
    PROVE  /\ Node(k, v, h, l, r) \in AllTrees /\ Node(k, v, h, l, r) # Nil
           /\ Node(k, v, h, l, r).key = k /\ Node(k, v, h, l, r).val = v
           /\ Node(k, v, h, l, r).height = h
           /\ Node(k, v, h, l, r).left = l /\ Node(k, v, h, l, r).right = r
<1>1. l.height \in Nat /\ r.height \in Nat /\ l \in Trees[l.height] /\ r \in Trees[r.height]
  BY TreeShape
<1>2. h - 1 \in Nat /\ h # 0 /\ h \in 1 .. h /\ l.height <= h - 1 /\ r.height <= h - 1
  BY <1>1
<1>3. l \in Trees[h - 1] /\ r \in Trees[h - 1]
  BY <1>1, <1>2, TreesGrow
<1> DEFINE n == Node(k, v, h, l, r)
<1>4. n.key = k /\ n.val = v /\ n.height = h /\ n.left = l /\ n.right = r
  BY DEF Node
<1>5. n \in [key : Keys, val : Values, height : 1 .. h, left : Trees[h - 1], right : Trees[h - 1]]
  BY <1>2, <1>3 DEF Node
<1>6. Trees[h] = TreesStep(Trees[h - 1], h)
  BY <1>2, TreesDef
<1>7. n \in Trees[h]
  BY <1>4, <1>5, <1>6 DEF TreesStep
<1>8. n # Nil
  BY <1>2, <1>4 DEF Nil
<1> HIDE DEF n
<1> QED BY <1>4, <1>7, <1>8 DEF AllTrees, n

\* Induction on trees, for the set of those that have the property.
LEMMA TreeInduction ==
    ASSUME NEW S, Nil \in S,
           \A t \in AllTrees : t # Nil /\ t.left \in S /\ t.right \in S => t \in S
    PROVE  AllTrees \subseteq S
<1> DEFINE H == {n \in Nat : Trees[n] \subseteq S}
<1>1. 0 \in H
  BY TreesDef
<1>2. ASSUME NEW n \in Nat, n \in H
      PROVE  n + 1 \in H
  <2>0. n + 1 \in Nat /\ (n + 1) - 1 = n /\ n + 1 # 0
    OBVIOUS
  <2>1. Trees[n + 1] = TreesStep(Trees[n], n + 1)
    BY <2>0, TreesDef
  <2>2. ASSUME NEW t \in Trees[n + 1], t # Nil
        PROVE  t \in S
    <3>1. t.left \in Trees[n] /\ t.right \in Trees[n]
      BY <2>1, <2>2 DEF TreesStep
    <3>2. t \in AllTrees
      BY <2>0 DEF AllTrees
    <3> QED BY <1>2, <2>2, <3>1, <3>2
  <2> QED BY <2>0, <2>2
<1>3. Nat \subseteq H
  <2> HIDE DEF H
  <2> QED BY <1>1, <1>2, NumberInduction
<1> QED BY <1>3 DEF AllTrees

\* The children of a tree are lower.
LEMMA LowerChildren ==
    ASSUME NEW h \in Nat, NEW n \in Trees[h + 1], n # Nil
    PROVE  n.left \in Trees[h] /\ n.right \in Trees[h]
<1>1. h + 1 \in Nat /\ h + 1 # 0 /\ (h + 1) - 1 = h
  OBVIOUS
<1>2. Trees[h + 1] = TreesStep(Trees[h], h + 1)
  BY <1>1, TreesDef
<1> QED BY <1>2 DEF TreesStep

\* What is below a number that is not zero.
LEMMA Predecessor == \A h \in Nat : h # 0 => h - 1 \in Nat /\ (h - 1) + 1 = h /\ h - 1 <= h
OBVIOUS

\* A recursion on the trees up to a height computes the same of a tree whatever the height.
LEMMA ChildrenAgree ==
    ASSUME NEW G, \A h \in Nat : G[h][Nil] = G[0][Nil],
           \A h, m \in Nat : \A n \in Trees[h] \cap Trees[m] :
              n # Nil /\ G[h][n.left] = G[m][n.left] /\ G[h][n.right] = G[m][n.right]
              => G[h][n] = G[m][n],
           NEW t \in AllTrees, t # Nil
    PROVE  /\ G[t.height][t.left] = G[t.left.height][t.left]
           /\ G[t.height][t.right] = G[t.right.height][t.right]
<1> DEFINE S == {s \in AllTrees : \A h, m \in Nat : s \in Trees[h] /\ s \in Trees[m] => G[h][s] = G[m][s]}
<1>1. Nil \in S
  <2>1. Nil \in AllTrees
    BY TreesDef DEF AllTrees
  <2> QED BY <2>1
<1>2. ASSUME NEW s \in AllTrees, s # Nil, s.left \in S, s.right \in S
      PROVE  s \in S
  <2>1. ASSUME NEW h \in Nat, s \in Trees[h]
        PROVE  s.left \in Trees[h] /\ s.right \in Trees[h]
    <3>1. h # 0
      BY <1>2, <2>1, TreesDef
    <3>2. h - 1 \in Nat /\ (h - 1) + 1 = h /\ h - 1 <= h
      BY <3>1, Predecessor
    <3>3. s.left \in Trees[h - 1] /\ s.right \in Trees[h - 1]
      BY <1>2, <2>1, <3>2, LowerChildren
    <3> QED BY <3>2, <3>3, TreesGrow
  <2>2. ASSUME NEW h \in Nat, NEW m \in Nat, s \in Trees[h], s \in Trees[m]
        PROVE  G[h][s] = G[m][s]
    BY <1>2, <2>1, <2>2
  <2> QED BY <2>2
<1>3. AllTrees \subseteq S
  <2> HIDE DEF S
  <2> QED BY <1>1, <1>2, TreeInduction
<1>4. /\ t.height \in Nat /\ t.height - 1 \in Nat /\ t.height - 1 <= t.height
      /\ t.left \in AllTrees /\ t.right \in AllTrees
      /\ t.left \in Trees[t.height - 1] /\ t.right \in Trees[t.height - 1]
  BY TreeShape
<1>5. t.left \in Trees[t.height] /\ t.right \in Trees[t.height]
  BY <1>4, TreesGrow
<1>6. /\ t.left.height \in Nat /\ t.left \in Trees[t.left.height]
      /\ t.right.height \in Nat /\ t.right \in Trees[t.right.height]
  BY <1>4, TreeShape
<1> QED BY <1>3, <1>4, <1>5, <1>6

\* The nodes of a tree, by its root.
LEMMA NodesDef ==
    ASSUME NEW t \in AllTrees
    PROVE  Nodes(t) = IF t = Nil THEN {} ELSE {t} \cup Nodes(t.left) \cup Nodes(t.right)
<1> DEFINE B(n, x, y) == IF n = Nil THEN {} ELSE {n} \cup x \cup y
           Is(f, h) == f = [n \in Trees[h] |-> B(n, f[n.left], f[n.right])]
           Known == {h \in Nat : \E f : Is(f, h)}
           G == [h \in Nat |-> CHOOSE f : Is(f, h)]
<1>1. \A x, y, u, w : B(Nil, x, y) = B(Nil, u, w)
  BY DEF Nil
<1>2. \A h \in Nat : G[h] = CHOOSE f : Is(f, h)
  OBVIOUS
<1>3. /\ Nodes(t) = (CHOOSE f : Is(f, t.height))[t]
      /\ Nodes(t.left) = (CHOOSE f : Is(f, t.left.height))[t.left]
      /\ Nodes(t.right) = (CHOOSE f : Is(f, t.right.height))[t.right]
  BY DEF Nodes
<1>4. SUFFICES Nodes(t) = B(t, Nodes(t.left), Nodes(t.right))
  OBVIOUS
<1> HIDE DEF B
<1>5. 0 \in Known
  <2> DEFINE f == [n \in Trees[0] |-> B(Nil, Nil, Nil)]
  <2>1. \A n \in Trees[0] : f[n] = B(n, f[n.left], f[n.right])
    BY <1>1, TreesDef
  <2>2. f = [n \in Trees[0] |-> f[n]]
    OBVIOUS
  <2> HIDE DEF f
  <2>3. Is(f, 0)
    BY <2>1, <2>2
  <2> QED BY <2>3
<1>6. ASSUME NEW h \in Nat, h \in Known
      PROVE  h + 1 \in Known
  <2>1. PICK f : Is(f, h)
    BY <1>6
  <2> DEFINE g == [n \in Trees[h + 1] |-> B(n, f[n.left], f[n.right])]
  <2>2. Trees[h] \subseteq Trees[h + 1] /\ h + 1 \in Nat
    BY h + 1 \in Nat, h <= h + 1, TreesGrow
  <2>3. \A n \in Trees[h] : g[n] = f[n]
    BY <2>1, <2>2
  <2>4. ASSUME NEW n \in Trees[h + 1]
        PROVE  g[n] = B(n, g[n.left], g[n.right])
    <3>1. g[n] = B(n, f[n.left], f[n.right])
      OBVIOUS
    <3> HIDE DEF g
    <3> QED BY <1>1, <2>3, <3>1, LowerChildren
  <2>5. g = [n \in Trees[h + 1] |-> g[n]]
    OBVIOUS
  <2> HIDE DEF g
  <2>6. Is(g, h + 1)
    BY <2>4, <2>5
  <2> HIDE DEF Is
  <2> QED BY <2>2, <2>6
<1>7. ASSUME NEW h \in Nat, NEW n \in Trees[h]
      PROVE  G[h][n] = B(n, G[h][n.left], G[h][n.right])
  <2>1. Nat \subseteq Known
    <3> HIDE DEF Known
    <3> QED BY <1>5, <1>6, NumberInduction
  <2>2. Is(G[h], h)
    <3>1. \E f : Is(f, h)
      BY <2>1
    <3> HIDE DEF Is
    <3> QED BY <1>2, <3>1
  <2>3. G[h] = [s \in Trees[h] |-> B(s, G[h][s.left], G[h][s.right])]
    <3> HIDE DEF G
    <3> QED BY <2>2
  <2> HIDE DEF G
  <2> QED BY <2>3, Zenon
<1> HIDE DEF G, Is
<1>8. \A h \in Nat : G[h][Nil] = G[0][Nil]
  <2> SUFFICES ASSUME NEW h \in Nat
               PROVE  G[h][Nil] = G[0][Nil]
    OBVIOUS
  <2>1. Nil \in Trees[h] /\ Nil \in Trees[0]
    BY TreesDef, TreesGrow
  <2> QED BY <1>1, <1>7, <2>1
<1>9. t.height \in Nat /\ t \in Trees[t.height]
  BY TreeShape
<1>10. Nodes(t) = B(t, G[t.height][t.left], G[t.height][t.right])
  BY <1>2, <1>3, <1>7, <1>9
<1>11. CASE t = Nil
  BY <1>1, <1>10, <1>11
<1>12. CASE t # Nil
  <2>1. \A h, m \in Nat : \A n \in Trees[h] \cap Trees[m] :
           n # Nil /\ G[h][n.left] = G[m][n.left] /\ G[h][n.right] = G[m][n.right]
           => G[h][n] = G[m][n]
    BY <1>7
  <2>2. /\ G[t.height][t.left] = G[t.left.height][t.left]
        /\ G[t.height][t.right] = G[t.right.height][t.right]
    BY <1>8, <1>12, <2>1, ChildrenAgree
  <2>3. t.left.height \in Nat /\ t.right.height \in Nat
    BY <1>12, TreeShape
  <2> QED BY <1>2, <1>3, <1>10, <2>2, <2>3
<1> QED BY <1>11, <1>12

\* What insert_internal leaves of a tree, by what it leaves of the children.
LEMMA InsertDef ==
    ASSUME NEW less, NEW k, NEW v, NEW replace, NEW t \in AllTrees
    PROVE  InsertInternal(less, t, k, v, replace) = InsertAt(less, t, k, v, replace,
                                                        InsertInternal(less, t.left, k, v, replace),
                                                        InsertInternal(less, t.right, k, v, replace))
<1> DEFINE B(n, x, y) == InsertAt(less, n, k, v, replace, x, y)
           Is(f, h) == f = [n \in Trees[h] |-> B(n, f[n.left], f[n.right])]
           Known == {h \in Nat : \E f : Is(f, h)}
           G == [h \in Nat |-> CHOOSE f : Is(f, h)]
<1>1. \A x, y, u, w : B(Nil, x, y) = B(Nil, u, w)
  BY DEF InsertAt
<1>2. \A h \in Nat : G[h] = CHOOSE f : Is(f, h)
  OBVIOUS
<1>3. /\ InsertInternal(less, t, k, v, replace) = (CHOOSE f : Is(f, t.height))[t]
      /\ InsertInternal(less, t.left, k, v, replace) = (CHOOSE f : Is(f, t.left.height))[t.left]
      /\ InsertInternal(less, t.right, k, v, replace) = (CHOOSE f : Is(f, t.right.height))[t.right]
  BY DEF InsertInternal
<1>4. SUFFICES InsertInternal(less, t, k, v, replace) = B(t, InsertInternal(less, t.left, k, v, replace), InsertInternal(less, t.right, k, v, replace))
  OBVIOUS
<1> HIDE DEF B
<1>5. 0 \in Known
  <2> DEFINE f == [n \in Trees[0] |-> B(Nil, Nil, Nil)]
  <2>1. \A n \in Trees[0] : f[n] = B(n, f[n.left], f[n.right])
    BY <1>1, TreesDef
  <2>2. f = [n \in Trees[0] |-> f[n]]
    OBVIOUS
  <2> HIDE DEF f
  <2>3. Is(f, 0)
    BY <2>1, <2>2
  <2> QED BY <2>3
<1>6. ASSUME NEW h \in Nat, h \in Known
      PROVE  h + 1 \in Known
  <2>1. PICK f : Is(f, h)
    BY <1>6
  <2> DEFINE g == [n \in Trees[h + 1] |-> B(n, f[n.left], f[n.right])]
  <2>2. Trees[h] \subseteq Trees[h + 1] /\ h + 1 \in Nat
    BY h + 1 \in Nat, h <= h + 1, TreesGrow
  <2>3. \A n \in Trees[h] : g[n] = f[n]
    BY <2>1, <2>2
  <2>4. ASSUME NEW n \in Trees[h + 1]
        PROVE  g[n] = B(n, g[n.left], g[n.right])
    <3>1. g[n] = B(n, f[n.left], f[n.right])
      OBVIOUS
    <3> HIDE DEF g
    <3> QED BY <1>1, <2>3, <3>1, LowerChildren
  <2>5. g = [n \in Trees[h + 1] |-> g[n]]
    OBVIOUS
  <2> HIDE DEF g
  <2>6. Is(g, h + 1)
    BY <2>4, <2>5
  <2> HIDE DEF Is
  <2> QED BY <2>2, <2>6
<1>7. ASSUME NEW h \in Nat, NEW n \in Trees[h]
      PROVE  G[h][n] = B(n, G[h][n.left], G[h][n.right])
  <2>1. Nat \subseteq Known
    <3> HIDE DEF Known
    <3> QED BY <1>5, <1>6, NumberInduction
  <2>2. Is(G[h], h)
    <3>1. \E f : Is(f, h)
      BY <2>1
    <3> HIDE DEF Is
    <3> QED BY <1>2, <3>1
  <2>3. G[h] = [s \in Trees[h] |-> B(s, G[h][s.left], G[h][s.right])]
    <3> HIDE DEF G
    <3> QED BY <2>2
  <2> HIDE DEF G
  <2> QED BY <2>3, Zenon
<1> HIDE DEF G, Is
<1>8. \A h \in Nat : G[h][Nil] = G[0][Nil]
  <2> SUFFICES ASSUME NEW h \in Nat
               PROVE  G[h][Nil] = G[0][Nil]
    OBVIOUS
  <2>1. Nil \in Trees[h] /\ Nil \in Trees[0]
    BY TreesDef, TreesGrow
  <2> QED BY <1>1, <1>7, <2>1
<1>9. t.height \in Nat /\ t \in Trees[t.height]
  BY TreeShape
<1>10. InsertInternal(less, t, k, v, replace) = B(t, G[t.height][t.left], G[t.height][t.right])
  BY <1>2, <1>3, <1>7, <1>9
<1>11. CASE t = Nil
  BY <1>1, <1>10, <1>11
<1>12. CASE t # Nil
  <2>1. \A h, m \in Nat : \A n \in Trees[h] \cap Trees[m] :
           n # Nil /\ G[h][n.left] = G[m][n.left] /\ G[h][n.right] = G[m][n.right]
           => G[h][n] = G[m][n]
    BY <1>7
  <2>2. /\ G[t.height][t.left] = G[t.left.height][t.left]
        /\ G[t.height][t.right] = G[t.right.height][t.right]
    BY <1>8, <1>12, <2>1, ChildrenAgree
  <2>3. t.left.height \in Nat /\ t.right.height \in Nat
    BY <1>12, TreeShape
  <2> QED BY <1>2, <1>3, <1>10, <2>2, <2>3
<1> QED BY <1>11, <1>12

\* What delete_internal leaves of a tree, for each key.
Deletions(less, t) ==
    LET left[n \in Trees[t.height]] ==
            [q \in Keys |-> DeleteAt(less, n, q, left[n.left], left[n.right])]
    IN  left[t]

\* What delete_internal leaves of a tree, by what it leaves of the children.
LEMMA DeletionsDef ==
    ASSUME NEW less, NEW t \in AllTrees
    PROVE  Deletions(less, t) =
              [q \in Keys |-> DeleteAt(less, t, q, Deletions(less, t.left), Deletions(less, t.right))]
<1> DEFINE B(n, x, y) == [q \in Keys |-> DeleteAt(less, n, q, x, y)]
           Is(f, h) == f = [n \in Trees[h] |-> B(n, f[n.left], f[n.right])]
           Known == {h \in Nat : \E f : Is(f, h)}
           G == [h \in Nat |-> CHOOSE f : Is(f, h)]
<1>1. \A x, y, u, w : B(Nil, x, y) = B(Nil, u, w)
  BY DEF DeleteAt
<1>2. \A h \in Nat : G[h] = CHOOSE f : Is(f, h)
  OBVIOUS
<1>3. /\ Deletions(less, t) = (CHOOSE f : Is(f, t.height))[t]
      /\ Deletions(less, t.left) = (CHOOSE f : Is(f, t.left.height))[t.left]
      /\ Deletions(less, t.right) = (CHOOSE f : Is(f, t.right.height))[t.right]
  BY DEF Deletions
<1>4. SUFFICES Deletions(less, t) = B(t, Deletions(less, t.left), Deletions(less, t.right))
  OBVIOUS
<1> HIDE DEF B
<1>5. 0 \in Known
  <2> DEFINE f == [n \in Trees[0] |-> B(Nil, Nil, Nil)]
  <2>1. \A n \in Trees[0] : f[n] = B(n, f[n.left], f[n.right])
    BY <1>1, TreesDef
  <2>2. f = [n \in Trees[0] |-> f[n]]
    OBVIOUS
  <2> HIDE DEF f
  <2>3. Is(f, 0)
    BY <2>1, <2>2
  <2> QED BY <2>3
<1>6. ASSUME NEW h \in Nat, h \in Known
      PROVE  h + 1 \in Known
  <2>1. PICK f : Is(f, h)
    BY <1>6
  <2> DEFINE g == [n \in Trees[h + 1] |-> B(n, f[n.left], f[n.right])]
  <2>2. Trees[h] \subseteq Trees[h + 1] /\ h + 1 \in Nat
    BY h + 1 \in Nat, h <= h + 1, TreesGrow
  <2>3. \A n \in Trees[h] : g[n] = f[n]
    BY <2>1, <2>2
  <2>4. ASSUME NEW n \in Trees[h + 1]
        PROVE  g[n] = B(n, g[n.left], g[n.right])
    <3>1. g[n] = B(n, f[n.left], f[n.right])
      OBVIOUS
    <3> HIDE DEF g
    <3> QED BY <1>1, <2>3, <3>1, LowerChildren
  <2>5. g = [n \in Trees[h + 1] |-> g[n]]
    OBVIOUS
  <2> HIDE DEF g
  <2>6. Is(g, h + 1)
    BY <2>4, <2>5
  <2> HIDE DEF Is
  <2> QED BY <2>2, <2>6
<1>7. ASSUME NEW h \in Nat, NEW n \in Trees[h]
      PROVE  G[h][n] = B(n, G[h][n.left], G[h][n.right])
  <2>1. Nat \subseteq Known
    <3> HIDE DEF Known
    <3> QED BY <1>5, <1>6, NumberInduction
  <2>2. Is(G[h], h)
    <3>1. \E f : Is(f, h)
      BY <2>1
    <3> HIDE DEF Is
    <3> QED BY <1>2, <3>1
  <2>3. G[h] = [s \in Trees[h] |-> B(s, G[h][s.left], G[h][s.right])]
    <3> HIDE DEF G
    <3> QED BY <2>2
  <2> HIDE DEF G
  <2> QED BY <2>3, Zenon
<1> HIDE DEF G, Is
<1>8. \A h \in Nat : G[h][Nil] = G[0][Nil]
  <2> SUFFICES ASSUME NEW h \in Nat
               PROVE  G[h][Nil] = G[0][Nil]
    OBVIOUS
  <2>1. Nil \in Trees[h] /\ Nil \in Trees[0]
    BY TreesDef, TreesGrow
  <2> QED BY <1>1, <1>7, <2>1
<1>9. t.height \in Nat /\ t \in Trees[t.height]
  BY TreeShape
<1>10. Deletions(less, t) = B(t, G[t.height][t.left], G[t.height][t.right])
  BY <1>2, <1>3, <1>7, <1>9
<1>11. CASE t = Nil
  BY <1>1, <1>10, <1>11
<1>12. CASE t # Nil
  <2>1. \A h, m \in Nat : \A n \in Trees[h] \cap Trees[m] :
           n # Nil /\ G[h][n.left] = G[m][n.left] /\ G[h][n.right] = G[m][n.right]
           => G[h][n] = G[m][n]
    BY <1>7
  <2>2. /\ G[t.height][t.left] = G[t.left.height][t.left]
        /\ G[t.height][t.right] = G[t.right.height][t.right]
    BY <1>8, <1>12, <2>1, ChildrenAgree
  <2>3. t.left.height \in Nat /\ t.right.height \in Nat
    BY <1>12, TreeShape
  <2> QED BY <1>2, <1>3, <1>10, <2>2, <2>3
<1> QED BY <1>11, <1>12

\* The nodes from the root on to the left, by the root.
LEMMA LeftSpineDef ==
    ASSUME NEW t \in AllTrees
    PROVE  LeftSpine(t) = IF t = Nil THEN <<>> ELSE <<t>> \o LeftSpine(t.left)
<1> DEFINE B(n, x, y) == IF n = Nil THEN <<>> ELSE <<n>> \o x
           Is(f, h) == f = [n \in Trees[h] |-> B(n, f[n.left], f[n.right])]
           Known == {h \in Nat : \E f : Is(f, h)}
           G == [h \in Nat |-> CHOOSE f : Is(f, h)]
<1>1. \A x, y, u, w : B(Nil, x, y) = B(Nil, u, w)
  BY DEF Nil
<1>2. \A h \in Nat : G[h] = CHOOSE f : Is(f, h)
  OBVIOUS
<1>3. /\ LeftSpine(t) = (CHOOSE f : Is(f, t.height))[t]
      /\ LeftSpine(t.left) = (CHOOSE f : Is(f, t.left.height))[t.left]
      /\ LeftSpine(t.right) = (CHOOSE f : Is(f, t.right.height))[t.right]
  BY DEF LeftSpine
<1>4. SUFFICES LeftSpine(t) = B(t, LeftSpine(t.left), LeftSpine(t.right))
  OBVIOUS
<1> HIDE DEF B
<1>5. 0 \in Known
  <2> DEFINE f == [n \in Trees[0] |-> B(Nil, Nil, Nil)]
  <2>1. \A n \in Trees[0] : f[n] = B(n, f[n.left], f[n.right])
    BY <1>1, TreesDef
  <2>2. f = [n \in Trees[0] |-> f[n]]
    OBVIOUS
  <2> HIDE DEF f
  <2>3. Is(f, 0)
    BY <2>1, <2>2
  <2> QED BY <2>3
<1>6. ASSUME NEW h \in Nat, h \in Known
      PROVE  h + 1 \in Known
  <2>1. PICK f : Is(f, h)
    BY <1>6
  <2> DEFINE g == [n \in Trees[h + 1] |-> B(n, f[n.left], f[n.right])]
  <2>2. Trees[h] \subseteq Trees[h + 1] /\ h + 1 \in Nat
    BY h + 1 \in Nat, h <= h + 1, TreesGrow
  <2>3. \A n \in Trees[h] : g[n] = f[n]
    BY <2>1, <2>2
  <2>4. ASSUME NEW n \in Trees[h + 1]
        PROVE  g[n] = B(n, g[n.left], g[n.right])
    <3>1. g[n] = B(n, f[n.left], f[n.right])
      OBVIOUS
    <3> HIDE DEF g
    <3> QED BY <1>1, <2>3, <3>1, LowerChildren
  <2>5. g = [n \in Trees[h + 1] |-> g[n]]
    OBVIOUS
  <2> HIDE DEF g
  <2>6. Is(g, h + 1)
    BY <2>4, <2>5
  <2> HIDE DEF Is
  <2> QED BY <2>2, <2>6
<1>7. ASSUME NEW h \in Nat, NEW n \in Trees[h]
      PROVE  G[h][n] = B(n, G[h][n.left], G[h][n.right])
  <2>1. Nat \subseteq Known
    <3> HIDE DEF Known
    <3> QED BY <1>5, <1>6, NumberInduction
  <2>2. Is(G[h], h)
    <3>1. \E f : Is(f, h)
      BY <2>1
    <3> HIDE DEF Is
    <3> QED BY <1>2, <3>1
  <2>3. G[h] = [s \in Trees[h] |-> B(s, G[h][s.left], G[h][s.right])]
    <3> HIDE DEF G
    <3> QED BY <2>2
  <2> HIDE DEF G
  <2> QED BY <2>3, Zenon
<1> HIDE DEF G, Is
<1>8. \A h \in Nat : G[h][Nil] = G[0][Nil]
  <2> SUFFICES ASSUME NEW h \in Nat
               PROVE  G[h][Nil] = G[0][Nil]
    OBVIOUS
  <2>1. Nil \in Trees[h] /\ Nil \in Trees[0]
    BY TreesDef, TreesGrow
  <2> QED BY <1>1, <1>7, <2>1
<1>9. t.height \in Nat /\ t \in Trees[t.height]
  BY TreeShape
<1>10. LeftSpine(t) = B(t, G[t.height][t.left], G[t.height][t.right])
  BY <1>2, <1>3, <1>7, <1>9
<1>11. CASE t = Nil
  BY <1>1, <1>10, <1>11
<1>12. CASE t # Nil
  <2>1. \A h, m \in Nat : \A n \in Trees[h] \cap Trees[m] :
           n # Nil /\ G[h][n.left] = G[m][n.left] /\ G[h][n.right] = G[m][n.right]
           => G[h][n] = G[m][n]
    BY <1>7
  <2>2. /\ G[t.height][t.left] = G[t.left.height][t.left]
        /\ G[t.height][t.right] = G[t.right.height][t.right]
    BY <1>8, <1>12, <2>1, ChildrenAgree
  <2>3. t.left.height \in Nat /\ t.right.height \in Nat
    BY <1>12, TreeShape
  <2> QED BY <1>2, <1>3, <1>10, <2>2, <2>3
<1> QED BY <1>11, <1>12

\* The first node of a tree is the root, or the first of the left child.
LEMMA FirstNode ==
    ASSUME NEW t \in AllTrees, t # Nil
    PROVE  /\ LeftSpine(t) \in Seq(AllTrees) /\ LeftSpine(t) # <<>>
           /\ MinValueNode(t) = IF t.left = Nil THEN t ELSE MinValueNode(t.left)
<1> DEFINE S == {s \in AllTrees : LeftSpine(s) \in Seq(AllTrees) /\ (s # Nil => LeftSpine(s) # <<>>)}
<1>1. Nil \in S
  <2>1. Nil \in AllTrees
    BY TreesDef DEF AllTrees
  <2>2. LeftSpine(Nil) = <<>>
    BY <2>1, LeftSpineDef
  <2> QED BY <2>1, <2>2
<1>2. ASSUME NEW s \in AllTrees, s # Nil, s.left \in S, s.right \in S
      PROVE  s \in S
  <2>1. LeftSpine(s) = <<s>> \o LeftSpine(s.left) /\ LeftSpine(s.left) \in Seq(AllTrees)
    BY <1>2, LeftSpineDef
  <2>2. <<s>> \in Seq(AllTrees) /\ Len(<<s>>) = 1
    OBVIOUS
  <2>3. LeftSpine(s) \in Seq(AllTrees) /\ Len(LeftSpine(s)) = 1 + Len(LeftSpine(s.left))
    BY <2>1, <2>2
  <2>4. Len(LeftSpine(s)) # 0
    <3>1. Len(LeftSpine(s.left)) \in Nat
      BY <2>1
    <3> QED BY <2>3, <3>1
  <2> QED BY <2>3, <2>4
<1>3. AllTrees \subseteq S
  <2> HIDE DEF S
  <2> QED BY <1>1, <1>2, TreeInduction
<1>4. t.left \in AllTrees /\ LeftSpine(t) = <<t>> \o LeftSpine(t.left)
  BY TreeShape, LeftSpineDef
<1>5. LeftSpine(t.left) \in Seq(AllTrees) /\ (t.left # Nil => LeftSpine(t.left) # <<>>)
  BY <1>3, <1>4
<1>6. CASE t.left = Nil
  <2>1. LeftSpine(t.left) = <<>>
    BY <1>4, <1>6, LeftSpineDef
  <2>2. LeftSpine(t) = <<t>>
    BY <1>4, <2>1
  <2>3. MinValueNode(t) = t
    BY <2>2 DEF MinValueNode
  <2> QED BY <1>3, <1>6, <2>3
<1>7. CASE t.left # Nil
  <2> DEFINE q == LeftSpine(t.left)
  <2>1. q \in Seq(AllTrees) /\ Len(q) \in Nat /\ Len(q) # 0
    BY <1>5, <1>7
  <2> HIDE DEF q
  <2>2. Len(<<t>> \o q) = 1 + Len(q) /\ (<<t>> \o q)[1 + Len(q)] = q[Len(q)]
    BY <2>1
  <2>3. MinValueNode(t) = q[Len(q)] /\ MinValueNode(t.left) = q[Len(q)]
    BY <1>4, <2>2 DEF MinValueNode, q
  <2> QED BY <1>3, <1>7, <2>3
<1> QED BY <1>6, <1>7

(* Balance *)

\* The height of a node over two trees.
Taller(l, r) == 1 + IF l.height > r.height THEN l.height ELSE r.height

\* A node over two trees, with the height they give it.
Over(k, v, l, r) == Node(k, v, Taller(l, r), l, r)

\* What is done to a node, by its parts.
LEMMA OnNode ==
    ASSUME NEW k, NEW v, NEW h, NEW a, NEW b
    PROVE  /\ Node(k, v, h, a, b).key = k /\ Node(k, v, h, a, b).val = v
           /\ Node(k, v, h, a, b).height = h
           /\ Node(k, v, h, a, b).left = a /\ Node(k, v, h, a, b).right = b
           /\ \A l, r : DuplicateNode(Node(k, v, h, a, b), l, r) = Node(k, v, h, l, r)
           /\ UpdateHeight(Node(k, v, h, a, b)) = Over(k, v, a, b)
<1>1. /\ Node(k, v, h, a, b).key = k /\ Node(k, v, h, a, b).val = v
      /\ Node(k, v, h, a, b).height = h
      /\ Node(k, v, h, a, b).left = a /\ Node(k, v, h, a, b).right = b
  BY DEF Node
<1>2. ASSUME NEW l, NEW r
      PROVE  DuplicateNode(Node(k, v, h, a, b), l, r) = Node(k, v, h, l, r)
  <2>1. [Node(k, v, h, a, b) EXCEPT !.left = l] = Node(k, v, h, l, b)
    BY DEF Node
  <2>2. [Node(k, v, h, l, b) EXCEPT !.right = r] = Node(k, v, h, l, r)
    BY DEF Node
  <2> QED BY <2>1, <2>2 DEF DuplicateNode
<1>3. UpdateHeight(Node(k, v, h, a, b)) = Over(k, v, a, b)
  <2>1. Grown(Node(k, v, h, a, b)) = Taller(a, b)
    BY <1>1 DEF Grown, Taller
  <2>2. \A g : [Node(k, v, h, a, b) EXCEPT !.height = g] = Node(k, v, g, a, b)
    BY DEF Node
  <2> QED BY <2>1, <2>2 DEF UpdateHeight, Over
<1> QED BY <1>1, <1>2, <1>3

\* What updateHeight makes of a node that was given children.
LEMMA UpdatedIsOver ==
    ASSUME NEW t \in AllTrees, t # Nil, NEW l, NEW r
    PROVE  /\ DuplicateNode(t, l, r) = Node(t.key, t.val, t.height, l, r)
           /\ UpdateHeight(DuplicateNode(t, l, r)) = Over(t.key, t.val, l, r)
           /\ UpdateHeight(t) = Over(t.key, t.val, t.left, t.right)
<1>1. t = Node(t.key, t.val, t.height, t.left, t.right)
  BY TreeShape
<1>2. DuplicateNode(t, l, r) = Node(t.key, t.val, t.height, l, r)
  BY <1>1, OnNode
<1> QED BY <1>1, <1>2, OnNode

\* The rotations, by what they put over what.
LEMMA RotateRightOver ==
    ASSUME NEW k, NEW v, NEW h, NEW r, NEW kl, NEW vl, NEW hl, NEW a, NEW b
    PROVE  RotateRight(Node(k, v, h, Node(kl, vl, hl, a, b), r)) = Over(kl, vl, a, Over(k, v, b, r))
<1> DEFINE l == Node(kl, vl, hl, a, b)
           n == Node(k, v, h, l, r)
<1>1. n.left = l /\ n.right = r /\ l.left = a /\ l.right = b
  BY OnNode
<1>2. UpdateHeight(DuplicateNode(n, b, r)) = Over(k, v, b, r)
  BY OnNode
<1>3. UpdateHeight(DuplicateNode(l, a, Over(k, v, b, r))) = Over(kl, vl, a, Over(k, v, b, r))
  BY OnNode
<1> HIDE DEF l, n
<1>4. RotateRight(n) = Over(kl, vl, a, Over(k, v, b, r))
  BY <1>1, <1>2, <1>3 DEF RotateRight
<1> QED BY <1>4 DEF n, l

\* The left rotation, likewise.
LEMMA RotateLeftOver ==
    ASSUME NEW k, NEW v, NEW h, NEW l, NEW kr, NEW vr, NEW hr, NEW a, NEW b
    PROVE  RotateLeft(Node(k, v, h, l, Node(kr, vr, hr, a, b))) = Over(kr, vr, Over(k, v, l, a), b)
<1> DEFINE r == Node(kr, vr, hr, a, b)
           n == Node(k, v, h, l, r)
<1>1. n.left = l /\ n.right = r /\ r.left = a /\ r.right = b
  BY OnNode
<1>2. UpdateHeight(DuplicateNode(n, l, a)) = Over(k, v, l, a)
  BY OnNode
<1>3. UpdateHeight(DuplicateNode(r, Over(k, v, l, a), b)) = Over(kr, vr, Over(k, v, l, a), b)
  BY OnNode
<1> HIDE DEF r, n
<1>4. RotateLeft(n) = Over(kr, vr, Over(k, v, l, a), b)
  BY <1>1, <1>2, <1>3 DEF RotateLeft
<1> QED BY <1>4 DEF n, r

\* The double rotation of a left child.
LEMMA LeftRightOver ==
    ASSUME NEW k, NEW v, NEW h, NEW r, NEW l \in AllTrees, l # Nil, l.right # Nil
    PROVE  LeftRight(Node(k, v, h, l, r)) =
              Over(l.right.key, l.right.val, Over(l.key, l.val, l.left, l.right.left),
                   Over(k, v, l.right.right, r))
<1> DEFINE q == l.right
           x == Over(q.key, q.val, Over(l.key, l.val, l.left, q.left), q.right)
<1>1. l = Node(l.key, l.val, l.height, l.left, q) /\ q \in AllTrees
  BY TreeShape
<1>2. q = Node(q.key, q.val, q.height, q.left, q.right)
  BY <1>1, TreeShape
<1>3. RotateLeft(l) = x
  <2>1. RotateLeft(Node(l.key, l.val, l.height, l.left, Node(q.key, q.val, q.height, q.left, q.right))) = x
    BY RotateLeftOver
  <2> HIDE DEF x, q
  <2> QED BY <1>1, <1>2, <2>1
<1>4. LeftRight(Node(k, v, h, l, r)) = RotateRight(Node(k, v, h, x, r))
  <2> HIDE DEF x
  <2> QED BY <1>3, OnNode DEF LeftRight
<1>5. x = Node(q.key, q.val, Taller(Over(l.key, l.val, l.left, q.left), q.right),
               Over(l.key, l.val, l.left, q.left), q.right)
  BY DEF Over
<1> QED BY <1>4, <1>5, RotateRightOver

\* The double rotation of a right child.
LEMMA RightLeftOver ==
    ASSUME NEW k, NEW v, NEW h, NEW l, NEW r \in AllTrees, r # Nil, r.left # Nil
    PROVE  RightLeft(Node(k, v, h, l, r)) =
              Over(r.left.key, r.left.val, Over(k, v, l, r.left.left),
                   Over(r.key, r.val, r.left.right, r.right))
<1> DEFINE q == r.left
           x == Over(q.key, q.val, q.left, Over(r.key, r.val, q.right, r.right))
<1>1. r = Node(r.key, r.val, r.height, q, r.right) /\ q \in AllTrees
  BY TreeShape
<1>2. q = Node(q.key, q.val, q.height, q.left, q.right)
  BY <1>1, TreeShape
<1>3. RotateRight(r) = x
  <2>1. RotateRight(Node(r.key, r.val, r.height, Node(q.key, q.val, q.height, q.left, q.right), r.right)) = x
    BY RotateRightOver
  <2> HIDE DEF x, q
  <2> QED BY <1>1, <1>2, <2>1
<1>4. RightLeft(Node(k, v, h, l, r)) = RotateLeft(Node(k, v, h, l, x))
  <2> HIDE DEF x
  <2> QED BY <1>3, OnNode DEF RightLeft
<1>5. x = Node(q.key, q.val, Taller(q.left, Over(r.key, r.val, q.right, r.right)),
               q.left, Over(r.key, r.val, q.right, r.right))
  BY DEF Over
<1> QED BY <1>4, <1>5, RotateLeftOver

\* A node over two trees is a tree, and what it consists of.
LEMMA OverTree ==
    ASSUME NEW k \in Keys, NEW v \in Values, NEW l \in AllTrees, NEW r \in AllTrees
    PROVE  /\ Over(k, v, l, r) \in AllTrees /\ Over(k, v, l, r) # Nil
           /\ Over(k, v, l, r).key = k /\ Over(k, v, l, r).val = v
           /\ Over(k, v, l, r).height = Taller(l, r)
           /\ Over(k, v, l, r).left = l /\ Over(k, v, l, r).right = r
           /\ Grown(Over(k, v, l, r)) = Taller(l, r)
           /\ BalanceFactor(Over(k, v, l, r)) = l.height - r.height
           /\ Nodes(Over(k, v, l, r)) = {Over(k, v, l, r)} \cup Nodes(l) \cup Nodes(r)
<1>1. l.height \in Nat /\ r.height \in Nat
  BY TreeShape
<1>2. Taller(l, r) \in Nat /\ l.height < Taller(l, r) /\ r.height < Taller(l, r)
  BY <1>1 DEF Taller
<1> DEFINE n == Over(k, v, l, r)
<1>3. /\ n \in AllTrees /\ n # Nil /\ n.key = k /\ n.val = v /\ n.height = Taller(l, r)
      /\ n.left = l /\ n.right = r
  BY <1>2, NodeIsTree DEF Over
<1> HIDE DEF n
<1>4. Grown(n) = Taller(l, r) /\ BalanceFactor(n) = l.height - r.height
  BY <1>3 DEF Grown, Taller, BalanceFactor
<1>5. Nodes(n) = {n} \cup Nodes(l) \cup Nodes(r)
  BY <1>3, NodesDef
<1> QED BY <1>3, <1>4, <1>5 DEF n

\* Trees are balanced under a node if they are almost of the same height, and only then.
LEMMA BalancedOver ==
    ASSUME NEW k \in Keys, NEW v \in Values, NEW l, NEW r, Balanced(l), Balanced(r),
           l.height - r.height \in -1 .. 1
    PROVE  Balanced(Over(k, v, l, r))
<1>1. l \in AllTrees /\ r \in AllTrees
  BY DEF Balanced, AllTrees
<1> DEFINE n == Over(k, v, l, r)
<1>2. /\ n \in AllTrees /\ n.height = Grown(n) /\ BalanceFactor(n) \in -1 .. 1
      /\ Nodes(n) = {n} \cup Nodes(l) \cup Nodes(r)
  BY <1>1, OverTree
<1> HIDE DEF n
<1>3. n.height \in Nat /\ n \in Trees[n.height]
  BY <1>2, TreeShape
<1>4. Balanced(n)
  BY <1>2, <1>3 DEF Balanced
<1> QED BY <1>4 DEF n

\* No tree at all is balanced.
LEMMA NilBalanced == Balanced(Nil) /\ Nil \in AllTrees /\ Nil.height = 0 /\ Nodes(Nil) = {}
<1>1. Nil \in AllTrees
  BY TreesDef DEF AllTrees
<1>2. Nil.height \in Nat /\ Nil \in Trees[Nil.height] /\ Nil.height = 0
  BY <1>1, TreeShape
<1>3. Nodes(Nil) = {}
  BY <1>1, NodesDef
<1> QED BY <1>1, <1>2, <1>3 DEF Balanced

\* A balanced tree is a node over two balanced ones of almost the same height.
LEMMA BalancedParts ==
    ASSUME NEW t, Balanced(t)
    PROVE  /\ t \in AllTrees /\ t.height \in Nat /\ (t = Nil <=> t.height = 0)
           /\ t # Nil =>
                /\ t.key \in Keys /\ t.val \in Values
                /\ Balanced(t.left) /\ Balanced(t.right)
                /\ t.left \in AllTrees /\ t.right \in AllTrees
                /\ t.left.height \in Nat /\ t.right.height \in Nat
                /\ t = Over(t.key, t.val, t.left, t.right)
                /\ t.height = Taller(t.left, t.right)
                /\ t.left.height - t.right.height \in -1 .. 1
<1>1. t \in AllTrees
  BY DEF Balanced, AllTrees
<1>2. ASSUME t # Nil
      PROVE  /\ Balanced(t.left) /\ Balanced(t.right)
             /\ t = Over(t.key, t.val, t.left, t.right)
             /\ t.height = Taller(t.left, t.right)
             /\ t.left.height - t.right.height \in -1 .. 1
  <2>1. Nodes(t) = {t} \cup Nodes(t.left) \cup Nodes(t.right)
    BY <1>1, <1>2, NodesDef
  <2>2. t.height = Grown(t) /\ BalanceFactor(t) \in -1 .. 1
    BY <2>1 DEF Balanced
  <2>3. t.left \in AllTrees /\ t.right \in AllTrees
        /\ t = Node(t.key, t.val, t.height, t.left, t.right)
    BY <1>1, <1>2, TreeShape
  <2>4. t.height = Taller(t.left, t.right)
    BY <2>2 DEF Grown, Taller
  <2>5. Balanced(t.left) /\ Balanced(t.right)
    BY <2>1, <2>3, TreeShape DEF Balanced
  <2>6. t = Over(t.key, t.val, t.left, t.right)
    BY <2>3, <2>4 DEF Over
  <2> QED BY <1>2, <2>2, <2>4, <2>5, <2>6 DEF BalanceFactor
<1>3. t # Nil => t.left.height \in Nat /\ t.right.height \in Nat
  BY <1>1, TreeShape
<1> QED BY <1>1, <1>2, <1>3, TreeShape

(* What a tree holds, and in which order *)

\* An ordering of the keys, as a pair of numbers is compared.
IsOrder(less) ==
    /\ \A pair \in less : <<pair[2], pair[1]>> \notin less
    /\ \A a, b, c \in Keys : <<a, b>> \in less /\ <<b, c>> \in less => <<a, c>> \in less
    /\ \A a, b \in Keys : a = b \/ <<a, b>> \in less \/ <<b, a>> \in less

Precede(less, S, T) == \A a \in S, b \in T : <<a, b>> \in less

\* Every node stands between what its children hold.
Ordered(less, t) ==
    \A n \in Nodes(t) : Precede(less, KeysOf(n.left), {n.key}) /\ Precede(less, {n.key}, KeysOf(n.right))

\* What a tree holds is what its children hold, and the root.
LEMMA Contents ==
    ASSUME NEW less, NEW t \in AllTrees, t # Nil
    PROVE  /\ Entries(t) = {<<t.key, t.val>>} \cup Entries(t.left) \cup Entries(t.right)
           /\ KeysOf(t) = {t.key} \cup KeysOf(t.left) \cup KeysOf(t.right)
           /\ Ordered(less, t) = ( /\ Ordered(less, t.left) /\ Ordered(less, t.right)
                                   /\ Precede(less, KeysOf(t.left), {t.key})
                                   /\ Precede(less, {t.key}, KeysOf(t.right)))
<1>1. Nodes(t) = {t} \cup Nodes(t.left) \cup Nodes(t.right)
  BY NodesDef
<1>2. Entries(t) = {<<t.key, t.val>>} \cup Entries(t.left) \cup Entries(t.right)
  BY <1>1 DEF Entries
<1>3. KeysOf(t) = {t.key} \cup KeysOf(t.left) \cup KeysOf(t.right)
  BY <1>1 DEF KeysOf
<1>4. Ordered(less, t) = ( /\ Ordered(less, t.left) /\ Ordered(less, t.right)
                           /\ Precede(less, KeysOf(t.left), {t.key})
                           /\ Precede(less, {t.key}, KeysOf(t.right)))
  BY <1>1 DEF Ordered
<1> QED BY <1>2, <1>3, <1>4

\* Nothing is in no tree.
LEMMA NilContents ==
    ASSUME NEW less
    PROVE  Entries(Nil) = {} /\ KeysOf(Nil) = {} /\ Ordered(less, Nil)
BY NilBalanced DEF Entries, KeysOf, Ordered

\* A tree that holds what two others do, and an entry in between.
Joins(less, n, k, v, l, r) ==
    /\ n \in AllTrees
    /\ Entries(n) = {<<k, v>>} \cup Entries(l) \cup Entries(r)
    /\ KeysOf(n) = {k} \cup KeysOf(l) \cup KeysOf(r)
    /\ Ordered(less, n) = ( /\ Ordered(less, l) /\ Ordered(less, r)
                            /\ Precede(less, KeysOf(l), {k}) /\ Precede(less, {k}, KeysOf(r)))

\* A node over two trees joins what they hold.
LEMMA ContentsOver ==
    ASSUME NEW less, NEW k \in Keys, NEW v \in Values, NEW l \in AllTrees, NEW r \in AllTrees
    PROVE  Joins(less, Over(k, v, l, r), k, v, l, r)
<1> DEFINE n == Over(k, v, l, r)
<1>1. n \in AllTrees /\ n # Nil /\ n.key = k /\ n.val = v /\ n.left = l /\ n.right = r
  BY OverTree
<1> HIDE DEF n
<1>2. Joins(less, n, k, v, l, r)
  BY <1>1, Contents DEF Joins
<1> QED BY <1>2 DEF n

\* The keys and values of a tree.
LEMMA ContentTypes ==
    ASSUME NEW t \in AllTrees
    PROVE  /\ Nodes(t) \subseteq AllTrees \ {Nil}
           /\ Entries(t) \subseteq Keys \X Values /\ KeysOf(t) \subseteq Keys
           /\ KeysOf(t) = {e[1] : e \in Entries(t)}
<1> DEFINE S == {s \in AllTrees : Nodes(s) \subseteq AllTrees \ {Nil}}
<1>1. Nil \in S
  BY NilBalanced
<1>2. ASSUME NEW s \in AllTrees, s # Nil, s.left \in S, s.right \in S
      PROVE  s \in S
  BY <1>2, NodesDef
<1>3. AllTrees \subseteq S
  <2> HIDE DEF S
  <2> QED BY <1>1, <1>2, TreeInduction
<1>4. \A n \in Nodes(t) : n.key \in Keys /\ n.val \in Values
  BY <1>3, TreeShape
<1>5. Entries(t) \subseteq Keys \X Values /\ KeysOf(t) \subseteq Keys
  BY <1>4 DEF Entries, KeysOf
<1>6. \A n \in Nodes(t) : <<n.key, n.val>>[1] = n.key
  OBVIOUS
<1>7. KeysOf(t) = {e[1] : e \in Entries(t)}
  BY <1>6 DEF Entries, KeysOf
<1> QED BY <1>3, <1>5, <1>7

\* Trees that hold the same, in the same order.
Alike(less, s, t) ==
    /\ Entries(s) = Entries(t) /\ KeysOf(s) = KeysOf(t)
    /\ Ordered(less, s) = Ordered(less, t)

\* A rotation moves a subtree from one node to the other.
LEMMA Regrouped ==
    ASSUME NEW less, IsOrder(less), NEW k \in Keys, NEW v \in Values, NEW m \in Keys, NEW w \in Values,
           NEW a \in AllTrees, NEW b \in AllTrees, NEW c \in AllTrees
    PROVE  Alike(less, Over(k, v, a, Over(m, w, b, c)), Over(m, w, Over(k, v, a, b), c))
<1> DEFINE R == Over(m, w, b, c)
           L == Over(k, v, a, b)
           RR == Over(k, v, a, R)
           LL == Over(m, w, L, c)
<1>1. Joins(less, R, m, w, b, c) /\ Joins(less, L, k, v, a, b)
  BY ContentsOver
<1>2. R \in AllTrees /\ L \in AllTrees
  BY <1>1 DEF Joins
<1> HIDE DEF L, R
<1>8. Joins(less, RR, k, v, a, R) /\ Joins(less, LL, m, w, L, c)
  BY <1>2, ContentsOver
<1> HIDE DEF LL, RR
<1>3. Entries(RR) = Entries(LL) /\ KeysOf(RR) = KeysOf(LL)
  BY <1>1, <1>8 DEF Joins
<1>4. KeysOf(a) \subseteq Keys /\ KeysOf(b) \subseteq Keys /\ KeysOf(c) \subseteq Keys
  BY ContentTypes
<1>5. Ordered(less, RR) => Ordered(less, LL)
  BY <1>1, <1>8, <1>4 DEF Precede, IsOrder, Joins
<1>6. Ordered(less, LL) => Ordered(less, RR)
  BY <1>1, <1>8, <1>4 DEF Precede, IsOrder, Joins
<1>7. Ordered(less, LL) \in BOOLEAN /\ Ordered(less, RR) \in BOOLEAN
  BY DEF Ordered
<1> QED BY <1>3, <1>5, <1>6, <1>7 DEF Alike, LL, RR, L, R

\* A tree of which a subtree is exchanged for one that is alike.
LEMMA AlikeUnder ==
    ASSUME NEW less, NEW k \in Keys, NEW v \in Values, NEW a \in AllTrees, NEW b \in AllTrees,
           NEW c \in AllTrees, Alike(less, a, b)
    PROVE  /\ Alike(less, Over(k, v, a, c), Over(k, v, b, c))
           /\ Alike(less, Over(k, v, c, a), Over(k, v, c, b))
<1> DEFINE ac == Over(k, v, a, c)
           bc == Over(k, v, b, c)
           ca == Over(k, v, c, a)
           cb == Over(k, v, c, b)
<1>1. /\ Joins(less, ac, k, v, a, c) /\ Joins(less, bc, k, v, b, c)
      /\ Joins(less, ca, k, v, c, a) /\ Joins(less, cb, k, v, c, b)
  BY ContentsOver
<1> HIDE DEF ac, bc, ca, cb
<1>2. Entries(a) = Entries(b) /\ KeysOf(a) = KeysOf(b) /\ Ordered(less, a) = Ordered(less, b)
  BY DEF Alike
<1>3. Alike(less, ac, bc)
  BY <1>1, <1>2 DEF Alike, Joins
<1>4. Alike(less, ca, cb)
  BY <1>1, <1>2 DEF Alike, Joins
<1> QED BY <1>3, <1>4 DEF ac, bc, ca, cb

\* So does a double rotation, twice.
LEMMA RegroupedTwice ==
    ASSUME NEW less, IsOrder(less), NEW k \in Keys, NEW v \in Values, NEW m \in Keys, NEW w \in Values,
           NEW q \in Keys, NEW x \in Values,
           NEW a \in AllTrees, NEW b \in AllTrees, NEW c \in AllTrees, NEW d \in AllTrees
    PROVE  /\ Alike(less, Over(m, w, Over(k, v, a, b), Over(q, x, c, d)),
                          Over(q, x, Over(k, v, a, Over(m, w, b, c)), d))
           /\ Alike(less, Over(m, w, Over(k, v, a, b), Over(q, x, c, d)),
                          Over(k, v, a, Over(q, x, Over(m, w, b, c), d)))
<1> DEFINE ab == Over(k, v, a, b)
           cd == Over(q, x, c, d)
           bc == Over(m, w, b, c)
<1>1. ab \in AllTrees /\ cd \in AllTrees /\ bc \in AllTrees
      /\ Over(m, w, b, cd) \in AllTrees /\ Over(q, x, bc, d) \in AllTrees
      /\ Over(m, w, ab, c) \in AllTrees /\ Over(k, v, a, bc) \in AllTrees
  BY OverTree
<1>2. Alike(less, Over(m, w, b, cd), Over(q, x, bc, d))
  BY Regrouped
<1>3. Alike(less, Over(k, v, a, bc), Over(m, w, ab, c))
  BY Regrouped
<1> HIDE DEF ab, cd, bc
<1>4. Alike(less, Over(k, v, a, Over(m, w, b, cd)), Over(m, w, ab, cd))
  BY <1>1, Regrouped DEF ab
<1>5. Alike(less, Over(k, v, a, Over(m, w, b, cd)), Over(k, v, a, Over(q, x, bc, d)))
  BY <1>1, <1>2, AlikeUnder
<1>6. Alike(less, Over(m, w, ab, cd), Over(q, x, Over(m, w, ab, c), d))
  BY <1>1, Regrouped DEF cd
<1>7. Alike(less, Over(q, x, Over(k, v, a, bc), d), Over(q, x, Over(m, w, ab, c), d))
  BY <1>1, <1>3, AlikeUnder
<1>8. Alike(less, Over(m, w, ab, cd), Over(q, x, Over(k, v, a, bc), d))
  BY <1>6, <1>7 DEF Alike
<1>9. Alike(less, Over(m, w, ab, cd), Over(k, v, a, Over(q, x, bc, d)))
  BY <1>4, <1>5 DEF Alike
<1> QED BY <1>8, <1>9 DEF ab, cd, bc

(* Insertion *)

\* A tree has become higher, by what was inserted for key k.
Grew(less, m, k) ==
    \/ /\ <<k, m.key>> \in less
       /\ m.left.height = m.height - 1 /\ m.right.height = m.height - 2
    \/ /\ <<k, m.key>> \notin less /\ <<m.key, k>> \in less
       /\ m.right.height = m.height - 1 /\ m.left.height = m.height - 2

\* What insert_internal leaves of a tree of height h.
Inserted(less, k, r, h) ==
    /\ r.gone \in BOOLEAN /\ r.misread = FALSE
    /\ Balanced(r.node) /\ r.node # Nil
    /\ r.node.height \in {h, h + 1}
    /\ r.gone => r.node.height = h
    /\ r.node.height = h + 1 /\ h # 0 => Grew(less, r.node, k)

\* The subtree on the left has become r.node: the node over it is balanced again, and no key of a
\* freed node was read, as a double rotation leaves a tree as high as it was.
LEMMA InsertedLeft ==
    ASSUME NEW less, IsOrder(less), NEW k, NEW key \in Keys, NEW val \in Values,
           NEW l, NEW r, NEW sub, Balanced(l), Balanced(r), l.height - r.height \in -1 .. 1,
           <<k, key>> \in less, Inserted(less, k, sub, l.height)
    PROVE  /\ Inserted(less, k, Rebalance(less, Over(key, val, sub.node, r), k, sub), Taller(l, r))
           /\ Alike(less, Rebalance(less, Over(key, val, sub.node, r), k, sub).node, Over(key, val, sub.node, r))
<1> DEFINE m == sub.node
           n == Over(key, val, m, r)
           h == Taller(l, r)
           res == Rebalance(less, n, k, sub)
<1>1. /\ l \in AllTrees /\ r \in AllTrees /\ l.height \in Nat /\ r.height \in Nat
      /\ (l = Nil <=> l.height = 0) /\ (r = Nil <=> r.height = 0)
  BY BalancedParts
<1>2. /\ sub.gone \in BOOLEAN /\ sub.misread = FALSE /\ Balanced(m) /\ m # Nil
      /\ m.height \in {l.height, l.height + 1}
      /\ sub.gone => m.height = l.height
      /\ m.height = l.height + 1 /\ l.height # 0 => Grew(less, m, k)
  BY DEF Inserted
<1>3. m \in AllTrees /\ m.height \in Nat /\ m.height # 0
  BY <1>2, BalancedParts
<1>4. /\ n.key = key /\ n.left = m /\ n.right = r /\ n # Nil
      /\ n.height = Taller(m, r) /\ BalanceFactor(n) = m.height - r.height
      /\ n = Node(key, val, Taller(m, r), m, r)
  BY <1>1, <1>3, OverTree DEF Over
<1>5. /\ res.node = Rotated(less, n, k)
      /\ res.gone = (sub.gone \/ Copied(less, n, k))
      /\ res.misread = (sub.misread \/ ((BalanceFactor(n) > 1 \/ BalanceFactor(n) < -1) /\ sub.gone))
  BY DEF Rebalance
<1>6. ~(BalanceFactor(n) < -1)
  BY <1>1, <1>2, <1>3, <1>4
<1> HIDE DEF n, h, res
<1>7. CASE ~(BalanceFactor(n) > 1)
  <2>1. ~ Inner(less, n, k)
    BY <1>6, <1>7 DEF Inner
  <2>2. Rotated(less, n, k) = n
    BY <1>6, <1>7, <2>1 DEF Rotated
  <2>3. ~ Copied(less, n, k)
    BY <2>1 DEF Copied
  <2>4. res.node = n /\ res.gone = sub.gone /\ res.misread = FALSE
    BY <1>2, <1>5, <1>6, <1>7, <2>2, <2>3
  <2>5. m.height - r.height \in -1 .. 1
    BY <1>1, <1>2, <1>3, <1>4, <1>7
  <2>6. Balanced(n)
    BY <1>2, <2>5, BalancedOver DEF n
  <2>7. n.height \in {h, h + 1} /\ (m.height = l.height => n.height = h)
    BY <1>1, <1>2, <1>4 DEF h, Taller
  <2>8. ASSUME n.height = h + 1
        PROVE  Grew(less, n, k)
    <3>1. n.left.height = n.height - 1 /\ n.right.height = n.height - 2
      BY <1>1, <1>2, <1>4, <2>5, <2>8 DEF h, Taller
    <3> QED BY <1>4, <3>1 DEF Grew
  <2> QED BY <1>2, <1>4, <2>4, <2>6, <2>7, <2>8 DEF Inserted, Alike, h, res, n
<1>8. CASE BalanceFactor(n) > 1
  <2>1. m.height = l.height + 1 /\ l.height = r.height + 1 /\ h = r.height + 2
    BY <1>1, <1>2, <1>4, <1>8 DEF h, Taller
  <2>2. Grew(less, m, k) /\ sub.gone = FALSE
    BY <1>1, <1>2, <2>1
  <2>3. /\ m = Node(m.key, m.val, m.height, m.left, m.right) /\ m.key \in Keys /\ m.val \in Values
        /\ Balanced(m.left) /\ Balanced(m.right)
        /\ m.left \in AllTrees /\ m.right \in AllTrees
        /\ m.left.height \in Nat /\ m.right.height \in Nat
    BY <1>2, <1>3, BalancedParts, TreeShape
  <2>4. res.misread = FALSE /\ res.gone = Copied(less, n, k)
    BY <1>2, <1>5, <2>2 DEF Copied
  <2>5. CASE <<k, m.key>> \in less
    <3>1. m.left.height = r.height + 1 /\ m.right.height = r.height
      BY <1>1, <2>1, <2>2, <2>3, <2>5 DEF Grew
    <3>2. ~ Inner(less, n, k)
      BY <1>4, <1>6, <2>5 DEF Inner
    <3>3. Rotated(less, n, k) = RotateRight(n)
      BY <1>4, <1>6, <1>8, <2>5, <3>2 DEF Rotated
    <3>4. RotateRight(n) = Over(m.key, m.val, m.left, Over(key, val, m.right, r))
      <4>1. RotateRight(Node(key, val, Taller(m, r), Node(m.key, m.val, m.height, m.left, m.right), r))
            = Over(m.key, m.val, m.left, Over(key, val, m.right, r))
        BY RotateRightOver
      <4> QED BY <1>4, <2>3, <4>1
    <3> DEFINE low == Over(key, val, m.right, r)
               top == Over(m.key, m.val, m.left, low)
    <3>5. Balanced(low) /\ low \in AllTrees /\ low.height = r.height + 1
      <4>1. m.right.height - r.height \in -1 .. 1 /\ Taller(m.right, r) = r.height + 1
        BY <1>1, <3>1 DEF Taller
      <4> QED BY <1>1, <2>3, <4>1, BalancedOver, OverTree
    <3> HIDE DEF low
    <3>6. Balanced(top) /\ top # Nil /\ top.height = h
      <4>1. m.left.height - low.height \in -1 .. 1 /\ Taller(m.left, low) = r.height + 2
        BY <1>1, <3>1, <3>5 DEF Taller
      <4> QED BY <2>1, <2>3, <3>5, <4>1, BalancedOver, OverTree
    <3>7. res.node = top /\ res.gone = FALSE
      BY <1>5, <2>4, <3>2, <3>3, <3>4 DEF Copied, low
    <3>8. h # h + 1
      BY <1>1, <2>1
    <3>9. Alike(less, top, n)
      <4>1. m = Over(m.key, m.val, m.left, m.right)
        BY <1>2, BalancedParts
      <4>2. Alike(less, top, Over(key, val, Over(m.key, m.val, m.left, m.right), r))
        BY <1>1, <2>3, Regrouped DEF low
      <4> HIDE DEF top
      <4> QED BY <4>1, <4>2 DEF n
    <3> HIDE DEF top
    <3> QED BY <2>4, <3>6, <3>7, <3>8, <3>9 DEF Inserted, res, n, h
  <2>6. CASE <<k, m.key>> \notin less
    <3> DEFINE q == m.right
    <3>1. <<m.key, k>> \in less /\ q.height = r.height + 1 /\ m.left.height = r.height
      BY <1>1, <2>1, <2>2, <2>3, <2>6 DEF Grew
    <3>2. Inner(less, n, k)
      BY <1>4, <1>8, <2>6, <3>1 DEF Inner
    <3>3. Rotated(less, n, k) = LeftRight(n)
      BY <1>4, <1>6, <1>8, <2>6, <3>2 DEF Rotated
    <3>4. /\ q # Nil /\ q.key \in Keys /\ q.val \in Values
          /\ Balanced(q.left) /\ Balanced(q.right) /\ q.left \in AllTrees /\ q.right \in AllTrees
          /\ q.left.height \in Nat /\ q.right.height \in Nat
          /\ q.left.height - q.right.height \in -1 .. 1
          /\ q.height = Taller(q.left, q.right)
      BY <1>1, <2>3, <3>1, BalancedParts
    <3> DEFINE low == Over(m.key, m.val, m.left, q.left)
               high == Over(key, val, q.right, r)
               top == Over(q.key, q.val, low, high)
    <3>5. LeftRight(n) = top
      BY <1>3, <1>2, <1>4, <3>4, LeftRightOver
    <3>6. Balanced(low) /\ low \in AllTrees /\ low.height = r.height + 1
      <4>1. m.left.height - q.left.height \in -1 .. 1 /\ Taller(m.left, q.left) = r.height + 1
        BY <1>1, <3>1, <3>4 DEF Taller
      <4> QED BY <2>3, <3>4, <4>1, BalancedOver, OverTree
    <3>7. Balanced(high) /\ high \in AllTrees /\ high.height = r.height + 1
      <4>1. q.right.height - r.height \in -1 .. 1 /\ Taller(q.right, r) = r.height + 1
        BY <1>1, <3>1, <3>4 DEF Taller
      <4> QED BY <1>1, <3>4, <4>1, BalancedOver, OverTree
    <3> HIDE DEF low, high
    <3>8. Balanced(top) /\ top # Nil /\ top.height = h
      <4>1. low.height - high.height \in -1 .. 1 /\ Taller(low, high) = r.height + 2
        BY <1>1, <3>6, <3>7 DEF Taller
      <4> QED BY <2>1, <3>4, <3>6, <3>7, <4>1, BalancedOver, OverTree
    <3>9. res.node = top /\ res.gone \in BOOLEAN
      BY <1>5, <2>4, <3>3, <3>5 DEF Copied
    <3>10. h # h + 1
      BY <1>1, <2>1
    <3>11. Alike(less, top, n)
      <4>1. m = Over(m.key, m.val, m.left, q) /\ q = Over(q.key, q.val, q.left, q.right)
        BY <1>2, <2>3, <3>4, BalancedParts
      <4>2. Alike(less, top, Over(key, val, Over(m.key, m.val, m.left, Over(q.key, q.val, q.left, q.right)), r))
        BY <1>1, <2>3, <3>4, RegroupedTwice DEF low, high
      <4> HIDE DEF top, q
      <4> QED BY <4>1, <4>2 DEF n
    <3> HIDE DEF top, q
    <3> QED BY <2>4, <3>8, <3>9, <3>10, <3>11 DEF Inserted, res, n, h
  <2> QED BY <2>5, <2>6
<1> QED BY <1>7, <1>8

\* The subtree on the right has become r.node: the node over it is balanced again, and no key of a
\* freed node was read, as a double rotation leaves a tree as high as it was.
LEMMA InsertedRight ==
    ASSUME NEW less, IsOrder(less), NEW k, NEW key \in Keys, NEW val \in Values,
           NEW l, NEW r, NEW sub, Balanced(l), Balanced(r), l.height - r.height \in -1 .. 1,
           <<k, key>> \notin less, <<key, k>> \in less, Inserted(less, k, sub, r.height)
    PROVE  /\ Inserted(less, k, Rebalance(less, Over(key, val, l, sub.node), k, sub), Taller(l, r))
           /\ Alike(less, Rebalance(less, Over(key, val, l, sub.node), k, sub).node, Over(key, val, l, sub.node))
<1> DEFINE m == sub.node
           n == Over(key, val, l, m)
           h == Taller(l, r)
           res == Rebalance(less, n, k, sub)
<1>1. /\ r \in AllTrees /\ l \in AllTrees /\ r.height \in Nat /\ l.height \in Nat
      /\ (r = Nil <=> r.height = 0) /\ (l = Nil <=> l.height = 0)
  BY BalancedParts
<1>2. /\ sub.gone \in BOOLEAN /\ sub.misread = FALSE /\ Balanced(m) /\ m # Nil
      /\ m.height \in {r.height, r.height + 1}
      /\ sub.gone => m.height = r.height
      /\ m.height = r.height + 1 /\ r.height # 0 => Grew(less, m, k)
  BY DEF Inserted
<1>3. m \in AllTrees /\ m.height \in Nat /\ m.height # 0
  BY <1>2, BalancedParts
<1>4. /\ n.key = key /\ n.right = m /\ n.left = l /\ n # Nil
      /\ n.height = Taller(l, m) /\ BalanceFactor(n) = l.height - m.height
      /\ n = Node(key, val, Taller(l, m), l, m)
  BY <1>1, <1>3, OverTree DEF Over
<1>5. /\ res.node = Rotated(less, n, k)
      /\ res.gone = (sub.gone \/ Copied(less, n, k))
      /\ res.misread = (sub.misread \/ ((BalanceFactor(n) > 1 \/ BalanceFactor(n) < -1) /\ sub.gone))
  BY DEF Rebalance
<1>6. ~(BalanceFactor(n) > 1)
  BY <1>1, <1>2, <1>3, <1>4
<1> HIDE DEF n, h, res
<1>7. CASE ~(BalanceFactor(n) < -1)
  <2>1. ~ Inner(less, n, k)
    BY <1>6, <1>7 DEF Inner
  <2>2. Rotated(less, n, k) = n
    BY <1>6, <1>7, <2>1 DEF Rotated
  <2>3. ~ Copied(less, n, k)
    BY <2>1 DEF Copied
  <2>4. res.node = n /\ res.gone = sub.gone /\ res.misread = FALSE
    BY <1>2, <1>5, <1>6, <1>7, <2>2, <2>3
  <2>5. l.height - m.height \in -1 .. 1
    BY <1>1, <1>2, <1>3, <1>4, <1>7
  <2>6. Balanced(n)
    BY <1>2, <2>5, BalancedOver DEF n
  <2>7. n.height \in {h, h + 1} /\ (m.height = r.height => n.height = h)
    BY <1>1, <1>2, <1>4 DEF h, Taller
  <2>8. ASSUME n.height = h + 1
        PROVE  Grew(less, n, k)
    <3>1. n.right.height = n.height - 1 /\ n.left.height = n.height - 2
      BY <1>1, <1>2, <1>4, <2>5, <2>8 DEF h, Taller
    <3> QED BY <1>4, <3>1 DEF Grew
  <2> QED BY <1>2, <1>4, <2>4, <2>6, <2>7, <2>8 DEF Inserted, Alike, h, res, n
<1>8. CASE BalanceFactor(n) < -1
  <2>1. m.height = r.height + 1 /\ r.height = l.height + 1 /\ h = l.height + 2
    BY <1>1, <1>2, <1>4, <1>8 DEF h, Taller
  <2>2. Grew(less, m, k) /\ sub.gone = FALSE
    BY <1>1, <1>2, <2>1
  <2>3. /\ m = Node(m.key, m.val, m.height, m.left, m.right) /\ m.key \in Keys /\ m.val \in Values
        /\ Balanced(m.right) /\ Balanced(m.left)
        /\ m.right \in AllTrees /\ m.left \in AllTrees
        /\ m.right.height \in Nat /\ m.left.height \in Nat
    BY <1>2, <1>3, BalancedParts, TreeShape
  <2>4. res.misread = FALSE /\ res.gone = Copied(less, n, k)
    BY <1>2, <1>5, <2>2 DEF Copied
  <2>5. CASE <<m.key, k>> \in less
    <3>0. <<k, m.key>> \notin less
      BY <2>5 DEF IsOrder
    <3>1. m.right.height = l.height + 1 /\ m.left.height = l.height
      BY <1>1, <2>1, <2>2, <2>3, <2>5, <3>0 DEF Grew
    <3>2. ~ Inner(less, n, k)
      BY <1>4, <1>6, <2>5 DEF Inner
    <3>3. Rotated(less, n, k) = RotateLeft(n)
      BY <1>4, <1>6, <1>8, <2>5, <3>2 DEF Rotated
    <3>4. RotateLeft(n) = Over(m.key, m.val, Over(key, val, l, m.left), m.right)
      <4>1. RotateLeft(Node(key, val, Taller(l, m), l, Node(m.key, m.val, m.height, m.left, m.right)))
            = Over(m.key, m.val, Over(key, val, l, m.left), m.right)
        BY RotateLeftOver
      <4> QED BY <1>4, <2>3, <4>1
    <3> DEFINE low == Over(key, val, l, m.left)
               top == Over(m.key, m.val, low, m.right)
    <3>5. Balanced(low) /\ low \in AllTrees /\ low.height = l.height + 1
      <4>1. l.height - m.left.height \in -1 .. 1 /\ Taller(l, m.left) = l.height + 1
        BY <1>1, <3>1 DEF Taller
      <4> QED BY <1>1, <2>3, <4>1, BalancedOver, OverTree
    <3> HIDE DEF low
    <3>6. Balanced(top) /\ top # Nil /\ top.height = h
      <4>1. low.height - m.right.height \in -1 .. 1 /\ Taller(low, m.right) = l.height + 2
        BY <1>1, <3>1, <3>5 DEF Taller
      <4> QED BY <2>1, <2>3, <3>5, <4>1, BalancedOver, OverTree
    <3>7. res.node = top /\ res.gone = FALSE
      BY <1>5, <2>4, <3>2, <3>3, <3>4 DEF Copied, low
    <3>8. h # h + 1
      BY <1>1, <2>1
    <3>9. Alike(less, top, n)
      <4>1. m = Over(m.key, m.val, m.left, m.right)
        BY <1>2, BalancedParts
      <4>2. Alike(less, Over(key, val, l, Over(m.key, m.val, m.left, m.right)), top)
        BY <1>1, <2>3, Regrouped DEF low
      <4> HIDE DEF top
      <4> QED BY <4>1, <4>2 DEF n, Alike
    <3> HIDE DEF top
    <3> QED BY <2>4, <3>6, <3>7, <3>8, <3>9 DEF Inserted, res, n, h
  <2>6. CASE <<m.key, k>> \notin less
    <3> DEFINE q == m.left
    <3>1. <<k, m.key>> \in less /\ q.height = l.height + 1 /\ m.right.height = l.height
      BY <1>1, <2>1, <2>2, <2>3, <2>6 DEF Grew
    <3>2. Inner(less, n, k)
      BY <1>4, <1>8, <2>6, <3>1 DEF Inner
    <3>3. Rotated(less, n, k) = RightLeft(n)
      BY <1>4, <1>6, <1>8, <2>6, <3>2 DEF Rotated
    <3>4. /\ q # Nil /\ q.key \in Keys /\ q.val \in Values
          /\ Balanced(q.right) /\ Balanced(q.left) /\ q.right \in AllTrees /\ q.left \in AllTrees
          /\ q.right.height \in Nat /\ q.left.height \in Nat
          /\ q.left.height - q.right.height \in -1 .. 1
          /\ q.height = Taller(q.left, q.right)
      BY <1>1, <2>3, <3>1, BalancedParts
    <3> DEFINE low == Over(m.key, m.val, q.right, m.right)
               high == Over(key, val, l, q.left)
               top == Over(q.key, q.val, high, low)
    <3>5. RightLeft(n) = top
      BY <1>3, <1>2, <1>4, <3>4, RightLeftOver
    <3>6. Balanced(low) /\ low \in AllTrees /\ low.height = l.height + 1
      <4>1. q.right.height - m.right.height \in -1 .. 1 /\ Taller(q.right, m.right) = l.height + 1
        BY <1>1, <3>1, <3>4 DEF Taller
      <4> QED BY <2>3, <3>4, <4>1, BalancedOver, OverTree
    <3>7. Balanced(high) /\ high \in AllTrees /\ high.height = l.height + 1
      <4>1. l.height - q.left.height \in -1 .. 1 /\ Taller(l, q.left) = l.height + 1
        BY <1>1, <3>1, <3>4 DEF Taller
      <4> QED BY <1>1, <3>4, <4>1, BalancedOver, OverTree
    <3> HIDE DEF low, high
    <3>8. Balanced(top) /\ top # Nil /\ top.height = h
      <4>1. high.height - low.height \in -1 .. 1 /\ Taller(high, low) = l.height + 2
        BY <1>1, <3>6, <3>7 DEF Taller
      <4> QED BY <2>1, <3>4, <3>6, <3>7, <4>1, BalancedOver, OverTree
    <3>9. res.node = top /\ res.gone \in BOOLEAN
      BY <1>5, <2>4, <3>3, <3>5 DEF Copied
    <3>10. h # h + 1
      BY <1>1, <2>1
    <3>11. Alike(less, top, n)
      <4>1. m = Over(m.key, m.val, q, m.right) /\ q = Over(q.key, q.val, q.left, q.right)
        BY <1>2, <2>3, <3>4, BalancedParts
      <4>2. Alike(less, top, Over(key, val, l, Over(m.key, m.val, Over(q.key, q.val, q.left, q.right), m.right)))
        BY <1>1, <2>3, <3>4, RegroupedTwice DEF low, high
      <4> HIDE DEF top, q
      <4> QED BY <4>1, <4>2 DEF n
    <3> HIDE DEF top, q
    <3> QED BY <2>4, <3>8, <3>9, <3>10, <3>11 DEF Inserted, res, n, h
  <2> QED BY <2>5, <2>6
<1> QED BY <1>7, <1>8

\* What insert_internal leaves of a balanced tree, whatever the tree and the key: a balanced tree
\* of that height or one more, without a look at the key of a node that was freed.
LEMMA InsertBalances ==
    ASSUME NEW less, IsOrder(less), NEW k \in Keys, NEW v \in Values, NEW replace,
           NEW t, Balanced(t)
    PROVE  Inserted(less, k, InsertInternal(less, t, k, v, replace), t.height)
<1> DEFINE S == {s \in AllTrees :
                    Balanced(s) => Inserted(less, k, InsertInternal(less, s, k, v, replace), s.height)}
           Made(m) == [node |-> m, gone |-> FALSE, misread |-> FALSE]
           Ins(s) == InsertInternal(less, s, k, v, replace)
<1>0. \A m : Made(m).node = m /\ Made(m).gone = FALSE /\ Made(m).misread = FALSE
  OBVIOUS
<1>1. Nil \in S
  <2>1. Ins(Nil) = Made(Node(k, v, 1, Nil, Nil))
    <3> DEFINE L == Ins(Nil.left)
               R == Ins(Nil.right)
    <3>1. Ins(Nil) = InsertAt(less, Nil, k, v, replace, L, R)
      BY NilBalanced, InsertDef
    <3> HIDE DEF Ins, L, R
    <3> QED BY <3>1 DEF InsertAt
  <2>2. Taller(Nil, Nil) = 1 /\ Nil.height - Nil.height \in -1 .. 1
    BY NilBalanced DEF Taller
  <2>3. Balanced(Over(k, v, Nil, Nil)) /\ Over(k, v, Nil, Nil).height = 1 /\ Over(k, v, Nil, Nil) # Nil
    BY <2>2, NilBalanced, BalancedOver, OverTree
  <2>4. Node(k, v, 1, Nil, Nil) = Over(k, v, Nil, Nil)
    BY <2>2 DEF Over
  <2> HIDE DEF Ins, Made
  <2>5. Inserted(less, k, Ins(Nil), Nil.height)
    <3> DEFINE x == Ins(Nil)
    <3>1. /\ x.node = Over(k, v, Nil, Nil) /\ x.gone = FALSE /\ x.misread = FALSE
          /\ Nil.height = 0 /\ 1 \in {0, 0 + 1}
      BY <1>0, <2>1, <2>4, NilBalanced
    <3> HIDE DEF x
    <3>2. Inserted(less, k, x, Nil.height)
      BY <2>3, <3>1 DEF Inserted
    <3> QED BY <3>2 DEF x
  <2> QED BY <2>5, NilBalanced DEF Ins
<1>2. ASSUME NEW s \in AllTrees, s # Nil, s.left \in S, s.right \in S
      PROVE  s \in S
  <2> SUFFICES ASSUME Balanced(s)
               PROVE  Inserted(less, k, Ins(s), s.height)
    BY <1>2
  <2> DEFINE l == Ins(s.left)
             r == Ins(s.right)
  <2>1. Ins(s) = InsertAt(less, s, k, v, replace, l, r)
    BY InsertDef
  <2>2. /\ s.key \in Keys /\ s.val \in Values /\ Balanced(s.left) /\ Balanced(s.right)
        /\ s.left.height - s.right.height \in -1 .. 1
        /\ s.height = Taller(s.left, s.right) /\ s.height \in Nat /\ s.height # 0
        /\ s.left \in AllTrees /\ s.right \in AllTrees
        /\ s = Over(s.key, s.val, s.left, s.right)
    BY <1>2, BalancedParts
  <2>3. Inserted(less, k, l, s.left.height) /\ Inserted(less, k, r, s.right.height)
    BY <1>2, <2>2
  <2> HIDE DEF l, r, Ins, S, Made
  <2>4. CASE <<k, s.key>> \in less
    <3>0. <<s.key, k>> \notin less
      BY <2>4 DEF IsOrder
    <3>1. Ins(s) = Rebalance(less, UpdateHeight(DuplicateNode(s, l.node, s.right)), k, l)
      BY <1>2, <2>1, <2>4, <3>0 DEF InsertAt
    <3>2. UpdateHeight(DuplicateNode(s, l.node, s.right)) = Over(s.key, s.val, l.node, s.right)
      BY <1>2, UpdatedIsOver
    <3> QED BY <2>2, <2>3, <2>4, <3>1, <3>2, InsertedLeft
  <2>5. CASE <<k, s.key>> \notin less /\ <<s.key, k>> \in less
    <3>1. Ins(s) = Rebalance(less, UpdateHeight(DuplicateNode(s, s.left, r.node)), k, r)
      BY <1>2, <2>1, <2>5 DEF InsertAt
    <3>2. UpdateHeight(DuplicateNode(s, s.left, r.node)) = Over(s.key, s.val, s.left, r.node)
      BY <1>2, UpdatedIsOver
    <3> QED BY <2>2, <2>3, <2>5, <3>1, <3>2, InsertedRight
  <2>6. CASE <<k, s.key>> \notin less /\ <<s.key, k>> \notin less
    <3> DEFINE m == IF replace THEN Node(k, v, s.height, s.left, s.right) ELSE s
    <3>1. Ins(s) = Made(m)
      BY <1>2, <2>1, <2>6 DEF InsertAt, Made
    <3>2. Balanced(m) /\ m # Nil /\ m.height = s.height
      <4>1. CASE replace
        <5>1. m = Over(k, v, s.left, s.right)
          BY <2>2, <4>1 DEF Over
        <5> HIDE DEF m
        <5> QED BY <2>2, <5>1, BalancedOver, OverTree
      <4>2. CASE ~ replace
        BY <1>2, <4>2
      <4> QED BY <4>1, <4>2
    <3> HIDE DEF m
    <3>3. s.height # s.height + 1
      BY <2>2
    <3> QED BY <1>0, <3>1, <3>2, <3>3 DEF Inserted
  <2> QED BY <2>4, <2>5, <2>6
<1>3. AllTrees \subseteq S
  <2> HIDE DEF S
  <2> QED BY <1>1, <1>2, TreeInduction
<1> QED BY <1>3, BalancedParts

\* A tree m that holds what the tree t does, and value v for key k: in the place of the one of that
\* key, if it is replaced.
Stored(less, m, t, k, v, replace) ==
    /\ Ordered(less, m) /\ KeysOf(m) = KeysOf(t) \cup {k}
    /\ Entries(m) = IF k \in KeysOf(t) /\ ~ replace THEN Entries(t)
                    ELSE {e \in Entries(t) : e[1] # k} \cup {<<k, v>>}

\* insert and replace of a balanced and ordered tree leave an ordered tree that holds what it did,
\* and the new value.
LEMMA InsertStores ==
    ASSUME NEW less, IsOrder(less), NEW k \in Keys, NEW v \in Values, NEW replace \in BOOLEAN,
           NEW t, Balanced(t), Ordered(less, t)
    PROVE  Stored(less, InsertInternal(less, t, k, v, replace).node, t, k, v, replace)
<1> DEFINE Ins(s) == InsertInternal(less, s, k, v, replace)
           Does(s) == Stored(less, Ins(s).node, s, k, v, replace)
           S == {s \in AllTrees : Balanced(s) /\ Ordered(less, s) => Does(s)}
           Made(m) == [node |-> m, gone |-> FALSE, misread |-> FALSE]
<1>0. \A m : Made(m).node = m
  OBVIOUS
<1>1. Nil \in S
  <2>1. Ins(Nil) = Made(Node(k, v, 1, Nil, Nil))
    <3> DEFINE L == Ins(Nil.left)
               R == Ins(Nil.right)
    <3>1. Ins(Nil) = InsertAt(less, Nil, k, v, replace, L, R)
      BY NilBalanced, InsertDef
    <3> HIDE DEF Ins, L, R
    <3> QED BY <3>1 DEF InsertAt
  <2>2. Node(k, v, 1, Nil, Nil) = Over(k, v, Nil, Nil)
    <3>1. Taller(Nil, Nil) = 1
      BY NilBalanced DEF Taller
    <3> QED BY <3>1 DEF Over
  <2> DEFINE m == Over(k, v, Nil, Nil)
  <2>3. Joins(less, m, k, v, Nil, Nil)
    BY NilBalanced, ContentsOver
  <2> HIDE DEF m, Ins, Made
  <2>4. Stored(less, m, Nil, k, v, replace)
    BY <2>3, NilContents DEF Joins, Stored, Precede
  <2>5. Does(Nil)
    BY <1>0, <2>1, <2>2, <2>4 DEF m
  <2> QED BY <2>5, NilBalanced
<1>2. ASSUME NEW s \in AllTrees, s # Nil, s.left \in S, s.right \in S
      PROVE  s \in S
  <2> SUFFICES ASSUME Balanced(s), Ordered(less, s)
               PROVE  Does(s)
    BY <1>2
  <2> DEFINE l == Ins(s.left)
             r == Ins(s.right)
  <2>1. Ins(s) = InsertAt(less, s, k, v, replace, l, r)
    BY InsertDef
  <2>2. /\ s.key \in Keys /\ s.val \in Values /\ Balanced(s.left) /\ Balanced(s.right)
        /\ s.left.height - s.right.height \in -1 .. 1
        /\ s.height = Taller(s.left, s.right)
        /\ s.left \in AllTrees /\ s.right \in AllTrees
        /\ s = Over(s.key, s.val, s.left, s.right)
    BY <1>2, BalancedParts
  <2>3. /\ Entries(s) = {<<s.key, s.val>>} \cup Entries(s.left) \cup Entries(s.right)
        /\ KeysOf(s) = {s.key} \cup KeysOf(s.left) \cup KeysOf(s.right)
        /\ Ordered(less, s.left) /\ Ordered(less, s.right)
        /\ \A q \in KeysOf(s.left) : <<q, s.key>> \in less
        /\ \A q \in KeysOf(s.right) : <<s.key, q>> \in less
    BY <1>2, Contents DEF Precede
  <2>4. Stored(less, l.node, s.left, k, v, replace) /\ Stored(less, r.node, s.right, k, v, replace)
    BY <1>2, <2>2, <2>3
  <2>5. Inserted(less, k, l, s.left.height) /\ Inserted(less, k, r, s.right.height)
    BY <2>2, InsertBalances
  <2>6. l.node \in AllTrees /\ r.node \in AllTrees
    BY <2>5, BalancedParts DEF Inserted
  <2>7. /\ KeysOf(s.left) \subseteq Keys /\ KeysOf(s.right) \subseteq Keys
        /\ \A e \in Entries(s.left) : e[1] \in KeysOf(s.left)
        /\ \A e \in Entries(s.right) : e[1] \in KeysOf(s.right)
    BY <2>2, ContentTypes
  <2>8. \A a, b, c \in Keys : <<a, b>> \in less /\ <<b, c>> \in less => <<a, c>> \in less
    BY DEF IsOrder
  <2>9. \A a, b \in Keys : <<a, b>> \in less => <<b, a>> \notin less /\ a # b
    BY DEF IsOrder
  <2>10. <<s.key, s.val>>[1] = s.key
    OBVIOUS
  <2> HIDE DEF l, r, Ins, S, Made
  <2>11. CASE <<k, s.key>> \in less
    <3>1. <<s.key, k>> \notin less
      BY <2>2, <2>9, <2>11
    <3>2. Ins(s) = Rebalance(less, UpdateHeight(DuplicateNode(s, l.node, s.right)), k, l)
      BY <1>2, <2>1, <2>11, <3>1 DEF InsertAt
    <3>3. UpdateHeight(DuplicateNode(s, l.node, s.right)) = Over(s.key, s.val, l.node, s.right)
      BY <1>2, UpdatedIsOver
    <3> DEFINE n == Over(s.key, s.val, l.node, s.right)
    <3>4. Alike(less, Ins(s).node, n)
      BY <2>2, <2>5, <2>11, <3>2, <3>3, InsertedLeft
    <3>5. Joins(less, n, s.key, s.val, l.node, s.right)
      BY <2>2, <2>6, ContentsOver
    <3> HIDE DEF n
    <3>6. k # s.key /\ k \notin KeysOf(s.right)
      BY <2>2, <2>3, <2>7, <2>9, <2>11, <3>1
    <3>7. KeysOf(n) = KeysOf(s) \cup {k} /\ (k \in KeysOf(s) <=> k \in KeysOf(s.left))
      BY <2>3, <2>4, <3>5, <3>6 DEF Joins, Stored
    <3>8. Entries(n) = IF k \in KeysOf(s) /\ ~ replace THEN Entries(s)
                       ELSE {e \in Entries(s) : e[1] # k} \cup {<<k, v>>}
      <4>1. Entries(n) = {<<s.key, s.val>>} \cup Entries(l.node) \cup Entries(s.right)
        BY <3>5 DEF Joins
      <4>2. Entries(l.node) = IF k \in KeysOf(s) /\ ~ replace THEN Entries(s.left)
                              ELSE {e \in Entries(s.left) : e[1] # k} \cup {<<k, v>>}
        BY <2>4, <3>7 DEF Stored
      <4>3. {e \in Entries(s) : e[1] # k}
            = {<<s.key, s.val>>} \cup {e \in Entries(s.left) : e[1] # k} \cup Entries(s.right)
        BY <2>3, <2>7, <2>10, <3>6
      <4> QED BY <2>3, <4>1, <4>2, <4>3
    <3>9. Ordered(less, n)
      BY <2>3, <2>4, <2>11, <3>5 DEF Joins, Stored, Precede
    <3> QED BY <3>4, <3>7, <3>8, <3>9 DEF Alike, Stored
  <2>12. CASE <<k, s.key>> \notin less /\ <<s.key, k>> \in less
    <3>2. Ins(s) = Rebalance(less, UpdateHeight(DuplicateNode(s, s.left, r.node)), k, r)
      BY <1>2, <2>1, <2>12 DEF InsertAt
    <3>3. UpdateHeight(DuplicateNode(s, s.left, r.node)) = Over(s.key, s.val, s.left, r.node)
      BY <1>2, UpdatedIsOver
    <3> DEFINE n == Over(s.key, s.val, s.left, r.node)
    <3>4. Alike(less, Ins(s).node, n)
      BY <2>2, <2>5, <2>12, <3>2, <3>3, InsertedRight
    <3>5. Joins(less, n, s.key, s.val, s.left, r.node)
      BY <2>2, <2>6, ContentsOver
    <3> HIDE DEF n
    <3>6. k # s.key /\ k \notin KeysOf(s.left)
      BY <2>2, <2>3, <2>7, <2>9, <2>12
    <3>7. KeysOf(n) = KeysOf(s) \cup {k} /\ (k \in KeysOf(s) <=> k \in KeysOf(s.right))
      BY <2>3, <2>4, <3>5, <3>6 DEF Joins, Stored
    <3>8. Entries(n) = IF k \in KeysOf(s) /\ ~ replace THEN Entries(s)
                       ELSE {e \in Entries(s) : e[1] # k} \cup {<<k, v>>}
      <4>1. Entries(n) = {<<s.key, s.val>>} \cup Entries(s.left) \cup Entries(r.node)
        BY <3>5 DEF Joins
      <4>2. Entries(r.node) = IF k \in KeysOf(s) /\ ~ replace THEN Entries(s.right)
                              ELSE {e \in Entries(s.right) : e[1] # k} \cup {<<k, v>>}
        BY <2>4, <3>7 DEF Stored
      <4>3. {e \in Entries(s) : e[1] # k}
            = {<<s.key, s.val>>} \cup {e \in Entries(s.right) : e[1] # k} \cup Entries(s.left)
        BY <2>3, <2>7, <2>10, <3>6
      <4> QED BY <2>3, <4>1, <4>2, <4>3
    <3>9. Ordered(less, n)
      BY <2>3, <2>4, <2>12, <3>5 DEF Joins, Stored, Precede
    <3> QED BY <3>4, <3>7, <3>8, <3>9 DEF Alike, Stored
  <2>13. CASE <<k, s.key>> \notin less /\ <<s.key, k>> \notin less
    <3> DEFINE m == IF replace THEN Node(k, v, s.height, s.left, s.right) ELSE s
    <3>1. Ins(s) = Made(m)
      BY <1>2, <2>1, <2>13 DEF InsertAt, Made
    <3>2. k = s.key
      BY <2>2, <2>13 DEF IsOrder
    <3>3. Stored(less, m, s, k, v, replace)
      <4>1. CASE replace
        <5>1. m = Over(k, v, s.left, s.right)
          BY <2>2, <4>1 DEF Over
        <5>2. Joins(less, m, k, v, s.left, s.right)
          BY <2>2, <5>1, ContentsOver
        <5>3. {e \in Entries(s) : e[1] # k} = Entries(s.left) \cup Entries(s.right)
          BY <2>2, <2>3, <2>7, <2>9, <2>10, <3>2
        <5> HIDE DEF m
        <5> QED BY <2>3, <3>2, <4>1, <5>2, <5>3 DEF Joins, Stored, Precede
      <4>2. CASE ~ replace
        BY <2>3, <3>2, <4>2 DEF Stored
      <4> QED BY <4>1, <4>2
    <3> HIDE DEF m
    <3> QED BY <1>0, <3>1, <3>3
  <2> QED BY <2>11, <2>12, <2>13
<1>3. AllTrees \subseteq S
  <2> HIDE DEF S
  <2> QED BY <1>1, <1>2, TreeInduction
<1> QED BY <1>3, BalancedParts

(* Deletion *)

\* What becomes of a node of height h when a child has lost a level.
Lowered(less, m, n, h) ==
    /\ Balanced(m) /\ m \in AllTrees /\ m # Nil /\ m.height \in {h - 1, h}
    /\ Alike(less, m, n)

\* The subtree on the left is too high: the four cases of delete_internal make it balanced.
LEMMA ErasedLeft ==
    ASSUME NEW less, IsOrder(less), NEW key \in Keys, NEW val \in Values, NEW l, NEW r,
           Balanced(l), Balanced(r), l.height - r.height = 2
    PROVE  Lowered(less, RebalanceErased(Over(key, val, l, r)), Over(key, val, l, r), Taller(l, r))
<1> DEFINE n == Over(key, val, l, r)
           h == Taller(l, r)
           res == RebalanceErased(n)
           a == l.left
           b == l.right
<1>1. /\ l \in AllTrees /\ r \in AllTrees /\ l.height \in Nat /\ r.height \in Nat
      /\ l # Nil /\ (l = Nil <=> l.height = 0) /\ (r = Nil <=> r.height = 0)
      /\ l.height = r.height + 2
  BY BalancedParts
<1>2. /\ l.key \in Keys /\ l.val \in Values /\ Balanced(a) /\ Balanced(b)
      /\ a \in AllTrees /\ b \in AllTrees /\ a.height \in Nat /\ b.height \in Nat
      /\ l = Over(l.key, l.val, a, b) /\ l.height = Taller(a, b) /\ a.height - b.height \in -1 .. 1
      /\ l = Node(l.key, l.val, l.height, a, b)
  BY <1>1, BalancedParts, TreeShape
<1>3. /\ n.left = l /\ n.right = r /\ n # Nil /\ BalanceFactor(n) = 2
      /\ n = Node(key, val, h, l, r)
  BY <1>1, OverTree DEF Over
<1>4. h = r.height + 3 /\ BalanceFactor(l) = a.height - b.height
  BY <1>1 DEF Taller, BalanceFactor
<1> HIDE DEF n, h, res, a, b
<1>5. CASE a.height - b.height >= 0
  <2>1. res = RotateRight(n)
    BY <1>2, <1>3, <1>4, <1>5 DEF res, RebalanceErased
  <2>2. a.height = r.height + 1 /\ b.height \in {r.height, r.height + 1}
    BY <1>1, <1>2, <1>5 DEF Taller
  <2> DEFINE low == Over(key, val, b, r)
             top == Over(l.key, l.val, a, low)
  <2>3. res = top
    <3>1. RotateRight(Node(key, val, h, Node(l.key, l.val, l.height, a, b), r)) = top
      BY RotateRightOver
    <3> HIDE DEF top
    <3> QED BY <1>2, <1>3, <2>1, <3>1
  <2>4. Balanced(low) /\ low \in AllTrees /\ low.height = b.height + 1
    <3>1. b.height - r.height \in -1 .. 1 /\ Taller(b, r) = b.height + 1
      BY <1>1, <2>2 DEF Taller
    <3> QED BY <1>1, <1>2, <3>1, BalancedOver, OverTree
  <2>5. Alike(less, top, n)
    <3>1. Alike(less, top, Over(key, val, Over(l.key, l.val, a, b), r))
      BY <1>1, <1>2, Regrouped
    <3> HIDE DEF top
    <3> QED BY <1>2, <3>1 DEF n
  <2> HIDE DEF low
  <2>6. Balanced(top) /\ top \in AllTrees /\ top # Nil /\ top.height \in {h - 1, h}
    <3>1. a.height - low.height \in -1 .. 1 /\ Taller(a, low) \in {h - 1, h}
      BY <1>1, <1>4, <2>2, <2>4 DEF Taller
    <3> QED BY <1>2, <2>4, <3>1, BalancedOver, OverTree
  <2> HIDE DEF top
  <2> QED BY <2>3, <2>5, <2>6 DEF Lowered, n, h, res
<1>6. CASE a.height - b.height < 0
  <2>1. res = LeftRight(n)
    BY <1>2, <1>3, <1>4, <1>6 DEF res, RebalanceErased
  <2>2. b.height = r.height + 1 /\ a.height = r.height
    BY <1>1, <1>2, <1>6 DEF Taller
  <2>3. /\ b # Nil /\ b.key \in Keys /\ b.val \in Values
        /\ Balanced(b.left) /\ Balanced(b.right) /\ b.left \in AllTrees /\ b.right \in AllTrees
        /\ b.left.height \in Nat /\ b.right.height \in Nat
        /\ b.left.height - b.right.height \in -1 .. 1
        /\ b.height = Taller(b.left, b.right) /\ b = Over(b.key, b.val, b.left, b.right)
    BY <1>1, <1>2, <2>2, BalancedParts
  <2> DEFINE low == Over(l.key, l.val, a, b.left)
             high == Over(key, val, b.right, r)
             top == Over(b.key, b.val, low, high)
  <2>4. res = top
    <3>1. LeftRight(Node(key, val, h, l, r)) = top
      BY <1>1, <1>2, <2>3, LeftRightOver DEF a, b
    <3> HIDE DEF top
    <3> QED BY <1>3, <2>1, <3>1
  <2>5. Balanced(low) /\ low \in AllTrees /\ low.height = r.height + 1
    <3>1. a.height - b.left.height \in -1 .. 1 /\ Taller(a, b.left) = r.height + 1
      BY <1>1, <2>2, <2>3 DEF Taller
    <3> QED BY <1>2, <2>3, <3>1, BalancedOver, OverTree
  <2>6. Balanced(high) /\ high \in AllTrees /\ high.height = r.height + 1
    <3>1. b.right.height - r.height \in -1 .. 1 /\ Taller(b.right, r) = r.height + 1
      BY <1>1, <2>2, <2>3 DEF Taller
    <3> QED BY <1>1, <2>3, <3>1, BalancedOver, OverTree
  <2>7. Alike(less, top, n)
    <3>1. Alike(less, top, Over(key, val, Over(l.key, l.val, a, Over(b.key, b.val, b.left, b.right)), r))
      BY <1>1, <1>2, <2>3, RegroupedTwice
    <3> HIDE DEF top
    <3> QED BY <1>2, <2>3, <3>1 DEF n
  <2> HIDE DEF low, high
  <2>8. Balanced(top) /\ top \in AllTrees /\ top # Nil /\ top.height = h - 1
    <3>1. low.height - high.height \in -1 .. 1 /\ Taller(low, high) = h - 1
      BY <1>1, <1>4, <2>5, <2>6 DEF Taller
    <3> QED BY <2>3, <2>5, <2>6, <3>1, BalancedOver, OverTree
  <2> HIDE DEF top
  <2> QED BY <2>4, <2>7, <2>8 DEF Lowered, n, h, res
<1> QED BY <1>2, <1>5, <1>6

\* The subtree on the right is too high.
LEMMA ErasedRight ==
    ASSUME NEW less, IsOrder(less), NEW key \in Keys, NEW val \in Values, NEW l, NEW r,
           Balanced(l), Balanced(r), r.height - l.height = 2
    PROVE  Lowered(less, RebalanceErased(Over(key, val, l, r)), Over(key, val, l, r), Taller(l, r))
<1> DEFINE n == Over(key, val, l, r)
           h == Taller(l, r)
           res == RebalanceErased(n)
           a == r.right
           b == r.left
<1>1. /\ l \in AllTrees /\ r \in AllTrees /\ l.height \in Nat /\ r.height \in Nat
      /\ r # Nil /\ (l = Nil <=> l.height = 0) /\ (r = Nil <=> r.height = 0)
      /\ r.height = l.height + 2
  BY BalancedParts
<1>2. /\ r.key \in Keys /\ r.val \in Values /\ Balanced(a) /\ Balanced(b)
      /\ a \in AllTrees /\ b \in AllTrees /\ a.height \in Nat /\ b.height \in Nat
      /\ r = Over(r.key, r.val, b, a) /\ r.height = Taller(b, a) /\ b.height - a.height \in -1 .. 1
      /\ r = Node(r.key, r.val, r.height, b, a)
  BY <1>1, BalancedParts, TreeShape
<1>3. /\ n.left = l /\ n.right = r /\ n # Nil /\ BalanceFactor(n) = -2
      /\ n = Node(key, val, h, l, r)
  BY <1>1, OverTree DEF Over
<1>4. h = l.height + 3 /\ BalanceFactor(r) = b.height - a.height
  BY <1>1 DEF Taller, BalanceFactor
<1> HIDE DEF n, h, res, a, b
<1>5. CASE b.height - a.height <= 0
  <2>1. res = RotateLeft(n)
    BY <1>2, <1>3, <1>4, <1>5 DEF res, RebalanceErased
  <2>2. a.height = l.height + 1 /\ b.height \in {l.height, l.height + 1}
    BY <1>1, <1>2, <1>5 DEF Taller
  <2> DEFINE low == Over(key, val, l, b)
             top == Over(r.key, r.val, low, a)
  <2>3. res = top
    <3>1. RotateLeft(Node(key, val, h, l, Node(r.key, r.val, r.height, b, a))) = top
      BY RotateLeftOver
    <3> HIDE DEF top
    <3> QED BY <1>2, <1>3, <2>1, <3>1
  <2>4. Balanced(low) /\ low \in AllTrees /\ low.height = b.height + 1
    <3>1. l.height - b.height \in -1 .. 1 /\ Taller(l, b) = b.height + 1
      BY <1>1, <2>2 DEF Taller
    <3> QED BY <1>1, <1>2, <3>1, BalancedOver, OverTree
  <2>5. Alike(less, top, n)
    <3>1. Alike(less, Over(key, val, l, Over(r.key, r.val, b, a)), top)
      BY <1>1, <1>2, Regrouped
    <3> HIDE DEF top
    <3> QED BY <1>2, <3>1 DEF n, Alike
  <2> HIDE DEF low
  <2>6. Balanced(top) /\ top \in AllTrees /\ top # Nil /\ top.height \in {h - 1, h}
    <3>1. low.height - a.height \in -1 .. 1 /\ Taller(low, a) \in {h - 1, h}
      BY <1>1, <1>4, <2>2, <2>4 DEF Taller
    <3> QED BY <1>2, <2>4, <3>1, BalancedOver, OverTree
  <2> HIDE DEF top
  <2> QED BY <2>3, <2>5, <2>6 DEF Lowered, n, h, res
<1>6. CASE b.height - a.height > 0
  <2>1. res = RightLeft(n)
    BY <1>2, <1>3, <1>4, <1>6 DEF res, RebalanceErased
  <2>2. b.height = l.height + 1 /\ a.height = l.height
    BY <1>1, <1>2, <1>6 DEF Taller
  <2>3. /\ b # Nil /\ b.key \in Keys /\ b.val \in Values
        /\ Balanced(b.left) /\ Balanced(b.right) /\ b.left \in AllTrees /\ b.right \in AllTrees
        /\ b.left.height \in Nat /\ b.right.height \in Nat
        /\ b.left.height - b.right.height \in -1 .. 1
        /\ b.height = Taller(b.left, b.right) /\ b = Over(b.key, b.val, b.left, b.right)
    BY <1>1, <1>2, <2>2, BalancedParts
  <2> DEFINE low == Over(r.key, r.val, b.right, a)
             high == Over(key, val, l, b.left)
             top == Over(b.key, b.val, high, low)
  <2>4. res = top
    <3>1. RightLeft(Node(key, val, h, l, r)) = top
      BY <1>1, <1>2, <2>3, RightLeftOver DEF a, b
    <3> HIDE DEF top
    <3> QED BY <1>3, <2>1, <3>1
  <2>5. Balanced(low) /\ low \in AllTrees /\ low.height = l.height + 1
    <3>1. b.right.height - a.height \in -1 .. 1 /\ Taller(b.right, a) = l.height + 1
      BY <1>1, <2>2, <2>3 DEF Taller
    <3> QED BY <1>2, <2>3, <3>1, BalancedOver, OverTree
  <2>6. Balanced(high) /\ high \in AllTrees /\ high.height = l.height + 1
    <3>1. l.height - b.left.height \in -1 .. 1 /\ Taller(l, b.left) = l.height + 1
      BY <1>1, <2>2, <2>3 DEF Taller
    <3> QED BY <1>1, <2>3, <3>1, BalancedOver, OverTree
  <2>7. Alike(less, top, n)
    <3>1. Alike(less, top, Over(key, val, l, Over(r.key, r.val, Over(b.key, b.val, b.left, b.right), a)))
      BY <1>1, <1>2, <2>3, RegroupedTwice
    <3> HIDE DEF top
    <3> QED BY <1>2, <2>3, <3>1 DEF n
  <2> HIDE DEF low, high
  <2>8. Balanced(top) /\ top \in AllTrees /\ top # Nil /\ top.height = h - 1
    <3>1. high.height - low.height \in -1 .. 1 /\ Taller(high, low) = h - 1
      BY <1>1, <1>4, <2>5, <2>6 DEF Taller
    <3> QED BY <2>3, <2>5, <2>6, <3>1, BalancedOver, OverTree
  <2> HIDE DEF top
  <2> QED BY <2>4, <2>7, <2>8 DEF Lowered, n, h, res
<1> QED BY <1>2, <1>5, <1>6

\* The end of delete_internal: whichever child has lost a level, the node over them is balanced.
LEMMA ErasedOver ==
    ASSUME NEW less, IsOrder(less), NEW key \in Keys, NEW val \in Values, NEW l, NEW r,
           Balanced(l), Balanced(r), l.height - r.height \in -2 .. 2
    PROVE  /\ Lowered(less, RebalanceErased(Over(key, val, l, r)), Over(key, val, l, r), Taller(l, r))
           /\ l.height - r.height \in -1 .. 1
              => RebalanceErased(Over(key, val, l, r)) = Over(key, val, l, r)
<1>1. l \in AllTrees /\ r \in AllTrees /\ l.height \in Nat /\ r.height \in Nat
  BY BalancedParts
<1>2. ASSUME l.height - r.height \in -1 .. 1
      PROVE  /\ RebalanceErased(Over(key, val, l, r)) = Over(key, val, l, r)
             /\ Lowered(less, Over(key, val, l, r), Over(key, val, l, r), Taller(l, r))
  <2> DEFINE n == Over(key, val, l, r)
  <2>1. BalanceFactor(n) = l.height - r.height /\ n \in AllTrees /\ n # Nil /\ n.height = Taller(l, r)
    BY <1>1, OverTree
  <2>2. Balanced(n)
    BY <1>2, BalancedOver
  <2> HIDE DEF n
  <2>3. RebalanceErased(n) = n
    BY <1>1, <1>2, <2>1 DEF RebalanceErased
  <2>4. Lowered(less, n, n, Taller(l, r))
    BY <2>1, <2>2 DEF Lowered, Alike
  <2> QED BY <2>3, <2>4 DEF n
<1>3. \/ l.height - r.height \in -1 .. 1
      \/ l.height - r.height = 2
      \/ r.height - l.height = 2
  BY <1>1
<1> QED BY <1>1, <1>2, <1>3, ErasedLeft, ErasedRight

\* The first node of an ordered tree is one of its nodes, and before every other one.
LEMMA FirstIsLeast ==
    ASSUME NEW less, IsOrder(less), NEW t \in AllTrees, t # Nil, Ordered(less, t)
    PROVE  /\ MinValueNode(t) \in AllTrees /\ MinValueNode(t) # Nil
           /\ MinValueNode(t).key \in KeysOf(t)
           /\ <<MinValueNode(t).key, MinValueNode(t).val>> \in Entries(t)
           /\ \A q \in KeysOf(t) : q = MinValueNode(t).key \/ <<MinValueNode(t).key, q>> \in less
<1> DEFINE Is(s) == /\ MinValueNode(s) \in Nodes(s)
                    /\ \A q \in KeysOf(s) : q = MinValueNode(s).key \/ <<MinValueNode(s).key, q>> \in less
           S == {s \in AllTrees : s # Nil /\ Ordered(less, s) => Is(s)}
<1>1. Nil \in S
  BY NilBalanced
<1>2. ASSUME NEW s \in AllTrees, s # Nil, s.left \in S, s.right \in S
      PROVE  s \in S
  <2> SUFFICES ASSUME Ordered(less, s)
               PROVE  Is(s)
    BY <1>2
  <2>1. /\ KeysOf(s) = {s.key} \cup KeysOf(s.left) \cup KeysOf(s.right)
        /\ Ordered(less, s.left)
        /\ \A q \in KeysOf(s.left) : <<q, s.key>> \in less
        /\ \A q \in KeysOf(s.right) : <<s.key, q>> \in less
    BY <1>2, Contents DEF Precede
  <2>2. Nodes(s) = {s} \cup Nodes(s.left) \cup Nodes(s.right)
    BY <1>2, NodesDef
  <2>3. CASE s.left = Nil
    <3>1. MinValueNode(s) = s
      BY <1>2, <2>3, FirstNode
    <3> QED BY <2>1, <2>2, <2>3, <3>1, NilContents
  <2>4. CASE s.left # Nil
    <3>1. MinValueNode(s) = MinValueNode(s.left)
      BY <1>2, <2>4, FirstNode
    <3>2. Is(s.left)
      BY <1>2, <2>1, <2>4
    <3>3. MinValueNode(s.left).key \in KeysOf(s.left)
      BY <3>2 DEF KeysOf
    <3>4. s.left \in AllTrees /\ s.right \in AllTrees /\ s.key \in Keys
      BY <1>2, TreeShape
    <3>5. KeysOf(s.left) \subseteq Keys /\ KeysOf(s.right) \subseteq Keys
      BY <3>4, ContentTypes
    <3> DEFINE f == MinValueNode(s.left).key
    <3>6. \A q \in KeysOf(s) : q = f \/ <<f, q>> \in less
      <4>1. f \in KeysOf(s.left) /\ \A q \in KeysOf(s.left) : q = f \/ <<f, q>> \in less
        BY <3>2, <3>3
      <4> HIDE DEF f
      <4> QED BY <2>1, <3>4, <3>5, <4>1 DEF IsOrder
    <3> QED BY <2>2, <3>1, <3>2, <3>6
  <2> QED BY <2>3, <2>4
<1>3. AllTrees \subseteq S
  <2> HIDE DEF S
  <2> QED BY <1>1, <1>2, TreeInduction
<1>4. Is(t)
  BY <1>3
<1>5. MinValueNode(t) \in AllTrees \ {Nil}
  BY <1>4, ContentTypes
<1> QED BY <1>4, <1>5 DEF KeysOf, Entries

\* A key has one value in an ordered tree.
LEMMA OneEntry ==
    ASSUME NEW less, IsOrder(less), NEW t \in AllTrees, Ordered(less, t)
    PROVE  \A d, e \in Entries(t) : d[1] = e[1] => d = e
<1> DEFINE S == {s \in AllTrees : Ordered(less, s) => \A d, e \in Entries(s) : d[1] = e[1] => d = e}
<1>1. Nil \in S
  BY NilBalanced, NilContents
<1>2. ASSUME NEW s \in AllTrees, s # Nil, s.left \in S, s.right \in S
      PROVE  s \in S
  <2> SUFFICES ASSUME Ordered(less, s), NEW d \in Entries(s), NEW e \in Entries(s), d[1] = e[1]
               PROVE  d = e
    BY <1>2
  <2>1. /\ Entries(s) = {<<s.key, s.val>>} \cup Entries(s.left) \cup Entries(s.right)
        /\ Ordered(less, s.left) /\ Ordered(less, s.right)
        /\ \A q \in KeysOf(s.left) : <<q, s.key>> \in less
        /\ \A q \in KeysOf(s.right) : <<s.key, q>> \in less
    BY <1>2, Contents DEF Precede
  <2>2. s.left \in AllTrees /\ s.right \in AllTrees /\ s.key \in Keys
    BY <1>2, TreeShape
  <2>3. /\ KeysOf(s.left) \subseteq Keys /\ KeysOf(s.right) \subseteq Keys
        /\ \A f \in Entries(s.left) : f[1] \in KeysOf(s.left)
        /\ \A f \in Entries(s.right) : f[1] \in KeysOf(s.right)
    BY <2>2, ContentTypes
  <2>4. /\ \A a, b \in Keys : <<a, b>> \in less => <<b, a>> \notin less /\ a # b
        /\ \A a, b, c \in Keys : <<a, b>> \in less /\ <<b, c>> \in less => <<a, c>> \in less
    BY DEF IsOrder
  <2>5. <<s.key, s.val>>[1] = s.key
    OBVIOUS
  <2>6. \/ d \in Entries(s.left) /\ e \in Entries(s.left)
        \/ d \in Entries(s.right) /\ e \in Entries(s.right)
        \/ d = <<s.key, s.val>> /\ e = <<s.key, s.val>>
    BY <2>1, <2>2, <2>3, <2>4, <2>5
  <2> QED BY <1>2, <2>1, <2>6
<1>3. AllTrees \subseteq S
  <2> HIDE DEF S
  <2> QED BY <1>1, <1>2, TreeInduction
<1> QED BY <1>3

\* A tree m that holds what the tree t does but for the key k, and is as high or one lower.
Erased(less, m, t, k) ==
    /\ Balanced(m) /\ m \in AllTrees /\ m.height \in {t.height - 1, t.height}
    /\ Ordered(less, m) /\ KeysOf(m) = KeysOf(t) \ {k}
    /\ Entries(m) = {e \in Entries(t) : e[1] # k}

\* erase of any key leaves of a balanced and ordered tree such a tree without the key.
LEMMA DeleteErases ==
    ASSUME NEW less, IsOrder(less), NEW t, Balanced(t), Ordered(less, t), NEW key \in Keys
    PROVE  Erased(less, DeleteInternal(less, t, key), t, key)
<1> DEFINE Del(s) == Deletions(less, s)
           S == {s \in AllTrees : Balanced(s) /\ Ordered(less, s) => \A k \in Keys : Erased(less, Del(s)[k], s, k)}
           Fixed(m) == IF m = Nil THEN Nil ELSE RebalanceErased(UpdateHeight(m))
<1>1. Nil \in S
  <2>1. ASSUME NEW k \in Keys
        PROVE  Erased(less, Del(Nil)[k], Nil, k)
    <3> DEFINE L == Del(Nil.left)
               R == Del(Nil.right)
    <3>1. Del(Nil) = [q \in Keys |-> DeleteAt(less, Nil, q, L, R)]
      BY NilBalanced, DeletionsDef
    <3> HIDE DEF L, R, Del
    <3>2. Del(Nil)[k] = Nil
      BY <3>1 DEF DeleteAt
    <3> QED BY <3>2, NilBalanced, NilContents DEF Erased
  <2> QED BY <2>1, NilBalanced
<1>2. ASSUME NEW s \in AllTrees, s # Nil, s.left \in S, s.right \in S
      PROVE  s \in S
  <2> SUFFICES ASSUME Balanced(s), Ordered(less, s), NEW k \in Keys
               PROVE  Erased(less, Del(s)[k], s, k)
    BY <1>2
  <2> DEFINE l == Del(s.left)
             r == Del(s.right)
  <2>1. Del(s)[k] = DeleteAt(less, s, k, l, r)
    <3>1. Del(s) = [q \in Keys |-> DeleteAt(less, s, q, l, r)]
      BY DeletionsDef
    <3> HIDE DEF Del, l, r
    <3> QED BY <3>1
  <2>2. /\ s.key \in Keys /\ s.val \in Values /\ Balanced(s.left) /\ Balanced(s.right)
        /\ s.left.height \in Nat /\ s.right.height \in Nat
        /\ s.left.height - s.right.height \in -1 .. 1
        /\ s.height = Taller(s.left, s.right)
        /\ s.left \in AllTrees /\ s.right \in AllTrees
        /\ s = Over(s.key, s.val, s.left, s.right)
    BY <1>2, BalancedParts
  <2>3. /\ Entries(s) = {<<s.key, s.val>>} \cup Entries(s.left) \cup Entries(s.right)
        /\ KeysOf(s) = {s.key} \cup KeysOf(s.left) \cup KeysOf(s.right)
        /\ Ordered(less, s.left) /\ Ordered(less, s.right)
        /\ \A q \in KeysOf(s.left) : <<q, s.key>> \in less
        /\ \A q \in KeysOf(s.right) : <<s.key, q>> \in less
    BY <1>2, Contents DEF Precede
  <2>4. \A q \in Keys : Erased(less, l[q], s.left, q) /\ Erased(less, r[q], s.right, q)
    BY <1>2, <2>2, <2>3
  <2>5. /\ KeysOf(s.left) \subseteq Keys /\ KeysOf(s.right) \subseteq Keys
        /\ \A e \in Entries(s.left) : e[1] \in KeysOf(s.left)
        /\ \A e \in Entries(s.right) : e[1] \in KeysOf(s.right)
    BY <2>2, ContentTypes
  <2>6. \A a, b \in Keys : <<a, b>> \in less => <<b, a>> \notin less /\ a # b
    BY DEF IsOrder
  <2>7. <<s.key, s.val>>[1] = s.key
    OBVIOUS
  <2>8. \A a, b, c \in Keys : <<a, b>> \in less /\ <<b, c>> \in less => <<a, c>> \in less
    BY DEF IsOrder
  <2> HIDE DEF l, r, Del, S
  <2>9. CASE <<k, s.key>> \in less
    <3> DEFINE n == Over(s.key, s.val, l[k], s.right)
    <3>1. <<s.key, k>> \notin less /\ k # s.key /\ k \notin KeysOf(s.right)
      BY <2>2, <2>3, <2>5, <2>6, <2>9
    <3>2. Erased(less, l[k], s.left, k)
      BY <2>4
    <3>3. DuplicateNode(s, l[k], s.right) # Nil /\ UpdateHeight(DuplicateNode(s, l[k], s.right)) = n
      <4>1. DuplicateNode(s, l[k], s.right) = Node(s.key, s.val, s.height, l[k], s.right)
        BY <1>2, UpdatedIsOver
      <4>2. l[k] \in AllTrees /\ l[k].height \in Nat /\ l[k].height <= s.left.height
            /\ s.height \in Nat /\ l[k].height < s.height /\ s.right.height < s.height
        BY <2>2, <3>2, BalancedParts DEF Erased, Taller
      <4> QED BY <1>2, <2>2, <4>1, <4>2, NodeIsTree, UpdatedIsOver
    <3>4. Del(s)[k] = RebalanceErased(n)
      BY <1>2, <2>1, <2>9, <3>1, <3>3 DEF DeleteAt
    <3>5. /\ Lowered(less, Del(s)[k], n, Taller(l[k], s.right))
          /\ l[k].height - s.right.height \in -1 .. 1 => Del(s)[k].height = Taller(l[k], s.right)
      <4>0. l[k] \in AllTrees
        BY <3>2 DEF Erased
      <4>1. l[k].height \in {s.left.height - 1, s.left.height} /\ Balanced(l[k])
        BY <3>2 DEF Erased
      <4>2. l[k].height - s.right.height \in -2 .. 2
        BY <2>2, <4>1
      <4>3. n.height = Taller(l[k], s.right)
        BY <2>2, <4>0, OverTree
      <4> HIDE DEF n
      <4> QED BY <2>2, <3>4, <4>1, <4>2, <4>3, ErasedOver DEF n
    <3>6. Joins(less, n, s.key, s.val, l[k], s.right)
      BY <2>2, <3>2, ContentsOver DEF Erased
    <3> HIDE DEF n
    <3>7. Ordered(less, n) /\ KeysOf(n) = KeysOf(s) \ {k}
      BY <2>3, <3>1, <3>2, <3>6 DEF Joins, Erased, Precede
    <3>8. Entries(n) = {e \in Entries(s) : e[1] # k}
      <4>1. Entries(n) = {<<s.key, s.val>>} \cup {e \in Entries(s.left) : e[1] # k} \cup Entries(s.right)
        BY <3>2, <3>6 DEF Joins, Erased
      <4> QED BY <2>3, <2>5, <2>7, <3>1, <4>1
    <3>9. Del(s)[k].height \in {s.height - 1, s.height}
      <4>1. l[k].height \in {s.left.height - 1, s.left.height} /\ l[k].height \in Nat
        BY <3>2, BalancedParts DEF Erased
      <4>2. Del(s)[k].height \in {Taller(l[k], s.right) - 1, Taller(l[k], s.right)}
        BY <3>5 DEF Lowered
      <4>3. Taller(l[k], s.right) \in {s.height - 1, s.height}
        BY <2>2, <4>1 DEF Taller
      <4>4. CASE l[k].height - s.right.height \in -1 .. 1
        BY <3>5, <4>3, <4>4
      <4>5. CASE l[k].height - s.right.height \notin -1 .. 1
        <5>1. Taller(l[k], s.right) = s.height
          BY <2>2, <4>1, <4>5 DEF Taller
        <5> QED BY <4>2, <5>1
      <4> QED BY <4>4, <4>5
    <3> QED BY <3>5, <3>7, <3>8, <3>9 DEF Erased, Lowered, Alike
  <2>10. CASE <<k, s.key>> \notin less /\ <<s.key, k>> \in less
    <3> DEFINE n == Over(s.key, s.val, s.left, r[k])
    <3>1. k # s.key /\ k \notin KeysOf(s.left)
      BY <2>2, <2>3, <2>5, <2>6, <2>10
    <3>2. Erased(less, r[k], s.right, k)
      BY <2>4
    <3>3. DuplicateNode(s, s.left, r[k]) # Nil /\ UpdateHeight(DuplicateNode(s, s.left, r[k])) = n
      <4>1. DuplicateNode(s, s.left, r[k]) = Node(s.key, s.val, s.height, s.left, r[k])
        BY <1>2, UpdatedIsOver
      <4>2. r[k] \in AllTrees /\ r[k].height \in Nat /\ r[k].height <= s.right.height
            /\ s.height \in Nat /\ r[k].height < s.height /\ s.left.height < s.height
        BY <2>2, <3>2, BalancedParts DEF Erased, Taller
      <4> QED BY <1>2, <2>2, <4>1, <4>2, NodeIsTree, UpdatedIsOver
    <3>4. Del(s)[k] = RebalanceErased(n)
      BY <1>2, <2>1, <2>10, <3>1, <3>3 DEF DeleteAt
    <3>5. /\ Lowered(less, Del(s)[k], n, Taller(s.left, r[k]))
          /\ s.left.height - r[k].height \in -1 .. 1 => Del(s)[k].height = Taller(s.left, r[k])
      <4>0. r[k] \in AllTrees
        BY <3>2 DEF Erased
      <4>1. r[k].height \in {s.right.height - 1, s.right.height} /\ Balanced(r[k])
        BY <3>2 DEF Erased
      <4>2. s.left.height - r[k].height \in -2 .. 2
        BY <2>2, <4>1
      <4>3. n.height = Taller(s.left, r[k])
        BY <2>2, <4>0, OverTree
      <4> HIDE DEF n
      <4> QED BY <2>2, <3>4, <4>1, <4>2, <4>3, ErasedOver DEF n
    <3>6. Joins(less, n, s.key, s.val, s.left, r[k])
      BY <2>2, <3>2, ContentsOver DEF Erased
    <3> HIDE DEF n
    <3>7. Ordered(less, n) /\ KeysOf(n) = KeysOf(s) \ {k}
      BY <2>3, <3>1, <3>2, <3>6 DEF Joins, Erased, Precede
    <3>8. Entries(n) = {e \in Entries(s) : e[1] # k}
      <4>1. Entries(n) = {<<s.key, s.val>>} \cup {e \in Entries(s.right) : e[1] # k} \cup Entries(s.left)
        BY <3>2, <3>6 DEF Joins, Erased
      <4> QED BY <2>3, <2>5, <2>7, <3>1, <4>1
    <3>9. Del(s)[k].height \in {s.height - 1, s.height}
      <4>1. r[k].height \in {s.right.height - 1, s.right.height} /\ r[k].height \in Nat
        BY <3>2, BalancedParts DEF Erased
      <4>2. Del(s)[k].height \in {Taller(s.left, r[k]) - 1, Taller(s.left, r[k])}
        BY <3>5 DEF Lowered
      <4>3. Taller(s.left, r[k]) \in {s.height - 1, s.height}
        BY <2>2, <4>1 DEF Taller
      <4>4. CASE s.left.height - r[k].height \in -1 .. 1
        BY <3>5, <4>3, <4>4
      <4>5. CASE s.left.height - r[k].height \notin -1 .. 1
        <5>1. Taller(s.left, r[k]) = s.height
          BY <2>2, <4>1, <4>5 DEF Taller
        <5> QED BY <4>2, <5>1
      <4> QED BY <4>4, <4>5
    <3> QED BY <3>5, <3>7, <3>8, <3>9 DEF Erased, Lowered, Alike
  <2>11. CASE <<k, s.key>> \notin less /\ <<s.key, k>> \notin less
    <3>1. k = s.key /\ k \notin KeysOf(s.left) /\ k \notin KeysOf(s.right)
      BY <2>2, <2>3, <2>5, <2>6, <2>11 DEF IsOrder
    <3>2. ASSUME NEW m, Balanced(m)
          PROVE  (IF m = Nil THEN Nil ELSE RebalanceErased(UpdateHeight(m))) = m
      <4>1. CASE m = Nil
        BY <4>1
      <4>2. CASE m # Nil
        <5>1. /\ m \in AllTrees /\ m.key \in Keys /\ m.val \in Values
              /\ Balanced(m.left) /\ Balanced(m.right)
              /\ m.left.height \in Nat /\ m.right.height \in Nat
              /\ m.left.height - m.right.height \in -1 .. 1
              /\ m = Over(m.key, m.val, m.left, m.right)
          BY <3>2, <4>2, BalancedParts
        <5>2. UpdateHeight(m) = Over(m.key, m.val, m.left, m.right)
          BY <4>2, <5>1, UpdatedIsOver
        <5>3. m.left.height - m.right.height \in -2 .. 2
          BY <5>1
        <5>4. RebalanceErased(Over(m.key, m.val, m.left, m.right)) = Over(m.key, m.val, m.left, m.right)
          BY <5>1, <5>3, ErasedOver
        <5> QED BY <4>2, <5>1, <5>2, <5>4
      <4> QED BY <4>1, <4>2
    <3>3. {e \in Entries(s) : e[1] # k} = Entries(s.left) \cup Entries(s.right)
      BY <2>3, <2>5, <2>7, <3>1
    <3>4. CASE s.left = Nil
      <4>1. Del(s)[k] = IF s.right = Nil THEN Nil ELSE RebalanceErased(UpdateHeight(s.right))
        BY <1>2, <2>1, <2>11, <3>4 DEF DeleteAt
      <4>2. Del(s)[k] = s.right
        BY <2>2, <3>2, <4>1
      <4>3. s.right.height = s.height - 1
        BY <2>2, <3>4, NilBalanced DEF Taller
      <4> QED BY <2>2, <2>3, <3>1, <3>3, <3>4, <4>2, <4>3, NilContents DEF Erased
    <3>5. CASE s.left # Nil /\ s.right = Nil
      <4>1. Del(s)[k] = IF s.left = Nil THEN Nil ELSE RebalanceErased(UpdateHeight(s.left))
        BY <1>2, <2>1, <2>11, <3>5 DEF DeleteAt
      <4>2. Del(s)[k] = s.left
        BY <2>2, <3>2, <4>1
      <4>3. s.left.height = s.height - 1
        BY <2>2, <3>5, NilBalanced DEF Taller
      <4> QED BY <2>2, <2>3, <3>1, <3>3, <3>5, <4>2, <4>3, NilContents DEF Erased
    <3>6. CASE s.left # Nil /\ s.right # Nil
      <4> DEFINE next == MinValueNode(s.right)
                 q == next.key
                 n == Over(q, next.val, s.left, r[q])
      <4>1. /\ next \in AllTrees /\ next # Nil /\ q \in KeysOf(s.right)
            /\ <<q, next.val>> \in Entries(s.right)
            /\ \A p \in KeysOf(s.right) : p = q \/ <<q, p>> \in less
        BY <2>2, <2>3, <3>6, FirstIsLeast
      <4>2. q \in Keys /\ next.val \in Values
        BY <4>1, TreeShape
      <4>3. Erased(less, r[q], s.right, q)
        BY <2>4, <4>2
      <4>4. r[q].height \in {s.right.height - 1, s.right.height} /\ r[q].height \in Nat
            /\ Balanced(r[q]) /\ r[q] \in AllTrees
        BY <4>3, BalancedParts DEF Erased
      <4>5. DuplicateNode(next, s.left, r[q]) # Nil /\ UpdateHeight(DuplicateNode(next, s.left, r[q])) = n
        <5>1. DuplicateNode(next, s.left, r[q]) = Node(q, next.val, next.height, s.left, r[q])
              /\ UpdateHeight(DuplicateNode(next, s.left, r[q])) = n
          BY <4>1, UpdatedIsOver
        <5>2. Node(q, next.val, next.height, s.left, r[q]) # Nil
          BY DEF Node, Nil
        <5> QED BY <5>1, <5>2
      <4>6. Del(s)[k] = RebalanceErased(n)
        <5> HIDE DEF n
        <5> QED BY <1>2, <2>1, <2>11, <3>6, <4>5 DEF DeleteAt
      <4>7. /\ Lowered(less, Del(s)[k], n, Taller(s.left, r[q]))
            /\ s.left.height - r[q].height \in -1 .. 1 => Del(s)[k].height = Taller(s.left, r[q])
        <5>1. s.left.height - r[q].height \in -2 .. 2
          BY <2>2, <4>4
        <5>2. n.height = Taller(s.left, r[q])
          BY <2>2, <4>2, <4>4, OverTree
        <5> HIDE DEF n, q, next
        <5> QED BY <2>2, <4>2, <4>4, <4>6, <5>1, <5>2, ErasedOver DEF n
      <4>8. Joins(less, n, q, next.val, s.left, r[q])
        BY <2>2, <4>2, <4>4, ContentsOver
      <4> HIDE DEF n
      <4>9. Ordered(less, n) /\ KeysOf(n) = KeysOf(s) \ {k}
        <5>1. Ordered(less, r[q]) /\ KeysOf(r[q]) = KeysOf(s.right) \ {q}
          BY <4>3 DEF Erased
        <5> HIDE DEF next, q
        <5>2. KeysOf(n) = KeysOf(s) \ {k}
          BY <2>3, <3>1, <4>1, <4>8, <5>1 DEF Joins
        <5>3. <<s.key, q>> \in less /\ \A p \in KeysOf(s.left) : <<p, q>> \in less
          BY <2>2, <2>3, <2>5, <2>8, <4>1, <4>2
        <5> QED BY <2>3, <4>1, <4>8, <5>1, <5>2, <5>3 DEF Joins, Precede
      <4>10. Entries(n) = {e \in Entries(s) : e[1] # k}
        <5>1. Entries(n) = {<<q, next.val>>} \cup Entries(s.left) \cup {e \in Entries(s.right) : e[1] # q}
          BY <4>3, <4>8 DEF Joins, Erased
        <5>2. \A d, e \in Entries(s.right) : d[1] = e[1] => d = e
          BY <2>2, <2>3, OneEntry
        <5>3. <<q, next.val>>[1] = q
          OBVIOUS
        <5> HIDE DEF next, q
        <5>4. Entries(s.right) = {<<q, next.val>>} \cup {e \in Entries(s.right) : e[1] # q}
          BY <4>1, <5>2, <5>3
        <5> QED BY <3>3, <5>1, <5>4
      <4>11. Del(s)[k].height \in {s.height - 1, s.height}
        <5> HIDE DEF next, q
        <5>2. Del(s)[k].height \in {Taller(s.left, r[q]) - 1, Taller(s.left, r[q])}
          BY <4>7 DEF Lowered
        <5>3. Taller(s.left, r[q]) \in {s.height - 1, s.height}
          BY <2>2, <4>4 DEF Taller
        <5>4. CASE s.left.height - r[q].height \in -1 .. 1
          BY <4>7, <5>3, <5>4
        <5>5. CASE s.left.height - r[q].height \notin -1 .. 1
          <6>1. Taller(s.left, r[q]) = s.height
            BY <2>2, <4>4, <5>5 DEF Taller
          <6> QED BY <5>2, <6>1
        <5> QED BY <5>4, <5>5
      <4> QED BY <4>7, <4>9, <4>10, <4>11 DEF Erased, Lowered, Alike
    <3> QED BY <3>4, <3>5, <3>6
  <2> QED BY <2>9, <2>10, <2>11
<1>3. AllTrees \subseteq S
  <2> HIDE DEF S
  <2> QED BY <1>1, <1>2, TreeInduction
<1>4. DeleteInternal(less, t, key) = Del(t)[key]
  BY DEF DeleteInternal, Deletions
<1> QED BY <1>3, <1>4, BalancedParts

(* The levels of the book *)

\* A tree has finitely many nodes, and no more keys than nodes.
LEMMA NodesFinite ==
    ASSUME NEW t \in AllTrees
    PROVE  /\ IsFiniteSet(Nodes(t)) /\ Cardinality(Nodes(t)) \in Nat
           /\ IsFiniteSet(KeysOf(t)) /\ Cardinality(KeysOf(t)) \in Nat
           /\ Cardinality(KeysOf(t)) <= Cardinality(Nodes(t))
<1> DEFINE S == {s \in AllTrees : IsFiniteSet(Nodes(s))}
           f == [n \in Nodes(t) |-> n.key]
<1>1. Nil \in S
  BY NilBalanced, FS_EmptySet
<1>2. ASSUME NEW s \in AllTrees, s # Nil, s.left \in S, s.right \in S
      PROVE  s \in S
  <2>1. IsFiniteSet({s}) /\ IsFiniteSet({s} \cup Nodes(s.left))
    BY <1>2, FS_Singleton, FS_Union
  <2>2. IsFiniteSet({s} \cup Nodes(s.left) \cup Nodes(s.right))
    BY <1>2, <2>1, FS_Union
  <2> QED BY <1>2, <2>2, NodesDef
<1>3. AllTrees \subseteq S
  <2> HIDE DEF S
  <2> QED BY <1>1, <1>2, TreeInduction
<1>4. IsFiniteSet(Nodes(t))
  BY <1>3
<1>5. f \in Surjection(Nodes(t), KeysOf(t))
  BY DEF Surjection, KeysOf
<1>6. IsFiniteSet(KeysOf(t)) /\ Cardinality(KeysOf(t)) <= Cardinality(Nodes(t))
  <2> HIDE DEF f
  <2> QED BY <1>4, <1>5, FS_Surjection
<1> QED BY <1>4, <1>6, FS_CardinalityType

\* The prices of each side are ordered from the best one to the worst.
LEMMA SidesOrdered ==
    ASSUME NEW side \in Sides
    PROVE  IsOrder(LessOf(side))
<1>1. Keys \subseteq Int
  BY BookAssumption
<1>2. \A a, b \in Keys : /\ <<a, b>> \in AskLess <=> a < b
                         /\ <<a, b>> \in BidLess <=> a > b
  BY DEF AskLess, BidLess
<1>3. \A pair \in AskLess \cup BidLess : pair[1] \in Keys /\ pair[2] \in Keys /\ pair = <<pair[1], pair[2]>>
  BY DEF AskLess, BidLess
<1>4. \A a, b \in Keys : (a < b => ~(b < a)) /\ (a = b \/ a < b \/ b < a)
  BY <1>1
<1>5. \A a, b, c \in Keys : a < b /\ b < c => a < c
  BY <1>1
<1>6. \A a, b \in Keys : a > b <=> b < a
  BY <1>1
<1>7. IsOrder(AskLess)
  <2>1. \A pair \in AskLess : <<pair[2], pair[1]>> \notin AskLess
    BY <1>2, <1>3, <1>4, <1>6
  <2> QED BY <1>2, <1>4, <1>5, <2>1 DEF IsOrder
<1>8. IsOrder(BidLess)
  <2>1. \A pair \in BidLess : <<pair[2], pair[1]>> \notin BidLess
    BY <1>2, <1>3, <1>4, <1>6
  <2>2. \A a, b \in Keys : <<a, b>> \in BidLess <=> b < a
    BY <1>2, <1>6
  <2> QED BY <1>4, <1>5, <2>1, <2>2 DEF IsOrder
<1> QED BY <1>7, <1>8 DEF LessOf

\* What the two trees of the book always are.
Good(less, t) == Balanced(t) /\ Ordered(less, t)

\* A round of remove_ask_to or remove_bid_to takes the best level away, or there is no better one
\* than the price any more.
LEMMA RoundRemoves ==
    ASSUME NEW side \in Sides, NEW p \in Keys, NEW t, Good(LessOf(side), t)
    PROVE  /\ Good(LessOf(side), RemoveFirst(side, t, p))
           /\ \/ /\ RemoveFirst(side, t, p) = t
                 /\ \A q \in KeysOf(t) : <<q, p>> \notin LessOf(side)
              \/ \E k \in KeysOf(t) :
                    /\ <<k, p>> \in LessOf(side)
                    /\ Erased(LessOf(side), RemoveFirst(side, t, p), t, k)
<1> DEFINE less == LessOf(side)
           k == Deref(Begin(t)).key
<1>1. IsOrder(less) /\ t \in AllTrees /\ KeysOf(t) \subseteq Keys
  BY SidesOrdered, BalancedParts, ContentTypes DEF Good
<1>2. Deref(Begin(t)) = MinValueNode(t)
  BY DEF Deref, Begin, MinValueNode
<1>3. RemoveFirst(side, t, p) = IF t # Nil /\ <<k, p>> \in less THEN DeleteInternal(less, t, k) ELSE t
  BY DEF RemoveFirst
<1>4. ASSUME t # Nil
      PROVE  k \in KeysOf(t) /\ \A q \in KeysOf(t) : q = k \/ <<k, q>> \in less
  BY <1>1, <1>2, <1>4, FirstIsLeast DEF Good
<1> HIDE DEF k, less
<1>5. CASE t # Nil /\ <<k, p>> \in less
  <2>1. Erased(less, DeleteInternal(less, t, k), t, k)
    BY <1>1, <1>4, <1>5, DeleteErases DEF Good, less
  <2>2. Good(less, DeleteInternal(less, t, k))
    BY <2>1 DEF Erased, Good
  <2> QED BY <1>3, <1>4, <1>5, <2>1, <2>2 DEF less
<1>6. CASE t # Nil /\ <<k, p>> \notin less
  <2>1. \A q \in KeysOf(t) : <<q, p>> \notin less
    BY <1>1, <1>4, <1>6 DEF IsOrder
  <2> QED BY <1>3, <1>6, <2>1 DEF less
<1>7. CASE t = Nil
  BY <1>3, <1>7, NilContents DEF less
<1> QED BY <1>5, <1>6, <1>7

\* remove_ask_to and remove_bid_to leave the levels that are not better than the price, and a tree
\* that is balanced and ordered.
LEMMA RemovesAllBetter ==
    ASSUME NEW side \in Sides, NEW p \in Keys, NEW t, Good(LessOf(side), t)
    PROVE  /\ Good(LessOf(side), RemoveTo(side, t, p))
           /\ KeysOf(RemoveTo(side, t, p)) = {q \in KeysOf(t) : <<q, p>> \notin LessOf(side)}
           /\ Entries(RemoveTo(side, t, p)) = {e \in Entries(t) : <<e[1], p>> \notin LessOf(side)}
<1> DEFINE less == LessOf(side)
           n == Cardinality(Nodes(t))
           G == {s \in AllTrees : Good(less, s)}
           Step == [i \in 1 .. n |-> [s \in G |-> RemoveFirst(side, s, p)]]
           Rounds(f) == [i \in 0 .. n |-> IF i = 0 THEN t ELSE RemoveFirst(side, f[i - 1], p)]
           after == CHOOSE f : f = Rounds(f)
<1>1. /\ t \in AllTrees /\ n \in Nat /\ t \in G
      /\ Cardinality(KeysOf(t)) \in Nat /\ Cardinality(KeysOf(t)) <= n
  BY BalancedParts, NodesFinite DEF Good
<1>2. \A s \in G : RemoveFirst(side, s, p) \in G
  BY RoundRemoves, BalancedParts DEF Good
<1> HIDE DEF G, n
<1>3. PICK f : IsLoop(f, n, G, t, Step)
  <2>1. Step \in [1 .. n -> [G -> G]]
    BY <1>2
  <2> HIDE DEF Step
  <2> QED BY <1>1, <2>1, LoopExists
<1>4. f = Rounds(f)
  <2>1. ASSUME NEW i \in 1 .. n
        PROVE  f[i] = RemoveFirst(side, f[i - 1], p)
    <3>1. i - 1 \in 0 .. n
      BY <1>1
    <3>2. f[i - 1] \in G /\ f[i] = Step[i][f[i - 1]]
      BY <1>3, <3>1 DEF IsLoop
    <3> QED BY <3>2
  <2>2. \A i \in 0 .. n : f[i] = IF i = 0 THEN t ELSE RemoveFirst(side, f[i - 1], p)
    <3>1. \A i \in 0 .. n : i = 0 \/ i \in 1 .. n
      BY <1>1
    <3> QED BY <1>3, <2>1, <3>1 DEF IsLoop
  <2>3. f = [i \in 0 .. n |-> f[i]]
    BY <1>3 DEF IsLoop
  <2> QED BY <2>2, <2>3
<1>5. after = Rounds(after)
  <2> HIDE DEF Rounds
  <2> QED BY <1>4
<1>6. RemoveTo(side, t, p) = after[n]
  BY DEF RemoveTo, n
<1> HIDE DEF after
<1>7. after[0] = t /\ \A i \in 1 .. n : after[i] = RemoveFirst(side, after[i - 1], p)
  <2>1. 0 \in 0 .. n /\ \A i \in 1 .. n : i \in 0 .. n /\ i # 0
    BY <1>1
  <2> QED BY <1>5, <2>1
<1> DEFINE Better(s) == {q \in KeysOf(s) : <<q, p>> \in less}
           Kept(s) == /\ {q \in KeysOf(t) : <<q, p>> \notin less} \subseteq KeysOf(s)
                      /\ KeysOf(s) \subseteq KeysOf(t)
                      /\ {e \in Entries(t) : <<e[1], p>> \notin less} \subseteq Entries(s)
                      /\ Entries(s) \subseteq Entries(t)
           Reached == {i \in 0 .. n : /\ after[i] \in G /\ Kept(after[i])
                                   /\ \/ Better(after[i]) = {}
                                      \/ Cardinality(KeysOf(after[i])) + i <= n}
<1>8. 0 \in Reached
  BY <1>1, <1>7
<1>9. ASSUME NEW i \in 1 .. n, i - 1 \in Reached
      PROVE  i \in Reached
  <2> DEFINE s == after[i - 1]
             m == after[i]
  <2>1. /\ s \in G /\ Kept(s) /\ (Better(s) = {} \/ Cardinality(KeysOf(s)) + (i - 1) <= n)
        /\ m = RemoveFirst(side, s, p) /\ s \in AllTrees /\ Good(less, s)
    BY <1>7, <1>9 DEF G
  <2>2. i \in 0 .. n /\ i \in Nat /\ n \in Nat
    BY <1>1
  <2>3. m \in G
    BY <1>2, <2>1
  <2> HIDE DEF s, m, less
  <2>4. CASE m = s /\ \A q \in KeysOf(s) : <<q, p>> \notin less
    <3>1. Kept(m) /\ Better(m) = {}
      BY <2>1, <2>4
    <3> QED BY <2>2, <2>3, <3>1 DEF m
  <2>5. ASSUME NEW k \in KeysOf(s), <<k, p>> \in less, Erased(less, m, s, k)
        PROVE  i \in Reached
    <3>1. KeysOf(m) = KeysOf(s) \ {k} /\ Entries(m) = {e \in Entries(s) : e[1] # k}
      BY <2>5 DEF Erased
    <3>2. Kept(m)
      BY <2>1, <2>5, <3>1
    <3>3. /\ IsFiniteSet(KeysOf(s)) /\ Cardinality(KeysOf(s)) \in Nat
          /\ Cardinality(KeysOf(m)) = Cardinality(KeysOf(s)) - 1
      BY <2>1, <2>5, <3>1, NodesFinite, FS_RemoveElement
    <3>4. Cardinality(KeysOf(s)) + (i - 1) <= n
      BY <2>1, <2>5
    <3>5. Cardinality(KeysOf(m)) + i <= n
      BY <2>2, <3>3, <3>4
    <3> QED BY <2>2, <2>3, <3>2, <3>5 DEF m
  <2> QED BY <2>1, <2>4, <2>5, RoundRemoves DEF less
<1>10. n \in Reached
  <2>1. \A i \in 0 .. n : i \in Reached
    <3> HIDE DEF Reached
    <3> QED BY <1>1, <1>8, <1>9, IntervalInduction
  <2>2. n \in 0 .. n
    BY <1>1
  <2> QED BY <2>1, <2>2
<1> DEFINE m == after[n]
<1>11. m \in AllTrees /\ Good(less, m) /\ Kept(m)
  BY <1>10 DEF G
<1>12. Better(m) = {}
  <2> SUFFICES ASSUME Cardinality(KeysOf(m)) + n <= n
               PROVE  Better(m) = {}
    BY <1>10
  <2>1. IsFiniteSet(KeysOf(m)) /\ Cardinality(KeysOf(m)) \in Nat
    BY <1>11, NodesFinite
  <2>2. KeysOf(m) = {}
    BY <1>1, <2>1, FS_EmptySet
  <2> QED BY <2>2
<1>13. \A e \in Entries(m) : e[1] \in KeysOf(m)
  BY <1>11, ContentTypes
<1> HIDE DEF m, less
<1>14. KeysOf(m) = {q \in KeysOf(t) : <<q, p>> \notin less}
  BY <1>11, <1>12
<1>15. Entries(m) = {e \in Entries(t) : <<e[1], p>> \notin less}
  BY <1>11, <1>12, <1>13
<1> QED BY <1>6, <1>11, <1>14, <1>15 DEF m, less

\* The levels of a tree are its entries.
LEMMA LevelsAre ==
    ASSUME NEW less, IsOrder(less), NEW t, Good(less, t)
    PROVE  /\ LevelsOf(t) = [q \in KeysOf(t) |-> LevelsOf(t)[q]]
           /\ DOMAIN LevelsOf(t) = KeysOf(t)
           /\ \A q \in KeysOf(t) : <<q, LevelsOf(t)[q]>> \in Entries(t)
           /\ \A e \in Entries(t) : e[1] \in KeysOf(t) /\ LevelsOf(t)[e[1]] = e[2]
<1>1. t \in AllTrees /\ Ordered(less, t)
  BY BalancedParts DEF Good
<1>2. /\ Entries(t) \subseteq Keys \X Values
      /\ KeysOf(t) = {e[1] : e \in Entries(t)}
  BY <1>1, ContentTypes
<1>3. \A d, e \in Entries(t) : d[1] = e[1] => d = e
  BY <1>1, OneEntry
<1>4. LevelsOf(t) = [q \in KeysOf(t) |-> CHOOSE a \in Values : <<q, a>> \in Entries(t)]
  BY <1>2 DEF LevelsOf
<1>5. ASSUME NEW q \in KeysOf(t)
      PROVE  <<q, LevelsOf(t)[q]>> \in Entries(t)
  <2>1. PICK e \in Entries(t) : e[1] = q
    BY <1>2, <1>5
  <2>2. e[2] \in Values /\ e = <<e[1], e[2]>>
    BY <1>2, <2>1
  <2>3. \E a \in Values : <<q, a>> \in Entries(t)
    BY <2>1, <2>2
  <2> QED BY <1>4, <2>3
<1>6. ASSUME NEW e \in Entries(t)
      PROVE  e[1] \in KeysOf(t) /\ LevelsOf(t)[e[1]] = e[2]
  <2>1. e[1] \in KeysOf(t)
    BY <1>2, <1>6
  <2> DEFINE d == <<e[1], LevelsOf(t)[e[1]]>>
  <2>2. d \in Entries(t) /\ d[1] = e[1] /\ d[2] = LevelsOf(t)[e[1]]
    BY <1>5, <2>1
  <2> HIDE DEF d
  <2> QED BY <1>3, <1>6, <2>1, <2>2
<1>7. DOMAIN LevelsOf(t) = KeysOf(t) /\ LevelsOf(t) = [q \in KeysOf(t) |-> LevelsOf(t)[q]]
  BY <1>4
<1> QED BY <1>5, <1>6, <1>7

\* A function with the keys and the values of a tree is its levels.
LEMMA LevelsUnique ==
    ASSUME NEW less, IsOrder(less), NEW t, Good(less, t), NEW f, f = [q \in KeysOf(t) |-> f[q]],
           \A e \in Entries(t) : f[e[1]] = e[2]
    PROVE  LevelsOf(t) = f
<1>1. \A q \in KeysOf(t) : LevelsOf(t)[q] = f[q]
  <2> SUFFICES ASSUME NEW q \in KeysOf(t)
               PROVE  LevelsOf(t)[q] = f[q]
    OBVIOUS
  <2> DEFINE e == <<q, LevelsOf(t)[q]>>
  <2>1. e \in Entries(t) /\ e[1] = q /\ e[2] = LevelsOf(t)[q]
    BY LevelsAre
  <2> HIDE DEF e
  <2> QED BY <2>1
<1> QED BY <1>1, LevelsAre

\* insert and replace of a level.
LEMMA LevelStored ==
    ASSUME NEW side \in Sides, NEW t, Good(LessOf(side), t), NEW p \in Keys, NEW a \in Values,
           NEW replace \in BOOLEAN
    PROVE  LET r == InsertInternal(LessOf(side), t, p, a, replace)
           IN  /\ Good(LessOf(side), r.node) /\ r.misread = FALSE
               /\ LevelsOf(r.node) = IF p \in DOMAIN LevelsOf(t) /\ ~ replace THEN LevelsOf(t)
                                     ELSE Levels!With(LevelsOf(t), p, a)
<1> DEFINE less == LessOf(side)
           r == InsertInternal(less, t, p, a, replace)
           m == r.node
           f == Levels!With(LevelsOf(t), p, a)
<1>1. IsOrder(less) /\ t \in AllTrees
  BY SidesOrdered, BalancedParts DEF Good
<1>2. Inserted(less, p, r, t.height) /\ Stored(less, m, t, p, a, replace)
  BY <1>1, InsertBalances, InsertStores DEF Good
<1>3. Good(less, m) /\ r.misread = FALSE
  BY <1>2 DEF Inserted, Stored, Good
<1>4. /\ DOMAIN LevelsOf(t) = KeysOf(t)
      /\ \A e \in Entries(t) : e[1] \in KeysOf(t) /\ LevelsOf(t)[e[1]] = e[2]
      /\ LevelsOf(t) = [q \in KeysOf(t) |-> LevelsOf(t)[q]]
  BY <1>1, LevelsAre
<1>5. f = [q \in KeysOf(t) \cup {p} |-> IF q = p THEN a ELSE LevelsOf(t)[q]]
  BY <1>4 DEF Levels!With
<1> HIDE DEF less, r, m, f
<1>6. CASE p \in KeysOf(t) /\ ~ replace
  <2>1. KeysOf(m) = KeysOf(t) /\ Entries(m) = Entries(t)
    BY <1>2, <1>6 DEF Stored
  <2>2. LevelsOf(m) = LevelsOf(t)
    BY <1>1, <1>3, <1>4, <2>1, LevelsUnique
  <2> QED BY <1>3, <1>4, <1>6, <2>2 DEF less, r, m
<1>7. CASE ~(p \in KeysOf(t) /\ ~ replace)
  <2>1. /\ KeysOf(m) = KeysOf(t) \cup {p}
        /\ Entries(m) = {e \in Entries(t) : e[1] # p} \cup {<<p, a>>}
    BY <1>2, <1>7 DEF Stored
  <2>2. f = [q \in KeysOf(m) |-> f[q]]
    BY <1>5, <2>1
  <2>3. \A e \in Entries(m) : f[e[1]] = e[2]
    <3> SUFFICES ASSUME NEW e \in Entries(m)
                 PROVE  f[e[1]] = e[2]
      OBVIOUS
    <3>1. CASE e = <<p, a>>
      <4>1. e[1] = p /\ e[2] = a
        BY <3>1
      <4> QED BY <1>5, <4>1
    <3>2. CASE e \in Entries(t) /\ e[1] # p
      BY <1>4, <1>5, <3>2
    <3> QED BY <2>1, <3>1, <3>2
  <2>4. LevelsOf(m) = f
    BY <1>1, <1>3, <2>2, <2>3, LevelsUnique
  <2> QED BY <1>3, <1>4, <1>7, <2>4 DEF less, r, m, f
<1> QED BY <1>6, <1>7

\* A tree that holds what another one does, but for some keys.
LEMMA LevelsWithout ==
    ASSUME NEW less, IsOrder(less), NEW t, NEW m, Good(less, t), Good(less, m), NEW S,
           KeysOf(m) = KeysOf(t) \ S, Entries(m) = {e \in Entries(t) : e[1] \notin S}
    PROVE  LevelsOf(m) = Levels!Without(LevelsOf(t), S)
<1> DEFINE f == Levels!Without(LevelsOf(t), S)
<1>1. /\ DOMAIN LevelsOf(t) = KeysOf(t)
      /\ \A e \in Entries(t) : e[1] \in KeysOf(t) /\ LevelsOf(t)[e[1]] = e[2]
  BY LevelsAre
<1>2. f = [q \in KeysOf(t) \ S |-> LevelsOf(t)[q]]
  BY <1>1 DEF Levels!Without, Levels!Restrict
<1>3. f = [q \in KeysOf(m) |-> f[q]]
  BY <1>2
<1>4. \A e \in Entries(m) : f[e[1]] = e[2]
  BY <1>1, <1>2
<1> HIDE DEF f
<1>5. LevelsOf(m) = f
  BY <1>3, <1>4, LevelsUnique
<1> QED BY <1>5 DEF f

\* update_ask and update_bid change one level, or take it away.
LEMMA LevelChanged ==
    ASSUME NEW side \in Sides, NEW t, Good(LessOf(side), t), NEW p \in Keys, NEW a \in Values \cup {0}
    PROVE  /\ Good(LessOf(side), Changed(side, t, p, a).node) /\ Changed(side, t, p, a).misread = FALSE
           /\ LevelsOf(Changed(side, t, p, a).node) = Levels!Put(LevelsOf(t), p, a)
<1>1. IsOrder(LessOf(side)) /\ Values \subseteq Nat \ {0}
  BY SidesOrdered, BookAssumption
<1>2. CASE a = 0
  <2> DEFINE m == DeleteInternal(LessOf(side), t, p)
  <2>1. Erased(LessOf(side), m, t, p)
    BY <1>1, DeleteErases DEF Good
  <2>2. Changed(side, t, p, a) = Left(m)
    BY <1>2 DEF Changed
  <2> HIDE DEF m
  <2>3. Good(LessOf(side), m) /\ KeysOf(m) = KeysOf(t) \ {p}
        /\ Entries(m) = {e \in Entries(t) : e[1] \notin {p}}
    BY <2>1 DEF Erased, Good
  <2>4. LevelsOf(m) = Levels!Without(LevelsOf(t), {p})
    BY <1>1, <2>3, LevelsWithout
  <2>5. Levels!Put(LevelsOf(t), p, a) = Levels!Without(LevelsOf(t), {p})
    BY <1>2 DEF Levels!Put
  <2>6. Left(m).node = m /\ Left(m).misread = FALSE
    BY DEF Left
  <2> QED BY <2>2, <2>3, <2>4, <2>5, <2>6
<1>3. CASE a # 0
  <2> DEFINE r == InsertInternal(LessOf(side), t, p, a, TRUE)
  <2>1. a \in Values /\ ~(a <= 0)
    BY <1>1, <1>3
  <2>2. /\ Good(LessOf(side), r.node) /\ r.misread = FALSE
        /\ LevelsOf(r.node) = Levels!With(LevelsOf(t), p, a)
    BY <2>1, LevelStored
  <2>3. Changed(side, t, p, a) = r
    BY <2>1 DEF Changed
  <2>4. Levels!Put(LevelsOf(t), p, a) = Levels!With(LevelsOf(t), p, a)
    BY <1>3 DEF Levels!Put
  <2> HIDE DEF r
  <2> QED BY <2>2, <2>3, <2>4
<1> QED BY <1>2, <1>3

\* remove_ask_to and remove_bid_to trim the levels.
LEMMA LevelsTrimmed ==
    ASSUME NEW side \in Sides, NEW t, Good(LessOf(side), t), NEW p \in Keys
    PROVE  /\ Good(LessOf(side), RemoveTo(side, t, p)) /\ RemoveTo(side, t, p) \in AllTrees
           /\ LevelsOf(RemoveTo(side, t, p)) =
                 Levels!Without(LevelsOf(t), {q \in DOMAIN LevelsOf(t) : Levels!Before(side, q, p)})
           /\ RemoveTo(side, t, p) = Nil <=> DOMAIN LevelsOf(RemoveTo(side, t, p)) = {}
<1> DEFINE m == RemoveTo(side, t, p)
           S == {q \in DOMAIN LevelsOf(t) : Levels!Before(side, q, p)}
           less == LessOf(side)
<1>1. IsOrder(less) /\ t \in AllTrees /\ KeysOf(t) \subseteq Keys
  BY SidesOrdered, BalancedParts, ContentTypes DEF Good
<1>2. /\ Good(less, m)
      /\ KeysOf(m) = {q \in KeysOf(t) : <<q, p>> \notin less}
      /\ Entries(m) = {e \in Entries(t) : <<e[1], p>> \notin less}
  BY RemovesAllBetter
<1>3. \A q \in Keys : <<q, p>> \in less <=> Levels!Before(side, q, p)
  BY DEF LessOf, AskLess, BidLess, Levels!Before
<1>4. DOMAIN LevelsOf(t) = KeysOf(t) /\ \A e \in Entries(t) : e[1] \in KeysOf(t)
  BY <1>1, LevelsAre
<1> HIDE DEF m, less
<1>5. \A q \in KeysOf(t) : q \in S <=> <<q, p>> \in less
  BY <1>1, <1>3, <1>4
<1> HIDE DEF S
<1>6. KeysOf(m) = KeysOf(t) \ S
  BY <1>2, <1>5
<1>7. Entries(m) = {e \in Entries(t) : e[1] \notin S}
  BY <1>2, <1>4, <1>5
<1>8. LevelsOf(m) = Levels!Without(LevelsOf(t), S)
  BY <1>1, <1>2, <1>6, <1>7, LevelsWithout DEF less
<1>9. m \in AllTrees /\ DOMAIN LevelsOf(m) = KeysOf(m)
  BY <1>1, <1>2, LevelsAre, BalancedParts DEF Good, less
<1>10. m = Nil <=> KeysOf(m) = {}
  BY <1>9, Contents, NilContents
<1> QED BY <1>2, <1>8, <1>9, <1>10 DEF m, S, less

\* The inductive invariant: both trees are balanced and ordered, and no freed key was read.
BookInv == Good(AskLess, ask) /\ Good(BidLess, bid) /\ misread = FALSE

\* The prices and amounts of the book are keys and values of its trees.
LEMMA BookConstants ==
    /\ \A side \in Sides : /\ PricesOf(side) \subseteq Keys /\ AmountsOf(side) \subseteq Values
                           /\ 0 \notin AmountsOf(side)
    /\ \A tk \in Tickers : /\ tk.bid \in BidPrices /\ tk.ask \in AskPrices
                           /\ tk.bidVolume \in BidAmounts \cup {0} /\ tk.askVolume \in AskAmounts \cup {0}
                           /\ tk.bid \in Keys /\ tk.ask \in Keys
                           /\ tk.bidVolume \in Values \cup {0} /\ tk.askVolume \in Values \cup {0}
BY BookAssumption DEF PricesOf, AmountsOf, Tickers

\* The tree of a side and its order.
LEMMA GoodSides ==
    ASSUME BookInv, NEW side \in Sides
    PROVE  Good(LessOf(side), TreeOf(side))
BY DEF BookInv, LessOf, TreeOf

\* A side becomes a good tree: the invariant holds of the book, and the levels of that side change.
LEMMA SideChanges ==
    ASSUME BookInv, NEW side \in Sides, NEW r, r.misread = FALSE, Good(LessOf(side), r.node),
           SetSide(side, r)
    PROVE  /\ BookInv' /\ readable' = readable
           /\ [s \in Sides |-> LevelsOf(TreeOf(s))]' =
                 [[s \in Sides |-> LevelsOf(TreeOf(s))] EXCEPT ![side] = LevelsOf(r.node)]
<1>1. misread' = FALSE /\ readable' = readable
  BY DEF SetSide, BookInv
<1>2. side = "sell" \/ side = "buy"
  BY DEF Sides
<1>3. CASE side = "sell"
  <2>1. ask' = r.node /\ bid' = bid /\ Good(AskLess, r.node)
    BY <1>3 DEF SetSide, LessOf
  <2>2. BookInv'
    BY <1>1, <2>1 DEF BookInv
  <2>3. \A s \in Sides : LevelsOf(TreeOf(s)') = IF s = "sell" THEN LevelsOf(r.node) ELSE LevelsOf(TreeOf(s))
    BY <2>1 DEF TreeOf
  <2> QED BY <1>1, <1>3, <2>2, <2>3
<1>4. CASE side = "buy"
  <2>1. bid' = r.node /\ ask' = ask /\ Good(BidLess, r.node)
    BY <1>4 DEF SetSide, LessOf
  <2>2. BookInv'
    BY <1>1, <2>1 DEF BookInv
  <2>3. \A s \in Sides : LevelsOf(TreeOf(s)') = IF s = "buy" THEN LevelsOf(r.node) ELSE LevelsOf(TreeOf(s))
    BY <2>1 DEF TreeOf, Sides
  <2> QED BY <1>1, <1>4, <2>2, <2>3
<1> QED BY <1>2, <1>3, <1>4

\* The levels, as PriceLevels sees them.
BookLevels == [s \in Sides |-> LevelsOf(TreeOf(s))]

\* update_bid and update_ask, as a step of PriceLevels.
LEMMA LevelUpdated ==
    ASSUME BookInv, NEW side \in Sides, NEW p \in PricesOf(side), NEW a \in AmountsOf(side) \cup {0},
           UpdateLevel(side, p, a)
    PROVE  BookInv' /\ Levels!Next
<1>1. Good(LessOf(side), TreeOf(side)) /\ p \in Keys /\ a \in Values \cup {0}
  BY GoodSides, BookConstants
<1> DEFINE r == Changed(side, TreeOf(side), p, a)
<1>2. /\ Good(LessOf(side), r.node) /\ r.misread = FALSE
      /\ LevelsOf(r.node) = Levels!Put(LevelsOf(TreeOf(side)), p, a)
  BY <1>1, LevelChanged
<1>3. SetSide(side, r)
  BY DEF UpdateLevel
<1> HIDE DEF r
<1>4. /\ BookInv' /\ readable' = readable
      /\ BookLevels' = [BookLevels EXCEPT ![side] = LevelsOf(r.node)]
  BY <1>2, <1>3, SideChanges DEF BookLevels
<1>5. BookLevels[side] = LevelsOf(TreeOf(side))
  BY DEF BookLevels
<1>6. BookLevels' = [BookLevels EXCEPT ![side] = Levels!Put(BookLevels[side], p, a)]
  BY <1>2, <1>4, <1>5
<1>7. Levels!SetLevel(side, p, a)
  BY <1>4, <1>6 DEF Levels!SetLevel, BookLevels
<1>8. /\ side \in Levels!Sides /\ p \in [s \in Sides |-> PricesOf(s)][side]
      /\ a # 0 => a \in [s \in Sides |-> AmountsOf(s)][side]
  BY DEF Sides, Levels!Sides
<1>9. Levels!Next
  BY <1>7, <1>8 DEF Levels!Next
<1> QED BY <1>4, <1>9

\* insert into the tree of a side: a new level, or nothing.
LEMMA LevelInserted ==
    ASSUME BookInv, NEW side \in Sides, NEW p \in PricesOf(side), NEW a \in AmountsOf(side),
           InsertLevel(side, p, a)
    PROVE  BookInv' /\ (Levels!Next \/ UNCHANGED <<BookLevels, readable>>)
<1>1. Good(LessOf(side), TreeOf(side)) /\ p \in Keys /\ a \in Values /\ a # 0
  BY GoodSides, BookConstants
<1> DEFINE r == InsertInternal(LessOf(side), TreeOf(side), p, a, FALSE)
           old == LevelsOf(TreeOf(side))
<1>2. /\ Good(LessOf(side), r.node) /\ r.misread = FALSE
      /\ LevelsOf(r.node) = IF p \in DOMAIN old THEN old ELSE Levels!With(old, p, a)
  BY <1>1, LevelStored
<1>3. SetSide(side, r)
  BY DEF InsertLevel
<1>4. BookLevels[side] = old
  BY DEF BookLevels
<1> HIDE DEF r, old
<1>5. /\ BookInv' /\ readable' = readable
      /\ BookLevels' = [BookLevels EXCEPT ![side] = LevelsOf(r.node)]
  BY <1>2, <1>3, SideChanges DEF BookLevels
<1>6. CASE p \in DOMAIN old
  <2>1. BookLevels = [s \in Sides |-> BookLevels[s]]
    BY DEF BookLevels
  <2>2. BookLevels' = BookLevels
    BY <1>2, <1>4, <1>5, <1>6, <2>1
  <2> QED BY <1>5, <2>2
<1>7. CASE p \notin DOMAIN old
  <2>1. LevelsOf(r.node) = Levels!Put(old, p, a)
    BY <1>1, <1>2, <1>7 DEF Levels!Put
  <2>2. BookLevels' = [BookLevels EXCEPT ![side] = Levels!Put(BookLevels[side], p, a)]
    BY <1>4, <1>5, <2>1
  <2>3. Levels!AddLevel(side, p, a)
    BY <1>4, <1>5, <1>7, <2>2 DEF Levels!AddLevel, Levels!SetLevel, BookLevels
  <2>4. /\ side \in Levels!Sides /\ p \in [s \in Sides |-> PricesOf(s)][side]
        /\ a \in [s \in Sides |-> AmountsOf(s)][side]
    BY DEF Sides, Levels!Sides
  <2> QED BY <1>5, <2>3, <2>4 DEF Levels!Next
<1> QED BY <1>6, <1>7

\* A trimmed side, as PriceLevels sees it.
LEMMA SideTrimmed ==
    ASSUME BookInv, NEW side \in Sides, NEW p \in Keys
    PROVE  /\ Good(LessOf(side), RemoveTo(side, TreeOf(side), p))
           /\ LevelsOf(RemoveTo(side, TreeOf(side), p)) = Levels!Trimmed(side, p)
           /\ RemoveTo(side, TreeOf(side), p) = Nil <=> DOMAIN Levels!Trimmed(side, p) = {}
<1>1. Good(LessOf(side), TreeOf(side))
  BY GoodSides
<1>2. Levels!Trimmed(side, p) =
        Levels!Without(LevelsOf(TreeOf(side)),
            {q \in DOMAIN LevelsOf(TreeOf(side)) : Levels!Before(side, q, p)})
  BY DEF Levels!Trimmed
<1> QED BY <1>1, <1>2, LevelsTrimmed

\* A side without levels, read by the loop that removes some.
LEMMA SideBreaks ==
    ASSUME BookInv, NEW side \in Sides, NEW p \in PricesOf(side),
           RemoveTo(side, TreeOf(side), p) = Nil, readable' = FALSE, UNCHANGED <<bid, ask, misread>>
    PROVE  BookInv' /\ Levels!Next
<1>1. BookInv' /\ BookLevels' = BookLevels
  BY DEF BookInv, BookLevels, TreeOf
<1>2. DOMAIN Levels!Trimmed(side, p) = {}
  BY SideTrimmed, BookConstants
<1>3. side \in Levels!Sides /\ p \in [s \in Sides |-> PricesOf(s)][side]
  BY DEF Sides, Levels!Sides
<1>4. Levels!Break
  BY <1>1, <1>2, <1>3 DEF Levels!Break, BookLevels
<1> QED BY <1>1, <1>4 DEF Levels!Next

\* remove_bid_to and remove_ask_to, as a step of PriceLevels.
LEMMA LevelsRemoved ==
    ASSUME BookInv, NEW side \in Sides, NEW p \in PricesOf(side), RemoveLevelsTo(side, p)
    PROVE  BookInv' /\ Levels!Next
<1> DEFINE t == RemoveTo(side, TreeOf(side), p)
<1>1. p \in Keys
  BY BookConstants
<1>2. CASE t = Nil /\ readable' = FALSE /\ UNCHANGED <<bid, ask, misread>>
  BY <1>2, SideBreaks
<1>3. CASE t # Nil /\ SetSide(side, Left(t))
  <2>1. /\ Good(LessOf(side), t) /\ LevelsOf(t) = Levels!Trimmed(side, p)
        /\ DOMAIN Levels!Trimmed(side, p) # {}
    BY <1>1, <1>3, SideTrimmed
  <2>2. Left(t).node = t /\ Left(t).misread = FALSE
    BY DEF Left
  <2> HIDE DEF t
  <2>3. /\ BookInv' /\ readable' = readable
        /\ BookLevels' = [BookLevels EXCEPT ![side] = Levels!Trimmed(side, p)]
    <3> DEFINE r == Left(t)
    <3>1. r.node = t /\ r.misread = FALSE /\ SetSide(side, r)
      BY <1>3, <2>2
    <3> HIDE DEF r
    <3>2. /\ BookInv' /\ readable' = readable
          /\ BookLevels' = [BookLevels EXCEPT ![side] = LevelsOf(r.node)]
      BY <2>1, <3>1, SideChanges DEF BookLevels
    <3> QED BY <2>1, <3>1, <3>2
  <2>4. Levels!Trim(side, p)
    BY <2>1, <2>3 DEF Levels!Trim, BookLevels
  <2>5. side \in Levels!Sides /\ p \in [s \in Sides |-> PricesOf(s)][side]
    BY DEF Sides, Levels!Sides
  <2> QED BY <2>3, <2>4, <2>5 DEF Levels!Next
<1> QED BY <1>2, <1>3 DEF RemoveLevelsTo, Misread

\* update_from_ticker, as a step of PriceLevels.
LEMMA TickerTaken ==
    ASSUME BookInv, NEW tk \in Tickers, UpdateFromTicker(tk)
    PROVE  BookInv' /\ Levels!Next
<1> DEFINE a == RemoveTo("sell", ask, tk.ask)
           b == RemoveTo("buy", bid, tk.bid)
           newAsk == Changed("sell", a, tk.ask, tk.askVolume)
           newBid == Changed("buy", b, tk.bid, tk.bidVolume)
<1>1. /\ tk.ask \in Keys /\ tk.bid \in Keys
      /\ tk.bidVolume \in Values \cup {0} /\ tk.askVolume \in Values \cup {0}
      /\ tk.bidVolume \in BidAmounts \cup {0} /\ tk.askVolume \in AskAmounts \cup {0}
      /\ tk.bid \in PricesOf("buy") /\ tk.ask \in PricesOf("sell")
  BY BookConstants DEF PricesOf
<1>2. "sell" \in Sides /\ "buy" \in Sides /\ TreeOf("sell") = ask /\ TreeOf("buy") = bid
      /\ LessOf("sell") = AskLess /\ LessOf("buy") = BidLess
  BY DEF Sides, TreeOf, LessOf
<1>3. /\ Good(AskLess, a) /\ LevelsOf(a) = Levels!Trimmed("sell", tk.ask)
      /\ a = Nil <=> DOMAIN Levels!Trimmed("sell", tk.ask) = {}
  <2>1. /\ Good(LessOf("sell"), RemoveTo("sell", TreeOf("sell"), tk.ask))
        /\ LevelsOf(RemoveTo("sell", TreeOf("sell"), tk.ask)) = Levels!Trimmed("sell", tk.ask)
        /\ RemoveTo("sell", TreeOf("sell"), tk.ask) = Nil <=> DOMAIN Levels!Trimmed("sell", tk.ask) = {}
    BY <1>1, <1>2, SideTrimmed
  <2> QED BY <1>2, <2>1
<1>4. /\ Good(BidLess, b) /\ LevelsOf(b) = Levels!Trimmed("buy", tk.bid)
      /\ b = Nil <=> DOMAIN Levels!Trimmed("buy", tk.bid) = {}
  <2>1. /\ Good(LessOf("buy"), RemoveTo("buy", TreeOf("buy"), tk.bid))
        /\ LevelsOf(RemoveTo("buy", TreeOf("buy"), tk.bid)) = Levels!Trimmed("buy", tk.bid)
        /\ RemoveTo("buy", TreeOf("buy"), tk.bid) = Nil <=> DOMAIN Levels!Trimmed("buy", tk.bid) = {}
    BY <1>1, <1>2, SideTrimmed
  <2> QED BY <1>2, <2>1
<1>5. CASE Nil \in {a, b} /\ readable' = FALSE /\ UNCHANGED <<bid, ask, misread>>
  <2>1. CASE a = Nil
    BY <1>1, <1>2, <1>5, <2>1, SideBreaks
  <2>2. CASE b = Nil
    BY <1>1, <1>2, <1>5, <2>2, SideBreaks
  <2> QED BY <1>5, <2>1, <2>2
<1>6. CASE /\ Nil \notin {a, b}
           /\ ask' = newAsk.node /\ bid' = newBid.node
           /\ misread' = (misread \/ newAsk.misread \/ newBid.misread)
           /\ UNCHANGED readable
  <2> HIDE DEF a, b
  <2>1. /\ Good(AskLess, newAsk.node) /\ newAsk.misread = FALSE
        /\ LevelsOf(newAsk.node) = Levels!Put(LevelsOf(a), tk.ask, tk.askVolume)
    <3>1. Good(LessOf("sell"), a)
      BY <1>2, <1>3
    <3>2. /\ Good(LessOf("sell"), newAsk.node) /\ newAsk.misread = FALSE
          /\ LevelsOf(newAsk.node) = Levels!Put(LevelsOf(a), tk.ask, tk.askVolume)
      BY <1>1, <1>2, <3>1, LevelChanged
    <3> QED BY <1>2, <3>2
  <2>2. /\ Good(BidLess, newBid.node) /\ newBid.misread = FALSE
        /\ LevelsOf(newBid.node) = Levels!Put(LevelsOf(b), tk.bid, tk.bidVolume)
    <3>1. Good(LessOf("buy"), b)
      BY <1>2, <1>4
    <3>2. /\ Good(LessOf("buy"), newBid.node) /\ newBid.misread = FALSE
          /\ LevelsOf(newBid.node) = Levels!Put(LevelsOf(b), tk.bid, tk.bidVolume)
      BY <1>1, <1>2, <3>1, LevelChanged
    <3> QED BY <1>2, <3>2
  <2> HIDE DEF newAsk, newBid
  <2>3. BookInv'
    BY <1>6, <2>1, <2>2 DEF BookInv
  <2>4. BookLevels' = [s \in Sides |-> IF s = "sell"
                          THEN Levels!Put(Levels!Trimmed("sell", tk.ask), tk.ask, tk.askVolume)
                          ELSE Levels!Put(Levels!Trimmed("buy", tk.bid), tk.bid, tk.bidVolume)]
    <3>1. LevelsOf(ask') = Levels!Put(Levels!Trimmed("sell", tk.ask), tk.ask, tk.askVolume)
      BY <1>3, <1>6, <2>1
    <3>2. LevelsOf(bid') = Levels!Put(Levels!Trimmed("buy", tk.bid), tk.bid, tk.bidVolume)
      BY <1>4, <1>6, <2>2
    <3>3. BookLevels' = [s \in Sides |-> IF s = "sell" THEN LevelsOf(ask') ELSE LevelsOf(bid')]
      BY DEF BookLevels, TreeOf
    <3> QED BY <3>1, <3>2, <3>3
  <2>5. DOMAIN Levels!Trimmed("sell", tk.ask) # {} /\ DOMAIN Levels!Trimmed("buy", tk.bid) # {}
    BY <1>3, <1>4, <1>6
  <2>6. /\ tk.bidVolume \in [s \in Sides |-> AmountsOf(s)]["buy"] \cup {0}
        /\ tk.askVolume \in [s \in Sides |-> AmountsOf(s)]["sell"] \cup {0}
        /\ tk.bid \in [s \in Sides |-> PricesOf(s)]["buy"]
        /\ tk.ask \in [s \in Sides |-> PricesOf(s)]["sell"]
    BY <1>1, <1>2 DEF AmountsOf
  <2>7. Levels!Quote(tk.bid, tk.ask)
    <3>1. Levels!Sides = Sides
      BY DEF Sides, Levels!Sides
    <3> QED BY <1>6, <2>4, <2>5, <2>6, <3>1 DEF Levels!Quote, BookLevels
  <2> QED BY <2>3, <2>6, <2>7 DEF Levels!Next
<1> QED BY <1>5, <1>6 DEF UpdateFromTicker, Misread

\* Every step keeps the invariant, and is a step of PriceLevels or none.
LEMMA BookStep ==
    ASSUME BookInv, [BookNext]_bookVars
    PROVE  BookInv' /\ [Levels!Next]_<<BookLevels, readable>>
<1>1. CASE BookNext
  BY <1>1, LevelUpdated, LevelInserted, LevelsRemoved, TickerTaken DEF BookNext
<1>2. CASE UNCHANGED bookVars
  BY <1>2 DEF bookVars, BookInv, BookLevels, TreeOf
<1> QED BY <1>1, <1>2

\* An empty book.
LEMMA BookStarts ==
    ASSUME BookInit
    PROVE  BookInv /\ Levels!Init
<1>1. BookInv
  BY NilBalanced, NilContents DEF BookInit, BookInv, Good
<1>2. LevelsOf(Nil) = <<>>
  BY NilContents DEF LevelsOf
<1>3. Levels!Sides = Sides
  BY DEF Sides, Levels!Sides
<1>4. BookLevels = [s \in Sides |-> <<>>]
  BY <1>2 DEF BookInit, BookLevels, TreeOf
<1>5. Levels!Init
  BY <1>3, <1>4 DEF BookInit, Levels!Init, BookLevels
<1> QED BY <1>1, <1>5

\* The invariant holds of every state of the book.
LEMMA BookIsKept == BookSpec => []BookInv
<1>1. BookInit => BookInv
  BY BookStarts
<1>2. BookInv /\ [BookNext]_bookVars => BookInv'
  BY BookStep
<1> QED BY <1>1, <1>2, PTL DEF BookSpec

\* Whatever is inserted, replaced and erased, and in which order, both trees of the book stay
\* balanced and every node has its own height.
THEOREM BookIsBalanced == BookSpec => []BooksBalanced
<1>1. BookInv => BooksBalanced
  BY DEF BookInv, Good, BooksBalanced
<1> QED BY <1>1, BookIsKept, PTL

\* No level of insert_internal looks at the key of a node that a double rotation has freed.
THEOREM BookReadsLiveKeys == BookSpec => []KeyOutlivesUse
<1>1. BookInv => KeyOutlivesUse
  BY DEF BookInv, KeyOutlivesUse
<1> QED BY <1>1, BookIsKept, PTL

\* The book implements PriceLevels: every step maps to a change of the levels it names, or to none.
THEOREM BookImplementsLevels == BookSpec => IsPriceLevels
<1>1. BookInit => Levels!Init
  BY BookStarts
<1>2. BookInv /\ [BookNext]_bookVars => [Levels!Next]_<<BookLevels, readable>>
  BY BookStep
<1>3. BookInv /\ [BookNext]_bookVars => [Levels!Next]_<<[s \in Sides |-> LevelsOf(TreeOf(s))], readable>>
  BY <1>2 DEF BookLevels
<1> HIDE DEF BookNext, BookInit, BookInv
<1> QED BY <1>1, <1>3, BookIsKept, PTL DEF BookSpec, IsPriceLevels, Levels!Spec

-----------------------------------------------------------------------------
(* Iterators.  The path that an iterator holds is followed by recursion on the tree as well: *)
(* from the path to a key it goes to the path to the next key of the tree, on either side.    *)

\* The nodes from the root on to the right, by the root.
LEMMA RightSpineDef ==
    ASSUME NEW t \in AllTrees
    PROVE  RightSpine(t) = IF t = Nil THEN <<>> ELSE <<t>> \o RightSpine(t.right)
<1> DEFINE B(n, x, y) == IF n = Nil THEN <<>> ELSE <<n>> \o y
           Is(f, h) == f = [n \in Trees[h] |-> B(n, f[n.left], f[n.right])]
           Known == {h \in Nat : \E f : Is(f, h)}
           G == [h \in Nat |-> CHOOSE f : Is(f, h)]
<1>1. \A x, y, u, w : B(Nil, x, y) = B(Nil, u, w)
  BY DEF Nil
<1>2. \A h \in Nat : G[h] = CHOOSE f : Is(f, h)
  OBVIOUS
<1>3. /\ RightSpine(t) = (CHOOSE f : Is(f, t.height))[t]
      /\ RightSpine(t.left) = (CHOOSE f : Is(f, t.left.height))[t.left]
      /\ RightSpine(t.right) = (CHOOSE f : Is(f, t.right.height))[t.right]
  BY DEF RightSpine
<1>4. SUFFICES RightSpine(t) = B(t, RightSpine(t.left), RightSpine(t.right))
  OBVIOUS
<1> HIDE DEF B
<1>5. 0 \in Known
  <2> DEFINE f == [n \in Trees[0] |-> B(Nil, Nil, Nil)]
  <2>1. \A n \in Trees[0] : f[n] = B(n, f[n.left], f[n.right])
    BY <1>1, TreesDef
  <2>2. f = [n \in Trees[0] |-> f[n]]
    OBVIOUS
  <2> HIDE DEF f
  <2>3. Is(f, 0)
    BY <2>1, <2>2
  <2> QED BY <2>3
<1>6. ASSUME NEW h \in Nat, h \in Known
      PROVE  h + 1 \in Known
  <2>1. PICK f : Is(f, h)
    BY <1>6
  <2> DEFINE g == [n \in Trees[h + 1] |-> B(n, f[n.left], f[n.right])]
  <2>2. Trees[h] \subseteq Trees[h + 1] /\ h + 1 \in Nat
    BY h + 1 \in Nat, h <= h + 1, TreesGrow
  <2>3. \A n \in Trees[h] : g[n] = f[n]
    BY <2>1, <2>2
  <2>4. ASSUME NEW n \in Trees[h + 1]
        PROVE  g[n] = B(n, g[n.left], g[n.right])
    <3>1. g[n] = B(n, f[n.left], f[n.right])
      OBVIOUS
    <3> HIDE DEF g
    <3> QED BY <1>1, <2>3, <3>1, LowerChildren
  <2>5. g = [n \in Trees[h + 1] |-> g[n]]
    OBVIOUS
  <2> HIDE DEF g
  <2>6. Is(g, h + 1)
    BY <2>4, <2>5
  <2> HIDE DEF Is
  <2> QED BY <2>2, <2>6
<1>7. ASSUME NEW h \in Nat, NEW n \in Trees[h]
      PROVE  G[h][n] = B(n, G[h][n.left], G[h][n.right])
  <2>1. Nat \subseteq Known
    <3> HIDE DEF Known
    <3> QED BY <1>5, <1>6, NumberInduction
  <2>2. Is(G[h], h)
    <3>1. \E f : Is(f, h)
      BY <2>1
    <3> HIDE DEF Is
    <3> QED BY <1>2, <3>1
  <2>3. G[h] = [s \in Trees[h] |-> B(s, G[h][s.left], G[h][s.right])]
    <3> HIDE DEF G
    <3> QED BY <2>2
  <2> HIDE DEF G
  <2> QED BY <2>3, Zenon
<1> HIDE DEF G, Is
<1>8. \A h \in Nat : G[h][Nil] = G[0][Nil]
  <2> SUFFICES ASSUME NEW h \in Nat
               PROVE  G[h][Nil] = G[0][Nil]
    OBVIOUS
  <2>1. Nil \in Trees[h] /\ Nil \in Trees[0]
    BY TreesDef, TreesGrow
  <2> QED BY <1>1, <1>7, <2>1
<1>9. t.height \in Nat /\ t \in Trees[t.height]
  BY TreeShape
<1>10. RightSpine(t) = B(t, G[t.height][t.left], G[t.height][t.right])
  BY <1>2, <1>3, <1>7, <1>9
<1>11. CASE t = Nil
  BY <1>1, <1>10, <1>11
<1>12. CASE t # Nil
  <2>1. \A h, m \in Nat : \A n \in Trees[h] \cap Trees[m] :
           n # Nil /\ G[h][n.left] = G[m][n.left] /\ G[h][n.right] = G[m][n.right]
           => G[h][n] = G[m][n]
    BY <1>7
  <2>2. /\ G[t.height][t.left] = G[t.left.height][t.left]
        /\ G[t.height][t.right] = G[t.right.height][t.right]
    BY <1>8, <1>12, <2>1, ChildrenAgree
  <2>3. t.left.height \in Nat /\ t.right.height \in Nat
    BY <1>12, TreeShape
  <2> QED BY <1>2, <1>3, <1>10, <2>2, <2>3
<1> QED BY <1>11, <1>12

\* What a search for a key visits below a node; x and y are what it visits in the children.
Below(less, n, k, x, y) ==
    CASE <<k, n.key>> \in less -> x
      [] <<n.key, k>> \in less -> y
      [] OTHER -> <<>>

\* The nodes that a search for a key visits, by the root.
LEMMA PathToDef ==
    ASSUME NEW less, NEW k, NEW t \in AllTrees
    PROVE  PathTo(less, t, k) =
              IF t = Nil THEN <<>>
              ELSE <<t>> \o Below(less, t, k, PathTo(less, t.left, k), PathTo(less, t.right, k))
<1> DEFINE B(n, x, y) == IF n = Nil THEN <<>>
                         ELSE <<n>> \o (CASE <<k, n.key>> \in less -> x
                                          [] <<n.key, k>> \in less -> y
                                          [] OTHER -> <<>>)
           Is(f, h) == f = [n \in Trees[h] |-> B(n, f[n.left], f[n.right])]
           Known == {h \in Nat : \E f : Is(f, h)}
           G == [h \in Nat |-> CHOOSE f : Is(f, h)]
<1>1. \A x, y, u, w : B(Nil, x, y) = B(Nil, u, w)
  BY DEF Nil
<1>2. \A h \in Nat : G[h] = CHOOSE f : Is(f, h)
  OBVIOUS
<1>3. /\ PathTo(less, t, k) = (CHOOSE f : Is(f, t.height))[t]
      /\ PathTo(less, t.left, k) = (CHOOSE f : Is(f, t.left.height))[t.left]
      /\ PathTo(less, t.right, k) = (CHOOSE f : Is(f, t.right.height))[t.right]
  BY DEF PathTo
<1>4. SUFFICES PathTo(less, t, k) = B(t, PathTo(less, t.left, k), PathTo(less, t.right, k))
  BY DEF Below
<1> HIDE DEF B
<1>5. 0 \in Known
  <2> DEFINE f == [n \in Trees[0] |-> B(Nil, Nil, Nil)]
  <2>1. \A n \in Trees[0] : f[n] = B(n, f[n.left], f[n.right])
    BY <1>1, TreesDef
  <2>2. f = [n \in Trees[0] |-> f[n]]
    OBVIOUS
  <2> HIDE DEF f
  <2>3. Is(f, 0)
    BY <2>1, <2>2
  <2> QED BY <2>3
<1>6. ASSUME NEW h \in Nat, h \in Known
      PROVE  h + 1 \in Known
  <2>1. PICK f : Is(f, h)
    BY <1>6
  <2> DEFINE g == [n \in Trees[h + 1] |-> B(n, f[n.left], f[n.right])]
  <2>2. Trees[h] \subseteq Trees[h + 1] /\ h + 1 \in Nat
    BY h + 1 \in Nat, h <= h + 1, TreesGrow
  <2>3. \A n \in Trees[h] : g[n] = f[n]
    BY <2>1, <2>2
  <2>4. ASSUME NEW n \in Trees[h + 1]
        PROVE  g[n] = B(n, g[n.left], g[n.right])
    <3>1. g[n] = B(n, f[n.left], f[n.right])
      OBVIOUS
    <3> HIDE DEF g
    <3> QED BY <1>1, <2>3, <3>1, LowerChildren
  <2>5. g = [n \in Trees[h + 1] |-> g[n]]
    OBVIOUS
  <2> HIDE DEF g
  <2>6. Is(g, h + 1)
    BY <2>4, <2>5
  <2> HIDE DEF Is
  <2> QED BY <2>2, <2>6
<1>7. ASSUME NEW h \in Nat, NEW n \in Trees[h]
      PROVE  G[h][n] = B(n, G[h][n.left], G[h][n.right])
  <2>1. Nat \subseteq Known
    <3> HIDE DEF Known
    <3> QED BY <1>5, <1>6, NumberInduction
  <2>2. Is(G[h], h)
    <3>1. \E f : Is(f, h)
      BY <2>1
    <3> HIDE DEF Is
    <3> QED BY <1>2, <3>1
  <2>3. G[h] = [s \in Trees[h] |-> B(s, G[h][s.left], G[h][s.right])]
    <3> HIDE DEF G
    <3> QED BY <2>2
  <2> HIDE DEF G
  <2> QED BY <2>3, Zenon
<1> HIDE DEF G, Is
<1>8. \A h \in Nat : G[h][Nil] = G[0][Nil]
  <2> SUFFICES ASSUME NEW h \in Nat
               PROVE  G[h][Nil] = G[0][Nil]
    OBVIOUS
  <2>1. Nil \in Trees[h] /\ Nil \in Trees[0]
    BY TreesDef, TreesGrow
  <2> QED BY <1>1, <1>7, <2>1
<1>9. t.height \in Nat /\ t \in Trees[t.height]
  BY TreeShape
<1>10. PathTo(less, t, k) = B(t, G[t.height][t.left], G[t.height][t.right])
  BY <1>2, <1>3, <1>7, <1>9
<1>11. CASE t = Nil
  BY <1>1, <1>10, <1>11
<1>12. CASE t # Nil
  <2>1. \A h, m \in Nat : \A n \in Trees[h] \cap Trees[m] :
           n # Nil /\ G[h][n.left] = G[m][n.left] /\ G[h][n.right] = G[m][n.right]
           => G[h][n] = G[m][n]
    BY <1>7
  <2>2. /\ G[t.height][t.left] = G[t.left.height][t.left]
        /\ G[t.height][t.right] = G[t.right.height][t.right]
    BY <1>8, <1>12, <2>1, ChildrenAgree
  <2>3. t.left.height \in Nat /\ t.right.height \in Nat
    BY <1>12, TreeShape
  <2> QED BY <1>2, <1>3, <1>10, <2>2, <2>3
<1> QED BY <1>11, <1>12

\* The last node of a path.
LastNode(p) == p[Len(p)]

\* A path that begins one node above.
LEMMA PathUnder ==
    ASSUME NEW t \in AllTrees, NEW p \in Seq(AllTrees), p # <<>>
    PROVE  /\ <<t>> \o p \in Seq(AllTrees) /\ <<t>> \o p # <<>>
           /\ Len(<<t>> \o p) = Len(p) + 1 /\ Len(p) \in Nat \ {0}
           /\ (<<t>> \o p)[1] = t
           /\ \A i \in 1 .. Len(p) : (<<t>> \o p)[i + 1] = p[i]
           /\ LastNode(<<t>> \o p) = LastNode(p) /\ LastNode(p) \in AllTrees
           /\ \A s \in Seq(AllTrees) : (<<t>> \o p) \o s = <<t>> \o (p \o s) /\ p \o s # <<>>
<1>1. Len(p) \in Nat \ {0} /\ <<t>> \in Seq(AllTrees) /\ Len(<<t>>) = 1
  BY EmptySeq
<1>2. <<t>> \o p \in Seq(AllTrees) /\ Len(<<t>> \o p) = Len(p) + 1 /\ <<t>> \o p # <<>>
  BY <1>1
<1>3. (<<t>> \o p)[1] = t /\ \A i \in 1 .. Len(p) : (<<t>> \o p)[i + 1] = p[i]
  BY <1>1
<1>4. LastNode(<<t>> \o p) = LastNode(p) /\ LastNode(p) \in AllTrees
  BY <1>1, <1>2, <1>3 DEF LastNode
<1>5. ASSUME NEW s \in Seq(AllTrees)
      PROVE  (<<t>> \o p) \o s = <<t>> \o (p \o s) /\ p \o s # <<>>
  BY <1>1
<1> QED BY <1>1, <1>2, <1>3, <1>4, <1>5

Child(n, side) == IF side = "left" THEN n.left ELSE n.right

\* The greatest of some numbers up to n.
LEMMA GreatestExists ==
    ASSUME NEW n \in Nat, NEW S \in SUBSET (1 .. n), S # {}
    PROVE  \E i \in S : \A j \in S : j <= i
<1> DEFINE T == {n - i : i \in S}
<1>1. T \in SUBSET (0 .. n) /\ T # {}
  <2>1. \A i \in S : n - i \in 0 .. n
    OBVIOUS
  <2>2. PICK i \in S : TRUE
    OBVIOUS
  <2>3. n - i \in T
    OBVIOUS
  <2>4. \A x \in T : x \in 0 .. n
    BY <2>1
  <2> HIDE DEF T
  <2> QED BY <2>3, <2>4
<1> HIDE DEF T
<1>2. PICK x \in T : \A y \in T : x <= y
  BY <1>1, LeastTimeExists
<1>3. PICK i \in S : x = n - i
  BY <1>2 DEF T
<1>4. \A j \in S : n - j \in T
  BY DEF T
<1> QED BY <1>2, <1>3, <1>4

\* Climbing a path that begins one node above: up to the same node, or to the new one if the path
\* takes the given child of it.
LEMMA ClimbUnder ==
    ASSUME NEW t \in AllTrees, NEW p \in Seq(AllTrees), p # <<>>, NEW side
    PROVE  /\ ClimbTo(p, side) \in Seq(AllTrees)
           /\ ClimbTo(<<t>> \o p, side) = IF ClimbTo(p, side) # <<>> THEN <<t>> \o ClimbTo(p, side)
                                          ELSE IF Child(t, side) = p[1] THEN <<t>> ELSE <<>>
<1> DEFINE path == <<t>> \o p
           Ups(s) == {i \in 1 .. (Len(s) - 1) : Child(s[i], side) = s[i + 1]}
           Highest(S) == CHOOSE i \in S : \A j \in S : j <= i
<1>1. /\ path \in Seq(AllTrees) /\ Len(path) = Len(p) + 1 /\ Len(p) \in Nat \ {0}
      /\ path[1] = t /\ \A i \in 1 .. Len(p) : path[i + 1] = p[i]
  BY PathUnder
<1>2. \A s : ClimbTo(s, side) = IF Ups(s) = {} THEN <<>> ELSE SubSeq(s, 1, Highest(Ups(s)))
  BY DEF ClimbTo, Child
<1> HIDE DEF path
<1>3. \A i \in 1 .. (Len(p) - 1) : i + 1 \in Ups(path) <=> i \in Ups(p)
  BY <1>1
<1>4. 1 \in Ups(path) <=> Child(t, side) = p[1]
  <2>1. path[1] = t /\ path[2] = p[1] /\ 1 \in 1 .. (Len(path) - 1)
    <3>1. 1 \in 1 .. Len(p)
      BY <1>1
    <3>2. path[1 + 1] = p[1]
      BY <1>1, <3>1
    <3> QED BY <1>1, <3>2
  <2> QED BY <2>1
<1>5. \A i \in Ups(path) : i = 1 \/ (i - 1 \in 1 .. (Len(p) - 1) /\ i - 1 \in Ups(p))
  BY <1>1, <1>3
<1>6. Ups(p) \subseteq 1 .. (Len(p) - 1) /\ Ups(path) \subseteq 1 .. Len(p)
  BY <1>1
<1> HIDE DEF Ups
<1>7. CASE Ups(p) = {}
  <2>1. ClimbTo(p, side) = <<>>
    BY <1>2, <1>7
  <2>2. CASE Child(t, side) = p[1]
    <3>1. Ups(path) = {1}
      BY <1>4, <1>5, <1>7, <2>2
    <3>2. Highest({1}) = 1
      OBVIOUS
    <3>3. SubSeq(path, 1, 1) = <<t>>
      <4> DEFINE a == SubSeq(path, 1, 1)
                 b == <<t>>
      <4>1. a \in Seq(AllTrees) /\ Len(a) = 1 /\ a[1] = t
        BY <1>1
      <4>2. b \in Seq(AllTrees) /\ Len(b) = 1 /\ b[1] = t
        OBVIOUS
      <4> HIDE DEF a, b
      <4>3. a = b
        BY <4>1, <4>2, SeqEqual
      <4> QED BY <4>3 DEF a, b
    <3>4. ClimbTo(path, side) = SubSeq(path, 1, Highest(Ups(path)))
      BY <1>2, <3>1
    <3> HIDE DEF Highest
    <3>5. ClimbTo(path, side) = <<t>>
      BY <3>1, <3>2, <3>3, <3>4
    <3> QED BY <2>1, <2>2, <3>5 DEF path
  <2>3. CASE Child(t, side) # p[1]
    <3>1. Ups(path) = {}
      BY <1>4, <1>5, <1>7, <2>3
    <3> QED BY <1>2, <2>1, <2>3, <3>1 DEF path
  <2> QED BY <2>2, <2>3
<1>8. CASE Ups(p) # {}
  <2> DEFINE m == Highest(Ups(p))
             h == Highest(Ups(path))
  <2>1. m \in Ups(p) /\ \A j \in Ups(p) : j <= m
    <3>1. \E i \in Ups(p) : \A j \in Ups(p) : j <= i
      <4>1. Len(p) - 1 \in Nat
        BY <1>1
      <4> QED BY <1>6, <1>8, <4>1, GreatestExists
    <3> QED BY <3>1
  <2>2. m \in 1 .. (Len(p) - 1) /\ m + 1 \in Ups(path)
    BY <1>3, <1>6, <2>1
  <2>3. \A j \in Ups(path) : j <= m + 1
    BY <1>1, <1>5, <1>6, <2>1, <2>2
  <2>4. h = m + 1
    <3>1. h \in Ups(path) /\ \A j \in Ups(path) : j <= h
      <4>1. \E i \in Ups(path) : \A j \in Ups(path) : j <= i
        BY <2>2, <2>3
      <4> QED BY <4>1
    <3> HIDE DEF m, h
    <3> QED BY <1>1, <1>6, <2>2, <2>3, <3>1
  <2> HIDE DEF m, h
  <2>5. ClimbTo(p, side) = SubSeq(p, 1, m) /\ ClimbTo(path, side) = SubSeq(path, 1, m + 1)
    <3>1. Ups(path) # {}
      BY <2>2
    <3> QED BY <1>2, <1>8, <2>4, <3>1 DEF m, h
  <2>6. SubSeq(p, 1, m) \in Seq(AllTrees) /\ Len(SubSeq(p, 1, m)) = m /\ m # 0 /\ m \in Nat
    BY <1>1, <2>2
  <2>7. SubSeq(path, 1, m + 1) = <<t>> \o SubSeq(p, 1, m)
    <3> DEFINE a == SubSeq(path, 1, m + 1)
               b == <<t>> \o SubSeq(p, 1, m)
    <3>1. a \in Seq(AllTrees) /\ Len(a) = m + 1 /\ \A i \in 1 .. (m + 1) : a[i] = path[i]
      BY <1>1, <2>2
    <3>2. b \in Seq(AllTrees) /\ Len(b) = m + 1 /\ b[1] = t /\ \A i \in 1 .. m : b[i + 1] = p[i]
      BY <1>1, <2>2, <2>6
    <3> HIDE DEF a, b
    <3>3. \A i \in 1 .. (m + 1) : i = 1 \/ (i - 1 \in 1 .. m /\ (i - 1) + 1 = i /\ i - 1 \in 1 .. Len(p))
      BY <1>1, <2>2, <2>6
    <3>4. \A i \in 1 .. (m + 1) : a[i] = b[i]
      <4> SUFFICES ASSUME NEW i \in 1 .. (m + 1)
                   PROVE  a[i] = b[i]
        OBVIOUS
      <4>1. CASE i = 1
        BY <1>1, <3>1, <3>2, <4>1
      <4>2. CASE i - 1 \in 1 .. m /\ (i - 1) + 1 = i /\ i - 1 \in 1 .. Len(p)
        <5>1. a[i] = path[(i - 1) + 1] /\ b[(i - 1) + 1] = p[i - 1]
          BY <3>1, <3>2, <4>2
        <5>2. path[(i - 1) + 1] = p[i - 1]
          BY <1>1, <4>2
        <5> QED BY <4>2, <5>1, <5>2
      <4> QED BY <3>3, <4>1, <4>2
    <3>5. a = b
      BY <3>1, <3>2, <3>4, SeqEqual
    <3> QED BY <3>5 DEF a, b
  <2>8. SubSeq(p, 1, m) # <<>>
    BY <2>6
  <2> QED BY <2>5, <2>6, <2>7, <2>8 DEF path
<1>9. ClimbTo(p, side) \in Seq(AllTrees)
  <2>1. CASE Ups(p) = {}
    <3>1. ClimbTo(p, side) = <<>>
      BY <1>2, <2>1
    <3> QED BY <3>1, EmptySeq
  <2>2. CASE Ups(p) # {}
    <3> DEFINE m == Highest(Ups(p))
    <3>1. m \in Ups(p)
      <4>1. \E i \in Ups(p) : \A j \in Ups(p) : j <= i
        <5>1. Len(p) - 1 \in Nat
          BY <1>1
        <5> QED BY <1>6, <2>2, <5>1, GreatestExists
      <4> QED BY <4>1
    <3> HIDE DEF m
    <3>2. SubSeq(p, 1, m) \in Seq(AllTrees)
      BY <1>1, <1>6, <3>1
    <3> QED BY <1>2, <2>2, <3>2 DEF m
  <2> QED BY <2>1, <2>2
<1> QED BY <1>7, <1>8, <1>9


Other(side) == IF side = "left" THEN "right" ELSE "left"
Spine(t, side) == IF side = "left" THEN LeftSpine(t) ELSE RightSpine(t)

\* The order of the keys when the tree is read from the given side.
From(less, side) == IF side = "left" THEN less ELSE {<<pair[2], pair[1]>> : pair \in less}

\* The first of some keys, the path to it, and where an iterator goes from a path.
FirstKey(order, S) == CHOOSE k \in S : \A q \in S \ {k} : <<k, q>> \in order
FirstPath(less, order, t, S) == IF S = {} THEN <<>> ELSE PathTo(less, t, FirstKey(order, S))
Onward(p, side) == IF Child(LastNode(p), Other(side)) # Nil
                   THEN p \o Spine(Child(LastNode(p), Other(side)), side)
                   ELSE ClimbTo(p, side)

KeyOrder(less) == less \in SUBSET (Keys \X Keys) /\ IsOrder(less)

\* The order from the other side is an order too.
LEMMA TurnedOrder ==
    ASSUME NEW less, KeyOrder(less), NEW side \in {"left", "right"}
    PROVE  /\ KeyOrder(From(less, side))
           /\ \A a, b \in Keys : <<a, b>> \in From(less, "right") <=> <<b, a>> \in less
           /\ From(less, "left") = less
<1> DEFINE more == {<<pair[2], pair[1]>> : pair \in less}
<1>1. \A a, b \in Keys : <<a, b>> \in more <=> <<b, a>> \in less
  <2> SUFFICES ASSUME NEW a \in Keys, NEW b \in Keys
               PROVE  <<a, b>> \in more <=> <<b, a>> \in less
    OBVIOUS
  <2>1. ASSUME <<a, b>> \in more PROVE <<b, a>> \in less
    <3>1. PICK pair \in less : <<a, b>> = <<pair[2], pair[1]>>
      BY <2>1
    <3>2. pair \in Keys \X Keys
      BY DEF KeyOrder
    <3> QED BY <3>1, <3>2
  <2>2. ASSUME <<b, a>> \in less PROVE <<a, b>> \in more
    BY <2>2
  <2> QED BY <2>1, <2>2
<1>2. more \in SUBSET (Keys \X Keys)
  BY DEF KeyOrder
<1> HIDE DEF more
<1>3. IsOrder(more)
  <2>1. \A pair \in more : <<pair[2], pair[1]>> \notin more
    <3> SUFFICES ASSUME NEW pair \in more
                 PROVE  <<pair[2], pair[1]>> \notin more
      OBVIOUS
    <3>1. pair[1] \in Keys /\ pair[2] \in Keys /\ pair = <<pair[1], pair[2]>>
      BY <1>2
    <3>2. <<pair[2], pair[1]>> \in less
      BY <1>1, <3>1
    <3>3. <<pair[1], pair[2]>> \notin less
      BY <3>2 DEF KeyOrder, IsOrder
    <3> QED BY <1>1, <3>1, <3>3
  <2>2. \A a, b, c \in Keys : <<a, b>> \in more /\ <<b, c>> \in more => <<a, c>> \in more
    BY <1>1 DEF KeyOrder, IsOrder
  <2>3. \A a, b \in Keys : a = b \/ <<a, b>> \in more \/ <<b, a>> \in more
    BY <1>1 DEF KeyOrder, IsOrder
  <2> QED BY <2>1, <2>2, <2>3 DEF IsOrder
<1>4. From(less, "right") = more /\ From(less, "left") = less
  BY DEF From, more
<1> QED BY <1>1, <1>2, <1>3, <1>4 DEF KeyOrder

\* The first of some keys is unique.
LEMMA FirstKeyIs ==
    ASSUME NEW less, KeyOrder(less), NEW S, NEW k \in S, \A q \in S \ {k} : <<k, q>> \in less
    PROVE  FirstKey(less, S) = k
<1>1. \A j \in S : (\A q \in S \ {j} : <<j, q>> \in less) => j = k
  <2> SUFFICES ASSUME NEW j \in S, \A q \in S \ {j} : <<j, q>> \in less, j # k
               PROVE  FALSE
    OBVIOUS
  <2>1. <<j, k>> \in less /\ <<k, j>> \in less
    OBVIOUS
  <2>2. \A pair \in less : <<pair[2], pair[1]>> \notin less
    BY DEF KeyOrder, IsOrder
  <2> QED BY <2>1, <2>2
<1> QED BY <1>1 DEF FirstKey

\* Asymmetry and transitivity, to cite.
LEMMA OrderFacts ==
    ASSUME NEW less, KeyOrder(less)
    PROVE  /\ \A a, b : <<a, b>> \in less => <<b, a>> \notin less /\ a # b /\ a \in Keys /\ b \in Keys
           /\ \A a, b, c : <<a, b>> \in less /\ <<b, c>> \in less => <<a, c>> \in less
           /\ \A a, b \in Keys : a = b \/ <<a, b>> \in less \/ <<b, a>> \in less
<1>1. \A pair \in less : <<pair[2], pair[1]>> \notin less
  BY DEF KeyOrder, IsOrder
<1>2. \A a, b : <<a, b>> \in less => a \in Keys /\ b \in Keys /\ <<b, a>> \notin less
  <2> SUFFICES ASSUME NEW a, NEW b, <<a, b>> \in less
               PROVE  a \in Keys /\ b \in Keys /\ <<b, a>> \notin less
    OBVIOUS
  <2>1. <<a, b>> \in Keys \X Keys
    BY DEF KeyOrder
  <2> QED BY <1>1, <2>1
<1> QED BY <1>2 DEF KeyOrder, IsOrder

\* Where a search goes from the root.
LEMMA PathSteps ==
    ASSUME NEW less, KeyOrder(less), NEW t \in AllTrees, t # Nil, NEW k
    PROVE  /\ <<k, t.key>> \in less => PathTo(less, t, k) = <<t>> \o PathTo(less, t.left, k)
           /\ <<t.key, k>> \in less => PathTo(less, t, k) = <<t>> \o PathTo(less, t.right, k)
           /\ <<k, t.key>> \notin less /\ <<t.key, k>> \notin less => PathTo(less, t, k) = <<t>>
<1> DEFINE x == PathTo(less, t.left, k)
           y == PathTo(less, t.right, k)
<1>1. PathTo(less, t, k) = <<t>> \o Below(less, t, k, x, y)
  BY PathToDef
<1> HIDE DEF x, y
<1>2. <<k, t.key>> \in less => <<t.key, k>> \notin less
  BY OrderFacts
<1>3. /\ <<k, t.key>> \in less => Below(less, t, k, x, y) = x
      /\ <<t.key, k>> \in less => Below(less, t, k, x, y) = y
      /\ <<k, t.key>> \notin less /\ <<t.key, k>> \notin less => Below(less, t, k, x, y) = <<>>
  BY <1>2 DEF Below
<1>4. <<t>> \o <<>> = <<t>>
  OBVIOUS
<1> QED BY <1>1, <1>3, <1>4 DEF x, y

\* A node of an ordered tree, seen from one side.
Parts(less, order, side, t, near, far) ==
    /\ t.key \in Keys /\ near \in AllTrees /\ far \in AllTrees
    /\ Ordered(less, near) /\ Ordered(less, far)
    /\ KeysOf(t) = {t.key} \cup KeysOf(near) \cup KeysOf(far)
    /\ \A q \in KeysOf(near) : <<q, t.key>> \in order
    /\ \A q \in KeysOf(far) : <<t.key, q>> \in order
    /\ PathTo(less, t, t.key) = <<t>>
    /\ \A q \in Keys : <<q, t.key>> \in order => PathTo(less, t, q) = <<t>> \o PathTo(less, near, q)
    /\ \A q \in Keys : <<t.key, q>> \in order => PathTo(less, t, q) = <<t>> \o PathTo(less, far, q)
    /\ Spine(t, side) = <<t>> \o Spine(near, side)
    /\ far # Nil => near # far

\* From each side a node has the nearer child's keys before its own and the other's after it.
LEMMA SideParts ==
    ASSUME NEW less, KeyOrder(less), NEW t \in AllTrees, t # Nil, Ordered(less, t),
           NEW side \in {"left", "right"}
    PROVE  Parts(less, From(less, side), side, t, Child(t, side), Child(t, Other(side)))
<1> DEFINE near == Child(t, side)
           far == Child(t, Other(side))
           order == From(less, side)
<1>0. near = Child(t, side) /\ far = Child(t, Other(side)) /\ order = From(less, side)
  OBVIOUS
<1> HIDE DEF near, far, order
<1>1. /\ t.key \in Keys /\ t.left \in AllTrees /\ t.right \in AllTrees
  BY TreeShape
<1>2. /\ Ordered(less, t.left) /\ Ordered(less, t.right)
      /\ KeysOf(t) = {t.key} \cup KeysOf(t.left) \cup KeysOf(t.right)
      /\ \A q \in KeysOf(t.left) : <<q, t.key>> \in less
      /\ \A q \in KeysOf(t.right) : <<t.key, q>> \in less
  BY Contents DEF Precede
<1>3. KeysOf(t.left) \subseteq Keys /\ KeysOf(t.right) \subseteq Keys
  BY <1>1, ContentTypes
<1>4. /\ PathTo(less, t, t.key) = <<t>>
      /\ \A q \in Keys : <<q, t.key>> \in less => PathTo(less, t, q) = <<t>> \o PathTo(less, t.left, q)
      /\ \A q \in Keys : <<t.key, q>> \in less => PathTo(less, t, q) = <<t>> \o PathTo(less, t.right, q)
  <2>1. <<t.key, t.key>> \notin less
    BY OrderFacts
  <2> QED BY <2>1, PathSteps
<1>5. LeftSpine(t) = <<t>> \o LeftSpine(t.left) /\ RightSpine(t) = <<t>> \o RightSpine(t.right)
  BY LeftSpineDef, RightSpineDef
<1>6. ASSUME t.left = t.right PROVE t.left = Nil /\ t.right = Nil
  <2> SUFFICES ASSUME t.right # Nil PROVE FALSE
    BY <1>6
  <2>1. t.right.key \in KeysOf(t.right)
    <3>1. KeysOf(t.right) = {t.right.key} \cup KeysOf(t.right.left) \cup KeysOf(t.right.right)
      BY <1>1, Contents, Zenon
    <3> QED BY <3>1
  <2>2. <<t.right.key, t.key>> \in less /\ <<t.key, t.right.key>> \in less
    BY <1>2, <1>6, <2>1
  <2> QED BY <2>2, OrderFacts
<1>7. CASE side = "left"
  <2>1. near = t.left /\ far = t.right /\ order = less
    BY <1>0, <1>7 DEF Child, Other, From
  <2>2. Spine(t, side) = LeftSpine(t) /\ Spine(near, side) = LeftSpine(near)
    BY <1>7 DEF Spine
  <2> QED BY <1>0, <1>1, <1>2, <1>4, <1>5, <1>6, <2>1, <2>2 DEF Parts
<1>8. CASE side = "right"
  <2>1. near = t.right /\ far = t.left /\ order = From(less, "right")
    BY <1>0, <1>8 DEF Child, Other
  <2>2. Spine(t, side) = RightSpine(t) /\ Spine(near, side) = RightSpine(near)
    BY <1>8 DEF Spine
  <2>3. \A a, b \in Keys : <<a, b>> \in order <=> <<b, a>> \in less
    BY <2>1, TurnedOrder
  <2>4. \A q \in KeysOf(near) : <<q, t.key>> \in order
    BY <1>1, <1>2, <1>3, <2>1, <2>3
  <2>5. \A q \in KeysOf(far) : <<t.key, q>> \in order
    BY <1>1, <1>2, <1>3, <2>1, <2>3
  <2> QED BY <1>0, <1>1, <1>2, <1>4, <1>5, <1>6, <2>1, <2>2, <2>3, <2>4, <2>5 DEF Parts
<1> QED BY <1>7, <1>8


\* Some keys of a tree have a first one.
LEMMA SomeIsFirst ==
    ASSUME NEW order, KeyOrder(order), NEW t \in AllTrees, NEW S \in SUBSET KeysOf(t), S # {}
    PROVE  /\ FirstKey(order, S) \in S
           /\ \A q \in S \ {FirstKey(order, S)} : <<FirstKey(order, S), q>> \in order
<1> DEFINE Least(R, k) == k \in R /\ \A q \in R \ {k} : <<k, q>> \in order
           Fine == {n \in AllTrees : \A R \in SUBSET KeysOf(n) : R # {} => \E k \in R : Least(R, k)}
<1>1. Nil \in Fine
  BY NilBalanced, NilContents
<1>2. ASSUME NEW n \in AllTrees, n # Nil, n.left \in Fine, n.right \in Fine
      PROVE  n \in Fine
  <2> SUFFICES ASSUME NEW R \in SUBSET KeysOf(n), R # {}
               PROVE  \E k \in R : Least(R, k)
    OBVIOUS
  <2> DEFINE A == R \cap KeysOf(n.left)
             B == R \cap KeysOf(n.right)
             C == R \cap {n.key}
  <2>1. KeysOf(n) = {n.key} \cup KeysOf(n.left) \cup KeysOf(n.right)
    BY <1>2, Contents
  <2>2. R = A \cup B \cup C /\ R \subseteq Keys
    BY <2>1, ContentTypes
  <2>3. A = {} \/ \E k \in A : Least(A, k)
    BY <1>2
  <2>4. B = {} \/ \E k \in B : Least(B, k)
    BY <1>2
  <2>5. C = {} \/ \E k \in C : Least(C, k)
    OBVIOUS
  <2> HIDE DEF A, B, C, Least
  <2>6. \A U, V : U \cup V \subseteq Keys /\ (U = {} \/ \E k \in U : Least(U, k)) /\ (V = {} \/ \E k \in V : Least(V, k))
                  => (U \cup V = {} \/ \E k \in U \cup V : Least(U \cup V, k))
    <3> SUFFICES ASSUME NEW U, NEW V, U \cup V \subseteq Keys,
                        U = {} \/ \E k \in U : Least(U, k), V = {} \/ \E k \in V : Least(V, k)
                 PROVE  U \cup V = {} \/ \E k \in U \cup V : Least(U \cup V, k)
      OBVIOUS
    <3>1. CASE U = {} \/ V = {}
      <4>1. U \cup V = U \/ U \cup V = V
        BY <3>1
      <4> QED BY <4>1
    <3>2. CASE U # {} /\ V # {}
      <4>1. PICK u \in U : Least(U, u)
        BY <3>2
      <4>2. PICK v \in V : Least(V, v)
        BY <3>2
      <4>3. u = v \/ <<u, v>> \in order \/ <<v, u>> \in order
        BY OrderFacts
      <4>4. \A a, b, c : <<a, b>> \in order /\ <<b, c>> \in order => <<a, c>> \in order
        BY OrderFacts
      <4>5. u = v \/ <<u, v>> \in order => Least(U \cup V, u)
        BY <4>1, <4>2, <4>4 DEF Least
      <4>6. <<v, u>> \in order => Least(U \cup V, v)
        BY <4>1, <4>2, <4>4 DEF Least
      <4> QED BY <4>3, <4>5, <4>6
    <3> QED BY <3>1, <3>2
  <2>7. A \cup B = {} \/ \E k \in A \cup B : Least(A \cup B, k)
    BY <2>2, <2>3, <2>4, <2>6
  <2>8. R = {} \/ \E k \in R : Least(R, k)
    <3>1. (A \cup B) \cup C \subseteq Keys
      BY <2>2
    <3>2. (A \cup B) \cup C = {} \/ \E k \in (A \cup B) \cup C : Least((A \cup B) \cup C, k)
      BY <2>5, <2>6, <2>7, <3>1
    <3>3. (A \cup B) \cup C = R
      BY <2>2
    <3> QED BY <3>2, <3>3
  <2> QED BY <2>8
<1> HIDE DEF Fine
<1>3. t \in Fine
  BY <1>1, <1>2, TreeInduction
<1>4. \E k \in S : Least(S, k)
  BY <1>3 DEF Fine
<1> QED BY <1>4 DEF FirstKey

\* A search visits the root first, only nodes of the tree, and ends at the node of a key it has.
LEMMA PathShape ==
    ASSUME NEW less, KeyOrder(less), NEW t \in AllTrees, t # Nil, NEW k
    PROVE  /\ PathTo(less, t, k) \in Seq(AllTrees) /\ PathTo(less, t, k) # <<>>
           /\ PathTo(less, t, k)[1] = t
           /\ LastNode(PathTo(less, t, k)) \in AllTrees /\ LastNode(PathTo(less, t, k)) # Nil
<1> DEFINE Path(n) == PathTo(less, n, k)
           Visits(n) == /\ Path(n) \in Seq(AllTrees) /\ Path(n) # <<>> /\ Path(n)[1] = n
                        /\ LastNode(Path(n)) \in AllTrees /\ LastNode(Path(n)) # Nil
           Fine == {n \in AllTrees : n # Nil => Visits(n)}
<1>1. Nil \in Fine
  BY NilBalanced
<1>2. ASSUME NEW n \in AllTrees, n # Nil, n.left \in Fine, n.right \in Fine
      PROVE  n \in Fine
  <2>1. Path(Nil) = <<>>
    BY NilBalanced, PathToDef
  <2>2. Path(n) = <<n>> \o Path(n.left) \/ Path(n) = <<n>> \o Path(n.right) \/ Path(n) = <<n>>
    <3>1. n \in AllTrees /\ n # Nil
      BY <1>2
    <3> QED BY <3>1, PathSteps
  <2>3. Visits(n) \/ Path(n) # <<n>>
    <3> SUFFICES ASSUME Path(n) = <<n>> PROVE Visits(n)
      OBVIOUS
    <3>1. LastNode(<<n>>) = n /\ <<n>> \in Seq(AllTrees) /\ <<n>> # <<>> /\ <<n>>[1] = n
      BY DEF LastNode
    <3> HIDE DEF Path
    <3> QED BY <1>2, <3>1
  <2>4. ASSUME NEW m \in {n.left, n.right}, Path(n) = <<n>> \o Path(m)
        PROVE  Visits(n) \/ Path(n) = <<n>>
    <3>1. m \in AllTrees /\ m \in Fine
      BY <1>2
    <3>2. CASE m = Nil
      <4>1. <<n>> \o <<>> = <<n>>
        OBVIOUS
      <4> QED BY <2>1, <2>4, <3>2, <4>1
    <3>3. CASE m # Nil
      <4>1. Visits(m)
        BY <3>1, <3>3
      <4> DEFINE p == Path(m)
      <4>2. p \in Seq(AllTrees) /\ p # <<>> /\ LastNode(p) \in AllTrees /\ LastNode(p) # Nil
        BY <4>1
      <4> HIDE DEF p
      <4>3. /\ <<n>> \o p \in Seq(AllTrees) /\ <<n>> \o p # <<>> /\ (<<n>> \o p)[1] = n
            /\ LastNode(<<n>> \o p) = LastNode(p)
        BY <4>2, PathUnder
      <4>4. Path(n) = <<n>> \o p
        BY <2>4 DEF p
      <4> HIDE DEF Path
      <4> QED BY <4>2, <4>3, <4>4
    <3> QED BY <3>2, <3>3
  <2> HIDE DEF Visits, Path
  <2> QED BY <1>2, <2>2, <2>3, <2>4
<1> HIDE DEF Fine
<1>3. t \in Fine
  BY <1>1, <1>2, TreeInduction
<1> QED BY <1>3 DEF Fine

\* The outermost nodes of a side are a path that is not empty.
LEMMA SpineShape ==
    ASSUME NEW t \in AllTrees, t # Nil, NEW side \in {"left", "right"}
    PROVE  Spine(t, side) \in Seq(AllTrees) /\ Spine(t, side) # <<>>
<1> DEFINE Fine == {n \in AllTrees : Spine(n, side) \in Seq(AllTrees) /\ (n # Nil => Spine(n, side) # <<>>)}
<1>1. Nil \in Fine
  <2>1. Spine(Nil, side) = <<>>
    BY NilBalanced, LeftSpineDef, RightSpineDef DEF Spine
  <2> QED BY <2>1, NilBalanced
<1>2. ASSUME NEW n \in AllTrees, n # Nil, n.left \in Fine, n.right \in Fine
      PROVE  n \in Fine
  <2>1. \E m \in {n.left, n.right} : Spine(n, side) = <<n>> \o Spine(m, side)
    <3>1. LeftSpine(n) = <<n>> \o LeftSpine(n.left) /\ RightSpine(n) = <<n>> \o RightSpine(n.right)
      BY <1>2, LeftSpineDef, RightSpineDef
    <3> QED BY <3>1 DEF Spine
  <2>2. PICK m \in {n.left, n.right} : Spine(n, side) = <<n>> \o Spine(m, side)
    BY <2>1
  <2> DEFINE p == Spine(m, side)
  <2>3. p \in Seq(AllTrees) /\ Spine(n, side) = <<n>> \o p
    BY <1>2, <2>2
  <2> HIDE DEF p
  <2>4. <<n>> \o p \in Seq(AllTrees) /\ <<n>> \o p # <<>>
    BY <2>3
  <2> QED BY <2>3, <2>4
<1> HIDE DEF Fine
<1>3. t \in Fine
  BY <1>1, <1>2, TreeInduction
<1> QED BY <1>3 DEF Fine

\* Onward from a path that begins one node above.
LEMMA OnwardUnder ==
    ASSUME NEW t \in AllTrees, NEW p \in Seq(AllTrees), p # <<>>, LastNode(p) # Nil,
           NEW side \in {"left", "right"}
    PROVE  Onward(<<t>> \o p, side) = IF Onward(p, side) # <<>> THEN <<t>> \o Onward(p, side)
                                      ELSE IF Child(t, side) = p[1] THEN <<t>> ELSE <<>>
<1> DEFINE c == Child(LastNode(p), Other(side))
<1>1. LastNode(<<t>> \o p) = LastNode(p) /\ LastNode(p) \in AllTrees
  BY PathUnder
<1>2. c \in AllTrees
  BY <1>1, TreeShape DEF Child
<1> HIDE DEF c
<1>3. CASE c # Nil
  <2> DEFINE s == Spine(c, side)
  <2>1. s \in Seq(AllTrees)
    BY <1>2, <1>3, SpineShape
  <2>2. Onward(<<t>> \o p, side) = (<<t>> \o p) \o s /\ Onward(p, side) = p \o s
    BY <1>1, <1>3 DEF Onward, c
  <2> HIDE DEF s
  <2>3. (<<t>> \o p) \o s = <<t>> \o (p \o s) /\ p \o s # <<>>
    BY <2>1, PathUnder
  <2> QED BY <2>2, <2>3
<1>4. CASE c = Nil
  <2>1. Onward(<<t>> \o p, side) = ClimbTo(<<t>> \o p, side) /\ Onward(p, side) = ClimbTo(p, side)
    BY <1>1, <1>4 DEF Onward, c
  <2> QED BY <2>1, ClimbUnder
<1> QED BY <1>3, <1>4


\* The outermost nodes of a side are the path to the first key from there.
LEMMA SpineIsFirst ==
    ASSUME NEW less, KeyOrder(less), NEW t \in AllTrees, t # Nil, Ordered(less, t),
           NEW side \in {"left", "right"}
    PROVE  Spine(t, side) = PathTo(less, t, FirstKey(From(less, side), KeysOf(t)))
<1> DEFINE order == From(less, side)
           First(n) == Spine(n, side) = PathTo(less, n, FirstKey(order, KeysOf(n)))
           Fine == {n \in AllTrees : n # Nil /\ Ordered(less, n) => First(n)}
<1>1. KeyOrder(order)
  BY TurnedOrder
<1> HIDE DEF order
<1>2. Nil \in Fine
  BY NilBalanced
<1>3. ASSUME NEW n \in AllTrees, n # Nil, n.left \in Fine, n.right \in Fine
      PROVE  n \in Fine
  <2> SUFFICES ASSUME Ordered(less, n)
               PROVE  Spine(n, side) = PathTo(less, n, FirstKey(order, KeysOf(n)))
    BY <1>3
  <2> DEFINE near == Child(n, side)
             far == Child(n, Other(side))
  <2>1. /\ n.key \in Keys /\ near \in AllTrees /\ far \in AllTrees
        /\ Ordered(less, near)
        /\ KeysOf(n) = {n.key} \cup KeysOf(near) \cup KeysOf(far)
        /\ \A q \in KeysOf(near) : <<q, n.key>> \in order
        /\ \A q \in KeysOf(far) : <<n.key, q>> \in order
        /\ PathTo(less, n, n.key) = <<n>>
        /\ \A q \in Keys : <<q, n.key>> \in order => PathTo(less, n, q) = <<n>> \o PathTo(less, near, q)
        /\ Spine(n, side) = <<n>> \o Spine(near, side)
    <3>1. n \in AllTrees /\ n # Nil
      BY <1>3
    <3>2. Parts(less, order, side, n, near, far)
      BY <3>1, SideParts DEF order
    <3> HIDE DEF near, far
    <3> QED BY <3>2 DEF Parts
  <2>2. near \in Fine
    BY <1>3 DEF Child
  <2> HIDE DEF near, far
  <2>3. CASE near = Nil
    <3>1. FirstKey(order, KeysOf(n)) = n.key
      <4>1. KeysOf(near) = {}
        BY <2>3, NilContents
      <4>2. \A q \in KeysOf(n) \ {n.key} : <<n.key, q>> \in order
        BY <2>1, <4>1
      <4>3. n.key \in KeysOf(n)
        BY <2>1
      <4> QED BY <1>1, <4>2, <4>3, FirstKeyIs
    <3>2. Spine(near, side) = <<>>
      BY <2>3, NilBalanced, LeftSpineDef, RightSpineDef DEF Spine
    <3>3. <<n>> \o <<>> = <<n>>
      OBVIOUS
    <3> QED BY <2>1, <3>1, <3>2, <3>3
  <2>4. CASE near # Nil
    <3> DEFINE k == FirstKey(order, KeysOf(near))
    <3>1. near.key \in KeysOf(near)
      <4>1. KeysOf(near) = {near.key} \cup KeysOf(near.left) \cup KeysOf(near.right)
        BY <2>1, <2>4, Contents, Zenon
      <4> QED BY <4>1
    <3>2. k \in KeysOf(near) /\ \A q \in KeysOf(near) \ {k} : <<k, q>> \in order
      BY <1>1, <2>1, <3>1, SomeIsFirst
    <3>3. Spine(near, side) = PathTo(less, near, k)
      BY <2>1, <2>2, <2>4
    <3> HIDE DEF k
    <3>4. k \in Keys
      BY <2>1, <3>2, ContentTypes
    <3>5. \A q \in KeysOf(n) \ {k} : <<k, q>> \in order
      <4>1. \A a, b, c : <<a, b>> \in order /\ <<b, c>> \in order => <<a, c>> \in order
        BY <1>1, OrderFacts
      <4> QED BY <2>1, <3>2, <4>1
    <3>6. k \in KeysOf(n)
      BY <2>1, <3>2
    <3>7. FirstKey(order, KeysOf(n)) = k
      BY <1>1, <3>5, <3>6, FirstKeyIs
    <3> QED BY <2>1, <3>2, <3>3, <3>4, <3>7
  <2> QED BY <2>3, <2>4
<1> HIDE DEF Fine
<1>4. t \in Fine
  BY <1>2, <1>3, TreeInduction
<1> QED BY <1>4 DEF Fine, order

\* The keys of a tree that come after a key.
After(order, t, k) == {q \in KeysOf(t) : <<k, q>> \in order}

\* An iterator on a key goes on to the next key of the tree, or to the end.
LEMMA OnwardIsNext ==
    ASSUME NEW less, KeyOrder(less), NEW t \in AllTrees, Ordered(less, t),
           NEW side \in {"left", "right"}, NEW k \in KeysOf(t)
    PROVE  Onward(PathTo(less, t, k), side) =
              FirstPath(less, From(less, side), t, After(From(less, side), t, k))
<1> DEFINE order == From(less, side)
           Moves(n) == \A q \in KeysOf(n) :
                          Onward(PathTo(less, n, q), side) = FirstPath(less, order, n, After(order, n, q))
           Fine == {n \in AllTrees : Ordered(less, n) => Moves(n)}
<1>1. KeyOrder(order)
  BY TurnedOrder
<1> HIDE DEF order
<1>2. Nil \in Fine
  BY NilBalanced, NilContents
<1>3. ASSUME NEW n \in AllTrees, n # Nil, n.left \in Fine, n.right \in Fine
      PROVE  n \in Fine
  <2> SUFFICES ASSUME Ordered(less, n), NEW q \in KeysOf(n)
               PROVE  Onward(PathTo(less, n, q), side) = FirstPath(less, order, n, After(order, n, q))
    BY <1>3
  <2> DEFINE near == Child(n, side)
             far == Child(n, Other(side))
  <2>1. /\ n.key \in Keys /\ near \in AllTrees /\ far \in AllTrees
        /\ Ordered(less, near) /\ Ordered(less, far)
        /\ KeysOf(n) = {n.key} \cup KeysOf(near) \cup KeysOf(far)
        /\ \A j \in KeysOf(near) : <<j, n.key>> \in order
        /\ \A j \in KeysOf(far) : <<n.key, j>> \in order
        /\ PathTo(less, n, n.key) = <<n>>
        /\ \A j \in Keys : <<j, n.key>> \in order => PathTo(less, n, j) = <<n>> \o PathTo(less, near, j)
        /\ \A j \in Keys : <<n.key, j>> \in order => PathTo(less, n, j) = <<n>> \o PathTo(less, far, j)
        /\ far # Nil => near # far
    <3>1. n \in AllTrees /\ n # Nil
      BY <1>3
    <3>2. Parts(less, order, side, n, near, far)
      BY <3>1, SideParts DEF order
    <3> HIDE DEF near, far
    <3> QED BY <3>2 DEF Parts
  <2>2. near \in Fine /\ far \in Fine
    BY <1>3 DEF Child, Other
  <2>3. KeysOf(near) \subseteq Keys /\ KeysOf(far) \subseteq Keys
    BY <2>1, ContentTypes
  <2>4. /\ \A a, b : <<a, b>> \in order => <<b, a>> \notin order /\ a # b
        /\ \A a, b, c : <<a, b>> \in order /\ <<b, c>> \in order => <<a, c>> \in order
    BY <1>1, OrderFacts
  <2>5. /\ near = Nil => KeysOf(near) = {}
        /\ far = Nil => KeysOf(far) = {}
        /\ far # Nil => KeysOf(far) # {}
    <3>1. ASSUME far # Nil PROVE KeysOf(far) # {}
      <4> HIDE DEF far
      <4>1. KeysOf(far) = {far.key} \cup KeysOf(far.left) \cup KeysOf(far.right)
        BY <2>1, <3>1, Contents, Zenon
      <4> QED BY <4>1
    <3> QED BY <3>1, NilContents
  <2>6. near = Child(n, side) /\ far = Child(n, Other(side))
    OBVIOUS
  <2> HIDE DEF near, far
  <2>7. \A m \in {near, far} : \A S \in SUBSET KeysOf(m) : S # {} =>
           /\ FirstKey(order, S) \in S
           /\ \A j \in S \ {FirstKey(order, S)} : <<FirstKey(order, S), j>> \in order
    BY <1>1, <2>1, SomeIsFirst
  <2>8. CASE q = n.key
    <3>1. After(order, n, q) = KeysOf(far)
      BY <2>1, <2>4, <2>8 DEF After
    <3>2. PathTo(less, n, q) = <<n>> /\ LastNode(<<n>>) = n
      BY <2>1, <2>8 DEF LastNode
    <3>3. CASE far # Nil
      <4> DEFINE j == FirstKey(order, KeysOf(far))
      <4>1. j \in KeysOf(far)
        BY <2>5, <2>7, <3>3
      <4>2. Spine(far, side) = PathTo(less, far, j)
        BY <2>1, <3>3, SpineIsFirst DEF order
      <4>3. PathTo(less, n, j) = <<n>> \o PathTo(less, far, j)
        BY <2>1, <2>3, <4>1
      <4>4. FirstPath(less, order, n, KeysOf(far)) = PathTo(less, n, j)
        BY <4>1 DEF FirstPath
      <4> HIDE DEF j
      <4>5. Onward(<<n>>, side) = <<n>> \o Spine(far, side)
        BY <2>6, <3>2, <3>3 DEF Onward
      <4> QED BY <3>1, <3>2, <4>2, <4>3, <4>4, <4>5
    <3>4. CASE far = Nil
      <4>1. ClimbTo(<<n>>, side) = <<>>
        <5>1. 1 .. (Len(<<n>>) - 1) = {}
          BY Len(<<n>>) = 1
        <5> QED BY <5>1 DEF ClimbTo
      <4>2. Onward(<<n>>, side) = <<>>
        BY <2>6, <3>2, <3>4, <4>1 DEF Onward
      <4> QED BY <2>5, <3>1, <3>2, <3>4, <4>2 DEF FirstPath
    <3> QED BY <3>3, <3>4
  <2>9. ASSUME NEW m \in {near, far}, q \in KeysOf(m)
        PROVE  /\ m # Nil /\ PathTo(less, n, q) = <<n>> \o PathTo(less, m, q)
               /\ Onward(PathTo(less, n, q), side) =
                     IF After(order, m, q) # {}
                     THEN <<n>> \o PathTo(less, m, FirstKey(order, After(order, m, q)))
                     ELSE IF near = m THEN <<n>> ELSE <<>>
    <3>1. m # Nil /\ m \in AllTrees /\ Ordered(less, m)
      BY <2>1, <2>5, <2>9
    <3>2. PathTo(less, n, q) = <<n>> \o PathTo(less, m, q)
      BY <2>1, <2>3, <2>9
    <3> DEFINE p == PathTo(less, m, q)
    <3>3. p \in Seq(AllTrees) /\ p # <<>> /\ p[1] = m /\ LastNode(p) # Nil
      BY <3>1, PathShape
    <3>4. Onward(p, side) = FirstPath(less, order, m, After(order, m, q))
      BY <2>2, <2>9, <3>1
    <3> HIDE DEF p
    <3>5. Onward(<<n>> \o p, side) = IF Onward(p, side) # <<>> THEN <<n>> \o Onward(p, side)
                                     ELSE IF near = m THEN <<n>> ELSE <<>>
      BY <1>3, <2>6, <3>3, OnwardUnder
    <3>6. CASE After(order, m, q) # {}
      <4>1. PathTo(less, m, FirstKey(order, After(order, m, q))) # <<>>
        BY <3>1, PathShape
      <4>2. Onward(p, side) = PathTo(less, m, FirstKey(order, After(order, m, q)))
        BY <3>4, <3>6 DEF FirstPath
      <4> QED BY <3>1, <3>2, <3>5, <3>6, <4>1, <4>2 DEF p
    <3>7. CASE After(order, m, q) = {}
      <4>1. Onward(p, side) = <<>>
        BY <3>4, <3>7 DEF FirstPath
      <4> QED BY <3>1, <3>2, <3>5, <3>7, <4>1 DEF p
    <3> QED BY <3>6, <3>7
  <2>10. ASSUME NEW m \in {near, far}, q \in KeysOf(m), After(order, m, q) # {}
         PROVE  LET j == FirstKey(order, After(order, m, q))
                IN  /\ j \in KeysOf(m) /\ j \in Keys /\ <<q, j>> \in order
                    /\ \A i \in After(order, m, q) \ {j} : <<j, i>> \in order
                    /\ <<n>> \o PathTo(less, m, j) = PathTo(less, n, j)
    <3> DEFINE j == FirstKey(order, After(order, m, q))
    <3>1. After(order, m, q) \in SUBSET KeysOf(m)
      BY DEF After
    <3>2. j \in After(order, m, q) /\ \A i \in After(order, m, q) \ {j} : <<j, i>> \in order
      BY <2>7, <2>10, <3>1
    <3> HIDE DEF j
    <3>3. j \in KeysOf(m) /\ <<q, j>> \in order
      BY <3>2 DEF After
    <3>4. j \in Keys
      BY <2>3, <3>3
    <3>5. <<n>> \o PathTo(less, m, j) = PathTo(less, n, j)
      BY <2>1, <3>3, <3>4
    <3> QED BY <3>2, <3>3, <3>4, <3>5 DEF j
  <2>11. CASE q \in KeysOf(near)
    <3> DEFINE S == After(order, near, q)
    <3>1. After(order, n, q) = S \cup {n.key} \cup KeysOf(far)
      BY <2>1, <2>4, <2>11 DEF After
    <3>2. CASE S = {}
      <4>1. Onward(PathTo(less, n, q), side) = <<n>>
        BY <2>9, <2>11, <3>2
      <4>2. n.key \in After(order, n, q) /\ \A i \in After(order, n, q) \ {n.key} : <<n.key, i>> \in order
        BY <2>1, <3>1, <3>2
      <4>3. FirstKey(order, After(order, n, q)) = n.key
        BY <1>1, <4>2, FirstKeyIs
      <4>4. FirstPath(less, order, n, After(order, n, q)) = PathTo(less, n, n.key)
        BY <4>2, <4>3 DEF FirstPath
      <4> QED BY <2>1, <4>1, <4>4
    <3>3. CASE S # {}
      <4> DEFINE j == FirstKey(order, S)
      <4>1. /\ j \in KeysOf(near) /\ j \in Keys /\ <<q, j>> \in order
            /\ \A i \in S \ {j} : <<j, i>> \in order
            /\ <<n>> \o PathTo(less, near, j) = PathTo(less, n, j)
        BY <2>10, <2>11, <3>3
      <4>2. Onward(PathTo(less, n, q), side) = <<n>> \o PathTo(less, near, j)
        BY <2>9, <2>11, <3>3
      <4> HIDE DEF j, S
      <4>3. j \in After(order, n, q) /\ \A i \in After(order, n, q) \ {j} : <<j, i>> \in order
        <5>1. j \in After(order, n, q)
          BY <2>1, <4>1 DEF After
        <5>2. <<j, n.key>> \in order
          BY <2>1, <4>1
        <5>3. \A i \in KeysOf(far) : <<j, i>> \in order
          BY <2>1, <2>4, <5>2
        <5> QED BY <3>1, <4>1, <5>1, <5>2, <5>3
      <4>4. FirstKey(order, After(order, n, q)) = j
        BY <1>1, <4>3, FirstKeyIs
      <4>5. FirstPath(less, order, n, After(order, n, q)) = PathTo(less, n, j)
        BY <4>3, <4>4 DEF FirstPath
      <4> QED BY <4>1, <4>2, <4>5
    <3> QED BY <3>2, <3>3
  <2>12. CASE q \in KeysOf(far)
    <3> DEFINE S == After(order, far, q)
    <3>1. After(order, n, q) = S
      BY <2>1, <2>4, <2>12 DEF After
    <3>2. near # far
      BY <2>1, <2>9, <2>12
    <3>3. CASE S = {}
      <4>1. Onward(PathTo(less, n, q), side) = <<>>
        BY <2>9, <2>12, <3>2, <3>3
      <4> QED BY <3>1, <3>3, <4>1 DEF FirstPath
    <3>4. CASE S # {}
      <4> DEFINE j == FirstKey(order, S)
      <4>1. <<n>> \o PathTo(less, far, j) = PathTo(less, n, j)
        BY <2>10, <2>12, <3>4
      <4>2. Onward(PathTo(less, n, q), side) = <<n>> \o PathTo(less, far, j)
        BY <2>9, <2>12, <3>4
      <4>3. FirstPath(less, order, n, S) = PathTo(less, n, j)
        BY <3>4 DEF FirstPath
      <4> HIDE DEF j, S
      <4> QED BY <3>1, <4>1, <4>2, <4>3
    <3> QED BY <3>3, <3>4
  <2> QED BY <2>1, <2>8, <2>11, <2>12
<1> HIDE DEF Fine
<1>4. t \in Fine
  BY <1>2, <1>3, TreeInduction
<1> QED BY <1>4 DEF Fine, order


\* No key of the tree is between one of its keys, d, and another key, k.
Closest(less, t, k, d) ==
    /\ d \in KeysOf(t)
    /\ \A q \in KeysOf(t) \ {d} : /\ q # k
                                  /\ <<q, k>> \in less => <<q, d>> \in less
                                  /\ <<k, q>> \in less => <<d, q>> \in less

\* A search for a key ends at a key next to it.
LEMMA SearchEnds ==
    ASSUME NEW less, KeyOrder(less), NEW t \in AllTrees, t # Nil, Ordered(less, t), NEW k \in Keys
    PROVE  /\ Closest(less, t, k, LastNode(PathTo(less, t, k)).key)
           /\ PathTo(less, t, LastNode(PathTo(less, t, k)).key) = PathTo(less, t, k)
<1> DEFINE Path(n) == PathTo(less, n, k)
           Stop(n) == LastNode(PathTo(less, n, k)).key
           Ends(n) == Closest(less, n, k, Stop(n)) /\ PathTo(less, n, Stop(n)) = PathTo(less, n, k)
           Fine == {n \in AllTrees : n # Nil /\ Ordered(less, n) => Ends(n)}
<1>1. Nil \in Fine
  BY NilBalanced
<1>2. ASSUME NEW n \in AllTrees, n # Nil, n.left \in Fine, n.right \in Fine
      PROVE  n \in Fine
  <2> SUFFICES ASSUME Ordered(less, n)
               PROVE  Ends(n)
    BY <1>2
  <2>1. /\ \A a, b : <<a, b>> \in less => <<b, a>> \notin less /\ a # b
        /\ \A a, b, c : <<a, b>> \in less /\ <<b, c>> \in less => <<a, c>> \in less
    BY OrderFacts
  <2>2. LastNode(<<n>>) = n
    BY DEF LastNode
  <2>3. CASE k = n.key
    <3>1. PathTo(less, n, k) = <<n>>
      <4>1. <<k, n.key>> \notin less /\ <<n.key, k>> \notin less
        BY <2>1, <2>3
      <4>2. n \in AllTrees /\ n # Nil
        BY <1>2
      <4> QED BY <4>1, <4>2, PathSteps
    <3>2. KeysOf(n) = {n.key} \cup KeysOf(n.left) \cup KeysOf(n.right)
      BY <1>2, Contents, Zenon
    <3>3. Stop(n) = k
      BY <2>2, <2>3, <3>1
    <3> HIDE DEF Stop
    <3> QED BY <2>3, <3>1, <3>2, <3>3 DEF Closest
  <2>4. ASSUME NEW side \in {"left", "right"}, <<k, n.key>> \in From(less, side)
        PROVE  Ends(n)
    <3> DEFINE order == From(less, side)
               near == Child(n, side)
               far == Child(n, Other(side))
    <3>1. Parts(less, order, side, n, near, far)
      BY <1>2, SideParts
    <3>2. near \in Fine
      BY <1>2 DEF Child
    <3>3. <<k, n.key>> \in order
      BY <2>4
    <3>4. \/ order = less
          \/ \A a, b \in Keys : <<a, b>> \in order <=> <<b, a>> \in less
      BY TurnedOrder
    <3>5. KeyOrder(order)
      BY TurnedOrder
    <3> HIDE DEF order, near, far
    <3>6. /\ \A a, b : <<a, b>> \in order => <<b, a>> \notin order /\ a # b
          /\ \A a, b, c : <<a, b>> \in order /\ <<b, c>> \in order => <<a, c>> \in order
      BY <3>5, OrderFacts
    <3>7. /\ n.key \in Keys /\ near \in AllTrees /\ far \in AllTrees /\ Ordered(less, near)
          /\ KeysOf(n) = {n.key} \cup KeysOf(near) \cup KeysOf(far)
          /\ \A q \in KeysOf(near) : <<q, n.key>> \in order
          /\ \A q \in KeysOf(far) : <<n.key, q>> \in order
          /\ PathTo(less, n, n.key) = <<n>>
          /\ \A q \in Keys : <<q, n.key>> \in order => PathTo(less, n, q) = <<n>> \o PathTo(less, near, q)
      BY <3>1 DEF Parts
    <3>8. KeysOf(near) \subseteq Keys /\ KeysOf(far) \subseteq Keys /\ KeysOf(n) \subseteq Keys
      BY <1>2, <3>7, ContentTypes
    <3>9. \A d \in Keys : Closest(order, n, k, d) <=> Closest(less, n, k, d)
      BY <3>4, <3>8 DEF Closest
    <3>10. \A d \in Keys : Closest(order, near, k, d) <=> Closest(less, near, k, d)
      BY <3>4, <3>8 DEF Closest
    <3>11. PathTo(less, n, k) = <<n>> \o PathTo(less, near, k)
      BY <3>3, <3>7
    <3>12. CASE near = Nil
      <4>1. PathTo(less, near, k) = <<>>
        BY <3>12, NilBalanced, PathToDef
      <4>2. <<n>> \o <<>> = <<n>>
        OBVIOUS
      <4>3. PathTo(less, n, k) = <<n>>
        BY <3>11, <4>1, <4>2
      <4>4. Stop(n) = n.key
        BY <2>2, <4>3
      <4> HIDE DEF Stop
      <4>5. KeysOf(near) = {}
        BY <3>12, NilContents
      <4>6. Closest(order, n, k, n.key)
        BY <3>3, <3>6, <3>7, <4>5 DEF Closest
      <4> QED BY <3>7, <3>9, <4>3, <4>4, <4>6
    <3>13. CASE near # Nil
      <4> DEFINE d == LastNode(PathTo(less, near, k)).key
      <4>1. Closest(less, near, k, d) /\ PathTo(less, near, d) = PathTo(less, near, k)
        BY <3>2, <3>7, <3>13
      <4>2. LastNode(PathTo(less, n, k)) = LastNode(PathTo(less, near, k))
        <5> DEFINE p == PathTo(less, near, k)
        <5>1. p \in Seq(AllTrees) /\ p # <<>>
          BY <3>7, <3>13, PathShape
        <5> HIDE DEF p
        <5>2. LastNode(<<n>> \o p) = LastNode(p)
          BY <1>2, <5>1, PathUnder
        <5> QED BY <3>11, <5>2 DEF p
      <4>3. Stop(n) = d
        BY <4>2
      <4> HIDE DEF Stop, d
      <4>4. d \in KeysOf(near) /\ d \in Keys
        BY <3>8, <4>1 DEF Closest
      <4>5. PathTo(less, n, d) = PathTo(less, n, k)
        BY <3>7, <3>11, <4>1, <4>4
      <4>6. Closest(order, near, k, d)
        BY <3>10, <4>1, <4>4
      <4>7. Closest(order, n, k, d)
        <5>1. <<d, n.key>> \in order /\ \A q \in KeysOf(far) : <<d, q>> \in order
          BY <3>6, <3>7, <4>4
        <5>2. \A q \in {n.key} \cup KeysOf(far) : <<k, q>> \in order
          BY <3>3, <3>6, <3>7
        <5>3. \A q \in {n.key} \cup KeysOf(far) : q # k /\ <<q, k>> \notin order
          BY <3>6, <5>2
        <5> QED BY <3>7, <4>4, <4>6, <5>1, <5>3 DEF Closest
      <4> QED BY <3>9, <4>3, <4>4, <4>5, <4>7
    <3> QED BY <3>12, <3>13
  <2>5. k = n.key \/ \E side \in {"left", "right"} : <<k, n.key>> \in From(less, side)
    <3>1. n.key \in Keys
      BY <1>2, TreeShape
    <3>2. k = n.key \/ <<k, n.key>> \in less \/ <<n.key, k>> \in less
      BY <3>1, OrderFacts
    <3>3. From(less, "left") = less /\ (<<k, n.key>> \in From(less, "right") <=> <<n.key, k>> \in less)
      BY <3>1, TurnedOrder
    <3> QED BY <3>2, <3>3
  <2> HIDE DEF Ends
  <2> QED BY <2>3, <2>4, <2>5
<1> HIDE DEF Fine
<1>3. t \in Fine
  BY <1>1, <1>2, TreeInduction
<1> QED BY <1>3 DEF Fine

\* A search for a key of the tree ends there.
LEMMA SearchFinds ==
    ASSUME NEW less, KeyOrder(less), NEW t \in AllTrees, Ordered(less, t), NEW k \in KeysOf(t)
    PROVE  t # Nil /\ k \in Keys /\ LastNode(PathTo(less, t, k)).key = k
<1>1. t # Nil
  BY NilContents
<1>2. k \in Keys
  BY ContentTypes
<1>3. Closest(less, t, k, LastNode(PathTo(less, t, k)).key)
  BY <1>1, <1>2, SearchEnds
<1> QED BY <1>1, <1>2, <1>3 DEF Closest


\* An iterator of a tree, by the path it holds.
At(t, path) == [root |-> t, path |-> path]

\* The operations of an iterator on the path it holds.
LEMMA IteratorPaths ==
    ASSUME NEW less, NEW t
    PROVE  /\ \A order, S : FirstOf(less, order, t, S) = At(t, FirstPath(less, order, t, S))
           /\ Begin(t) = At(t, Spine(t, "left")) /\ End(t) = At(t, <<>>)
           /\ GoLeft(End(t)) = At(t, Spine(t, "right"))
           /\ \A p : Deref(At(t, p)) = LastNode(p)
           /\ \A p : IsEnd(At(t, p)) <=> p = <<>>
           /\ \A p : p # <<>> => /\ GoRight(At(t, p)) = At(t, Onward(p, "left"))
                                 /\ GoLeft(At(t, p)) = At(t, Onward(p, "right"))
<1>1. ASSUME NEW order, NEW S
      PROVE  FirstOf(less, order, t, S) = At(t, FirstPath(less, order, t, S))
  BY DEF FirstOf, At, FirstPath, FirstKey, End
<1>2. Begin(t) = At(t, Spine(t, "left")) /\ End(t) = At(t, <<>>)
  BY DEF Begin, End, At, Spine
<1>3. \A p : Deref(At(t, p)) = LastNode(p) /\ (IsEnd(At(t, p)) <=> p = <<>>)
  BY DEF Deref, IsEnd, At, LastNode
<1>4. \A p, q : [At(t, p) EXCEPT !.path = q] = At(t, q) /\ At(t, p).path = p /\ At(t, p).root = t
  BY DEF At
<1>5. GoLeft(End(t)) = At(t, Spine(t, "right"))
  <2>1. GoLeft(At(t, <<>>)) = [At(t, <<>>) EXCEPT !.path = RightSpine(t)]
    BY <1>3, <1>4 DEF GoLeft
  <2> QED BY <1>2, <1>4, <2>1 DEF Spine
<1>6. ASSUME NEW p, p # <<>>
      PROVE  GoRight(At(t, p)) = At(t, Onward(p, "left")) /\ GoLeft(At(t, p)) = At(t, Onward(p, "right"))
  <2> DEFINE it == At(t, p)
  <2>1. ~ IsEnd(it) /\ Deref(it) = LastNode(p) /\ it.path = p /\ \A q : [it EXCEPT !.path = q] = At(t, q)
    BY <1>3, <1>4, <1>6
  <2> HIDE DEF it
  <2>2. GoRight(it) = At(t, Onward(p, "left"))
    BY <2>1 DEF GoRight, Onward, Child, Other, Spine
  <2>3. GoLeft(it) = At(t, Onward(p, "right"))
    BY <2>1 DEF GoLeft, Onward, Child, Other, Spine
  <2> QED BY <2>2, <2>3 DEF it
<1> QED BY <1>1, <1>2, <1>3, <1>5, <1>6

\* The keys up to which a search for a key does not look.
NotBefore(less, t, k) == {q \in KeysOf(t) : <<q, k>> \notin less}

\* The ends of a tree, and the keys between them.
LEMMA EndsAreFirst ==
    ASSUME NEW less, KeyOrder(less), NEW t \in AllTrees, Ordered(less, t), NEW side \in {"left", "right"}
    PROVE  Spine(t, side) = FirstPath(less, From(less, side), t, KeysOf(t))
<1>1. CASE t = Nil
  <2>1. Spine(t, side) = <<>>
    BY <1>1, NilBalanced, LeftSpineDef, RightSpineDef DEF Spine
  <2> QED BY <1>1, <2>1, NilContents DEF FirstPath
<1>2. CASE t # Nil
  <2>1. KeysOf(t) # {}
    <3>1. KeysOf(t) = {t.key} \cup KeysOf(t.left) \cup KeysOf(t.right)
      BY <1>2, Contents, Zenon
    <3> QED BY <3>1
  <2> QED BY <1>2, <2>1, SpineIsFirst DEF FirstPath
<1> QED BY <1>1, <1>2

\* lower_bound stops at the first key that is not before the one that it is given.
LEMMA LowerBoundIsFirst ==
    ASSUME NEW less, KeyOrder(less), NEW t \in AllTrees, Ordered(less, t), NEW k \in Keys
    PROVE  Bound(less, t, k, FALSE) = At(t, FirstPath(less, less, t, NotBefore(less, t, k)))
<1> DEFINE p == PathTo(less, t, k)
           d == LastNode(p).key
           S == NotBefore(less, t, k)
<1>1. From(less, "left") = less
  BY TurnedOrder
<1>2. /\ \A a, b : <<a, b>> \in less => <<b, a>> \notin less /\ a # b
      /\ \A a, b, c : <<a, b>> \in less /\ <<b, c>> \in less => <<a, c>> \in less
      /\ \A a, b \in Keys : a = b \/ <<a, b>> \in less \/ <<b, a>> \in less
  BY OrderFacts
<1>3. CASE t = Nil
  <2>1. p = <<>>
    BY <1>3, NilBalanced, PathToDef
  <2>2. S = {}
    BY <1>3, NilContents DEF NotBefore
  <2>3. Bound(less, t, k, FALSE) = At(t, <<>>)
    <3>1. IsEnd(At(t, p))
      BY <2>1, IteratorPaths
    <3> QED BY <2>1, <3>1 DEF Bound, At
  <2> QED BY <2>2, <2>3 DEF FirstPath
<1>4. CASE t # Nil
  <2>1. p # <<>>
    BY <1>4, PathShape
  <2>2. Closest(less, t, k, d) /\ PathTo(less, t, d) = p
    BY <1>4, SearchEnds
  <2>3. KeysOf(t) \subseteq Keys
    BY ContentTypes
  <2>4. GoRight(At(t, p)) = At(t, Onward(p, "left")) /\ ~ IsEnd(At(t, p)) /\ Deref(At(t, p)).key = d
    BY <2>1, IteratorPaths
  <2>5. Bound(less, t, k, FALSE) = IF d = k THEN At(t, p)
                                   ELSE IF <<d, k>> \in less THEN GoRight(At(t, p)) ELSE At(t, p)
    <3> HIDE DEF d
    <3> QED BY <2>4 DEF Bound, At
  <2> HIDE DEF p, d
  <2>6. d \in KeysOf(t) /\ d \in Keys
    BY <2>2, <2>3 DEF Closest
  <2>7. CASE <<d, k>> \notin less
    <3>1. d \in S /\ \A q \in S \ {d} : <<d, q>> \in less
      BY <1>2, <2>2, <2>3, <2>6, <2>7 DEF Closest, NotBefore
    <3>2. FirstKey(less, S) = d
      BY <3>1, FirstKeyIs
    <3>3. FirstPath(less, less, t, S) = p
      BY <2>2, <3>1, <3>2 DEF FirstPath
    <3> QED BY <2>5, <2>7, <3>3
  <2>8. CASE <<d, k>> \in less
    <3>1. d # k
      BY <1>2, <2>8
    <3>2. Bound(less, t, k, FALSE) = At(t, Onward(p, "left"))
      BY <2>4, <2>5, <2>8, <3>1
    <3>3. Onward(p, "left") = FirstPath(less, less, t, After(less, t, d))
      BY <1>1, <2>2, <2>6, OnwardIsNext
    <3>4. After(less, t, d) = S
      BY <1>2, <2>2, <2>3, <2>6, <2>8 DEF Closest, NotBefore, After
    <3> QED BY <3>2, <3>3, <3>4
  <2> QED BY <2>7, <2>8
<1> QED BY <1>3, <1>4

\* find stops at the key, or at the end.
LEMMA FindsKey ==
    ASSUME NEW less, KeyOrder(less), NEW t \in AllTrees, Ordered(less, t), NEW k \in Keys
    PROVE  FindKey(less, t, k) = At(t, FirstPath(less, less, t, KeysOf(t) \cap {k}))
<1> DEFINE S == NotBefore(less, t, k)
           p == FirstPath(less, less, t, S)
<1>1. /\ \A a, b : <<a, b>> \in less => <<b, a>> \notin less /\ a # b
      /\ \A a, b \in Keys : a = b \/ <<a, b>> \in less \/ <<b, a>> \in less
  BY OrderFacts
<1>2. Bound(less, t, k, FALSE) = At(t, p)
  BY LowerBoundIsFirst
<1>3. FindKey(less, t, k) = IF p # <<>> /\ <<k, LastNode(p).key>> \in less THEN At(t, <<>>) ELSE At(t, p)
  <2> HIDE DEF p
  <2>1. (IsEnd(At(t, p)) <=> p = <<>>) /\ Deref(At(t, p)) = LastNode(p) /\ End(t) = At(t, <<>>)
    BY IteratorPaths
  <2> QED BY <1>2, <2>1 DEF FindKey
<1>4. S \subseteq KeysOf(t) /\ KeysOf(t) \subseteq Keys
  BY ContentTypes DEF NotBefore
<1>5. CASE S = {}
  <2>1. p = <<>>
    BY <1>5 DEF FirstPath
  <2>2. KeysOf(t) \cap {k} = {}
    BY <1>1, <1>5 DEF NotBefore
  <2> QED BY <1>3, <2>1, <2>2 DEF FirstPath
<1>6. CASE S # {}
  <2> DEFINE j == FirstKey(less, S)
  <2>1. j \in S /\ \A q \in S \ {j} : <<j, q>> \in less
    BY <1>4, <1>6, SomeIsFirst
  <2>2. p = PathTo(less, t, j)
    BY <1>6 DEF FirstPath
  <2>3. j \in KeysOf(t) /\ j \in Keys /\ <<j, k>> \notin less
    BY <1>4, <2>1 DEF NotBefore
  <2> HIDE DEF j, p
  <2>4. t # Nil /\ LastNode(p).key = j
    BY <2>2, <2>3, SearchFinds
  <2>5. p # <<>>
    BY <2>2, <2>4, PathShape
  <2>6. CASE k \in KeysOf(t)
    <3>1. k \in S
      BY <1>1, <2>6 DEF NotBefore
    <3>2. j = k
      BY <1>1, <2>1, <2>3, <3>1
    <3>3. FirstKey(less, {k}) = k
      BY FirstKeyIs
    <3>4. KeysOf(t) \cap {k} = {k}
      BY <2>6
    <3>5. FirstPath(less, less, t, {k}) = PathTo(less, t, k)
      BY <3>3 DEF FirstPath
    <3> QED BY <1>1, <1>3, <2>2, <2>4, <3>2, <3>4, <3>5
  <2>7. CASE k \notin KeysOf(t)
    <3>1. <<k, j>> \in less
      BY <1>1, <2>3, <2>7
    <3>2. KeysOf(t) \cap {k} = {}
      BY <2>7
    <3>3. FirstPath(less, less, t, {}) = <<>>
      BY DEF FirstPath
    <3> QED BY <1>3, <2>4, <2>5, <3>1, <3>2, <3>3
  <2> QED BY <2>6, <2>7
<1> QED BY <1>5, <1>6

\* Every ordered tree is walked in order, from either end.
LEMMA TreeWalks ==
    ASSUME NEW less, KeyOrder(less), NEW t \in AllTrees, Ordered(less, t)
    PROVE  Walks(less, t)
<1> DEFINE more == {<<pair[2], pair[1]>> : pair \in less}
           after(k) == {q \in KeysOf(t) : <<k, q>> \in less}
           upto(k) == {q \in KeysOf(t) : <<q, k>> \in less}
<1>1. From(less, "left") = less /\ From(less, "right") = more /\ KeyOrder(more)
  BY TurnedOrder DEF From
<1>2. KeysOf(t) \subseteq Keys
  BY ContentTypes
<1>3. \A k \in KeysOf(t) : after(k) = After(less, t, k)
  BY DEF After
<1>4. \A k \in KeysOf(t) : upto(k) = After(more, t, k)
  <2>1. \A a, b \in Keys : <<a, b>> \in more <=> <<b, a>> \in less
    BY <1>1, TurnedOrder
  <2> HIDE DEF more
  <2> QED BY <1>2, <2>1 DEF After
<1>5. \A k \in Keys : KeysOf(t) \ upto(k) = NotBefore(less, t, k)
  BY DEF NotBefore
<1> HIDE DEF more, after, upto
<1>6. /\ \A order, S : FirstOf(less, order, t, S) = At(t, FirstPath(less, order, t, S))
      /\ Begin(t) = At(t, Spine(t, "left")) /\ GoLeft(End(t)) = At(t, Spine(t, "right"))
      /\ \A p : Deref(At(t, p)) = LastNode(p)
      /\ \A p : p # <<>> => /\ GoRight(At(t, p)) = At(t, Onward(p, "left"))
                            /\ GoLeft(At(t, p)) = At(t, Onward(p, "right"))
  BY IteratorPaths
<1>7. Begin(t) = FirstOf(less, less, t, KeysOf(t)) /\ GoLeft(End(t)) = FirstOf(less, more, t, KeysOf(t))
  BY <1>1, <1>6, EndsAreFirst
<1>8. ASSUME NEW k \in KeysOf(t)
      PROVE  /\ Deref(FirstOf(less, less, t, {k})).key = k
             /\ GoRight(FirstOf(less, less, t, {k})) = FirstOf(less, less, t, after(k))
             /\ GoLeft(FirstOf(less, less, t, {k})) = FirstOf(less, more, t, upto(k))
  <2> DEFINE p == PathTo(less, t, k)
  <2>1. FirstKey(less, {k}) = k
    BY FirstKeyIs
  <2>2. FirstPath(less, less, t, {k}) = p
    BY <2>1 DEF FirstPath
  <2>3. t # Nil /\ LastNode(p).key = k
    BY SearchFinds
  <2>4. p # <<>>
    BY <2>3, PathShape
  <2>5. Onward(p, "left") = FirstPath(less, less, t, after(k))
    BY <1>1, <1>3, OnwardIsNext
  <2>6. Onward(p, "right") = FirstPath(less, more, t, upto(k))
    BY <1>1, <1>4, OnwardIsNext
  <2> HIDE DEF p
  <2> QED BY <1>6, <2>2, <2>3, <2>4, <2>5, <2>6
<1>9. ASSUME NEW k \in Keys
      PROVE  /\ Bound(less, t, k, FALSE) = FirstOf(less, less, t, KeysOf(t) \ upto(k))
             /\ FindKey(less, t, k) = FirstOf(less, less, t, KeysOf(t) \cap {k})
  <2>1. KeysOf(t) \ upto(k) = NotBefore(less, t, k)
    BY <1>5, <1>9
  <2>2. Bound(less, t, k, FALSE) = At(t, FirstPath(less, less, t, NotBefore(less, t, k)))
    BY <1>9, LowerBoundIsFirst
  <2>3. FindKey(less, t, k) = At(t, FirstPath(less, less, t, KeysOf(t) \cap {k}))
    BY <1>9, FindsKey
  <2> QED BY <1>6, <2>1, <2>2, <2>3
<1> QED BY <1>7, <1>8, <1>9 DEF Walks, more, after, upto

\* What update_ticker quotes of a side: the key of its first node.
LEMMA QuotesFirst ==
    ASSUME NEW tk, tk = [bid |-> 0, ask |-> 0, bidVolume |-> 0, askVolume |-> 0],
           ask \in AllTrees, bid \in AllTrees
    PROVE  /\ UpdateTicker(tk).ask = IF ask = Nil THEN 0 ELSE MinValueNode(ask).key
           /\ UpdateTicker(tk).bid = IF bid = Nil THEN 0 ELSE MinValueNode(bid).key
<1>1. \A t \in AllTrees : /\ SameIterator(Begin(t), End(t)) <=> t = Nil
                          /\ Deref(Begin(t)) = MinValueNode(t)
  <2> SUFFICES ASSUME NEW t \in AllTrees
               PROVE  /\ SameIterator(Begin(t), End(t)) <=> t = Nil
                      /\ Deref(Begin(t)) = MinValueNode(t)
    OBVIOUS
  <2>1. LeftSpine(t) = <<>> <=> t = Nil
    BY LeftSpineDef, FirstNode
  <2> QED BY <2>1 DEF SameIterator, Begin, End, Deref, MinValueNode
<1> DEFINE quoted == IF ask = Nil THEN tk
                     ELSE [tk EXCEPT !.ask = MinValueNode(ask).key, !.askVolume = MinValueNode(ask).val]
<1>2. UpdateTicker(tk) = IF bid = Nil THEN quoted
                         ELSE [quoted EXCEPT !.bid = MinValueNode(bid).key, !.bidVolume = MinValueNode(bid).val]
  BY <1>1 DEF UpdateTicker
<1>3. /\ quoted.ask = IF ask = Nil THEN 0 ELSE MinValueNode(ask).key
      /\ quoted.bid = 0 /\ DOMAIN quoted = {"bid", "ask", "bidVolume", "askVolume"}
  OBVIOUS
<1> HIDE DEF quoted
<1> QED BY <1>2, <1>3

\* The orders of the two sides.
LEMMA SidesAreOrders == KeyOrder(AskLess) /\ KeyOrder(BidLess)
<1>1. IsOrder(AskLess) /\ IsOrder(BidLess)
  <2>1. "sell" \in Sides /\ "buy" \in Sides /\ LessOf("sell") = AskLess /\ LessOf("buy") = BidLess
    BY DEF Sides, LessOf
  <2> QED BY <2>1, SidesOrdered
<1> QED BY <1>1 DEF KeyOrder, AskLess, BidLess

\* Iterators of the book of every state go through its levels from best to worst and back, find and
\* lower_bound stop where they should, and update_ticker quotes the best prices.
THEOREM BookIteratorsWalk == BookSpec => []IteratorsWalk
<1>1. BookInv => IteratorsWalk
  <2> SUFFICES ASSUME BookInv PROVE IteratorsWalk
    OBVIOUS
  <2>1. /\ ask \in AllTrees /\ Ordered(AskLess, ask) /\ bid \in AllTrees /\ Ordered(BidLess, bid)
    BY BalancedParts DEF BookInv, Good
  <2>2. Walks(AskLess, ask) /\ Walks(BidLess, bid)
    BY <2>1, SidesAreOrders, TreeWalks
  <2> DEFINE quote == UpdateTicker([bid |-> 0, ask |-> 0, bidVolume |-> 0, askVolume |-> 0])
  <2>3. /\ quote.ask = IF ask = Nil THEN 0 ELSE MinValueNode(ask).key
        /\ quote.bid = IF bid = Nil THEN 0 ELSE MinValueNode(bid).key
    BY <2>1, QuotesFirst
  <2>4. \A t \in AllTrees : t = Nil <=> KeysOf(t) = {}
    <3>1. ASSUME NEW t \in AllTrees, t # Nil PROVE KeysOf(t) # {}
      <4>1. KeysOf(t) = {t.key} \cup KeysOf(t.left) \cup KeysOf(t.right)
        BY <3>1, Contents, Zenon
      <4> QED BY <4>1
    <3> QED BY <3>1, NilContents
  <2>5. Keys \subseteq Int
    BY BookAssumption
  <2>6. ask # Nil => MinValueNode(ask).key = CHOOSE p \in KeysOf(ask) : \A q \in KeysOf(ask) : p <= q
    <3> SUFFICES ASSUME ask # Nil
                 PROVE  MinValueNode(ask).key = CHOOSE p \in KeysOf(ask) : \A q \in KeysOf(ask) : p <= q
      OBVIOUS
    <3> DEFINE k == MinValueNode(ask).key
    <3>1. k \in KeysOf(ask) /\ \A q \in KeysOf(ask) : q = k \/ <<k, q>> \in AskLess
      BY <2>1, SidesAreOrders, FirstIsLeast DEF KeyOrder
    <3>2. KeysOf(ask) \subseteq Int
      BY <2>1, <2>5, ContentTypes
    <3> HIDE DEF k
    <3>3. \A q \in KeysOf(ask) : k <= q
      <4>1. \A a, b \in Int : <<a, b>> \in AskLess => a < b
        BY DEF AskLess
      <4>2. k \in Int /\ \A q \in KeysOf(ask) : q \in Int /\ (q = k \/ k < q)
        BY <3>1, <3>2, <4>1
      <4> QED BY <4>2
    <3>4. \A p \in KeysOf(ask) : (\A q \in KeysOf(ask) : p <= q) => p = k
      BY <3>1, <3>2, <3>3
    <3> QED BY <3>1, <3>3, <3>4 DEF k
  <2>7. bid # Nil => MinValueNode(bid).key = CHOOSE p \in KeysOf(bid) : \A q \in KeysOf(bid) : p >= q
    <3> SUFFICES ASSUME bid # Nil
                 PROVE  MinValueNode(bid).key = CHOOSE p \in KeysOf(bid) : \A q \in KeysOf(bid) : p >= q
      OBVIOUS
    <3> DEFINE k == MinValueNode(bid).key
    <3>1. k \in KeysOf(bid) /\ \A q \in KeysOf(bid) : q = k \/ <<k, q>> \in BidLess
      BY <2>1, SidesAreOrders, FirstIsLeast DEF KeyOrder
    <3>2. KeysOf(bid) \subseteq Int
      BY <2>1, <2>5, ContentTypes
    <3> HIDE DEF k
    <3>3. \A q \in KeysOf(bid) : k >= q
      <4>1. \A a, b \in Int : <<a, b>> \in BidLess => a > b
        BY DEF BidLess
      <4>2. k \in Int /\ \A q \in KeysOf(bid) : q \in Int /\ (q = k \/ k > q)
        BY <3>1, <3>2, <4>1
      <4> QED BY <4>2
    <3>4. \A p \in KeysOf(bid) : (\A q \in KeysOf(bid) : p >= q) => p = k
      BY <3>1, <3>2, <3>3
    <3> QED BY <3>1, <3>3, <3>4 DEF k
  <2> QED BY <2>1, <2>2, <2>3, <2>4, <2>6, <2>7 DEF IteratorsWalk
<1> QED BY <1>1, BookIsKept, PTL

=============================================================================
