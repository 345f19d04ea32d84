--------------------------- MODULE EventLoopProofs ---------------------------
(***************************************************************************)
(* Theorems about EventLoop, for every value of its constants.             *)
(*   - QueueInv is inductive: the types, the order and the completeness of *)
(*     the queue, and the order in which events are applied.               *)
(*   - Armed is inductive when no exception is swallowed: no timer and no  *)
(*     punctual event is ever left without a wakeup.                       *)
(*   - BatchedUnsent is inductive: no order is sent twice.                 *)
(*   - BatchesFlushed is inductive when no wake overlaps init: every wake  *)
(*     hands over what was collected.                                      *)
(*   - AppliedIsStored is inductive when no exception is swallowed: what   *)
(*     was applied is committed when the wake ends.                        *)
(*   - MarketInv is inductive: no market data are forgotten.               *)
(***************************************************************************)
EXTENDS EventLoop, SequenceTheorems, TLAPS

Item == MarketItem \cup NumberedItem

\* NoneIsLost and QueueAhead as a predicate of a queue.
InOrder(q, h, p) ==
    /\ \A j, k \in 1 .. Len(q) :
          j < k /\ Numbered(q[j]) /\ Numbered(q[k]) => q[j].n < q[k].n
    /\ \A n \in (h + 1) .. p : \E k \in 1 .. Len(q) : Numbered(q[k]) /\ q[k].n = n
    /\ \A k \in 1 .. Len(q) : Numbered(q[k]) =>
          q[k].n <= p /\ (q[k].n > h \/ (k = 1 /\ q[k].n = h))

-----------------------------------------------------------------------------
(* Lemmas about the queue *)

\* An item is numbered, with a number, or is market data.
LEMMA ItemKinds ==
    ASSUME NEW item \in Item
    PROVE  /\ Numbered(item) => item \in NumberedItem /\ item.n \in 1 .. MaxEvents
           /\ ~Numbered(item) => item \in MarketItem /\ item.kind = "market"
           /\ item.kind = "market" => ~Numbered(item)
  BY DEF Item, MarketItem, NumberedItem, Numbered, Kinds

\* Appending the next number keeps the queue in order.
LEMMA AppendNumbered ==
    ASSUME NEW q \in Seq(Item), NEW h \in Nat, NEW p \in Nat, h <= p, InOrder(q, h, p),
           NEW e \in NumberedItem, e.n = p + 1
    PROVE  InOrder(Append(q, e), h, p + 1)
<1> DEFINE r == Append(q, e)
<1>1. Len(q) \in Nat
  OBVIOUS
<1>2. e \in Item /\ Numbered(e)
  BY DEF Item, NumberedItem, Numbered
<1>3. /\ Len(r) = Len(q) + 1
      /\ \A k \in 1 .. Len(q) : r[k] = q[k]
      /\ r[Len(q) + 1] = e
  BY <1>2, AppendProperties
<1>4. \A k \in 1 .. Len(q) : Numbered(q[k]) => q[k].n <= p /\ q[k].n \in Nat
  BY ItemKinds, BoundsAssumption DEF InOrder
<1> HIDE DEF r
<1>5. \A j, k \in 1 .. Len(r) : j < k /\ Numbered(r[j]) /\ Numbered(r[k]) => r[j].n < r[k].n
  BY <1>1, <1>3, <1>4 DEF InOrder
<1>6. \A n \in (h + 1) .. (p + 1) : \E k \in 1 .. Len(r) : Numbered(r[k]) /\ r[k].n = n
  <2> SUFFICES ASSUME NEW n \in (h + 1) .. (p + 1)
               PROVE  \E k \in 1 .. Len(r) : Numbered(r[k]) /\ r[k].n = n
    OBVIOUS
  <2>1. CASE n = p + 1
    <3>1. Len(q) + 1 \in 1 .. Len(r)
      BY <1>1, <1>3
    <3> QED BY <2>1, <3>1, <1>2, <1>3
  <2>2. CASE n # p + 1
    <3>1. n \in (h + 1) .. p
      BY <2>2
    <3>2. PICK k \in 1 .. Len(q) : Numbered(q[k]) /\ q[k].n = n
      BY <3>1 DEF InOrder
    <3>3. k \in 1 .. Len(r) /\ r[k] = q[k]
      BY <1>1, <1>3
    <3> QED BY <3>2, <3>3
  <2> QED BY <2>1, <2>2
<1>7. \A k \in 1 .. Len(r) : Numbered(r[k]) =>
          r[k].n <= p + 1 /\ (r[k].n > h \/ (k = 1 /\ r[k].n = h))
  BY <1>1, <1>3, <1>4 DEF InOrder
<1> QED BY <1>5, <1>6, <1>7 DEF InOrder, r

\* Appending market data changes nothing for the numbered items.
LEMMA AppendMarket ==
    ASSUME NEW q \in Seq(Item), NEW h \in Nat, NEW p \in Nat, InOrder(q, h, p),
           NEW e \in MarketItem
    PROVE  InOrder(Append(q, e), h, p)
<1> DEFINE r == Append(q, e)
<1>1. Len(q) \in Nat
  OBVIOUS
<1>2. e \in Item /\ ~Numbered(e)
  BY DEF Item, MarketItem, Numbered, Kinds
<1>3. /\ Len(r) = Len(q) + 1
      /\ \A k \in 1 .. Len(q) : r[k] = q[k]
      /\ r[Len(q) + 1] = e
  BY <1>2, AppendProperties
<1> HIDE DEF r
<1>4. \A k \in 1 .. Len(r) : Numbered(r[k]) => k \in 1 .. Len(q) /\ r[k] = q[k]
  BY <1>1, <1>2, <1>3
<1>5. \A k \in 1 .. Len(q) : k \in 1 .. Len(r) /\ r[k] = q[k]
  BY <1>1, <1>3
<1> QED BY <1>4, <1>5 DEF InOrder, r

\* Changing a field other than kind and n changes nothing for InOrder.
LEMMA SameNumbers ==
    ASSUME NEW q \in Seq(Item), NEW r \in Seq(Item), NEW h \in Nat, NEW p \in Nat,
           InOrder(q, h, p), Len(r) = Len(q),
           \A k \in 1 .. Len(q) : r[k].kind = q[k].kind /\ (Numbered(q[k]) => r[k].n = q[k].n)
    PROVE  InOrder(r, h, p)
<1>1. \A k \in 1 .. Len(q) : Numbered(r[k]) <=> Numbered(q[k])
  BY DEF Numbered
<1> QED BY <1>1 DEF InOrder

\* Removing a head that is applied, or is market data, keeps the queue in order.
LEMMA PopApplied ==
    ASSUME NEW q \in Seq(Item), NEW h \in Nat, NEW p \in Nat, InOrder(q, h, p),
           q # <<>>, Numbered(q[1]) => q[1].n = h
    PROVE  InOrder(Tail(q), h, p)
<1> DEFINE r == Tail(q)
<1>1. Len(q) \in Nat \ {0}
  OBVIOUS
<1>2. Len(r) = Len(q) - 1 /\ \A k \in 1 .. Len(r) : r[k] = q[k + 1]
  BY HeadTailProperties
<1>3. \A k \in 1 .. Len(q) : Numbered(q[k]) => q[k].n \in Nat
  BY ItemKinds, BoundsAssumption
<1> HIDE DEF r
<1>4. \A k \in 1 .. Len(r) : k + 1 \in 1 .. Len(q) /\ r[k] = q[k + 1]
  BY <1>1, <1>2
<1>5. \A j, k \in 1 .. Len(r) : j < k /\ Numbered(r[j]) /\ Numbered(r[k]) => r[j].n < r[k].n
  BY <1>4 DEF InOrder
<1>6. \A n \in (h + 1) .. p : \E k \in 1 .. Len(r) : Numbered(r[k]) /\ r[k].n = n
  <2> SUFFICES ASSUME NEW n \in (h + 1) .. p
               PROVE  \E k \in 1 .. Len(r) : Numbered(r[k]) /\ r[k].n = n
    OBVIOUS
  <2>1. PICK k \in 1 .. Len(q) : Numbered(q[k]) /\ q[k].n = n
    BY DEF InOrder
  <2>2. k # 1
    BY <2>1
  <2>3. k - 1 \in 1 .. Len(r) /\ r[k - 1] = q[k]
    BY <1>1, <1>2, <2>2
  <2> QED BY <2>1, <2>3
<1>7. \A k \in 1 .. Len(r) : Numbered(r[k]) =>
          r[k].n <= p /\ (r[k].n > h \/ (k = 1 /\ r[k].n = h))
  BY <1>4 DEF InOrder
<1> QED BY <1>5, <1>6, <1>7 DEF InOrder, r

\* A numbered head is the last event applied or the next one, and applying it keeps
\* the queue in order.
LEMMA ApplyHead ==
    ASSUME NEW q \in Seq(Item), NEW h \in Nat, NEW p \in Nat, InOrder(q, h, p),
           q # <<>>, Numbered(q[1])
    PROVE  /\ q[1].n \in {h, h + 1} /\ q[1].n <= p
           /\ InOrder(q, q[1].n, p)
<1>1. Len(q) \in Nat \ {0} /\ 1 \in 1 .. Len(q)
  OBVIOUS
<1>2. \A k \in 1 .. Len(q) : Numbered(q[k]) => q[k].n \in Nat
  BY ItemKinds, BoundsAssumption
<1>3. q[1].n <= p /\ q[1].n >= h
  BY <1>1, <1>2 DEF InOrder
<1>4. q[1].n \in {h, h + 1}
  <2> SUFFICES ASSUME q[1].n > h + 1
               PROVE  FALSE
    BY <1>1, <1>2, <1>3
  <2>1. PICK k \in 1 .. Len(q) : Numbered(q[k]) /\ q[k].n = h + 1
    BY <1>1, <1>2, <1>3 DEF InOrder
  <2>2. k # 1 /\ 1 < k
    BY <1>1, <2>1
  <2> QED BY <1>1, <1>2, <2>1, <2>2 DEF InOrder
<1>5. \A k \in 1 .. Len(q) : Numbered(q[k]) =>
          q[k].n <= p /\ (q[k].n > q[1].n \/ (k = 1 /\ q[k].n = q[1].n))
  BY <1>1, <1>2 DEF InOrder
<1>6. \A n \in (q[1].n + 1) .. p : \E k \in 1 .. Len(q) : Numbered(q[k]) /\ q[k].n = n
  BY <1>1, <1>2, <1>4 DEF InOrder
<1> QED BY <1>3, <1>4, <1>5, <1>6 DEF InOrder

-----------------------------------------------------------------------------
(* The queue: types, completeness, order *)

USE DEF vars, loopVars, schedVars, orderVars, feedVars, storeVars, clockVars

\* The facts about the constants the provers need, in one place.
LEMMA Constants ==
    /\ MaxTime \in Nat /\ MaxTime > 0 /\ MaxEvents \in Nat
    /\ Never \in Time /\ Immediately \in Time /\ Time \subseteq Nat
    /\ \A t \in Timer : t.at \in 1 .. MaxTime /\ t.at \in Time
  BY TimeAssumption, BoundsAssumption DEF Never, Immediately, Time, Timer

\* The queue part of QueueInv, in the form the lemmas above use.
LEMMA QueueInvForm ==
    ASSUME TypeOK
    PROVE  /\ queue \in Seq(Item)
           /\ handled \in Nat /\ pushed \in Nat
           /\ QueueAhead /\ NoneIsLost <=> handled <= pushed /\ InOrder(queue, handled, pushed)
  BY Constants DEF TypeOK, Item, QueueAhead, NoneIsLost, InOrder

LEMMA NotifyTypes ==
    ASSUME TypeOK, NEW q, NEW ts \in SUBSET Timer, NotifyQueue(q, ts)
    PROVE  scheduledTime' \in Time /\ slot' \in Time
<1>1. FrontTime(ts) \subseteq Time
  BY Constants DEF FrontTime, FrontTimers
<1>2. \A tp \in NotifyTarget(q, ts) : tp \in Time
  BY <1>1, Constants DEF NotifyTarget
<1> QED BY <1>2 DEF NotifyQueue, TypeOK

LEMMA ContinueTypes ==
    ASSUME TypeOK, NEW q, Continue(q)
    PROVE  /\ queue' = q
           /\ timers' \subseteq Timer /\ scheduledTime' \in Time /\ slot' \in Time
           /\ toFlush' \subseteq Exchanges
           /\ pc' \in {"item", "on_timer", "flush"}
           /\ pc' = "item" => q # <<>>
<1>1. FrontTime(timers) \subseteq Time
  BY Constants DEF TypeOK, FrontTime, FrontTimers
<1>2. CASE q # <<>>
  BY <1>2 DEF Continue, TypeOK
<1>3. CASE q = <<>> /\ FireTimer
  BY <1>3 DEF Continue, FireTimer, FrontTimers, TypeOK
<1>4. CASE q = <<>> /\ Finish
  BY <1>1, <1>4, Constants DEF Continue, Finish, Reschedule, StartFlush, TypeOK
<1> QED BY <1>2, <1>3, <1>4 DEF Continue

LEMMA TimerStepTypes ==
    ASSUME TypeOK, FireTimer \/ Finish
    PROVE  /\ timers' \subseteq Timer /\ scheduledTime' \in Time /\ slot' \in Time
           /\ toFlush' \subseteq Exchanges
           /\ pc' \in {"on_timer", "flush"}
<1>1. FrontTime(timers) \subseteq Time
  BY Constants DEF TypeOK, FrontTime, FrontTimers
<1>2. CASE FireTimer
  BY <1>2 DEF FireTimer, FrontTimers, TypeOK
<1>3. CASE Finish
  BY <1>1, <1>3, Constants DEF Finish, Reschedule, StartFlush, TypeOK
<1> QED BY <1>2, <1>3

\* The queue part of QueueInv, after a step.
LEMMA QueueInvPrimed ==
    ASSUME TypeOK', HeadRuns', handled' <= pushed', InOrder(queue', handled', pushed')
    PROVE  QueueInv'
  BY DEF QueueInv, QueueAhead, NoneIsLost, InOrder

\* A step that leaves the queue, the numbers and the location of on_scheduler alone.
LEMMA QueueUntouched ==
    ASSUME QueueInv, TypeOK', UNCHANGED <<queue, handled, pushed>>,
           pc' = pc \/ pc' \notin ItemRuns
    PROVE  QueueInv'
<1>1. HeadRuns'
  BY DEF QueueInv, HeadRuns, ItemRuns
<1> QED BY <1>1 DEF QueueInv, QueueAhead, NoneIsLost

LEMMA OnEventKeepsQueue ==
    ASSUME QueueInv, NEW kind \in EventKinds, OnEvent(kind)
    PROVE  QueueInv'
<1> DEFINE e == [kind |-> kind, n |-> pushed + 1, moved |-> FALSE]
<1>1. TypeOK /\ queue \in Seq(Item) /\ handled \in Nat /\ pushed \in Nat
      /\ handled <= pushed /\ InOrder(queue, handled, pushed)
  BY QueueInvForm DEF QueueInv
<1>2. e \in NumberedItem /\ e \in Item /\ e.n = pushed + 1 /\ pushed + 1 \in 1 .. MaxEvents
  BY <1>1, Constants, ModeAssumption DEF OnEvent, NumberedItem, Item
<1>3. queue' = Append(queue, e) /\ pushed' = pushed + 1 /\ handled' = handled /\ pc' = pc
  BY DEF OnEvent
<1>4. InOrder(queue', handled', pushed') /\ handled' <= pushed'
  BY <1>1, <1>2, <1>3, AppendNumbered
<1>5. queue' \in Seq(Item) /\ queue' # <<>> /\ (queue # <<>> => queue'[1] = queue[1])
  <2>1. queue # <<>> => 1 \in 1 .. Len(queue)
    BY <1>1
  <2> QED BY <1>1, <1>2, <1>3, <2>1, AppendProperties
<1>6. HeadRuns'
  BY <1>3, <1>5 DEF QueueInv, HeadRuns, ItemRuns, Numbered
<1>7. scheduledTime' \in Time /\ slot' \in Time
  BY <1>1, NotifyTypes DEF OnEvent, TypeOK
<1>8. TypeOK'
  BY <1>1, <1>2, <1>5, <1>7 DEF OnEvent, TypeOK, Item
<1> QED BY <1>4, <1>6, <1>8, QueueInvPrimed

LEMMA OnMarketDataKeepsQueue ==
    ASSUME QueueInv, NEW i \in Instruments, NEW type \in MarketTypes, OnMarketData(i, type)
    PROVE  QueueInv'
<1>1. TypeOK /\ queue \in Seq(Item) /\ handled \in Nat /\ pushed \in Nat
      /\ handled <= pushed /\ InOrder(queue, handled, pushed)
  BY QueueInvForm DEF QueueInv
<1>2. handled' = handled /\ pushed' = pushed /\ pc' = pc /\ timers' = timers
  BY DEF OnMarketData
<1>3. CASE QueuedMarketItems(i) = {}
  <2> DEFINE e == [kind |-> "market", i |-> i, types |-> {type}]
  <2>1. e \in MarketItem /\ e \in Item
    BY DEF MarketItem, Item
  <2>2. queue' = Append(queue, e) /\ UNCHANGED schedVars
    BY <1>3 DEF OnMarketData
  <2>3. InOrder(queue', handled', pushed')
    BY <1>1, <1>2, <2>1, <2>2, AppendMarket
  <2>4. queue' \in Seq(Item) /\ queue' # <<>> /\ (queue # <<>> => queue'[1] = queue[1])
    <3>1. queue # <<>> => 1 \in 1 .. Len(queue)
      BY <1>1
    <3> QED BY <1>1, <2>1, <2>2, <3>1, AppendProperties
  <2>5. HeadRuns'
    BY <1>2, <2>4 DEF QueueInv, HeadRuns, ItemRuns, Numbered
  <2>6. TypeOK'
    BY <1>1, <2>2, <2>4 DEF OnMarketData, TypeOK, Item
  <2> QED BY <1>1, <1>2, <2>3, <2>5, <2>6, QueueInvPrimed
<1>4. CASE QueuedMarketItems(i) # {}
  <2>1. PICK k \in QueuedMarketItems(i) :
            /\ queue' = [queue EXCEPT ![k].types = @ \cup {type}]
            /\ NotifyQueue(queue, timers)
    BY <1>4 DEF OnMarketData
  <2> DEFINE e == [queue[k] EXCEPT !.types = @ \cup {type}]
  <2>2. k \in 1 .. Len(queue) /\ queue[k].kind = "market" /\ queue[k] \in Item
    BY <1>1, <2>1 DEF QueuedMarketItems
  <2>3. queue[k] \in MarketItem /\ ~Numbered(queue[k])
    BY <2>2, ItemKinds
  <2>4. e \in MarketItem /\ e \in Item /\ e.kind = "market"
    BY <2>3 DEF MarketItem, Item
  <2>5. queue' = [queue EXCEPT ![k] = e]
    BY <2>1
  <2> HIDE DEF e
  <2>6. /\ queue' \in Seq(Item) /\ Len(queue') = Len(queue)
        /\ \A j \in 1 .. Len(queue) : queue'[j] = IF j = k THEN e ELSE queue[j]
    BY <1>1, <2>2, <2>4, <2>5, ExceptSeq
  <2>7. \A j \in 1 .. Len(queue) :
            queue'[j].kind = queue[j].kind /\ (Numbered(queue[j]) => queue'[j].n = queue[j].n)
    BY <2>2, <2>3, <2>4, <2>6
  <2>8. InOrder(queue', handled', pushed')
    BY <1>1, <1>2, <2>6, <2>7, SameNumbers
  <2>9. HeadRuns'
    <3>1. queue # <<>> => 1 \in 1 .. Len(queue) /\ queue' # <<>>
      BY <1>1, <2>6
    <3> QED BY <1>2, <2>7, <3>1 DEF QueueInv, HeadRuns, ItemRuns, Numbered
  <2>10. scheduledTime' \in Time /\ slot' \in Time
    BY <1>1, <2>1, NotifyTypes DEF TypeOK
  <2>11. TypeOK'
    BY <1>1, <2>6, <2>10 DEF OnMarketData, TypeOK, Item
  <2> QED BY <1>1, <1>2, <2>8, <2>9, <2>11, QueueInvPrimed
<1> QED BY <1>3, <1>4

LEMMA StrategyKeepsQueue ==
    ASSUME QueueInv, StrategyCall \/ InitReturns \/ Tick
    PROVE  QueueInv'
<1>1. TypeOK
  BY DEF QueueInv
<1>2. ASSUME NEW t \in Timer, SetTimer(t)
      PROVE  TypeOK' /\ UNCHANGED <<queue, handled, pushed, pc>>
  <2>1. scheduledTime' \in Time /\ slot' \in Time
    BY <1>1, <1>2, NotifyTypes DEF SetTimer, TypeOK
  <2> QED BY <1>1, <1>2, <2>1 DEF SetTimer, TypeOK
<1>3. ASSUME NEW t \in Timer, ClearTimer(t)
      PROVE  TypeOK' /\ UNCHANGED <<queue, handled, pushed, pc>>
  BY <1>1, <1>3 DEF ClearTimer, TypeOK
<1>4. ASSUME NEW o \in Orders, Place(o)
      PROVE  TypeOK' /\ UNCHANGED <<queue, handled, pushed, pc>>
  BY <1>1, <1>4, VenueAssumption DEF Place, TypeOK
<1>5. ASSUME NEW o \in Orders, Cancel(o)
      PROVE  TypeOK' /\ UNCHANGED <<queue, handled, pushed, pc>>
  BY <1>1, <1>5, VenueAssumption DEF Cancel, TypeOK
<1>6. CASE InitReturns
  BY <1>1, <1>6, QueueUntouched DEF InitReturns, TypeOK
<1>7. CASE Tick
  <2>1. TypeOK'
    BY <1>1, <1>7, Constants DEF Tick, TypeOK
  <2> QED BY <1>7, <2>1, QueueUntouched DEF Tick
<1> QED BY <1>2, <1>3, <1>4, <1>5, <1>6, <1>7, QueueUntouched DEF StrategyCall

\* Removing the head once it is applied, and what follows under the same lock.
LEMMA PopKeepsQueue ==
    ASSUME QueueInv, queue # <<>>, Continue(Tail(queue)), pushed' = pushed,
           IF Numbered(queue[1]) THEN handled' = queue[1].n ELSE handled' = handled,
           UNCHANGED <<toPlace, toCancel, timesSent, unseen, late, swallowed, committed, clockVars>>,
           skipped' \subseteq 1 .. MaxEvents, pending' \subseteq 1 .. MaxEvents
    PROVE  QueueInv'
<1>1. TypeOK /\ queue \in Seq(Item) /\ handled \in Nat /\ pushed \in Nat
      /\ handled <= pushed /\ InOrder(queue, handled, pushed)
  BY QueueInvForm DEF QueueInv
<1>2. /\ queue' = Tail(queue)
      /\ timers' \subseteq Timer /\ scheduledTime' \in Time /\ slot' \in Time
      /\ toFlush' \subseteq Exchanges
      /\ pc' \in {"item", "on_timer", "flush"}
      /\ pc' = "item" => queue' # <<>>
  BY <1>1, ContinueTypes
<1>3. InOrder(queue, handled', pushed') /\ handled' <= pushed' /\ handled' \in Nat
  <2>1. CASE Numbered(queue[1])
    BY <1>1, <2>1, ApplyHead
  <2>2. CASE ~Numbered(queue[1])
    BY <1>1, <2>2
  <2> QED BY <2>1, <2>2
<1>4. InOrder(queue', handled', pushed')
  BY <1>1, <1>2, <1>3, PopApplied
<1>5. queue' \in Seq(Item)
  BY <1>1, <1>2, HeadTailProperties
<1>6. HeadRuns'
  BY <1>2 DEF HeadRuns, ItemRuns
<1>7. handled' \in 0 .. MaxEvents
  BY <1>1, <1>3, Constants DEF TypeOK
<1>8. TypeOK'
  <2>1. /\ toPlace' = toPlace /\ toCancel' = toCancel /\ timesSent' = timesSent
        /\ unseen' = unseen /\ late' = late /\ committed' = committed /\ swallowed' = swallowed
        /\ now' = now /\ eventTime' = eventTime /\ boot' = boot
    OBVIOUS
  <2>2. pc' \in Locations
    BY <1>2 DEF Locations, InStrategy
  <2> QED BY <1>1, <1>2, <1>5, <1>7, <2>1, <2>2 DEF TypeOK, Item
<1> QED BY <1>3, <1>4, <1>6, <1>8, QueueInvPrimed

\* Applying a report or a fill: the head is numbered, and handed over.
LEMMA HandOverKeepsQueue ==
    ASSUME QueueInv, queue # <<>>, Numbered(queue[1]), HandOver, handled' = queue[1].n,
           pushed' = pushed, pc' \in {"on_order", "on_fill"},
           UNCHANGED <<timers, schedVars, orderVars, unseen, late, skipped, swallowed, committed, clockVars>>,
           pending' \subseteq 1 .. MaxEvents
    PROVE  QueueInv'
<1>1. TypeOK /\ queue \in Seq(Item) /\ handled \in Nat /\ pushed \in Nat
      /\ handled <= pushed /\ InOrder(queue, handled, pushed)
  BY QueueInvForm DEF QueueInv
<1> DEFINE e == [queue[1] EXCEPT !.moved = TRUE]
<1>2. 1 \in 1 .. Len(queue) /\ queue[1] \in Item
  BY <1>1
<1>3. queue[1] \in NumberedItem /\ queue[1].n \in 1 .. MaxEvents
  BY <1>2, ItemKinds
<1>4. e \in NumberedItem /\ e \in Item /\ e.kind = queue[1].kind /\ e.n = queue[1].n
  BY <1>3 DEF NumberedItem, Item
<1>5. queue' = [queue EXCEPT ![1] = e]
  BY DEF HandOver
<1> HIDE DEF e
<1>6. /\ queue' \in Seq(Item) /\ Len(queue') = Len(queue)
      /\ \A j \in 1 .. Len(queue) : queue'[j] = IF j = 1 THEN e ELSE queue[j]
  BY <1>1, <1>2, <1>4, <1>5, ExceptSeq
<1>7. InOrder(queue, handled', pushed') /\ handled' <= pushed' /\ handled' \in Nat
  BY <1>1, ApplyHead
<1>8. InOrder(queue', handled', pushed')
  BY <1>1, <1>4, <1>6, <1>7, SameNumbers
<1>9. HeadRuns'
  <2>1. queue' # <<>> /\ Numbered(queue'[1]) /\ queue'[1].n = handled'
    BY <1>2, <1>4, <1>6 DEF Numbered
  <2> QED BY <2>1 DEF HeadRuns, ItemRuns, Numbered
<1>10. TypeOK'
  BY <1>1, <1>3, <1>6 DEF TypeOK, Item, Locations, InStrategy
<1> QED BY <1>7, <1>8, <1>9, <1>10, QueueInvPrimed

\* The head of the queue, and what its location says of it.
LEMMA HeadFacts ==
    ASSUME QueueInv, pc \in ItemRuns
    PROVE  /\ queue # <<>> /\ Head(queue) = queue[1] /\ queue[1] \in Item
           /\ pc \in {"book", "on_orderbook"} => ~Numbered(queue[1])
           /\ pc \in {"on_order", "on_fill", "on_update"} =>
                Numbered(queue[1]) /\ queue[1].n = handled
           /\ Numbered(queue[1]) => queue[1].n \in 1 .. MaxEvents
<1>1. queue \in Seq(Item) /\ queue # <<>>
  BY QueueInvForm DEF QueueInv, HeadRuns
<1>2. 1 \in 1 .. Len(queue) /\ queue[1] \in Item /\ Head(queue) = queue[1]
  BY <1>1
<1> QED BY <1>1, <1>2, ItemKinds DEF QueueInv, HeadRuns

LEMMA ReadsKeepQueue ==
    ASSUME QueueInv,
           EnterDrain \/ ReadTicker \/ ReadOrderBook \/ TickerReturns \/ OrderBookReturns
    PROVE  QueueInv'
<1>1. TypeOK /\ queue \in Seq(Item)
  BY QueueInvForm DEF QueueInv
<1>2. CASE EnterDrain
  <2>1. /\ queue' = queue
        /\ timers' \subseteq Timer /\ scheduledTime' \in Time /\ slot' \in Time
        /\ toFlush' \subseteq Exchanges
        /\ pc' \in {"item", "on_timer", "flush"}
        /\ pc' = "item" => queue' # <<>>
    BY <1>1, <1>2, ContinueTypes DEF EnterDrain
  <2>2. TypeOK'
    BY <1>1, <1>2, <2>1 DEF EnterDrain, TypeOK, Locations, InStrategy
  <2>3. HeadRuns'
    BY <2>1 DEF HeadRuns, ItemRuns
  <2> QED BY <1>2, <2>1, <2>2, <2>3 DEF EnterDrain, QueueInv, QueueAhead, NoneIsLost
<1>3. CASE ReadTicker
  <2>1. /\ queue # <<>> /\ queue[1].kind = "market" /\ queue' = queue
        /\ pc' \in {"on_ticker", "book"}
    BY <1>3, HeadFacts DEF ReadTicker, ItemRuns
  <2>2. unseen' \in [Instruments -> SUBSET MarketTypes]
    BY <1>1, <1>3 DEF ReadTicker, TypeOK
  <2>3. TypeOK'
    BY <1>1, <1>3, <2>1, <2>2 DEF ReadTicker, TypeOK, Locations, InStrategy
  <2>4. HeadRuns'
    BY <2>1 DEF HeadRuns, ItemRuns
  <2> QED BY <1>3, <2>3, <2>4 DEF ReadTicker, QueueInv, QueueAhead, NoneIsLost
<1>4. CASE ReadOrderBook /\ "orderbook" \in Head(queue).types
  <2>1. queue # <<>> /\ queue[1].kind = "market" /\ queue' = queue /\ pc' = "on_orderbook"
    BY <1>4 DEF ReadOrderBook, QueueInv, HeadRuns, ItemRuns
  <2>2. unseen' \in [Instruments -> SUBSET MarketTypes]
    BY <1>1, <1>4 DEF ReadOrderBook, TypeOK
  <2>3. TypeOK'
    BY <1>1, <1>4, <2>1, <2>2 DEF ReadOrderBook, TypeOK, Locations, InStrategy
  <2>4. HeadRuns'
    BY <2>1 DEF HeadRuns, ItemRuns
  <2> QED BY <1>4, <2>3, <2>4 DEF ReadOrderBook, QueueInv, QueueAhead, NoneIsLost
<1>5. CASE ReadOrderBook /\ "orderbook" \notin Head(queue).types
  <2>1. queue # <<>> /\ ~Numbered(queue[1])
    BY <1>5, HeadFacts DEF ReadOrderBook, ItemRuns
  <2> QED BY <1>1, <1>5, <2>1, PopKeepsQueue DEF ReadOrderBook, TypeOK
<1>6. CASE TickerReturns
  <2>1. TypeOK' /\ HeadRuns'
    BY <1>1, <1>6 DEF TickerReturns, TypeOK, Locations, InStrategy, QueueInv, HeadRuns, ItemRuns
  <2> QED BY <1>6, <2>1 DEF TickerReturns, QueueInv, QueueAhead, NoneIsLost
<1>7. CASE OrderBookReturns
  <2>1. queue # <<>> /\ ~Numbered(queue[1])
    BY <1>7, HeadFacts DEF OrderBookReturns, ItemRuns
  <2> QED BY <1>1, <1>7, <2>1, PopKeepsQueue DEF OrderBookReturns, TypeOK
<1> QED BY <1>2, <1>3, <1>4, <1>5, <1>6, <1>7

LEMMA OrderEventsKeepQueue ==
    ASSUME QueueInv,
           \/ ApplyReport \/ OrderReturns \/ SkipFill \/ ApplyFill \/ FillReturns
           \/ RunCompletions \/ UpdateReturns
    PROVE  QueueInv'
<1>1. TypeOK /\ queue \in Seq(Item) /\ handled \in Nat /\ pushed \in Nat
      /\ handled <= pushed /\ InOrder(queue, handled, pushed)
  BY QueueInvForm DEF QueueInv
<1>2. CASE ApplyReport
  <2>1. queue # <<>> /\ Head(queue) = queue[1] /\ Numbered(queue[1]) /\ queue[1].n \in 1 .. MaxEvents
    BY <1>2, HeadFacts DEF ApplyReport, ItemRuns, Numbered, Kinds
  <2> QED BY <1>1, <1>2, <2>1, HandOverKeepsQueue DEF ApplyReport, TypeOK
<1>3. CASE OrderReturns
  <2>1. queue # <<>> /\ Numbered(queue[1]) /\ queue[1].n = handled
    BY <1>3, HeadFacts DEF OrderReturns, ItemRuns
  <2> QED BY <1>1, <1>3, <2>1, PopKeepsQueue DEF OrderReturns, TypeOK
<1>4. CASE SkipFill
  <2>1. queue # <<>> /\ Head(queue) = queue[1] /\ Numbered(queue[1]) /\ queue[1].n \in 1 .. MaxEvents
    BY <1>4, HeadFacts DEF SkipFill, ItemRuns, Numbered, Kinds
  <2>2. skipped' \subseteq 1 .. MaxEvents
    BY <1>1, <1>4, <2>1 DEF SkipFill, TypeOK
  <2> QED BY <1>1, <1>4, <2>1, <2>2, PopKeepsQueue DEF SkipFill, TypeOK
<1>5. CASE ApplyFill
  <2>1. queue # <<>> /\ Head(queue) = queue[1] /\ Numbered(queue[1])
    BY <1>5, HeadFacts DEF ApplyFill, ItemRuns, Numbered, Kinds
  <2> QED BY <1>1, <1>5, <2>1, HandOverKeepsQueue DEF ApplyFill, TypeOK
<1>6. CASE FillReturns
  <2>1. /\ queue # <<>> /\ Head(queue) = queue[1] /\ Numbered(queue[1])
        /\ queue[1].n = handled /\ queue[1].n \in 1 .. MaxEvents
    BY <1>6, HeadFacts DEF FillReturns, ItemRuns
  <2>2. pending' \subseteq 1 .. MaxEvents
    BY <1>1, <1>6, <2>1 DEF FillReturns, TypeOK
  <2> QED BY <1>1, <1>6, <2>1, <2>2, PopKeepsQueue DEF FillReturns, TypeOK
<1>7. CASE RunCompletions
  <2>1. /\ queue # <<>> /\ Head(queue) = queue[1] /\ Numbered(queue[1])
        /\ queue[1].n \in 1 .. MaxEvents
    BY <1>7, HeadFacts DEF RunCompletions, ItemRuns, Numbered, Kinds
  <2>2. queue' = queue /\ pushed' = pushed /\ handled' = queue[1].n /\ pc' = "on_update"
    BY <1>7, <2>1 DEF RunCompletions
  <2>3. InOrder(queue', handled', pushed') /\ handled' <= pushed'
    BY <1>1, <2>1, <2>2, ApplyHead
  <2>4. HeadRuns'
    BY <2>1, <2>2 DEF HeadRuns, ItemRuns, Numbered
  <2>5. TypeOK'
    BY <1>1, <1>7, <2>1, <2>2 DEF RunCompletions, TypeOK, Locations, InStrategy
  <2> QED BY <2>3, <2>4, <2>5, QueueInvPrimed
<1>8. CASE UpdateReturns
  <2>1. queue # <<>> /\ Numbered(queue[1]) /\ queue[1].n = handled
    BY <1>8, HeadFacts DEF UpdateReturns, ItemRuns
  <2> QED BY <1>1, <1>8, <2>1, PopKeepsQueue DEF UpdateReturns, TypeOK
<1> QED BY <1>2, <1>3, <1>4, <1>5, <1>6, <1>7, <1>8

LEMMA WakeEndsKeepQueue ==
    ASSUME QueueInv,
           \/ Wake \/ TimerReturns \/ TouchMovedOrder \/ \E e \in Exchanges : Flush(e)
           \/ Commit \/ Rethrow \/ Swallow
    PROVE  QueueInv'
<1>1. TypeOK
  BY DEF QueueInv
<1>2. CASE Wake
  <2>1. TypeOK'
    BY <1>1, <1>2, Constants DEF Wake, TypeOK, Locations
  <2> QED BY <1>2, <2>1, QueueUntouched DEF Wake, ItemRuns
<1>3. CASE TimerReturns
  <2>1. /\ timers' \subseteq Timer /\ scheduledTime' \in Time /\ slot' \in Time
        /\ toFlush' \subseteq Exchanges /\ pc' \in {"on_timer", "flush"}
    BY <1>1, <1>3, TimerStepTypes DEF TimerReturns
  <2>2. TypeOK'
    BY <1>1, <1>3, <2>1 DEF TimerReturns, TypeOK, Locations, InStrategy
  <2> QED BY <1>3, <2>1, <2>2, QueueUntouched DEF TimerReturns, ItemRuns
<1>4. CASE TouchMovedOrder
  <2>1. TypeOK'
    BY <1>1, <1>4 DEF TouchMovedOrder, TypeOK, Locations
  <2> QED BY <1>4, <2>1, QueueUntouched DEF TouchMovedOrder, ItemRuns
<1>5. ASSUME NEW e \in Exchanges, Flush(e)
      PROVE  QueueInv'
  <2>1. timesSent' \in [Orders -> 0 .. 2]
    BY <1>1, <1>5 DEF Flush, TypeOK
  <2>2. toPlace' \in [Exchanges -> SUBSET Orders] /\ toCancel' \in [Exchanges -> SUBSET Orders]
    BY <1>1, <1>5 DEF Flush, TypeOK
  <2>3. TypeOK'
    BY <1>1, <1>5, <2>1, <2>2 DEF Flush, TypeOK
  <2> QED BY <1>5, <2>3, QueueUntouched DEF Flush
<1>6. CASE Commit
  <2>1. TypeOK'
    BY <1>1, <1>6 DEF Commit, TypeOK, Locations
  <2> QED BY <1>6, <2>1, QueueUntouched DEF Commit, ItemRuns
<1>7. CASE Rethrow
  <2>1. TypeOK'
    BY <1>1, <1>7 DEF Rethrow, TypeOK, Locations
  <2> QED BY <1>7, <2>1, QueueUntouched DEF Rethrow, ItemRuns
<1>8. CASE Swallow
  <2>1. TypeOK'
    BY <1>1, <1>8 DEF Swallow, StartFlush, TypeOK, Locations
  <2> QED BY <1>8, <2>1, QueueUntouched DEF Swallow, StartFlush, ItemRuns
<1> QED BY <1>2, <1>3, <1>4, <1>5, <1>6, <1>7, <1>8

LEMMA QueueInvStep == QueueInv /\ [Next]_vars => QueueInv'
<1> SUFFICES ASSUME QueueInv, [Next]_vars
             PROVE  QueueInv'
  OBVIOUS
<1>1. CASE Feed
  BY <1>1, OnEventKeepsQueue, OnMarketDataKeepsQueue DEF Feed
<1>2. CASE StrategyCall \/ InitReturns \/ Tick
  BY <1>2, StrategyKeepsQueue
<1>3. CASE Wake \/ Worker \/ Rethrow \/ Swallow
  BY <1>3, ReadsKeepQueue, OrderEventsKeepQueue, WakeEndsKeepQueue DEF Worker, CallbackReturns
<1>4. CASE UNCHANGED vars
  BY <1>4 DEF QueueInv, TypeOK, HeadRuns, QueueAhead, NoneIsLost, ItemRuns, Numbered
<1> QED BY <1>1, <1>2, <1>3, <1>4 DEF Next

LEMMA QueueInvInit == Init => QueueInv
<1> SUFFICES ASSUME Init
             PROVE  QueueInv
  OBVIOUS
<1>1. TypeOK
  <2>1. queue \in Seq(MarketItem \cup NumberedItem)
    BY DEF Init
  <2>2. now \in 1 .. MaxTime /\ eventTime \in 0 .. MaxTime /\ pc \in Locations
    BY Constants DEF Init, Immediately, Locations
  <2>3. pushed \in 0 .. MaxEvents /\ handled \in 0 .. MaxEvents
    BY Constants DEF Init
  <2> QED BY <2>1, <2>2, <2>3, Constants DEF Init, TypeOK
<1>2. HeadRuns
  BY DEF Init, HeadRuns, ItemRuns
<1>3. QueueAhead /\ NoneIsLost
  BY DEF Init, QueueAhead, NoneIsLost
<1> QED BY <1>1, <1>2, <1>3 DEF QueueInv

\* In a queue in order, NoneIsLeft is about its head.
HeadLeft ==
    queue # <<>> /\ Numbered(queue[1]) /\ queue[1].n <= handled =>
        pc \in ItemCallbacks \cup {"dead"} \/ handled \in swallowed

LEMMA LeftIsHead == QueueInv => (NoneIsLeft <=> HeadLeft)
<1> SUFFICES ASSUME QueueInv PROVE NoneIsLeft <=> HeadLeft
  OBVIOUS
<1>1. /\ queue \in Seq(Item) /\ handled \in Nat /\ pushed \in Nat
      /\ InOrder(queue, handled, pushed)
  BY QueueInvForm DEF QueueInv
<1>2. \A k \in 1 .. Len(queue) : Numbered(queue[k]) => queue[k].n \in Nat
  BY <1>1, ItemKinds
<1>3. \A k \in 1 .. Len(queue) :
        Numbered(queue[k]) /\ queue[k].n <= handled => k = 1 /\ queue[k].n = handled
  BY <1>1, <1>2 DEF InOrder
<1>4. queue # <<>> <=> 1 \in 1 .. Len(queue)
  BY <1>1
<1> QED BY <1>3, <1>4 DEF NoneIsLeft, HeadLeft

\* A step that leaves the queue alone leaves its head, unless a callback ends.
LEMMA UntouchedLeft ==
    ASSUME HeadLeft, UNCHANGED <<queue, handled, swallowed>>,
           pc' = pc \/ pc' = "dead" \/ pc \notin ItemCallbacks \cup {"dead"}
    PROVE  HeadLeft'
BY DEF HeadLeft, Numbered

\* With the head of the queue, what was applied last goes.
LEMMA PopLeft ==
    ASSUME QueueInv, queue # <<>>, queue' = Tail(queue), queue' \in Seq(Item),
           handled' = handled \/ (Numbered(queue[1]) /\ handled' = queue[1].n)
    PROVE  HeadLeft'
<1>1. /\ queue \in Seq(Item) /\ handled \in Nat /\ pushed \in Nat
      /\ InOrder(queue, handled, pushed)
  BY QueueInvForm DEF QueueInv
<1>2. SUFFICES ASSUME queue' # <<>>, Numbered(queue'[1]), queue'[1].n <= handled'
               PROVE  FALSE
  BY DEF HeadLeft, Numbered
<1>3. queue'[1] = queue[2] /\ 1 \in 1 .. Len(queue) /\ 2 \in 1 .. Len(queue)
  BY <1>1, <1>2
<1>4. /\ Numbered(queue[2]) /\ queue[2].n \in Nat /\ queue[2].n > handled
      /\ Numbered(queue[1]) => queue[1].n < queue[2].n /\ queue[1].n \in Nat
  BY <1>1, <1>2, <1>3, ItemKinds DEF InOrder
<1> QED BY <1>1, <1>2, <1>3, <1>4

LEMMA FeedLeft ==
    ASSUME QueueInv, HeadLeft, Feed
    PROVE  HeadLeft'
<1>1. /\ queue \in Seq(Item) /\ handled \in Nat /\ pushed \in Nat
      /\ handled <= pushed
  BY QueueInvForm DEF QueueInv
<1>2. UNCHANGED <<handled, swallowed, pc>>
  BY DEF Feed, OnEvent, OnMarketData, storeVars
<1>3. ASSUME NEW item, queue' = Append(queue, item), Numbered(item) => item.n = pushed + 1
      PROVE  HeadLeft'
  <2>1. CASE queue = <<>>
    <3>1. queue'[1] = item
      BY <1>3, <2>1
    <3> QED BY <1>1, <1>2, <1>3, <3>1 DEF HeadLeft, Numbered
  <2>2. CASE queue # <<>>
    <3>1. queue'[1] = queue[1]
      BY <1>1, <1>3, <2>2
    <3> QED BY <1>2, <2>2, <3>1 DEF HeadLeft, Numbered
  <2> QED BY <2>1, <2>2
<1>4. ASSUME NEW kind \in EventKinds, OnEvent(kind)
      PROVE  HeadLeft'
  <2>1. queue' = Append(queue, [kind |-> kind, n |-> pushed + 1, moved |-> FALSE])
    BY <1>4 DEF OnEvent
  <2> QED BY <1>3, <2>1
<1>5. ASSUME NEW i \in Instruments, NEW type \in MarketTypes, OnMarketData(i, type)
      PROVE  HeadLeft'
  <2>1. CASE QueuedMarketItems(i) = {}
    <3>1. queue' = Append(queue, [kind |-> "market", i |-> i, types |-> {type}])
      BY <1>5, <2>1 DEF OnMarketData
    <3>2. ~Numbered([kind |-> "market", i |-> i, types |-> {type}])
      BY DEF Numbered, Kinds
    <3> QED BY <1>3, <3>1, <3>2
  <2>2. CASE QueuedMarketItems(i) # {}
    <3>1. PICK k \in QueuedMarketItems(i) : queue' = [queue EXCEPT ![k].types = @ \cup {type}]
      BY <1>5, <2>2 DEF OnMarketData
    <3>2. k \in 1 .. Len(queue) /\ queue[k] \in MarketItem
      <4>1. k \in 1 .. Len(queue) /\ queue[k].kind = "market" /\ queue[k] \in Item
        BY <1>1, <3>1 DEF QueuedMarketItems
      <4> QED BY <4>1, ItemKinds
    <3> DEFINE e == [queue[k] EXCEPT !.types = @ \cup {type}]
    <3>3. e \in Item /\ e.kind = "market" /\ queue' = [queue EXCEPT ![k] = e]
      BY <3>1, <3>2 DEF MarketItem, Item
    <3> HIDE DEF e
    <3>4. /\ queue'[k] = e /\ queue # <<>> /\ 1 \in 1 .. Len(queue)
          /\ \A j \in 1 .. Len(queue) : j # k => queue'[j] = queue[j]
      BY <1>1, <3>2, <3>3, ExceptSeq
    <3>5. CASE k = 1
      BY <3>3, <3>4, <3>5 DEF HeadLeft, Numbered, Kinds
    <3>6. CASE k # 1
      BY <1>2, <3>4, <3>6 DEF HeadLeft, Numbered
    <3> QED BY <3>5, <3>6
  <2> QED BY <2>1, <2>2
<1> QED BY <1>4, <1>5 DEF Feed

LEMMA StepLeaves ==
    ASSUME QueueInv, HeadLeft, Next, QueueInv'
    PROVE  HeadLeft'
<1>1. queue' \in Seq(Item)
  BY DEF QueueInv, TypeOK, Item
<1>2. CASE StrategyCall \/ InitReturns \/ Tick \/ Wake \/ Commit \/ Rethrow \/ TouchMovedOrder
           \/ \E e \in Exchanges : Flush(e)
  BY <1>2, UntouchedLeft
     DEF StrategyCall, SetTimer, ClearTimer, Place, Cancel, InitReturns, Tick, Wake, Commit, Rethrow,
         TouchMovedOrder, Flush, loopVars, storeVars, ItemCallbacks
<1>3. CASE EnterDrain \/ ReadTicker \/ TickerReturns \/ TimerReturns
  BY <1>3, UntouchedLeft
     DEF EnterDrain, ReadTicker, TickerReturns, TimerReturns, Continue, loopVars, storeVars,
         ItemCallbacks
<1>4. CASE ReadOrderBook
  <2>1. queue # <<>> /\ UNCHANGED <<handled, swallowed>>
    BY <1>4 DEF ReadOrderBook, QueueInv, HeadRuns, ItemRuns, storeVars
  <2>2. UNCHANGED queue \/ queue' = Tail(queue)
    BY <1>4 DEF ReadOrderBook, Continue, loopVars
  <2> QED BY <1>1, <1>4, <2>1, <2>2, UntouchedLeft, PopLeft DEF ReadOrderBook, ItemCallbacks
<1>5. CASE OrderBookReturns \/ OrderReturns \/ FillReturns \/ UpdateReturns
  <2>1. queue # <<>> /\ UNCHANGED handled /\ queue' = Tail(queue)
    BY <1>5 DEF OrderBookReturns, OrderReturns, FillReturns, UpdateReturns, Continue,
                QueueInv, HeadRuns, ItemRuns, storeVars
  <2> QED BY <1>1, <2>1, PopLeft
<1>6. CASE SkipFill
  <2>1. /\ queue # <<>> /\ Head(queue) = queue[1] /\ Numbered(queue[1])
        /\ handled' = Head(queue).n /\ queue' = Tail(queue)
    BY <1>6, HeadFacts DEF SkipFill, Continue, ItemRuns, Numbered, Kinds
  <2> QED BY <1>1, <2>1, PopLeft
<1>7. CASE ApplyReport \/ ApplyFill \/ RunCompletions
  <2>1. pc' \in ItemCallbacks
    BY <1>7 DEF ApplyReport, ApplyFill, RunCompletions, ItemCallbacks
  <2> QED BY <2>1 DEF HeadLeft
<1>8. CASE Swallow
  <2>1. /\ UNCHANGED <<queue, handled>> /\ pc # "dead"
        /\ swallowed' = IF pc \in ItemCallbacks THEN swallowed \cup {handled} ELSE swallowed
    BY <1>8 DEF Swallow, MayThrow, InStrategy, loopVars
  <2> QED BY <2>1 DEF HeadLeft, Numbered
<1>9. CASE Feed
  BY <1>9, FeedLeft
<1> QED BY <1>2, <1>3, <1>4, <1>5, <1>6, <1>7, <1>8, <1>9 DEF Next, Worker, CallbackReturns

LEMMA NoneIsLeftStep == QueueInv /\ NoneIsLeft /\ [Next]_vars => NoneIsLeft'
<1> SUFFICES ASSUME QueueInv, NoneIsLeft, [Next]_vars
             PROVE  NoneIsLeft'
  OBVIOUS
<1>1. QueueInv'
  BY QueueInvStep
<1>2. HeadLeft /\ (HeadLeft' => NoneIsLeft')
  BY <1>1, LeftIsHead, PTL
<1>3. CASE Next
  BY <1>1, <1>2, <1>3, StepLeaves
<1>4. CASE UNCHANGED vars
  BY <1>2, <1>4, UntouchedLeft DEF vars, loopVars, storeVars
<1> QED BY <1>3, <1>4

\* The types of the variables, and: reports, fills and updates wait in the order in
\* which they were emitted, none is lost from the queue before it is applied, and none
\* that was applied waits to be applied again, unless its callback threw and
\* on_unhandled_exception swallowed the exception.
THEOREM QueueIsComplete == Spec => [](TypeOK /\ QueueComplete)
<1>1. Init => NoneIsLeft
  BY DEF Init, NoneIsLeft
<1>2. QueueInv /\ NoneIsLeft => TypeOK /\ QueueComplete
  BY DEF QueueInv, QueueComplete
<1> QED BY <1>1, <1>2, QueueInvInit, QueueInvStep, NoneIsLeftStep, PTL DEF Spec

\* A step applies no event but the head of the queue, so at most the next one.
LEMMA StepAppliesNext == QueueInv /\ [Next]_vars => handled' \in {handled, handled + 1}
<1> SUFFICES ASSUME QueueInv, Next
             PROVE  handled' \in {handled, handled + 1}
  BY DEF QueueInv
<1>1. TypeOK /\ queue \in Seq(Item) /\ handled \in Nat /\ pushed \in Nat
      /\ handled <= pushed /\ InOrder(queue, handled, pushed)
  BY QueueInvForm DEF QueueInv
<1>2. CASE ApplyReport \/ SkipFill \/ ApplyFill \/ RunCompletions
  <2>1. /\ queue # <<>> /\ Head(queue) = queue[1] /\ Numbered(queue[1])
        /\ handled' = queue[1].n
    BY <1>2, HeadFacts
       DEF ApplyReport, SkipFill, ApplyFill, RunCompletions, ItemRuns, Numbered, Kinds
  <2> QED BY <1>1, <2>1, ApplyHead
<1>3. CASE Feed \/ StrategyCall \/ InitReturns \/ Wake \/ Rethrow \/ Swallow \/ Tick
  BY <1>3 DEF Feed, OnEvent, OnMarketData, StrategyCall, SetTimer, ClearTimer, Place, Cancel,
              InitReturns, Wake, Rethrow, Swallow, Tick
<1>4. CASE EnterDrain \/ ReadTicker \/ ReadOrderBook \/ TouchMovedOrder \/ CallbackReturns
           \/ (\E e \in Exchanges : Flush(e)) \/ Commit
  BY <1>4 DEF EnterDrain, ReadTicker, ReadOrderBook, TouchMovedOrder, CallbackReturns,
              TickerReturns, OrderBookReturns, OrderReturns, FillReturns, UpdateReturns,
              TimerReturns, Flush, Commit
<1> QED BY <1>2, <1>3, <1>4 DEF Next, Worker

\* No event is applied before an earlier one, and none is skipped.
THEOREM EventsAppliedInOrder == Spec => AppliedInOrder
<1>1. Spec => []QueueInv
  BY QueueInvInit, QueueInvStep, PTL DEF Spec
<1>2. QueueInv /\ [Next]_vars => [handled' \in {handled, handled + 1}]_vars
  BY StepAppliesNext
<1> QED BY <1>1, <1>2, PTL DEF Spec, AppliedInOrder

-----------------------------------------------------------------------------
(* Wakeups *)

\* What notify_queue guarantees of the entry: it is immediate if an event waits and no
\* later than any timer, provided it was no later than _scheduled_time before.
LEMMA NotifyArms ==
    ASSUME TypeOK, NEW q, NEW ts \in SUBSET Timer, NotifyQueue(q, ts), slot <= scheduledTime
    PROVE  /\ slot' <= scheduledTime'
           /\ q # <<>> => slot' = Immediately
           /\ q = <<>> => \A t \in ts : slot' <= t.at
           /\ slot = Immediately /\ q # <<>> => slot' = Immediately
<1>1. slot \in Nat /\ scheduledTime \in Nat
  BY Constants DEF TypeOK
<1>2. PICK tp \in NotifyTarget(q, ts) :
        IF scheduledTime > tp THEN scheduledTime' = tp /\ slot' = tp ELSE UNCHANGED schedVars
  BY DEF NotifyQueue
<1>3. CASE q # <<>>
  BY <1>1, <1>2, <1>3 DEF NotifyTarget, Immediately
<1>4. CASE q = <<>> /\ ts = {}
  BY <1>1, <1>2, <1>4, Constants DEF NotifyTarget, TypeOK, Time
<1>5. CASE q = <<>> /\ ts # {}
  <2>1. tp \in FrontTime(ts)
    BY <1>2, <1>5 DEF NotifyTarget
  <2>2. tp \in Nat /\ \A t \in ts : tp <= t.at /\ t.at \in Nat
    BY <2>1, Constants DEF FrontTime, FrontTimers
  <2> QED BY <1>1, <1>2, <1>5, <2>2
<1> QED BY <1>3, <1>4, <1>5

\* The end of the locked part re-arms the entry for the timers that remain.
LEMMA FinishArms ==
    ASSUME TypeOK, Finish
    PROVE  /\ slot' <= scheduledTime' /\ timers' = timers
           /\ \A t \in timers : slot' <= t.at
           /\ pc' = "flush"
<1>1. CASE timers = {}
  BY <1>1, Constants DEF Finish, Reschedule, StartFlush, TypeOK, Time
<1>2. CASE timers # {}
  <2>1. PICK tp \in FrontTime(timers) : scheduledTime' = tp /\ slot' = tp
    BY <1>2 DEF Finish, Reschedule
  <2>2. tp \in Nat /\ \A t \in timers : tp <= t.at
    BY <2>1, Constants DEF FrontTime, FrontTimers, TypeOK
  <2> QED BY <2>1, <2>2 DEF Finish, StartFlush
<1> QED BY <1>1, <1>2

\* Continue with an empty queue reaches the timers or the end with nothing queued.
LEMMA ContinueArms ==
    ASSUME TypeOK, NEW q \in Seq(Item), Continue(q)
    PROVE  Armed'
<1>1. CASE q # <<>>
  BY <1>1 DEF Continue, Armed
<1>2. CASE q = <<>> /\ FireTimer
  <2>1. queue' = <<>> /\ pc' = "on_timer" /\ Len(queue') = 0
    BY <1>2 DEF Continue, FireTimer
  <2> QED BY <2>1 DEF Armed
<1>3. CASE q = <<>> /\ Finish
  <2>1. queue' = <<>> /\ Len(queue') = 0
    BY <1>3 DEF Continue
  <2> QED BY <1>3, <2>1, FinishArms DEF Armed
<1> QED BY <1>1, <1>2, <1>3 DEF Continue

\* A step that changes neither the queue, the timers, the wakeup nor the location.
LEMMA ArmedUntouched ==
    ASSUME Armed, UNCHANGED <<queue, timers, scheduledTime, slot, late>>,
           pc' = pc \/ pc' \notin {"idle", "flush", "on_timer"} \/ (pc = "flush" /\ pc' = "idle")
    PROVE  Armed'
  BY DEF Armed

LEMMA FeedArms ==
    ASSUME QueueInv, Armed, Feed
    PROVE  Armed'
<1>1. TypeOK /\ queue \in Seq(Item) /\ timers \in SUBSET Timer
  BY QueueInvForm DEF QueueInv, TypeOK
<1>2. ASSUME NEW kind \in EventKinds, OnEvent(kind)
      PROVE  Armed'
  <2> DEFINE e == [kind |-> kind, n |-> pushed + 1, moved |-> FALSE]
  <2>1. e \in Item
    BY <1>1, <1>2, Constants, ModeAssumption DEF OnEvent, Item, NumberedItem, TypeOK
  <2>2. queue' = Append(queue, e) /\ NotifyQueue(queue', timers) /\ timers' = timers /\ pc' = pc
    BY <1>2 DEF OnEvent
  <2>3. /\ queue' # <<>> /\ Len(queue') = Len(queue) + 1
        /\ \A k \in 1 .. Len(queue) : queue'[k] = queue[k]
        /\ queue'[Len(queue) + 1] = e
    BY <1>1, <2>1, <2>2, AppendProperties
  <2>4. CASE pc \in {"idle", "flush"}
    <3>1. slot' <= scheduledTime' /\ slot' = Immediately
      BY <1>1, <2>2, <2>3, <2>4, NotifyArms DEF Armed
    <3>2. \A t \in timers' : slot' <= t.at
      BY <1>1, <2>2, <3>1, Constants DEF Immediately
    <3> QED BY <2>2, <2>4, <3>1, <3>2 DEF Armed
  <2>5. CASE pc = "on_timer"
    <3>1. late' = late \cup {e.n}
      BY <1>2, <2>5 DEF OnEvent
    <3>2. \A k \in 1 .. Len(queue') : k \in 1 .. Len(queue) \/ k = Len(queue) + 1
      BY <1>1, <2>3
    <3> QED BY <2>2, <2>3, <2>5, <3>1, <3>2 DEF Armed
  <2>6. CASE pc \notin {"idle", "flush", "on_timer"}
    BY <2>2, <2>6 DEF Armed
  <2> QED BY <2>4, <2>5, <2>6
<1>3. ASSUME NEW i \in Instruments, NEW type \in MarketTypes, OnMarketData(i, type),
             QueuedMarketItems(i) = {}
      PROVE  Armed'
  <2> DEFINE e == [kind |-> "market", i |-> i, types |-> {type}]
  <2>1. e \in Item /\ ~Numbered(e)
    BY DEF Item, MarketItem, Numbered, Kinds
  <2>2. queue' = Append(queue, e) /\ UNCHANGED <<timers, scheduledTime, slot, late, pc>>
    BY <1>3 DEF OnMarketData
  <2>3. /\ Len(queue') = Len(queue) + 1
        /\ \A k \in 1 .. Len(queue) : queue'[k] = queue[k]
        /\ queue'[Len(queue) + 1] = e
    BY <1>1, <2>1, <2>2, AppendProperties
  <2>4. \A k \in 1 .. Len(queue') :
            Numbered(queue'[k]) => k \in 1 .. Len(queue) /\ queue'[k] = queue[k]
    BY <1>1, <2>1, <2>3
  <2> QED BY <2>2, <2>4 DEF Armed
<1>4. ASSUME NEW i \in Instruments, NEW type \in MarketTypes, OnMarketData(i, type),
             QueuedMarketItems(i) # {}
      PROVE  Armed'
  <2>1. PICK k \in QueuedMarketItems(i) :
            /\ queue' = [queue EXCEPT ![k].types = @ \cup {type}]
            /\ NotifyQueue(queue, timers)
    BY <1>4 DEF OnMarketData
  <2> DEFINE e == [queue[k] EXCEPT !.types = @ \cup {type}]
  <2>2. k \in 1 .. Len(queue) /\ queue[k].kind = "market" /\ queue[k] \in Item /\ queue # <<>>
    BY <1>1, <2>1 DEF QueuedMarketItems
  <2>3. e \in Item /\ ~Numbered(e)
    <3>1. queue[k] \in MarketItem
      BY <2>2, ItemKinds
    <3> QED BY <3>1 DEF MarketItem, Item, Numbered, Kinds
  <2>4. queue' = [queue EXCEPT ![k] = e]
    BY <2>1
  <2> HIDE DEF e
  <2>5. /\ Len(queue') = Len(queue)
        /\ \A j \in 1 .. Len(queue) : queue'[j] = IF j = k THEN e ELSE queue[j]
    BY <1>1, <2>2, <2>3, <2>4, ExceptSeq
  <2>6. \A j \in 1 .. Len(queue') : Numbered(queue'[j]) => queue'[j] = queue[j]
    BY <2>3, <2>5
  <2>7. timers' = timers /\ late' = late /\ pc' = pc
    BY <1>4 DEF OnMarketData
  <2>8. CASE pc \in {"idle", "flush"}
    <3>1. slot' <= scheduledTime' /\ slot' = Immediately
      BY <1>1, <2>1, <2>2, <2>8, NotifyArms DEF Armed
    <3>2. \A t \in timers' : slot' <= t.at
      BY <1>1, <2>7, <3>1, Constants DEF Immediately
    <3> QED BY <2>7, <2>8, <3>1, <3>2 DEF Armed
  <2>9. CASE pc \notin {"idle", "flush"}
    BY <2>5, <2>6, <2>7, <2>9 DEF Armed
  <2> QED BY <2>8, <2>9
<1> QED BY <1>2, <1>3, <1>4 DEF Feed

LEMMA StrategyArms ==
    ASSUME QueueInv, Armed, StrategyCall \/ InitReturns \/ Tick
    PROVE  Armed'
<1>1. TypeOK /\ timers \in SUBSET Timer /\ slot \in Nat
  BY Constants DEF QueueInv, TypeOK
<1>2. ASSUME NEW t \in Timer, SetTimer(t)
      PROVE  Armed'
  <2>1. /\ timers' = timers \cup {t} /\ timers' \in SUBSET Timer
        /\ NotifyQueue(queue, timers') /\ UNCHANGED <<queue, late, pc>>
    BY <1>1, <1>2 DEF SetTimer
  <2>2. CASE pc \in {"idle", "flush"}
    <3>1. slot <= scheduledTime
      BY <2>2 DEF Armed
    <3>2. CASE queue # <<>>
      <4>1. slot' <= scheduledTime' /\ slot' = Immediately
        BY <1>1, <2>1, <3>1, <3>2, NotifyArms
      <4>2. \A u \in timers' : slot' <= u.at
        BY <2>1, <4>1, Constants DEF Immediately
      <4> QED BY <2>1, <2>2, <4>1, <4>2 DEF Armed
    <3>3. CASE queue = <<>>
      <4>1. slot' <= scheduledTime' /\ \A u \in timers' : slot' <= u.at
        BY <1>1, <2>1, <3>1, <3>3, NotifyArms
      <4>2. queue' = <<>> /\ Len(queue') = 0
        BY <2>1, <3>3
      <4> QED BY <2>1, <2>2, <4>1, <4>2 DEF Armed
    <3> QED BY <3>2, <3>3
  <2>3. CASE pc \notin {"idle", "flush"}
    BY <2>1, <2>3 DEF Armed
  <2> QED BY <2>2, <2>3
<1>3. ASSUME NEW t \in Timer, ClearTimer(t)
      PROVE  Armed'
  BY <1>3 DEF ClearTimer, Armed
<1>4. ASSUME NEW o \in Orders, Place(o) \/ Cancel(o)
      PROVE  Armed'
  BY <1>4, ArmedUntouched DEF Place, Cancel
<1>5. CASE InitReturns \/ Tick
  BY <1>5, ArmedUntouched DEF InitReturns, Tick
<1> QED BY <1>2, <1>3, <1>4, <1>5 DEF StrategyCall

LEMMA WorkerArms ==
    ASSUME QueueInv, Armed, Wake \/ Worker \/ Rethrow
    PROVE  Armed'
<1>1. TypeOK /\ queue \in Seq(Item)
  BY QueueInvForm DEF QueueInv
<1>2. pc \in ItemRuns => queue # <<>> /\ Tail(queue) \in Seq(Item)
  BY <1>1, HeadFacts, HeadTailProperties
<1>3. CASE EnterDrain
  BY <1>1, <1>3, ContinueArms DEF EnterDrain
<1>4. CASE SkipFill \/ OrderReturns \/ FillReturns \/ UpdateReturns \/ OrderBookReturns
  BY <1>1, <1>2, <1>4, ContinueArms
     DEF SkipFill, OrderReturns, FillReturns, UpdateReturns, OrderBookReturns, ItemRuns
<1>5. CASE ReadOrderBook
  <2>1. CASE pc' = "on_orderbook"
    BY <2>1 DEF Armed
  <2>2. CASE pc' # "on_orderbook"
    BY <1>1, <1>2, <1>5, <2>2, ContinueArms DEF ReadOrderBook, ItemRuns
  <2> QED BY <2>1, <2>2
<1>6. CASE TimerReturns
  <2>1. queue' = queue /\ late' = late /\ pc = "on_timer"
    BY <1>6 DEF TimerReturns
  <2>2. CASE FireTimer
    BY <2>1, <2>2 DEF FireTimer, Armed
  <2>3. CASE Finish
    BY <1>1, <2>1, <2>3, FinishArms DEF Armed
  <2> QED BY <1>6, <2>2, <2>3 DEF TimerReturns
<1>7. CASE ReadTicker \/ ApplyReport \/ ApplyFill \/ RunCompletions \/ TouchMovedOrder
           \/ TickerReturns \/ Wake \/ Rethrow
  <2>1. pc' \notin {"idle", "flush", "on_timer"}
    BY <1>7 DEF ReadTicker, ApplyReport, ApplyFill, RunCompletions, TouchMovedOrder,
                TickerReturns, Wake, Rethrow
  <2> QED BY <2>1 DEF Armed
<1>8. ASSUME NEW e \in Exchanges, Flush(e)
      PROVE  Armed'
  BY <1>8, ArmedUntouched DEF Flush
<1>9. CASE Commit
  BY <1>9, ArmedUntouched DEF Commit
<1> QED BY <1>3, <1>4, <1>5, <1>6, <1>7, <1>8, <1>9 DEF Worker, CallbackReturns

\* While on_unhandled_exception never returns, no timer and no event that found no
\* timer's function running is left without a wakeup.
THEOREM WakeupsArmed ==
    ASSUME "swallow" \notin Recoveries
    PROVE  Spec => [](TimersArmed /\ EventsArmed)
<1>1. Init => Armed
  <2> SUFFICES ASSUME Init
               PROVE  Armed
    OBVIOUS
  <2>1. Len(queue) = 0 /\ timers = {} /\ slot = scheduledTime /\ pc = "idle" /\ slot \in Nat
    BY Constants DEF Init
  <2> QED BY <2>1 DEF Armed
<1>2. QueueInv /\ Armed /\ [Next]_vars => Armed'
  <2> SUFFICES ASSUME QueueInv, Armed, [Next]_vars
               PROVE  Armed'
    OBVIOUS
  <2>1. ~Swallow
    BY DEF Swallow
  <2>2. CASE UNCHANGED vars
    BY <2>2, ArmedUntouched
  <2> QED BY <2>1, <2>2, FeedArms, StrategyArms, WorkerArms DEF Next
<1>3. Armed => TimersArmed /\ EventsArmed
  BY DEF Armed, TimersArmed, EventsArmed
<1> QED BY <1>1, <1>2, <1>3, QueueInvInit, QueueInvStep, PTL DEF Spec

-----------------------------------------------------------------------------
(* Orders *)

\* Only place, which takes a new order, and flush_batches, which clears the batch it
\* sent, touch the batches of orders.
LEMMA BatchedUnsentStep == QueueInv /\ BatchedUnsent /\ [Next]_vars => BatchedUnsent'
<1> SUFFICES ASSUME QueueInv, BatchedUnsent, [Next]_vars
             PROVE  BatchedUnsent'
  OBVIOUS
<1>1. TypeOK
  BY DEF QueueInv
<1>2. ASSUME UNCHANGED <<toPlace, timesSent>>
      PROVE  BatchedUnsent'
  BY <1>2 DEF BatchedUnsent
<1>3. ASSUME NEW o \in Orders, Place(o)
      PROVE  BatchedUnsent'
  <2>1. timesSent[o] = 0 /\ Venue[o] \in Exchanges
    BY <1>1, <1>3, VenueAssumption DEF Place, Placed, TypeOK
  <2>2. /\ timesSent' = timesSent
        /\ \A e \in Exchanges : toPlace'[e] = IF e = Venue[o] THEN toPlace[e] \cup {o} ELSE toPlace[e]
    BY <1>1, <1>3, <2>1 DEF Place, TypeOK
  <2>3. ASSUME NEW e \in Exchanges, NEW p \in toPlace'[e]
        PROVE  Venue[p] = e /\ timesSent'[p] = 0
    <3>1. toPlace'[e] = IF e = Venue[o] THEN toPlace[e] \cup {o} ELSE toPlace[e]
      BY <2>2
    <3>2. p \in toPlace[e] \/ (p = o /\ e = Venue[o])
      BY <2>3, <3>1
    <3> QED BY <2>1, <2>2, <3>2 DEF BatchedUnsent
  <2> QED BY <2>2, <2>3 DEF BatchedUnsent
<1>4. ASSUME NEW e \in Exchanges, Flush(e)
      PROVE  BatchedUnsent'
  <2>1. \A f \in Exchanges : toPlace'[f] = IF f = e THEN {} ELSE toPlace[f]
    BY <1>1, <1>4 DEF Flush, TypeOK
  <2>2. \A o \in Orders : timesSent'[o] =
            IF o \in toPlace[e] /\ timesSent[o] < 2 THEN timesSent[o] + 1 ELSE timesSent[o]
    BY <1>4 DEF Flush
  <2>3. ASSUME NEW f \in Exchanges, NEW o \in toPlace'[f]
        PROVE  Venue[o] = f /\ timesSent'[o] = 0
    <3>1. f # e /\ o \in toPlace[f] /\ o \in Orders
      BY <1>1, <2>1, <2>3 DEF TypeOK
    <3>2. Venue[o] = f /\ timesSent[o] = 0 /\ o \notin toPlace[e]
      BY <3>1 DEF BatchedUnsent
    <3> QED BY <2>2, <3>1, <3>2
  <2>4. ASSUME NEW o \in Orders
        PROVE  timesSent'[o] <= 1
    <3>1. timesSent[o] \in 0 .. 2 /\ timesSent[o] <= 1
      BY <1>1 DEF TypeOK, BatchedUnsent
    <3>2. CASE o \in toPlace[e]
      <4>1. timesSent[o] = 0
        BY <3>2 DEF BatchedUnsent
      <4> QED BY <2>2, <4>1
    <3>3. CASE o \notin toPlace[e]
      BY <2>2, <3>1, <3>3
    <3> QED BY <3>2, <3>3
  <2> QED BY <2>3, <2>4 DEF BatchedUnsent
<1>5. CASE Feed \/ InitReturns \/ Wake \/ Rethrow \/ Swallow \/ Tick
  BY <1>2, <1>5 DEF Feed, OnEvent, OnMarketData, InitReturns, Wake, Rethrow, Swallow, Tick
<1>6. CASE StrategyCall
  BY <1>2, <1>3, <1>6 DEF StrategyCall, SetTimer, ClearTimer, Cancel
<1>7. CASE Worker
  BY <1>2, <1>4, <1>7
     DEF Worker, EnterDrain, ReadTicker, ReadOrderBook, ApplyReport, SkipFill, ApplyFill,
         RunCompletions, TouchMovedOrder, CallbackReturns, TickerReturns, OrderBookReturns,
         OrderReturns, FillReturns, UpdateReturns, TimerReturns, Commit
<1>8. CASE UNCHANGED vars
  BY <1>2, <1>8
<1> QED BY <1>5, <1>6, <1>7, <1>8 DEF Next

\* No order reaches batch_place twice, whatever the strategy, the exchanges and
\* on_unhandled_exception do between its place() and the end of the wake.
THEOREM OrdersSentOnce == Spec => []SentOnce
<1>1. Init => BatchedUnsent
  BY DEF Init, BatchedUnsent
<1>2. BatchedUnsent => SentOnce
  BY DEF BatchedUnsent, SentOnce
<1> QED BY <1>1, <1>2, BatchedUnsentStep, QueueInvInit, QueueInvStep, PTL DEF Spec

\* The locked part ends, if it ends, by starting to flush every exchange's batch.
LEMMA ContinueFlushes ==
    ASSUME NEW q, Continue(q) \/ FireTimer \/ Finish
    PROVE  /\ pc' \in {"item", "on_timer", "flush"}
           /\ pc' = "flush" => toFlush' = Exchanges
BY DEF Continue, FireTimer, Finish, StartFlush

\* A step that leaves the batches alone, and where on_scheduler is or that it has
\* something left to do.
LEMMA BatchesUntouched ==
    ASSUME BatchesFlushed, UNCHANGED <<toPlace, toCancel, eventTime, boot>>, pc # "idle",
           pc' # "idle", pc' = "flush" => toFlush' = Exchanges
    PROVE  BatchesFlushed'
BY DEF BatchesFlushed

LEMMA BatchesFlushedStep ==
    ASSUME ~WakeInInit, TypeOK, BatchesFlushed, [Next]_vars
    PROVE  BatchesFlushed'
<1>1. ASSUME UNCHANGED <<toPlace, toCancel, eventTime, boot, pc, toFlush>>
      PROVE  BatchesFlushed'
  BY <1>1 DEF BatchesFlushed
<1>2. ASSUME NEW o \in Orders, Place(o) \/ Cancel(o)
      PROVE  BatchesFlushed'
  <2>1. UNCHANGED <<eventTime, boot, pc, toFlush>>
    BY <1>2 DEF Place, Cancel
  <2>2. pc # "flush" /\ ~(pc = "idle" /\ eventTime # Immediately)
    BY <1>2 DEF Place, Cancel, StrategyRuns, InStrategy, BatchesFlushed
  <2> QED BY <2>1, <2>2 DEF BatchesFlushed
<1>3. CASE InitReturns
  BY <1>3 DEF InitReturns, BatchesFlushed
<1>4. CASE Wake
  BY <1>4 DEF Wake, BatchesFlushed
<1>5. CASE Feed \/ Tick \/ UNCHANGED vars
  BY <1>1, <1>5 DEF Feed, OnEvent, OnMarketData, Tick
<1>6. ASSUME NEW t \in Timer, SetTimer(t) \/ ClearTimer(t)
      PROVE  BatchesFlushed'
  BY <1>1, <1>6 DEF SetTimer, ClearTimer
<1>7. CASE EnterDrain \/ ReadOrderBook \/ SkipFill \/ OrderBookReturns \/ OrderReturns
           \/ FillReturns \/ UpdateReturns \/ TimerReturns
  <2>1. UNCHANGED <<toPlace, toCancel, eventTime, boot>> /\ pc # "idle"
    BY <1>7 DEF EnterDrain, ReadOrderBook, SkipFill, OrderBookReturns, OrderReturns, FillReturns,
                UpdateReturns, TimerReturns
  <2>2. pc' # "idle" /\ (pc' = "flush" => toFlush' = Exchanges)
    BY <1>7, ContinueFlushes
       DEF EnterDrain, ReadOrderBook, SkipFill, OrderBookReturns, OrderReturns, FillReturns,
           UpdateReturns, TimerReturns
  <2> QED BY <2>1, <2>2, BatchesUntouched
<1>8. CASE ReadTicker \/ ApplyReport \/ ApplyFill \/ RunCompletions \/ TouchMovedOrder
           \/ TickerReturns
  <2>1. /\ UNCHANGED <<toPlace, toCancel, eventTime, boot>>
        /\ pc # "idle" /\ pc' \notin {"idle", "flush"}
    BY <1>8 DEF ReadTicker, ApplyReport, ApplyFill, RunCompletions, TouchMovedOrder, TickerReturns
  <2> QED BY <2>1, BatchesUntouched
<1>9. CASE Rethrow \/ Swallow
  <2>1. /\ UNCHANGED <<toPlace, toCancel, eventTime, boot>>
        /\ pc # "idle" /\ pc' # "idle" /\ (pc' = "flush" => toFlush' = Exchanges)
    BY <1>9 DEF Rethrow, Swallow, StartFlush, MayThrow, InStrategy
  <2> QED BY <2>1, BatchesUntouched
<1>10. ASSUME NEW e \in Exchanges, Flush(e)
       PROVE  BatchesFlushed'
  <2>1. pc = "flush" /\ toFlush' = toFlush \ {e} /\ UNCHANGED <<eventTime, boot, pc>>
    BY <1>10 DEF Flush
  <2>2. \A f \in Exchanges :
          /\ toPlace'[f] = IF f = e THEN {} ELSE toPlace[f]
          /\ toCancel'[f] = IF f = e THEN {} ELSE toCancel[f]
    BY <1>10 DEF Flush, TypeOK
  <2> QED BY <2>1, <2>2 DEF BatchesFlushed
<1>11. CASE Commit
  BY <1>11 DEF Commit, BatchesFlushed
<1> QED BY <1>2, <1>3, <1>4, <1>5, <1>6, <1>7, <1>8, <1>9, <1>10, <1>11
        DEF Next, StrategyCall, Worker, CallbackReturns

\* When the scheduler waits for init() to return before it fires, every wake, also one
\* that ends in a swallowed exception, hands over all orders and cancels collected
\* before it ends.
THEOREM BatchesAreHandedOver ==
    ASSUME ~WakeInInit
    PROVE  Spec => []NoOrderLeftBehind
<1>1. Init => BatchesFlushed
  BY DEF Init, BatchesFlushed
<1>2. TypeOK /\ BatchesFlushed /\ [Next]_vars => BatchesFlushed'
  BY BatchesFlushedStep
<1>3. BatchesFlushed => NoOrderLeftBehind
  BY DEF BatchesFlushed, NoOrderLeftBehind
<1>4. QueueInv => TypeOK
  BY DEF QueueInv
<1> QED BY <1>1, <1>2, <1>3, <1>4, QueueInvInit, QueueInvStep, PTL DEF Spec

-----------------------------------------------------------------------------
(* The transaction *)

\* What a step does to the queue: an event is appended, market data are merged, the
\* head is marked as handed over, or the head is removed.
LEMMA QueueMoves ==
    ASSUME QueueInv, [Next]_vars
    PROVE  \/ queue' = queue
           \/ \E kind \in EventKinds :
                 queue' = Append(queue, [kind |-> kind, n |-> pushed + 1, moved |-> FALSE])
           \/ \E i \in Instruments, type \in MarketTypes :
                 queue' = Append(queue, [kind |-> "market", i |-> i, types |-> {type}])
           \/ \E i \in Instruments, type \in MarketTypes : \E k \in QueuedMarketItems(i) :
                 queue' = [queue EXCEPT ![k].types = @ \cup {type}]
           \/ queue # <<>> /\ Numbered(queue[1]) /\ HandOver
           \/ queue # <<>> /\ queue' = Tail(queue)
<1>1. CASE Feed
  <2>1. ASSUME NEW kind \in EventKinds, OnEvent(kind)
        PROVE  queue' = Append(queue, [kind |-> kind, n |-> pushed + 1, moved |-> FALSE])
    BY <2>1 DEF OnEvent
  <2>2. ASSUME NEW i \in Instruments, NEW type \in MarketTypes, OnMarketData(i, type)
        PROVE  \/ queue' = Append(queue, [kind |-> "market", i |-> i, types |-> {type}])
               \/ \E k \in QueuedMarketItems(i) : queue' = [queue EXCEPT ![k].types = @ \cup {type}]
    BY <2>2 DEF OnMarketData
  <2> QED BY <1>1, <2>1, <2>2 DEF Feed
<1>2. CASE StrategyCall \/ InitReturns \/ Wake \/ Rethrow \/ Swallow \/ Tick \/ UNCHANGED vars
  BY <1>2 DEF StrategyCall, SetTimer, ClearTimer, Place, Cancel, InitReturns, Wake, Rethrow,
              Swallow, Tick
<1>3. CASE EnterDrain \/ ReadTicker \/ RunCompletions \/ TouchMovedOrder \/ TickerReturns
           \/ TimerReturns \/ (\E e \in Exchanges : Flush(e)) \/ Commit
  BY <1>3 DEF EnterDrain, Continue, ReadTicker, RunCompletions, TouchMovedOrder, TickerReturns,
              TimerReturns, Flush, Commit
<1>4. CASE ReadOrderBook \/ SkipFill \/ OrderBookReturns \/ OrderReturns \/ FillReturns
           \/ UpdateReturns
  BY <1>4, HeadFacts
     DEF ReadOrderBook, SkipFill, OrderBookReturns, OrderReturns, FillReturns, UpdateReturns,
         Continue, ItemRuns
<1>5. CASE ApplyReport \/ ApplyFill
  BY <1>5, HeadFacts DEF ApplyReport, ApplyFill, ItemRuns, Numbered, Kinds
<1> QED BY <1>1, <1>2, <1>3, <1>4, <1>5 DEF Next, Worker, CallbackReturns

\* The kinds of the numbered events in a queue.
OfKinds(q, kinds) == \A k \in 1 .. Len(q) : Numbered(q[k]) => q[k].kind \in kinds

\* The queue holds no event of a kind that the exchanges do not emit.
LEMMA QueueOfKinds ==
    ASSUME QueueInv, OfKinds(queue, EventKinds), [Next]_vars
    PROVE  OfKinds(queue', EventKinds)
<1>1. queue \in Seq(Item) /\ pushed \in Nat /\ queue' \in Seq(Item)
  <2>1. QueueInv'
    BY QueueInvStep
  <2>2. queue' \in Seq(Item)
    BY <2>1 DEF QueueInv, TypeOK, Item
  <2> QED BY <2>2, QueueInvForm DEF QueueInv
<1>2. ASSUME NEW e, queue' = Append(queue, e), Numbered(e) => e.kind \in EventKinds
      PROVE  OfKinds(queue', EventKinds)
  <2>1. /\ Len(queue') = Len(queue) + 1
        /\ \A k \in 1 .. Len(queue) : queue'[k] = queue[k]
        /\ queue'[Len(queue) + 1] = e
    BY <1>1, <1>2
  <2>2. \A k \in 1 .. Len(queue') : k \in 1 .. Len(queue) \/ k = Len(queue) + 1
    BY <1>1, <2>1
  <2> QED BY <1>2, <2>1, <2>2 DEF OfKinds
<1>3. ASSUME NEW i \in Instruments, NEW type \in MarketTypes, NEW k \in QueuedMarketItems(i),
             queue' = [queue EXCEPT ![k].types = @ \cup {type}]
      PROVE  OfKinds(queue', EventKinds)
  <2>1. k \in 1 .. Len(queue) /\ queue[k] \in Item /\ queue[k].kind = "market"
    BY <1>1 DEF QueuedMarketItems
  <2>2. queue[k] \in MarketItem
    BY <2>1, ItemKinds
  <2>3. [queue[k] EXCEPT !.types = @ \cup {type}].kind = "market"
    BY <2>1, <2>2 DEF MarketItem
  <2>4. /\ Len(queue') = Len(queue)
        /\ \A j \in 1 .. Len(queue) : j # k => queue'[j] = queue[j]
        /\ queue'[k].kind = "market"
    BY <1>1, <1>3, <2>1, <2>3
  <2> QED BY <2>4 DEF OfKinds, Numbered, Kinds
<1>4. CASE queue # <<>> /\ Numbered(queue[1]) /\ HandOver
  <2>1. 1 \in 1 .. Len(queue) /\ queue[1] \in NumberedItem
    BY <1>1, <1>4, ItemKinds
  <2>2. [queue[1] EXCEPT !.moved = TRUE].kind = queue[1].kind
    BY <2>1 DEF NumberedItem
  <2>3. /\ Len(queue') = Len(queue)
        /\ \A j \in 1 .. Len(queue) : j # 1 => queue'[j] = queue[j]
        /\ queue'[1].kind = queue[1].kind
    BY <1>1, <1>4, <2>1, <2>2 DEF HandOver
  <2> QED BY <2>3 DEF OfKinds, Numbered
<1>5. CASE queue # <<>> /\ queue' = Tail(queue)
  <2>1. Len(queue') = Len(queue) - 1 /\ \A k \in 1 .. Len(queue') : queue'[k] = queue[k + 1]
    BY <1>1, <1>5, HeadTailProperties
  <2>2. \A k \in 1 .. Len(queue') : k + 1 \in 1 .. Len(queue)
    BY <1>1, <2>1
  <2> QED BY <2>1, <2>2 DEF OfKinds
<1>6. \A i, types : ~Numbered([kind |-> "market", i |-> i, types |-> types])
  BY DEF Numbered, Kinds
<1> QED BY <1>2, <1>3, <1>4, <1>5, <1>6, QueueMoves

\* The last event applied is the next one, or is applied once more.
LEMMA AppliedNumbers ==
    ASSUME NEW h \in Nat, NEW n \in {h, h + 1}, n \in 1 .. MaxEvents
    PROVE  1 .. n = (1 .. h) \cup {n}
BY BoundsAssumption

LEMMA AppliedIsStoredStep ==
    ASSUME "swallow" \notin Recoveries, QueueInv, AppliedIsStored, [Next]_vars
    PROVE  AppliedIsStored'
<1> DEFINE Stored == committed \cup skipped \cup pending
           Unstored == IF pc = "on_fill" THEN {handled} ELSE {}
           StoredUp == "update" \notin EventKinds /\ pc # "dead" => 1 .. handled = Stored \cup Unstored
<1>1. OfKinds(queue', EventKinds)
  BY QueueOfKinds DEF AppliedIsStored, OfKinds
<1>2. handled \in Nat /\ pending \subseteq 1 .. MaxEvents
  BY QueueInvForm DEF QueueInv, TypeOK
<1>3. StoredUp
  BY DEF AppliedIsStored
<1>4. SUFFICES (pc' = "idle" => pending' = {}) /\ StoredUp'
  BY <1>1 DEF AppliedIsStored, OfKinds
<1>5. ASSUME UNCHANGED storeVars, pc' = pc \/ (pc # "on_fill" /\ pc' \notin {"idle", "on_fill"}),
             pc = "dead" => pc' = "dead"
      PROVE  (pc' = "idle" => pending' = {}) /\ StoredUp'
  BY <1>3, <1>5 DEF AppliedIsStored
<1>6. CASE Feed \/ StrategyCall \/ InitReturns \/ Tick \/ UNCHANGED vars
  BY <1>5, <1>6 DEF Feed, OnEvent, OnMarketData, StrategyCall, SetTimer, ClearTimer, Place, Cancel,
                    InitReturns, Tick
<1>7. CASE Wake \/ ReadTicker \/ TickerReturns \/ TouchMovedOrder \/ (\E e \in Exchanges : Flush(e))
  BY <1>5, <1>7 DEF Wake, ReadTicker, TickerReturns, TouchMovedOrder, Flush
<1>8. CASE EnterDrain \/ ReadOrderBook \/ OrderBookReturns \/ OrderReturns \/ UpdateReturns
           \/ TimerReturns
  <2>1. pc \notin {"idle", "on_fill", "dead"} /\ pc' \notin {"idle", "on_fill"}
    BY <1>8, ContinueFlushes
       DEF EnterDrain, ReadOrderBook, OrderBookReturns, OrderReturns, UpdateReturns, TimerReturns
  <2>2. UNCHANGED storeVars
    BY <1>8 DEF EnterDrain, ReadOrderBook, OrderBookReturns, OrderReturns, UpdateReturns,
                TimerReturns
  <2> QED BY <1>5, <2>1, <2>2
<1>9. CASE ApplyReport \/ SkipFill \/ ApplyFill \/ RunCompletions
  <2>1. /\ pc = "item" /\ Head(queue) = queue[1] /\ Numbered(queue[1])
        /\ queue[1].n \in 1 .. MaxEvents /\ handled' = queue[1].n
        /\ 1 \in 1 .. Len(queue)
    <3>1. queue \in Seq(Item)
      BY QueueInvForm DEF QueueInv
    <3> QED BY <1>9, <3>1, HeadFacts
            DEF ApplyReport, SkipFill, ApplyFill, RunCompletions, ItemRuns, Numbered, Kinds
  <2>2. handled' \in {handled, handled + 1}
    BY StepAppliesNext
  <2>3. 1 .. handled' = (1 .. handled) \cup {handled'}
    BY <1>2, <2>1, <2>2, AppliedNumbers
  <2>4. CASE RunCompletions
    <3>1. "update" \in EventKinds
      BY <2>1, <2>4 DEF RunCompletions, AppliedIsStored
    <3> QED BY <2>4, <3>1 DEF RunCompletions
  <2>5. CASE ApplyReport
    <3>1. pending' = pending \cup {handled'} /\ pc' = "on_order" /\ UNCHANGED <<skipped, committed>>
      BY <2>5 DEF ApplyReport
    <3> QED BY <1>3, <2>1, <2>3, <3>1
  <2>6. CASE SkipFill
    <3>1. /\ skipped' = skipped \cup {handled'} /\ pc' \notin {"idle", "on_fill"}
          /\ UNCHANGED <<pending, committed>>
      BY <2>6, ContinueFlushes DEF SkipFill
    <3> QED BY <1>3, <2>1, <2>3, <3>1
  <2>7. CASE ApplyFill
    <3>1. pc' = "on_fill" /\ UNCHANGED <<skipped, pending, committed>>
      BY <2>7 DEF ApplyFill
    <3> QED BY <1>3, <2>1, <2>3, <3>1
  <2> QED BY <1>9, <2>4, <2>5, <2>6, <2>7
<1>10. CASE FillReturns
  <2>1. /\ pc = "on_fill" /\ pc' \notin {"idle", "on_fill"}
        /\ pending' = pending \cup {handled} /\ UNCHANGED <<handled, skipped, committed>>
    BY <1>10, HeadFacts, ContinueFlushes DEF FillReturns, ItemRuns
  <2> QED BY <1>3, <2>1
<1>11. CASE Commit
  <2>1. /\ pc = "flush" /\ pc' = "idle" /\ pending' = {}
        /\ committed' = committed \cup pending /\ UNCHANGED <<handled, skipped>>
    BY <1>11 DEF Commit
  <2> QED BY <1>3, <2>1
<1>12. CASE Rethrow
  BY <1>12 DEF Rethrow
<1> QED BY <1>6, <1>7, <1>8, <1>9, <1>10, <1>11, <1>12 DEF Next, Worker, CallbackReturns, Swallow

\* While on_unhandled_exception never returns, on_scheduler leaves no open transaction,
\* and every report and fill it applied is in a committed one.
THEOREM AppliedEventsAreCommitted ==
    ASSUME "swallow" \notin Recoveries
    PROVE  Spec => []AppliedIsCommitted
<1>1. Init => AppliedIsStored
  <2> SUFFICES ASSUME Init
               PROVE  AppliedIsStored
    OBVIOUS
  <2>1. Len(queue) = 0 /\ handled = 0 /\ pc = "idle" /\ 1 .. 0 = {}
    BY DEF Init
  <2> QED BY <2>1 DEF Init, AppliedIsStored
<1>2. QueueInv /\ AppliedIsStored /\ [Next]_vars => AppliedIsStored'
  BY AppliedIsStoredStep
<1>3. AppliedIsStored => AppliedIsCommitted
  BY DEF AppliedIsStored, AppliedIsCommitted
<1> QED BY <1>1, <1>2, <1>3, QueueInvInit, QueueInvStep, PTL DEF Spec

-----------------------------------------------------------------------------
(* Market data *)

MarketOf(item, i) == item.kind = "market" /\ item.i = i

\* The parts of MarketInv as predicates of a queue, of what is unseen and of where
\* on_scheduler is.
Covered(q, u) ==
    \A i \in Instruments : \A type \in u[i] :
        \E k \in 1 .. Len(q) : MarketOf(q[k], i) /\ type \in q[k].types
OneEach(q) ==
    \A i \in Instruments : \A j, k \in 1 .. Len(q) :
        MarketOf(q[j], i) /\ MarketOf(q[k], i) => j = k
HeadRead(p, q, u) ==
    /\ p \in {"on_ticker", "book", "on_orderbook"} => "ticker" \notin u[q[1].i]
    /\ p = "on_orderbook" => "orderbook" \notin u[q[1].i]

LEMMA MarketInvForm ==
    ASSUME QueueInv
    PROVE  MarketInv <=> Covered(queue, unseen) /\ OneEach(queue) /\ HeadRead(pc, queue, unseen)
<1>1. pc \in ItemRuns => Head(queue) = queue[1]
  BY HeadFacts
<1>2. UnseenIsQueued <=> Covered(queue, unseen)
  BY DEF UnseenIsQueued, Covered, QueuedMarketItems, MarketOf
<1>3. (\A i \in Instruments : \A j, k \in QueuedMarketItems(i) : j = k) <=> OneEach(queue)
  BY DEF OneEach, QueuedMarketItems, MarketOf
<1> QED BY <1>1, <1>2, <1>3 DEF MarketInv, HeadRead, ItemRuns

LEMMA MarketInvPrimed ==
    ASSUME QueueInv', Covered(queue', unseen'), OneEach(queue'), HeadRead(pc', queue', unseen')
    PROVE  MarketInv'
<1>1. pc' \in ItemRuns => Head(queue') = queue'[1]
  <2>1. queue' \in Seq(Item)
    BY DEF QueueInv, TypeOK, Item
  <2> QED BY <2>1
<1>2. UnseenIsQueued'
  BY DEF UnseenIsQueued, Covered, QueuedMarketItems, MarketOf
<1>3. (\A i \in Instruments : \A j, k \in QueuedMarketItems(i) : j = k)'
  BY DEF OneEach, QueuedMarketItems, MarketOf
<1> QED BY <1>1, <1>2, <1>3 DEF MarketInv, HeadRead, ItemRuns

\* Items that stay where they are and keep what they announce, or announce more.
LEMMA KeptItems ==
    ASSUME NEW q \in Seq(Item), NEW r \in Seq(Item), Len(r) = Len(q), OneEach(q),
           \A k \in 1 .. Len(q) :
              /\ r[k].kind = q[k].kind
              /\ q[k].kind = "market" => r[k].i = q[k].i /\ q[k].types \subseteq r[k].types
    PROVE  /\ OneEach(r)
           /\ \A u : Covered(q, u) => Covered(r, u)
<1>1. \A i : \A k \in 1 .. Len(q) : MarketOf(r[k], i) <=> MarketOf(q[k], i)
  BY DEF MarketOf
<1>2. \A i : \A k \in 1 .. Len(q) : MarketOf(q[k], i) => q[k].types \subseteq r[k].types
  BY DEF MarketOf
<1>3. OneEach(r)
  BY <1>1 DEF OneEach
<1>4. ASSUME NEW u, Covered(q, u)
      PROVE  Covered(r, u)
  BY <1>1, <1>2, <1>4 DEF Covered
<1> QED BY <1>3, <1>4

\* A new item is not about an instrument that has one.
LEMMA AppendedItem ==
    ASSUME NEW q \in Seq(Item), NEW e \in Item, OneEach(q),
           \A k \in 1 .. Len(q) : \A i \in Instruments : ~(MarketOf(e, i) /\ MarketOf(q[k], i))
    PROVE  /\ OneEach(Append(q, e))
           /\ \A u : Covered(q, u) => Covered(Append(q, e), u)
           /\ q # <<>> => Append(q, e)[1] = q[1]
           /\ Len(q) + 1 \in 1 .. Len(Append(q, e)) /\ Append(q, e)[Len(q) + 1] = e
<1> DEFINE r == Append(q, e)
<1>1. Len(q) \in Nat /\ (q # <<>> => 1 \in 1 .. Len(q))
  OBVIOUS
<1>2. /\ Len(r) = Len(q) + 1
      /\ \A k \in 1 .. Len(q) : r[k] = q[k]
      /\ r[Len(q) + 1] = e
  BY AppendProperties
<1> HIDE DEF r
<1>3. \A k \in 1 .. Len(r) : (k \in 1 .. Len(q) /\ r[k] = q[k]) \/ (k = Len(q) + 1 /\ r[k] = e)
  BY <1>1, <1>2
<1>4. OneEach(r)
  BY <1>3 DEF OneEach
<1>5. \A k \in 1 .. Len(q) : k \in 1 .. Len(r) /\ r[k] = q[k]
  BY <1>1, <1>2
<1>6. ASSUME NEW u, Covered(q, u)
      PROVE  Covered(r, u)
  BY <1>5, <1>6 DEF Covered
<1>7. Len(q) + 1 \in 1 .. Len(r)
  BY <1>1, <1>2
<1> QED BY <1>1, <1>2, <1>4, <1>6, <1>7 DEF r

\* Removing a head whose instrument has nothing unseen, or that is no market data.
LEMMA RemovedItem ==
    ASSUME NEW q \in Seq(Item), NEW u, q # <<>>, OneEach(q), Covered(q, u),
           q[1].kind = "market" => u[q[1].i] = {}
    PROVE  OneEach(Tail(q)) /\ Covered(Tail(q), u)
<1> DEFINE r == Tail(q)
<1>1. Len(q) \in Nat \ {0}
  OBVIOUS
<1>2. Len(r) = Len(q) - 1 /\ \A k \in 1 .. Len(r) : r[k] = q[k + 1]
  BY HeadTailProperties
<1> HIDE DEF r
<1>3. \A k \in 1 .. Len(r) : k + 1 \in 1 .. Len(q) /\ r[k] = q[k + 1]
  BY <1>1, <1>2
<1>4. OneEach(r)
  <2> SUFFICES ASSUME NEW i \in Instruments, NEW j \in 1 .. Len(r), NEW k \in 1 .. Len(r),
                      MarketOf(r[j], i), MarketOf(r[k], i)
               PROVE  j = k
    BY DEF OneEach
  <2>1. j + 1 = k + 1
    BY <1>3 DEF OneEach
  <2> QED BY <2>1
<1>5. Covered(r, u)
  <2> SUFFICES ASSUME NEW i \in Instruments, NEW type \in u[i]
               PROVE  \E k \in 1 .. Len(r) : MarketOf(r[k], i) /\ type \in r[k].types
    BY DEF Covered
  <2>1. PICK k \in 1 .. Len(q) : MarketOf(q[k], i) /\ type \in q[k].types
    BY DEF Covered
  <2>2. k # 1
    BY <2>1 DEF MarketOf
  <2>3. k - 1 \in 1 .. Len(r) /\ r[k - 1] = q[k]
    BY <1>1, <1>2, <2>2
  <2> QED BY <2>1, <2>3
<1> QED BY <1>4, <1>5 DEF r

\* What heads the queue is the only market data of its instrument: what it does not
\* announce is not unseen.
LEMMA HeadAnnounces ==
    ASSUME NEW q \in Seq(Item), NEW u, q # <<>>, OneEach(q), Covered(q, u), q[1].kind = "market"
    PROVE  q[1].i \in Instruments /\ u[q[1].i] \subseteq q[1].types
<1>1. 1 \in 1 .. Len(q) /\ q[1] \in Item
  OBVIOUS
<1>2. q[1].i \in Instruments
  BY <1>1, ItemKinds DEF MarketItem
<1>3. ASSUME NEW type \in u[q[1].i]
      PROVE  type \in q[1].types
  <2>1. PICK k \in 1 .. Len(q) : MarketOf(q[k], q[1].i) /\ type \in q[k].types
    BY <1>2 DEF Covered
  <2>2. k = 1
    BY <1>1, <1>2, <2>1 DEF OneEach, MarketOf
  <2> QED BY <2>1, <2>2
<1> QED BY <1>2, <1>3

LEMMA OnEventKeepsMarket ==
    ASSUME QueueInv, MarketInv, QueueInv', NEW kind \in EventKinds, OnEvent(kind)
    PROVE  MarketInv'
<1> DEFINE e == [kind |-> kind, n |-> pushed + 1, moved |-> FALSE]
<1>1. /\ queue \in Seq(Item) /\ pushed \in Nat
      /\ Covered(queue, unseen) /\ OneEach(queue) /\ HeadRead(pc, queue, unseen)
  BY MarketInvForm, QueueInvForm DEF QueueInv
<1>2. queue' = Append(queue, e) /\ unseen' = unseen /\ pc' = pc
  BY DEF OnEvent
<1>3. e \in Item /\ \A i : ~MarketOf(e, i)
  BY <1>1, Constants, ModeAssumption DEF OnEvent, NumberedItem, Item, MarketOf, Kinds
<1>4. pc \in {"on_ticker", "book", "on_orderbook"} => queue # <<>>
  BY HeadFacts DEF ItemRuns
<1> HIDE DEF e
<1>5. HeadRead(pc', queue', unseen')
  BY <1>1, <1>2, <1>3, <1>4, AppendedItem DEF HeadRead
<1>6. OneEach(queue') /\ Covered(queue', unseen')
  BY <1>1, <1>2, <1>3, AppendedItem
<1> QED BY <1>5, <1>6, MarketInvPrimed

LEMMA OnMarketDataKeepsMarket ==
    ASSUME QueueInv, MarketInv, QueueInv',
           NEW i \in Instruments, NEW type \in MarketTypes, OnMarketData(i, type)
    PROVE  MarketInv'
<1>1. /\ queue \in Seq(Item) /\ queue' \in Seq(Item)
      /\ unseen \in [Instruments -> SUBSET MarketTypes]
      /\ Covered(queue, unseen) /\ OneEach(queue) /\ HeadRead(pc, queue, unseen)
  BY MarketInvForm, QueueInvForm DEF QueueInv, TypeOK, Item
<1>2. pc' = pc
  BY DEF OnMarketData
<1>3. pc \in {"on_ticker", "book", "on_orderbook"} =>
          /\ queue # <<>> /\ Head(queue) = queue[1] /\ 1 \in 1 .. Len(queue)
          /\ queue[1].kind = "market" /\ queue[1].i \in Instruments
  BY <1>1, HeadFacts, HeadAnnounces DEF ItemRuns, QueueInv, HeadRuns
<1>4. /\ \A j \in Instruments : unseen[j] \subseteq unseen'[j]
      /\ \A j \in Instruments : unseen'[j] \subseteq unseen[j] \cup (IF j = i THEN {type} ELSE {})
      /\ PastReading(i, type) => unseen' = unseen
  BY <1>1 DEF OnMarketData
<1>5. HeadRead(pc, queue, unseen')
  <2>1. ASSUME pc \in {"on_ticker", "book", "on_orderbook"}
        PROVE  "ticker" \notin unseen'[queue[1].i]
    BY <1>1, <1>3, <1>4, <2>1 DEF PastReading, HeadRead
  <2>2. ASSUME pc = "on_orderbook"
        PROVE  "orderbook" \notin unseen'[queue[1].i]
    BY <1>1, <1>3, <1>4, <2>2 DEF PastReading, HeadRead, MarketTypes
  <2> QED BY <2>1, <2>2 DEF HeadRead
<1>6. ASSUME NEW r \in Seq(Item), Covered(r, unseen), OneEach(r),
             NEW k \in 1 .. Len(r), MarketOf(r[k], i), type \in r[k].types
      PROVE  Covered(r, unseen')
  BY <1>4, <1>6 DEF Covered
<1>7. CASE QueuedMarketItems(i) = {}
  <2> DEFINE e == [kind |-> "market", i |-> i, types |-> {type}]
  <2>1. /\ e \in Item /\ MarketOf(e, i) /\ type \in e.types
        /\ \A j : MarketOf(e, j) => j = i
    BY DEF MarketItem, Item, MarketOf
  <2>2. queue' = Append(queue, e)
    BY <1>7 DEF OnMarketData
  <2>3. \A k \in 1 .. Len(queue) : \A j \in Instruments : ~(MarketOf(e, j) /\ MarketOf(queue[k], j))
    BY <1>7, <2>1 DEF QueuedMarketItems, MarketOf
  <2> HIDE DEF e
  <2>4. /\ OneEach(queue') /\ Covered(queue', unseen)
        /\ queue # <<>> => queue'[1] = queue[1]
        /\ Len(queue) + 1 \in 1 .. Len(queue') /\ queue'[Len(queue) + 1] = e
    BY <1>1, <2>1, <2>2, <2>3, AppendedItem
  <2>5. Covered(queue', unseen')
    BY <1>1, <1>6, <2>1, <2>4
  <2>6. HeadRead(pc', queue', unseen')
    BY <1>2, <1>3, <1>5, <2>4 DEF HeadRead
  <2> QED BY <2>4, <2>5, <2>6, MarketInvPrimed
<1>8. CASE QueuedMarketItems(i) # {}
  <2>1. PICK k \in QueuedMarketItems(i) : queue' = [queue EXCEPT ![k].types = @ \cup {type}]
    BY <1>8 DEF OnMarketData
  <2> DEFINE e == [queue[k] EXCEPT !.types = @ \cup {type}]
  <2>2. k \in 1 .. Len(queue) /\ MarketOf(queue[k], i) /\ queue[k] \in MarketItem
    <3>1. k \in 1 .. Len(queue) /\ MarketOf(queue[k], i) /\ queue[k] \in Item
      BY <1>1, <2>1 DEF QueuedMarketItems, MarketOf
    <3> QED BY <3>1, ItemKinds DEF MarketOf
  <2>3. /\ e \in Item /\ MarketOf(e, i) /\ e.i = queue[k].i
        /\ type \in e.types /\ queue[k].types \subseteq e.types
    BY <2>2 DEF MarketItem, Item, MarketOf
  <2>4. queue' = [queue EXCEPT ![k] = e]
    BY <2>1
  <2> HIDE DEF e
  <2>5. /\ Len(queue') = Len(queue)
        /\ \A j \in 1 .. Len(queue) : queue'[j] = IF j = k THEN e ELSE queue[j]
    BY <1>1, <2>2, <2>3, <2>4, ExceptSeq
  <2>6. \A j \in 1 .. Len(queue) :
            /\ queue'[j].kind = queue[j].kind
            /\ queue[j].kind = "market" =>
                  queue'[j].i = queue[j].i /\ queue[j].types \subseteq queue'[j].types
    BY <2>2, <2>3, <2>5 DEF MarketOf
  <2>7. OneEach(queue') /\ Covered(queue', unseen)
    BY <1>1, <2>5, <2>6, KeptItems
  <2>8. k \in 1 .. Len(queue') /\ queue'[k] = e
    BY <2>2, <2>5
  <2>9. Covered(queue', unseen')
    BY <1>1, <1>6, <2>3, <2>7, <2>8
  <2>10. HeadRead(pc', queue', unseen')
    BY <1>2, <1>3, <1>5, <2>6 DEF HeadRead
  <2> QED BY <2>7, <2>9, <2>10, MarketInvPrimed
<1> QED BY <1>7, <1>8

\* The event being executed is read: what it does not announce is not unseen, and what
\* it announces has just been read.
LEMMA ReadsKeepMarket ==
    ASSUME QueueInv, MarketInv, QueueInv',
           ReadTicker \/ (ReadOrderBook /\ "orderbook" \in Head(queue).types)
    PROVE  MarketInv'
<1>1. /\ queue \in Seq(Item) /\ unseen \in [Instruments -> SUBSET MarketTypes]
      /\ Covered(queue, unseen) /\ OneEach(queue) /\ HeadRead(pc, queue, unseen)
  BY MarketInvForm, QueueInvForm DEF QueueInv, TypeOK
<1>2. /\ queue # <<>> /\ Head(queue) = queue[1] /\ queue[1].kind = "market"
      /\ queue' = queue
  BY HeadFacts DEF ReadTicker, ReadOrderBook, ItemRuns, QueueInv, HeadRuns
<1>3. queue[1].i \in Instruments /\ unseen[queue[1].i] \subseteq queue[1].types
  BY <1>1, <1>2, HeadAnnounces
<1>4. ASSUME \A j \in Instruments : unseen'[j] \subseteq unseen[j]
      PROVE  Covered(queue', unseen')
  BY <1>1, <1>2, <1>4 DEF Covered
<1>5. CASE ReadTicker
  <2>1. /\ pc' \in {"on_ticker", "book"}
        /\ "ticker" \notin unseen'[queue[1].i]
        /\ \A j \in Instruments : unseen'[j] \subseteq unseen[j]
    BY <1>1, <1>2, <1>3, <1>5 DEF ReadTicker
  <2>2. HeadRead(pc', queue', unseen')
    BY <1>2, <2>1 DEF HeadRead
  <2> QED BY <1>1, <1>2, <1>4, <2>1, <2>2, MarketInvPrimed
<1>6. CASE ReadOrderBook /\ "orderbook" \in Head(queue).types
  <2>1. /\ pc = "book" /\ pc' = "on_orderbook"
        /\ unseen' = [unseen EXCEPT ![queue[1].i] = @ \ {"orderbook"}]
    BY <1>2, <1>6 DEF ReadOrderBook
  <2>2. /\ unseen'[queue[1].i] = unseen[queue[1].i] \ {"orderbook"}
        /\ \A j \in Instruments : unseen'[j] \subseteq unseen[j]
    BY <1>1, <1>3, <2>1
  <2>3. HeadRead(pc', queue', unseen')
    BY <1>1, <1>2, <2>1, <2>2 DEF HeadRead
  <2> QED BY <1>1, <1>2, <1>4, <2>2, <2>3, MarketInvPrimed
<1> QED BY <1>5, <1>6

\* When an event goes, nothing of what it announced is unseen.
LEMMA PopKeepsMarket ==
    ASSUME QueueInv, MarketInv, QueueInv',
           \/ ReadOrderBook /\ "orderbook" \notin Head(queue).types
           \/ OrderBookReturns \/ OrderReturns \/ FillReturns \/ UpdateReturns \/ SkipFill
    PROVE  MarketInv'
<1>1. /\ queue \in Seq(Item) /\ unseen \in [Instruments -> SUBSET MarketTypes]
      /\ Covered(queue, unseen) /\ OneEach(queue) /\ HeadRead(pc, queue, unseen)
  BY MarketInvForm, QueueInvForm DEF QueueInv, TypeOK
<1>2. /\ pc \in ItemRuns /\ queue # <<>> /\ Head(queue) = queue[1] /\ queue[1] \in Item
      /\ unseen' = unseen /\ Continue(Tail(queue))
  BY HeadFacts
     DEF ReadOrderBook, OrderBookReturns, OrderReturns, FillReturns, UpdateReturns, SkipFill, ItemRuns
<1>3. queue' = Tail(queue) /\ pc' \in {"item", "on_timer", "flush"}
  BY <1>2, ContinueTypes DEF QueueInv
<1>4. queue[1].kind = "market" => unseen[queue[1].i] = {}
  <2> SUFFICES ASSUME queue[1].kind = "market"
               PROVE  "ticker" \notin unseen[queue[1].i] /\ "orderbook" \notin unseen[queue[1].i]
    <3>1. queue[1].kind = "market" => unseen[queue[1].i] \subseteq MarketTypes
      BY <1>1, <1>2, HeadAnnounces
    <3> QED BY <3>1 DEF MarketTypes
  <2>1. ~Numbered(queue[1])
    BY <1>2, ItemKinds
  <2>2. pc \in {"book", "on_orderbook"}
    BY <1>2, <2>1, HeadFacts
       DEF ReadOrderBook, OrderBookReturns, OrderReturns, FillReturns, UpdateReturns, SkipFill,
           Numbered, Kinds
  <2>3. CASE pc = "on_orderbook"
    BY <1>1, <2>3 DEF HeadRead
  <2>4. CASE pc = "book"
    <3>1. "orderbook" \notin queue[1].types
      BY <1>2, <2>4 DEF ReadOrderBook, OrderBookReturns, OrderReturns, FillReturns, UpdateReturns,
                        SkipFill
    <3>2. unseen[queue[1].i] \subseteq queue[1].types
      BY <1>1, <1>2, HeadAnnounces
    <3> QED BY <1>1, <2>4, <3>1, <3>2 DEF HeadRead
  <2> QED BY <2>2, <2>3, <2>4
<1>5. OneEach(queue') /\ Covered(queue', unseen')
  BY <1>1, <1>2, <1>3, <1>4, RemovedItem
<1>6. HeadRead(pc', queue', unseen')
  BY <1>3 DEF HeadRead
<1> QED BY <1>5, <1>6, MarketInvPrimed

LEMMA HandOverKeepsMarket ==
    ASSUME QueueInv, MarketInv, QueueInv', ApplyReport \/ ApplyFill
    PROVE  MarketInv'
<1>1. /\ queue \in Seq(Item) /\ queue' \in Seq(Item)
      /\ Covered(queue, unseen) /\ OneEach(queue)
  BY MarketInvForm, QueueInvForm DEF QueueInv, TypeOK, Item
<1>2. /\ queue # <<>> /\ 1 \in 1 .. Len(queue) /\ Numbered(queue[1]) /\ queue[1] \in Item
      /\ HandOver /\ unseen' = unseen /\ pc' \in {"on_order", "on_fill"}
  BY <1>1, HeadFacts DEF ApplyReport, ApplyFill, ItemRuns, Numbered, Kinds
<1> DEFINE e == [queue[1] EXCEPT !.moved = TRUE]
<1>3. e \in Item /\ e.kind = queue[1].kind /\ e.kind # "market"
  BY <1>2, ItemKinds DEF NumberedItem, Item, Numbered, Kinds
<1>4. queue' = [queue EXCEPT ![1] = e]
  BY <1>2 DEF HandOver
<1> HIDE DEF e
<1>5. /\ Len(queue') = Len(queue)
      /\ \A j \in 1 .. Len(queue) : queue'[j] = IF j = 1 THEN e ELSE queue[j]
  BY <1>1, <1>2, <1>3, <1>4, ExceptSeq
<1>6. OneEach(queue') /\ Covered(queue', unseen')
  <2>1. \A j \in 1 .. Len(queue) :
            /\ queue'[j].kind = queue[j].kind
            /\ queue[j].kind = "market" =>
                  queue'[j].i = queue[j].i /\ queue[j].types \subseteq queue'[j].types
    BY <1>3, <1>5
  <2> QED BY <1>1, <1>2, <1>5, <2>1, KeptItems
<1>7. HeadRead(pc', queue', unseen')
  BY <1>2 DEF HeadRead
<1> QED BY <1>6, <1>7, MarketInvPrimed

LEMMA MarketInvStep ==
    ASSUME QueueInv, MarketInv, [Next]_vars
    PROVE  MarketInv'
<1>1. QueueInv'
  BY QueueInvStep
<1>2. Covered(queue, unseen) /\ OneEach(queue) /\ HeadRead(pc, queue, unseen)
  BY MarketInvForm
<1>3. ASSUME UNCHANGED <<queue, unseen>>,
             \/ pc' = pc
             \/ pc' \notin {"on_ticker", "book", "on_orderbook"}
             \/ pc = "on_ticker" /\ pc' = "book"
      PROVE  MarketInv'
  <2>1. HeadRead(pc', queue', unseen')
    BY <1>2, <1>3 DEF HeadRead
  <2>2. Covered(queue', unseen') /\ OneEach(queue')
    BY <1>2, <1>3
  <2> QED BY <1>1, <2>1, <2>2, MarketInvPrimed
<1>4. CASE Feed
  BY <1>1, <1>4, OnEventKeepsMarket, OnMarketDataKeepsMarket DEF Feed
<1>5. CASE StrategyCall \/ InitReturns \/ Wake \/ Rethrow \/ Swallow \/ Tick \/ UNCHANGED vars
  BY <1>3, <1>5 DEF StrategyCall, SetTimer, ClearTimer, Place, Cancel, InitReturns, Wake, Rethrow,
                    Swallow, StartFlush, Tick
<1>6. CASE EnterDrain \/ TimerReturns
  <2>1. /\ UNCHANGED <<queue, unseen>> /\ pc' \in {"item", "on_timer", "flush"}
    BY <1>6, ContinueFlushes DEF EnterDrain, Continue, TimerReturns
  <2> QED BY <1>3, <2>1
<1>7. CASE RunCompletions \/ TouchMovedOrder \/ TickerReturns \/ (\E e \in Exchanges : Flush(e)) \/ Commit
  BY <1>3, <1>7 DEF RunCompletions, TouchMovedOrder, TickerReturns, Flush, Commit
<1>8. CASE ReadTicker \/ ReadOrderBook \/ OrderBookReturns \/ OrderReturns \/ FillReturns
           \/ UpdateReturns \/ SkipFill
  BY <1>1, <1>8, ReadsKeepMarket, PopKeepsMarket
<1>9. CASE ApplyReport \/ ApplyFill
  BY <1>1, <1>9, HandOverKeepsMarket
<1> QED BY <1>4, <1>5, <1>6, <1>7, <1>8, <1>9 DEF Next, Worker, CallbackReturns

\* Market data are never forgotten, for any instruments, interleavings and exceptions:
\* what the strategy has yet to read has a queued event that will make it read it,
\* also after it was merged into the event being executed.
THEOREM MarketDataAreRead == Spec => []UnseenIsQueued
<1>1. Init => MarketInv
  <2> SUFFICES ASSUME Init
               PROVE  MarketInv
    OBVIOUS
  <2>1. pc = "idle" /\ \A i \in Instruments : unseen[i] = {} /\ QueuedMarketItems(i) = {}
    <3>1. Len(queue) = 0
      BY DEF Init
    <3> QED BY <3>1 DEF Init, QueuedMarketItems
  <2> QED BY <2>1 DEF MarketInv, UnseenIsQueued
<1>2. MarketInv => UnseenIsQueued
  BY DEF MarketInv
<1> QED BY <1>1, <1>2, MarketInvStep, QueueInvInit, QueueInvStep, PTL DEF Spec
=============================================================================
