-------------------------- MODULE ExchangeHubProofs --------------------------
(***************************************************************************)
(* What BasicExchangeContext keeps true of any number of targets, streams   *)
(* and orders: the types; that whoever is subscribed is served; that an    *)
(* open order is routed to who placed it; and that a final report is the   *)
(* last a target hears of an order.                                        *)
(***************************************************************************)
EXTENDS ExchangeHub, TLAPS

-----------------------------------------------------------------------------
(* Types *)

\* What the hub hands to a target is an event.
LEMMA EventKinds ==
    /\ \A type \in Types, i \in Instruments : [kind |-> "market", type |-> type, i |-> i] \in Event
    /\ \A x \in Objects : [kind |-> "update", obj |-> x] \in Event
    /\ \A o \in Orders, final \in BOOLEAN : [kind |-> "report", o |-> o, final |-> final] \in Event
    /\ \A o \in Orders : [kind |-> "fill", o |-> o] \in Event
BY DEF Event

\* Whom Deliver reaches gets the event at the end of the queue, if at all, and nobody
\* else's queue changes.
LEMMA DeliverAppends ==
    ASSUME NEW ts, NEW e, Deliver(ts, e), NEW t \in Targets
    PROVE  \/ inbox'[t] = inbox[t]
           \/ t \in ts /\ inbox'[t] = Append(inbox[t], e)
BY DEF Deliver, Delivered

\* Deliver keeps the queues queues of events.
LEMMA DeliverType ==
    ASSUME TypeOK, NEW ts, NEW e \in Event, Deliver(ts, e)
    PROVE  inbox' \in [Targets -> Seq(Event)] /\ alive' \subseteq Targets
<1>1. \A t \in Targets : inbox[t] \in Seq(Event) /\ Append(inbox[t], e) \in Seq(Event)
  BY DEF TypeOK
<1>2. Delivered(ts \cap alive, e) \in [Targets -> Seq(Event)]
  BY <1>1 DEF Delivered
<1> QED BY <1>2 DEF Deliver, TypeOK

\* A target executes what is queued.
LEMMA ConsumeType ==
    ASSUME TypeOK, NEW t \in Targets, Consume(t)
    PROVE  TypeOK'
<1>1. inbox' \in [Targets -> Seq(Event)]
  BY DEF Consume, TypeOK
<1> QED BY <1>1 DEF Consume, TypeOK, hubVars, serviceVars

\* The subscriptions a target may still be in after a round of the notifying loop.
LEMMA SubscriberTypes ==
    ASSUME TypeOK, NEW type \in Types, NEW i \in Instruments, NEW t \in Targets
    PROVE  [type |-> type, i |-> i, target |-> t] \in Subscription
BY DEF Subscription

\* Where the notifying loop may stand.
LEMMA NotifyRestType ==
    ASSUME TypeOK, NEW type \in Types, NEW i \in Instruments, NEW ts \in SUBSET Targets,
           NEW remain \in BOOLEAN, NotifyRest(type, i, ts, remain)
    PROVE  sweep' \in {Idle, Hung} \cup Notifying /\ streams' \subseteq Stream
BY DEF NotifyRest, TypeOK, Notifying

\* Market data calls.
LEMMA SubscribeType ==
    ASSUME TypeOK, NEW t \in Targets, NEW type \in Types, NEW i \in Instruments,
           Subscribe(t, type, i) \/ Unsubscribe(t, type, i)
    PROVE  TypeOK'
<1> DEFINE s == [type |-> type, i |-> i, target |-> t]
<1>1. s \in Subscription /\ <<type, i>> \in Stream
  BY DEF Subscription, Stream
<1>2. /\ DOMAIN subs' \subseteq Subscription
      /\ \A r \in DOMAIN subs' : subs'[r] \in {"onceshot", "unlimited"}
  <2> HIDE DEF s
  <2>1. CASE subs' = Entered(s, "unlimited")
    BY <1>1, <2>1 DEF TypeOK, Entered
  <2>2. CASE subs' = [r \in DOMAIN subs \ {s} |-> subs[r]]
    BY <1>1, <2>2 DEF TypeOK
  <2> QED BY <2>1, <2>2 DEF Subscribe, Unsubscribe, s
<1>3. streams' \subseteq Stream /\ lapsed' \subseteq Stream
  BY <1>1 DEF Subscribe, RequestStream, Unsubscribe, TypeOK, serviceVars
<1> QED BY <1>2, <1>3 DEF Subscribe, Unsubscribe, TypeOK, serviceVars, targetVars

\* A ticker asked for.
LEMMA UpdateTickerType ==
    ASSUME TypeOK, NEW t \in Targets, NEW i \in Instruments, UpdateTicker(t, i)
    PROVE  TypeOK'
<1> DEFINE s == [type |-> "ticker", i |-> i, target |-> t]
<1>1. s \in Subscription /\ <<"ticker", i>> \in Stream
  BY DEF Subscription, Stream, UpdateTicker
<1>2. UNCHANGED <<waiting, owner, sweep, restoring, asked, unheard, stage, issuer, mislaid, emits>>
  BY DEF UpdateTicker
<1>3. CASE Subscribers("ticker", i) = {}
  <2>1. subs' = Entered(s, "onceshot") /\ RequestStream("ticker", i) /\ UNCHANGED targetVars
    BY <1>3 DEF UpdateTicker
  <2>2. /\ DOMAIN subs' \subseteq Subscription
        /\ \A r \in DOMAIN subs' : subs'[r] \in {"onceshot", "unlimited"}
    <3> HIDE DEF s
    <3> QED BY <1>1, <2>1 DEF TypeOK, Entered
  <2>3. streams' \subseteq Stream /\ lapsed' \subseteq Stream
    BY <1>1, <2>1 DEF RequestStream, TypeOK
  <2> QED BY <1>1, <1>2, <2>1, <2>2, <2>3 DEF TypeOK, targetVars
<1>4. CASE Subscribers("ticker", i) # {}
  <2>1. Deliver({t}, [kind |-> "market", type |-> "ticker", i |-> i])
        /\ UNCHANGED <<subs, streams, lapsed>>
    BY <1>4 DEF UpdateTicker
  <2>2. inbox' \in [Targets -> Seq(Event)] /\ alive' \subseteq Targets
    BY <2>1, DeliverType, EventKinds DEF UpdateTicker
  <2> QED BY <1>2, <2>1, <2>2 DEF TypeOK
<1> QED BY <1>3, <1>4

\* Data come in.
LEMMA IncomeDataType ==
    ASSUME TypeOK, NEW type \in Types, NEW i \in Instruments, IncomeData(type, i)
    PROVE  TypeOK'
<1>1. Subscribers(type, i) \in SUBSET Targets
  BY DEF Subscribers
<1>2. sweep' \in {Idle, Hung} \cup Notifying /\ streams' \subseteq Stream
  BY <1>1, NotifyRestType DEF IncomeData
<1> QED BY <1>2 DEF IncomeData, TypeOK, targetVars

\* While the loop stands at a subscriber, sweep says which.
LEMMA NotifyingSweep ==
    ASSUME TypeOK, sweep.at = "notify"
    PROVE  /\ sweep \in Notifying
           /\ sweep.type \in Types /\ sweep.i \in Instruments
           /\ sweep.next \in Targets /\ sweep.remain \in BOOLEAN
BY DEF TypeOK, Idle, Hung, Notifying

\* One round of the notifying loop.
LEMMA NotifyOneType ==
    ASSUME TypeOK, NotifyOne
    PROVE  TypeOK'
<1> DEFINE s == [type |-> sweep.type, i |-> sweep.i, target |-> sweep.next]
           later == {t \in Subscribers(sweep.type, sweep.i) : t > sweep.next}
<1>1. /\ sweep \in Notifying
      /\ sweep.type \in Types /\ sweep.i \in Instruments
      /\ sweep.next \in Targets /\ sweep.remain \in BOOLEAN
  BY NotifyingSweep DEF NotifyOne
<1>2. inbox' \in [Targets -> Seq(Event)] /\ alive' \subseteq Targets
  <2>1. Deliver({s.target}, [kind |-> "market", type |-> s.type, i |-> s.i])
    BY DEF NotifyOne
  <2>2. [kind |-> "market", type |-> s.type, i |-> s.i] \in Event
    BY <1>1, EventKinds
  <2> QED BY <2>1, <2>2, DeliverType
<1>3. /\ DOMAIN subs' \subseteq Subscription
      /\ \A r \in DOMAIN subs' : subs'[r] \in {"onceshot", "unlimited"}
  <2>1. subs' = [r \in DOMAIN subs \ {s} |-> subs[r]] \/ subs' = subs
    BY DEF NotifyOne
  <2> HIDE DEF s
  <2> QED BY <2>1 DEF TypeOK
<1>4. sweep' \in {Idle, Hung} \cup Notifying /\ streams' \subseteq Stream
  <2>1. CASE subs[s] = "onceshot"
    <3>1. NotifyRest(sweep.type, sweep.i, later, sweep.remain)
      BY <2>1 DEF NotifyOne
    <3>2. later \in SUBSET Targets
      BY DEF Subscribers
    <3> QED BY <1>1, <3>1, <3>2, NotifyRestType
  <2>2. CASE subs[s] # "onceshot"
    <3>1. sweep' = [sweep EXCEPT !.remain = TRUE] /\ UNCHANGED streams
      BY <2>2 DEF NotifyOne
    <3> QED BY <1>1, <3>1 DEF TypeOK, Notifying
  <2> QED BY <2>1, <2>2
<1> QED BY <1>2, <1>3, <1>4 DEF NotifyOne, TypeOK

\* Updates asked for and answered.
LEMMA UpdateObjectType ==
    ASSUME TypeOK, NEW t \in Targets, NEW x \in Objects, UpdateObject(t, x)
    PROVE  TypeOK'
<1>1. waiting' \in [Objects -> SUBSET Targets]
  BY DEF UpdateObject, TypeOK
<1>2. asked' \in [Objects -> 0 .. MaxAsked] /\ unheard' \subseteq Objects
  BY HubBoundsAssumption DEF UpdateObject, TypeOK
<1> QED BY <1>1, <1>2 DEF UpdateObject, TypeOK, targetVars

LEMMA ObjectUpdatedType ==
    ASSUME TypeOK, NEW x \in Objects, ObjectUpdated(x)
    PROVE  TypeOK'
<1>1. inbox' \in [Targets -> Seq(Event)] /\ alive' \subseteq Targets
  BY DeliverType, EventKinds DEF ObjectUpdated
<1>2. waiting' \in [Objects -> SUBSET Targets]
  BY DEF ObjectUpdated, TypeOK
<1>3. asked' \in [Objects -> 0 .. MaxAsked] /\ unheard' \subseteq Objects
  BY HubBoundsAssumption DEF ObjectUpdated, TypeOK
<1> QED BY <1>1, <1>2, <1>3 DEF ObjectUpdated, TypeOK

\* Where a restore stands, raced or not.
LEMMA MeetRestoreType ==
    ASSUME TypeOK, MeetRestore
    PROVE  restoring' \subseteq [o : Orders, target : Targets, raced : BOOLEAN]
<1>1. \A r \in restoring : [r EXCEPT !.raced = TRUE] \in [o : Orders, target : Targets, raced : BOOLEAN]
  BY DEF TypeOK
<1> QED BY <1>1 DEF MeetRestore

\* Orders placed, restored, reported.
LEMMA BatchPlaceType ==
    ASSUME TypeOK, NEW t \in Targets, NEW os \in SUBSET Orders, BatchPlace(t, os)
    PROVE  TypeOK'
<1>1. owner' \in [Orders -> Targets \cup {NoOne}] /\ issuer' \in [Orders -> Targets \cup {NoOne}]
  BY DEF BatchPlace, TypeOK
<1>2. stage' \in [Orders -> {"new", "stored", "open", "done"}]
  BY DEF BatchPlace, TypeOK
<1>3. restoring' \subseteq [o : Orders, target : Targets, raced : BOOLEAN]
  BY MeetRestoreType DEF BatchPlace
<1> QED BY <1>1, <1>2, <1>3 DEF BatchPlace, TypeOK, targetVars

LEMMA EmitsType ==
    ASSUME TypeOK, NEW o \in Orders, Emits(o)
    PROVE  emits' \in [Orders -> 0 .. MaxEmits]
BY HubBoundsAssumption DEF Emits, TypeOK

LEMMA OrderStateChangedType ==
    ASSUME TypeOK, NEW o \in Orders, NEW final \in BOOLEAN, OrderStateChanged(o, final)
    PROVE  TypeOK'
<1>1. PICK found \in Finds(o) :
        /\ Deliver(found, [kind |-> "report", o |-> o, final |-> final])
        /\ owner' = IF final /\ found # {} THEN [owner EXCEPT ![o] = NoOne] ELSE owner
  BY DEF OrderStateChanged
<1>2. inbox' \in [Targets -> Seq(Event)] /\ alive' \subseteq Targets
  BY <1>1, DeliverType, EventKinds
<1>3. owner' \in [Orders -> Targets \cup {NoOne}]
  BY <1>1 DEF TypeOK
<1>4. stage' \in [Orders -> {"new", "stored", "open", "done"}]
  BY DEF OrderStateChanged, TypeOK
<1>5. /\ emits' \in [Orders -> 0 .. MaxEmits]
      /\ restoring' \subseteq [o : Orders, target : Targets, raced : BOOLEAN]
  BY EmitsType, MeetRestoreType DEF OrderStateChanged
<1> QED BY <1>2, <1>3, <1>4, <1>5 DEF OrderStateChanged, TypeOK

LEMMA OrderFillType ==
    ASSUME TypeOK, NEW o \in Orders, OrderFill(o)
    PROVE  TypeOK'
<1>1. inbox' \in [Targets -> Seq(Event)] /\ alive' \subseteq Targets
  BY DeliverType, EventKinds DEF OrderFill
<1>2. emits' \in [Orders -> 0 .. MaxEmits]
  BY EmitsType DEF OrderFill
<1> QED BY <1>1, <1>2 DEF OrderFill, TypeOK, hubVars

LEMMA RestoreBeginType ==
    ASSUME TypeOK, NEW t \in Targets, NEW o \in Orders, RestoreBegin(t, o)
    PROVE  TypeOK'
BY DEF RestoreBegin, TypeOK, targetVars, serviceVars

LEMMA RestoreEndType ==
    ASSUME TypeOK, RestoreEnd
    PROVE  TypeOK'
<1>1. PICK r \in restoring, lost \in SUBSET Orders :
        /\ owner' = [o \in Orders |->
               CASE o \in lost                                        -> NoOne
                 [] o \notin lost /\ o = r.o /\ owner[o] = NoOne -> r.target
                 [] OTHER                                             -> owner[o]]
        /\ mislaid' = mislaid \cup lost
        /\ stage' = [stage EXCEPT ![r.o] = "open"]
        /\ issuer' = [issuer EXCEPT ![r.o] = r.target]
        /\ restoring' = {}
        /\ UNCHANGED <<subs, waiting, sweep, targetVars, streams, lapsed, asked, unheard, emits>>
  BY DEF RestoreEnd
<1>2. r.o \in Orders /\ r.target \in Targets
  BY DEF TypeOK
<1>3. owner' \in [Orders -> Targets \cup {NoOne}]
  BY <1>1, <1>2 DEF TypeOK
<1> QED BY <1>1, <1>2, <1>3 DEF TypeOK, targetVars

\* disconnect only removes entries.
LEMMA SweepKeeps ==
    ASSUME NEW t
    PROVE  Sweep(t).kept \subseteq DOMAIN subs
BY DEF Sweep

LEMMA DisconnectSubs ==
    ASSUME NEW t, Disconnect(t)
    PROVE  \E kept \in SUBSET DOMAIN subs : subs' = [s \in kept |-> subs[s]]
<1>1. Sweep(t).kept \subseteq DOMAIN subs
  BY SweepKeeps
<1>2. \A more : Sweep(t).kept \ more \subseteq DOMAIN subs
  BY <1>1
<1>3. \/ \E more : subs' = [s \in Sweep(t).kept \ more |-> subs[s]]
      \/ subs' = [s \in Sweep(t).kept |-> subs[s]]
  BY DEF Disconnect
<1> QED BY <1>1, <1>2, <1>3

LEMMA DisconnectType ==
    ASSUME TypeOK, NEW t \in Targets, Disconnect(t)
    PROVE  TypeOK'
<1>1. /\ DOMAIN subs' \subseteq Subscription
      /\ \A r \in DOMAIN subs' : subs'[r] \in {"onceshot", "unlimited"}
  BY DisconnectSubs DEF TypeOK
<1>2. \/ /\ waiting' = [x \in Objects |-> waiting[x] \ {t}]
         /\ alive' = alive \ {t}
         /\ inbox' = [inbox EXCEPT ![t] = <<>>]
         /\ UNCHANGED sweep
      \/ sweep' = Hung /\ UNCHANGED <<waiting, alive, inbox>>
  BY DEF Disconnect
<1>3. waiting' \in [Objects -> SUBSET Targets] /\ alive' \subseteq Targets
  BY <1>2 DEF TypeOK
<1>4. inbox' \in [Targets -> Seq(Event)]
  <2>1. <<>> \in Seq(Event)
    OBVIOUS
  <2>2. inbox \in [Targets -> Seq(Event)]
    BY DEF TypeOK
  <2> HIDE DEF Event
  <2>3. [inbox EXCEPT ![t] = <<>>] \in [Targets -> Seq(Event)]
    BY <2>1, <2>2
  <2> QED BY <1>2, <2>2, <2>3
<1>5. sweep' \in {Idle, Hung} \cup Notifying
  BY <1>2 DEF TypeOK
<1>6. UNCHANGED <<owner, restoring, serviceVars>>
  BY DEF Disconnect
<1> QED BY <1>1, <1>3, <1>4, <1>5, <1>6 DEF TypeOK, serviceVars

\* Nobody is subscribed when the program starts.
LEMMA NoSubscriptions == Init => DOMAIN subs = {}
<1>1. <<>> \in Seq({}) /\ Len(<<>>) = 0
  OBVIOUS
<1>2. DOMAIN <<>> = 1 .. 0
  BY <1>1
<1>3. 1 .. 0 = {}
  OBVIOUS
<1> QED BY <1>2, <1>3 DEF Init

LEMMA TypeInit == Init => TypeOK
<1> SUFFICES ASSUME Init PROVE TypeOK
  OBVIOUS
<1>1. \A t \in Targets : inbox[t] \in Seq(Event)
  BY DEF Init
<1>2. DOMAIN subs = {}
  BY NoSubscriptions
<1>3. owner \in [Orders -> Targets \cup {NoOne}] /\ issuer \in [Orders -> Targets \cup {NoOne}]
  BY DEF Init
<1> QED BY <1>1, <1>2, <1>3, HubBoundsAssumption DEF Init, TypeOK

LEMMA TypeNext == TypeOK /\ [Next]_vars => TypeOK'
<1> SUFFICES ASSUME TypeOK, [Next]_vars
             PROVE  TypeOK'
  OBVIOUS
<1>1. CASE MarketCall
  BY <1>1, UpdateTickerType, SubscribeType DEF MarketCall
<1>2. CASE \E st \in Stream : IncomeData(st[1], st[2])
  BY <1>2, IncomeDataType DEF Stream
<1>3. CASE NotifyOne
  BY <1>3, NotifyOneType
<1>4. CASE \E t \in Targets, x \in Objects : UpdateObject(t, x)
  BY <1>4, UpdateObjectType
<1>5. CASE \E x \in Objects : ObjectUpdated(x)
  BY <1>5, ObjectUpdatedType
<1>6. CASE OrderCall
  BY <1>6, BatchPlaceType, RestoreBeginType, RestoreEndType, OrdersAssumption DEF OrderCall
<1>7. CASE OrderEvent
  BY <1>7, OrderFillType, OrderStateChangedType DEF OrderEvent
<1>8. CASE \E t \in Targets : Consume(t) \/ Disconnect(t)
  BY <1>8, ConsumeType, DisconnectType
<1>9. CASE UNCHANGED vars
  BY <1>9 DEF TypeOK, vars, hubVars, targetVars, serviceVars
<1> QED BY <1>1, <1>2, <1>3, <1>4, <1>5, <1>6, <1>7, <1>8, <1>9 DEF Next

\* The exchange context's maps, the targets' queues and what the service keeps have
\* their types in every reachable state, whatever the numbers of targets, instruments
\* and orders.
THEOREM HubTypes == Spec => []TypeOK
<1> QED BY TypeInit, TypeNext, PTL DEF Spec

-----------------------------------------------------------------------------
(* Whoever is subscribed is served *)

\* What the notifying loop may rely on: it stands at a subscriber, and as long as
\* it has counted nobody, no subscriber lies behind it.
LoopInv ==
    sweep.at = "notify" =>
        /\ sweep.next \in Subscribers(sweep.type, sweep.i)
        /\ ~sweep.remain => \A t \in Subscribers(sweep.type, sweep.i) : sweep.next <= t

ServedInv == SubscribersServed /\ LoopInv

\* The steps that change who is subscribed, the loop or the streams.
MarketStep ==
    \/ MarketCall
    \/ \E st \in Stream : IncomeData(st[1], st[2])
    \/ NotifyOne
    \/ \E t \in Targets : Disconnect(t)

LEMMA MarketFrame ==
    ASSUME [Next]_vars
    PROVE  MarketStep \/ UNCHANGED <<subs, sweep, streams, lapsed>>
<1>1. CASE \E t \in Targets, x \in Objects : UpdateObject(t, x)
  BY <1>1 DEF UpdateObject
<1>2. CASE \E x \in Objects : ObjectUpdated(x)
  BY <1>2 DEF ObjectUpdated
<1>3. CASE OrderCall
  BY <1>3 DEF OrderCall, BatchPlace, RestoreBegin, RestoreEnd, serviceVars
<1>4. CASE OrderEvent
  BY <1>4 DEF OrderEvent, OrderFill, OrderStateChanged, hubVars
<1>5. CASE \E t \in Targets : Consume(t)
  BY <1>5 DEF Consume, hubVars, serviceVars
<1>6. CASE UNCHANGED vars
  BY <1>6 DEF vars, hubVars, serviceVars
<1> QED BY <1>1, <1>2, <1>3, <1>4, <1>5, <1>6 DEF Next, MarketStep

\* The loop is where NotifyRest leaves it: at the first of ts, or ended.
LEMMA NotifyRestLoop ==
    ASSUME NEW type, NEW i, NEW ts \in SUBSET Targets, NEW remain \in BOOLEAN,
           NotifyRest(type, i, ts, remain)
    PROVE  \/ /\ ts = {} /\ sweep' = Idle
              /\ streams' = IF remain THEN streams ELSE streams \ {<<type, i>>}
           \/ \E t \in ts :
                 /\ \A u \in ts : t <= u
                 /\ sweep' = [at |-> "notify", type |-> type, i |-> i, next |-> t, remain |-> remain]
                 /\ UNCHANGED streams
BY DEF NotifyRest

\* The lock is free, so that no loop stands anywhere.
LEMMA FreeLoop == Free => sweep.at # "notify"
BY DEF Free, Idle

\* A new subscription has a stream: the first one asks for it, and with a later one
\* it is there.
LEMMA EnterServed ==
    ASSUME TypeOK, ServedInv, Free, UNCHANGED sweep,
           NEW type \in Types, NEW i \in Instruments, NEW t \in Targets, NEW kind,
           IF Subscribers(type, i) = {} THEN RequestStream(type, i) ELSE UNCHANGED <<streams, lapsed>>,
           subs' = Entered([type |-> type, i |-> i, target |-> t], kind)
    PROVE  ServedInv'
<1> DEFINE s == [type |-> type, i |-> i, target |-> t]
<1>1. <<type, i>> \in streams' \cup lapsed'
  <2>1. CASE Subscribers(type, i) = {}
    BY <2>1 DEF RequestStream
  <2>2. CASE Subscribers(type, i) # {}
    <3>1. PICK u \in Targets : [type |-> type, i |-> i, target |-> u] \in DOMAIN subs
      BY <2>2 DEF Subscribers
    <3> QED BY <2>2, <3>1 DEF ServedInv, SubscribersServed
  <2> QED BY <2>1, <2>2
<1>2. \A r \in DOMAIN subs' : r = s \/ r \in DOMAIN subs
  <2> HIDE DEF s
  <2>1. subs' = Entered(s, kind)
    BY DEF s
  <2> QED BY <2>1 DEF Entered
<1>3. streams \cup lapsed \subseteq streams' \cup lapsed'
  BY DEF RequestStream
<1>4. SubscribersServed'
  <2>1. s.type = type /\ s.i = i
    OBVIOUS
  <2> HIDE DEF s
  <2>2. \A r \in DOMAIN subs' : <<r.type, r.i>> \in streams' \cup lapsed'
    BY <1>1, <1>2, <1>3, <2>1 DEF ServedInv, SubscribersServed
  <2> QED BY <2>2 DEF SubscribersServed
<1>5. LoopInv'
  BY FreeLoop DEF LoopInv, Free
<1> QED BY <1>4, <1>5 DEF ServedInv

\* Fewer subscriptions need no more streams.
LEMMA LeaveServed ==
    ASSUME ServedInv, UNCHANGED <<streams, lapsed>>, DOMAIN subs' \subseteq DOMAIN subs, sweep'.at # "notify"
    PROVE  ServedInv'
BY DEF ServedInv, SubscribersServed, LoopInv

\* Data come in: the loop starts at the first subscriber, or the stream ends.
LEMMA IncomeDataServed ==
    ASSUME TypeOK, ServedInv, NEW type \in Types, NEW i \in Instruments, IncomeData(type, i)
    PROVE  ServedInv'
<1> DEFINE ts == Subscribers(type, i)
<1>1. UNCHANGED <<subs, lapsed>> /\ ts \in SUBSET Targets
  BY DEF IncomeData, Subscribers
<1>2. \A ty, j : Subscribers(ty, j)' = Subscribers(ty, j)
  BY <1>1 DEF Subscribers
<1>3. NotifyRest(type, i, ts, FALSE)
  BY DEF IncomeData
<1>4. CASE ts = {}
  <2>1. sweep' = Idle /\ streams' = streams \ {<<type, i>>}
    BY <1>1, <1>3, <1>4, NotifyRestLoop
  <2>2. \A r \in DOMAIN subs : <<r.type, r.i>> # <<type, i>>
    <3>1. SUFFICES ASSUME NEW r \in DOMAIN subs, r.type = type, r.i = i PROVE FALSE
      OBVIOUS
    <3>2. r = [type |-> type, i |-> i, target |-> r.target] /\ r.target \in Targets
      BY <3>1 DEF TypeOK, Subscription
    <3> QED BY <1>4, <3>2 DEF Subscribers
  <2>3. SubscribersServed'
    BY <1>1, <2>1, <2>2 DEF ServedInv, SubscribersServed
  <2> QED BY <2>1, <2>3 DEF ServedInv, LoopInv, Idle
<1>5. CASE ts # {}
  <2>1. PICK t \in ts :
          /\ \A u \in ts : t <= u
          /\ sweep' = [at |-> "notify", type |-> type, i |-> i, next |-> t, remain |-> FALSE]
          /\ UNCHANGED streams
    BY <1>1, <1>3, <1>5, NotifyRestLoop
  <2>2. SubscribersServed'
    BY <1>1, <2>1 DEF ServedInv, SubscribersServed
  <2>3. LoopInv'
    BY <1>2, <2>1 DEF LoopInv
  <2> QED BY <2>2, <2>3 DEF ServedInv
<1> QED BY <1>4, <1>5

\* One round of the loop: a one-shot subscription ends and the loop goes on behind it,
\* so that when it ends having counted nobody, nobody is left.
LEMMA NotifyOneServed ==
    ASSUME TypeOK, ServedInv, NotifyOne
    PROVE  ServedInv'
<1>0. PICK ty \in Types, j \in Instruments : ty = sweep.type /\ j = sweep.i
  BY NotifyingSweep DEF NotifyOne
<1> DEFINE s == [type |-> ty, i |-> j, target |-> sweep.next]
           later == {t \in Subscribers(ty, j) : t > sweep.next}
<1>1. /\ sweep \in Notifying
      /\ sweep.next \in Targets /\ sweep.remain \in BOOLEAN
  BY NotifyingSweep DEF NotifyOne
<1>2. s \in DOMAIN subs /\ UNCHANGED lapsed
  BY <1>0 DEF ServedInv, LoopInv, NotifyOne, Subscribers
<1>3. CASE subs[s] = "onceshot"
  <2>1. /\ subs' = [r \in DOMAIN subs \ {s} |-> subs[r]]
        /\ NotifyRest(ty, j, later, sweep.remain)
    BY <1>0, <1>3 DEF NotifyOne
  <2>2. DOMAIN subs' = DOMAIN subs \ {s}
    BY <2>1
  <2>3. Subscribers(ty, j)' = Subscribers(ty, j) \ {sweep.next}
    <3>1. \A t \in Targets : [type |-> ty, i |-> j, target |-> t] = s <=> t = sweep.next
      OBVIOUS
    <3>2. Subscribers(ty, j)' = {t \in Targets : [type |-> ty, i |-> j, target |-> t] \in DOMAIN subs'}
      BY DEF Subscribers
    <3> QED BY <2>2, <3>1, <3>2 DEF Subscribers
  <2>4. later \in SUBSET Targets
    BY DEF Subscribers
  <2>5. ~sweep.remain => Subscribers(ty, j)' \subseteq later
    <3>1. SUFFICES ASSUME ~sweep.remain, NEW t \in Subscribers(ty, j), t # sweep.next
                   PROVE  t > sweep.next
      BY <2>3
    <3>2. sweep.next <= t
      BY <1>0, <3>1 DEF ServedInv, LoopInv, NotifyOne
    <3>3. t \in Nat /\ sweep.next \in Nat
      BY <1>1, TargetsAssumption DEF Subscribers
    <3> QED BY <3>1, <3>2, <3>3
  <2>6. CASE later = {}
    <3>1. sweep' = Idle /\ streams' = IF sweep.remain THEN streams ELSE streams \ {<<ty, j>>}
      BY <1>1, <2>1, <2>4, <2>6, NotifyRestLoop
    <3>2. CASE sweep.remain
      BY <1>2, <2>2, <3>1, <3>2 DEF ServedInv, SubscribersServed, LoopInv, Idle
    <3>3. CASE ~sweep.remain
      <4>1. Subscribers(ty, j)' = {}
        BY <2>5, <2>6, <3>3
      <4>2. \A r \in DOMAIN subs' : <<r.type, r.i>> # <<ty, j>>
        <5>1. SUFFICES ASSUME NEW r \in DOMAIN subs', r.type = ty, r.i = j PROVE FALSE
          OBVIOUS
        <5>2. r \in DOMAIN subs
          BY <2>2
        <5>3. r = [type |-> ty, i |-> j, target |-> r.target] /\ r.target \in Targets
          BY <5>1, <5>2 DEF TypeOK, Subscription
        <5>4. r.target \in Subscribers(ty, j)'
          <6>1. Subscribers(ty, j)' = {t \in Targets : [type |-> ty, i |-> j, target |-> t] \in DOMAIN subs'}
            BY DEF Subscribers
          <6> QED BY <5>3, <6>1
        <5> QED BY <4>1, <5>4
      <4>3. SubscribersServed'
        <5>1. \A r \in DOMAIN subs' : <<r.type, r.i>> \in streams \cup lapsed
          BY <2>2 DEF ServedInv, SubscribersServed
        <5>2. streams' = streams \ {<<ty, j>>}
          BY <3>1, <3>3
        <5> QED BY <1>2, <4>2, <5>1, <5>2 DEF SubscribersServed
      <4> QED BY <3>1, <4>3 DEF ServedInv, LoopInv, Idle
    <3> QED BY <3>2, <3>3
  <2>7. CASE later # {}
    <3>1. PICK t \in later :
            /\ \A u \in later : t <= u
            /\ sweep' = [at |-> "notify", type |-> ty, i |-> j, next |-> t, remain |-> sweep.remain]
            /\ UNCHANGED streams
      BY <1>1, <2>1, <2>4, <2>7, NotifyRestLoop
    <3>2. SubscribersServed'
      BY <1>2, <2>2, <3>1 DEF ServedInv, SubscribersServed
    <3>3. /\ sweep'.at = "notify" /\ sweep'.type = ty /\ sweep'.i = j
          /\ sweep'.next = t /\ sweep'.remain = sweep.remain
      BY <3>1
    <3>4. t \in Subscribers(ty, j)'
      <4>1. t \in Subscribers(ty, j) /\ t > sweep.next
        OBVIOUS
      <4>2. t \in Nat /\ sweep.next \in Nat
        BY <1>1, <2>4, TargetsAssumption
      <4> QED BY <2>3, <4>1, <4>2
    <3>5. ~sweep.remain => \A u \in Subscribers(ty, j)' : t <= u
      BY <2>5, <3>1
    <3>6. Subscribers(sweep.type, sweep.i)' = {u \in Targets : [type |-> ty, i |-> j, target |-> u] \in DOMAIN subs'}
      BY <3>3 DEF Subscribers
    <3>7. Subscribers(ty, j)' = {u \in Targets : [type |-> ty, i |-> j, target |-> u] \in DOMAIN subs'}
      BY DEF Subscribers
    <3>8. LoopInv'
      BY <3>3, <3>4, <3>5, <3>6, <3>7 DEF LoopInv
    <3> QED BY <3>2, <3>8 DEF ServedInv
  <2> QED BY <2>6, <2>7
<1>4. CASE subs[s] # "onceshot"
  <2>1. sweep' = [sweep EXCEPT !.remain = TRUE] /\ UNCHANGED <<subs, streams>>
    BY <1>0, <1>4 DEF NotifyOne
  <2>2. /\ sweep'.type = ty /\ sweep'.i = j /\ sweep'.next = sweep.next
        /\ sweep'.remain = TRUE
    BY <1>0, <1>1, <2>1 DEF Notifying
  <2>3. Subscribers(sweep.type, sweep.i)' = Subscribers(sweep.type, sweep.i)
    BY <1>0, <2>1, <2>2 DEF Subscribers
  <2>4. LoopInv'
    BY <2>2, <2>3 DEF ServedInv, LoopInv, NotifyOne
  <2> QED BY <1>2, <2>1, <2>4 DEF ServedInv, SubscribersServed
<1> QED BY <1>3, <1>4

LEMMA ServedNext == TypeOK /\ ServedInv /\ [Next]_vars => ServedInv'
<1> SUFFICES ASSUME TypeOK, ServedInv, [Next]_vars
             PROVE  ServedInv'
  OBVIOUS
<1>1. ASSUME NEW t \in Targets, NEW type \in Types, NEW i \in Instruments, Subscribe(t, type, i)
      PROVE  ServedInv'
  BY <1>1, EnterServed DEF Subscribe
<1>2. ASSUME NEW t \in Targets, NEW type \in Types, NEW i \in Instruments, Unsubscribe(t, type, i)
      PROVE  ServedInv'
  <2>1. DOMAIN subs' \subseteq DOMAIN subs
    BY <1>2 DEF Unsubscribe
  <2> QED BY <1>2, <2>1, LeaveServed, FreeLoop DEF Unsubscribe, serviceVars
<1>3. ASSUME NEW t \in Targets, NEW i \in Instruments, UpdateTicker(t, i)
      PROVE  ServedInv'
  <2>1. CASE Subscribers("ticker", i) = {}
    BY <1>3, <2>1, EnterServed DEF UpdateTicker
  <2>2. CASE Subscribers("ticker", i) # {}
    BY <1>3, <2>2, LeaveServed, FreeLoop DEF UpdateTicker
  <2> QED BY <2>1, <2>2
<1>4. ASSUME NEW t \in Targets, Disconnect(t)
      PROVE  ServedInv'
  <2>1. DOMAIN subs' \subseteq DOMAIN subs
    BY <1>4, DisconnectSubs
  <2>2. sweep'.at # "notify" /\ UNCHANGED <<streams, lapsed>>
    BY <1>4, FreeLoop DEF Disconnect, Hung, serviceVars
  <2> QED BY <2>1, <2>2, LeaveServed
<1>5. CASE \E st \in Stream : IncomeData(st[1], st[2])
  BY <1>5, IncomeDataServed DEF Stream
<1>6. CASE NotifyOne
  BY <1>6, NotifyOneServed
<1>7. CASE UNCHANGED <<subs, sweep, streams, lapsed>>
  <2>1. \A ty, j : Subscribers(ty, j)' = Subscribers(ty, j)
    BY <1>7 DEF Subscribers
  <2> QED BY <1>7, <2>1 DEF ServedInv, SubscribersServed, LoopInv
<1> QED BY <1>1, <1>2, <1>3, <1>4, <1>5, <1>6, <1>7, MarketFrame DEF MarketStep, MarketCall

LEMMA ServedInit == Init => ServedInv
<1> SUFFICES ASSUME Init PROVE ServedInv
  OBVIOUS
<1>1. DOMAIN subs = {}
  BY NoSubscriptions
<1> QED BY <1>1 DEF Init, Idle, ServedInv, SubscribersServed, LoopInv

\* send_subscription_notify, subscribe, unsubscribe, update_ticker and disconnect in any
\* order leave nobody subscribed to a stream that the service does not send, unless it
\* answered the request for the stream within the call.
THEOREM HubServesSubscribers == Spec => []SubscribersServed
<1>1. Spec => [](TypeOK /\ ServedInv)
  BY TypeInit, TypeNext, ServedInit, ServedNext, PTL DEF Spec
<1>2. ServedInv => SubscribersServed
  BY DEF ServedInv
<1> QED BY <1>1, <1>2, PTL

-----------------------------------------------------------------------------
(* Open orders are routed *)

\* Disconnect leaves the orders, so that they keep their target even when it is gone.
OrdersRouted ==
    \A o \in Orders \ mislaid : stage[o] = "open" => owner[o] = issuer[o] /\ owner[o] # NoOne

\* An order the service has not been given, or not been asked to restore, is nobody's;
\* a restore in progress is of an order that is not restored yet.
RouteInv ==
    /\ \A o \in Orders : stage[o] \in {"new", "stored"} => owner[o] = NoOne /\ issuer[o] = NoOne
    /\ \A r \in restoring : stage[r.o] = "stored"
    /\ OrdersRouted

orderVars == <<owner, stage, issuer, mislaid, restoring>>

\* The steps that change what the hub and the service know of orders.
OrderStep ==
    \/ OrderCall
    \/ \E o \in Orders, final \in BOOLEAN : OrderStateChanged(o, final)

LEMMA OrderFrame ==
    ASSUME [Next]_vars
    PROVE  OrderStep \/ UNCHANGED orderVars
<1> USE DEF orderVars
<1>1. CASE MarketCall
  BY <1>1 DEF MarketCall, UpdateTicker, Subscribe, Unsubscribe, serviceVars
<1>2. CASE \E st \in Stream : IncomeData(st[1], st[2])
  BY <1>2 DEF IncomeData
<1>3. CASE NotifyOne
  BY <1>3 DEF NotifyOne
<1>4. CASE \E t \in Targets, x \in Objects : UpdateObject(t, x)
  BY <1>4 DEF UpdateObject
<1>5. CASE \E x \in Objects : ObjectUpdated(x)
  BY <1>5 DEF ObjectUpdated
<1>6. CASE \E o \in Orders : OrderFill(o)
  BY <1>6 DEF OrderFill, hubVars
<1>7. CASE \E t \in Targets : Consume(t) \/ Disconnect(t)
  BY <1>7 DEF Consume, Disconnect, hubVars, serviceVars
<1>8. CASE UNCHANGED vars
  BY <1>8 DEF vars, hubVars, serviceVars
<1> QED BY <1>1, <1>2, <1>3, <1>4, <1>5, <1>6, <1>7, <1>8 DEF Next, OrderStep, OrderEvent

\* A target is a number, so never NoOne.
LEMMA TargetIsSomeone == \A t \in Targets : t # NoOne
BY TargetsAssumption DEF NoOne

\* A change of the map met by a restore leaves it a restore of the same order.
LEMMA MeetRestoreOrder ==
    ASSUME TypeOK, MeetRestore
    PROVE  \A q \in restoring' : \E r \in restoring : q.o = r.o
BY DEF MeetRestore, TypeOK

LEMMA BatchPlaceRoutes ==
    ASSUME TypeOK, RouteInv, NEW t \in Targets, NEW os \in SUBSET Orders, BatchPlace(t, os)
    PROVE  RouteInv'
<1>1. \A o \in os : stage[o] = "new" /\ owner[o] = NoOne
  BY DEF BatchPlace, RouteInv
<1>2. \A o \in Orders :
        /\ o \in os => stage'[o] = "open" /\ owner'[o] = t /\ issuer'[o] = t
        /\ o \notin os => stage'[o] = stage[o] /\ owner'[o] = owner[o] /\ issuer'[o] = issuer[o]
  BY <1>1 DEF BatchPlace
<1>3. mislaid' = mislaid
  BY DEF BatchPlace
<1>4. \A r \in restoring' : stage'[r.o] = "stored"
  <2>1. SUFFICES ASSUME NEW q \in restoring' PROVE stage'[q.o] = "stored"
    OBVIOUS
  <2>2. PICK r \in restoring : q.o = r.o
    BY MeetRestoreOrder DEF BatchPlace
  <2>3. q.o \in Orders /\ stage[q.o] = "stored"
    BY <2>2 DEF TypeOK, RouteInv
  <2> QED BY <1>1, <1>2, <2>3
<1>5. OrdersRouted'
  BY <1>2, <1>3, TargetIsSomeone DEF RouteInv, OrdersRouted
<1> QED BY <1>2, <1>4, <1>5 DEF RouteInv

LEMMA OrderStateChangedRoutes ==
    ASSUME TypeOK, RouteInv, NEW o \in Orders, NEW final \in BOOLEAN, OrderStateChanged(o, final)
    PROVE  RouteInv'
<1>1. stage[o] \in {"open", "done"}
  BY DEF OrderStateChanged, Emits
<1>2. /\ issuer' = issuer /\ mislaid' = mislaid
      /\ \A u \in Orders \ {o} : stage'[u] = stage[u] /\ owner'[u] = owner[u]
  BY DEF OrderStateChanged, TypeOK
<1>3. final => stage'[o] = "done"
  BY DEF OrderStateChanged, TypeOK
<1>4. ~final => stage'[o] = stage[o] /\ owner'[o] = owner[o]
  BY DEF OrderStateChanged
<1>5. \A r \in restoring' : stage'[r.o] = "stored"
  <2>1. SUFFICES ASSUME NEW q \in restoring' PROVE stage'[q.o] = "stored"
    OBVIOUS
  <2>2. PICK r \in restoring : q.o = r.o
    BY MeetRestoreOrder DEF OrderStateChanged
  <2>3. q.o \in Orders /\ stage[q.o] = "stored"
    BY <2>2 DEF TypeOK, RouteInv
  <2> QED BY <1>1, <1>2, <2>3
<1>6. OrdersRouted'
  BY <1>2, <1>3, <1>4 DEF RouteInv, OrdersRouted
<1>7. \A u \in Orders : stage'[u] \in {"new", "stored"} => owner'[u] = NoOne /\ issuer'[u] = NoOne
  BY <1>1, <1>2, <1>3, <1>4 DEF RouteInv
<1> QED BY <1>5, <1>6, <1>7 DEF RouteInv

LEMMA RestoreEndRoutes ==
    ASSUME TypeOK, RouteInv, RestoreEnd
    PROVE  RouteInv'
<1>1. PICK r \in restoring, lost \in SUBSET Orders :
        /\ \A o \in lost : o = r.o \/ owner[o] # NoOne
        /\ owner' = [o \in Orders |->
               CASE o \in lost                                        -> NoOne
                 [] o \notin lost /\ o = r.o /\ owner[o] = NoOne -> r.target
                 [] OTHER                                             -> owner[o]]
        /\ mislaid' = mislaid \cup lost
        /\ stage' = [stage EXCEPT ![r.o] = "open"]
        /\ issuer' = [issuer EXCEPT ![r.o] = r.target]
        /\ restoring' = {}
  BY DEF RestoreEnd
<1>2. r.o \in Orders /\ r.target \in Targets /\ stage[r.o] = "stored" /\ owner[r.o] = NoOne
  BY DEF TypeOK, RouteInv
<1>3. /\ stage'[r.o] = "open" /\ issuer'[r.o] = r.target
      /\ r.o \notin lost => owner'[r.o] = r.target
  BY <1>1, <1>2 DEF TypeOK
<1>4. \A o \in Orders \ {r.o} :
        /\ stage'[o] = stage[o] /\ issuer'[o] = issuer[o]
        /\ o \notin lost => owner'[o] = owner[o]
        /\ o \in lost => owner[o] # NoOne
  BY <1>1, <1>2 DEF TypeOK
<1>5. OrdersRouted'
  BY <1>1, <1>2, <1>3, <1>4, TargetIsSomeone DEF RouteInv, OrdersRouted
<1>6. \A o \in Orders : stage'[o] \in {"new", "stored"} => owner'[o] = NoOne /\ issuer'[o] = NoOne
  BY <1>2, <1>3, <1>4 DEF RouteInv
<1> QED BY <1>1, <1>5, <1>6 DEF RouteInv

LEMMA RouteNext == TypeOK /\ RouteInv /\ [Next]_vars => RouteInv'
<1> SUFFICES ASSUME TypeOK, RouteInv, [Next]_vars
             PROVE  RouteInv'
  OBVIOUS
<1>1. ASSUME NEW t \in Targets, NEW o \in Orders, RestoreBegin(t, o)
      PROVE  RouteInv'
  BY <1>1 DEF RestoreBegin, RouteInv, OrdersRouted, serviceVars
<1>2. CASE UNCHANGED orderVars
  BY <1>2 DEF orderVars, RouteInv, OrdersRouted
<1> QED BY <1>1, <1>2, BatchPlaceRoutes, OrderStateChangedRoutes, RestoreEndRoutes, OrderFrame,
           OrdersAssumption DEF OrderStep, OrderCall

LEMMA RouteInit == Init => RouteInv
BY DEF Init, RouteInv, OrdersRouted

\* batch_place, order_restore without its lock, order_state_change and disconnect keep
\* every order the service works on routed to the target that placed it or had it
\* restored, as long as it exists, except those whose entry a change of the map during a restore destroyed.
THEOREM HubRoutesOrders == Spec => []OpenOrdersRouted
<1>1. Spec => [](TypeOK /\ RouteInv)
  BY TypeInit, TypeNext, RouteInit, RouteNext, PTL DEF Spec
<1>2. RouteInv => OpenOrdersRouted
  BY DEF RouteInv, OrdersRouted, OpenOrdersRouted
<1> QED BY <1>1, <1>2, PTL

-----------------------------------------------------------------------------
(* A final report is the last a target hears of an order *)

\* A queue in which nothing about an order follows its final report,
LastIsFinal(q) ==
    \A j, k \in 1 .. Len(q) :
        /\ j < k
        /\ q[j].kind = "report" /\ q[j].final
        /\ q[k].kind \in {"report", "fill"}
        => q[k].o # q[j].o

\* and one that holds the final report of o.
Told(q, o) == \E j \in 1 .. Len(q) : q[j].kind = "report" /\ q[j].final /\ q[j].o = o

\* Once its final report is queued for a target, an order is done and not the target's
\* any more, so that nothing else about it can come.
FinalInv ==
    /\ \A t \in Targets : LastIsFinal(inbox[t])
    /\ \A t \in Targets, o \in Orders : Told(inbox[t], o) => stage[o] = "done" /\ owner[o] # t

LEMMA FinalInvImplies == FinalInv => FinalReportIsLast
BY DEF FinalInv, FinalReportIsLast, LastIsFinal

\* Events other than of orders.
LEMMA OrderEventType ==
    ASSUME NEW e \in Event, e.kind \in {"report", "fill"}
    PROVE  e.o \in Orders
BY DEF Event

\* What a longer queue holds.
LEMMA AppendFinal ==
    ASSUME NEW q \in Seq(Event), NEW e \in Event, LastIsFinal(q),
           e.kind \in {"report", "fill"} => ~Told(q, e.o)
    PROVE  /\ LastIsFinal(Append(q, e))
           /\ \A o : Told(Append(q, e), o) =>
                 Told(q, o) \/ (e.kind = "report" /\ e.final /\ e.o = o)
<1> DEFINE a == Append(q, e)
<1> HIDE DEF Event
<1>1. /\ Len(q) \in Nat /\ Len(a) = Len(q) + 1
      /\ a[Len(q) + 1] = e
      /\ \A j \in 1 .. Len(q) : a[j] = q[j]
  OBVIOUS
<1> HIDE DEF a
<1>2. \A j \in 1 .. Len(a) : j \in 1 .. Len(q) \/ j = Len(q) + 1
  BY <1>1
<1>3. ASSUME NEW j \in 1 .. Len(a), NEW k \in 1 .. Len(a), j < k,
             a[j].kind = "report", a[j].final, a[k].kind \in {"report", "fill"}
      PROVE  a[k].o # a[j].o
  <2>1. j \in 1 .. Len(q) /\ a[j] = q[j]
    BY <1>1, <1>3
  <2>2. CASE k \in 1 .. Len(q)
    BY <1>1, <1>3, <2>1, <2>2 DEF LastIsFinal
  <2>3. CASE k = Len(q) + 1
    <3>1. a[k] = e /\ ~Told(q, e.o)
      BY <1>1, <1>3, <2>3
    <3> QED BY <1>3, <2>1, <3>1 DEF Told
  <2> QED BY <1>2, <2>2, <2>3
<1>4. LastIsFinal(a)
  BY <1>3 DEF LastIsFinal
<1>5. ASSUME NEW o, Told(a, o)
      PROVE  Told(q, o) \/ (e.kind = "report" /\ e.final /\ e.o = o)
  <2>1. PICK j \in 1 .. Len(a) : a[j].kind = "report" /\ a[j].final /\ a[j].o = o
    BY <1>5 DEF Told
  <2>2. CASE j \in 1 .. Len(q)
    BY <1>1, <2>1, <2>2 DEF Told
  <2>3. CASE j = Len(q) + 1
    BY <1>1, <2>1, <2>3
  <2> QED BY <1>2, <2>2, <2>3
<1> QED BY <1>4, <1>5 DEF a

\* What a shorter queue holds.
LEMMA TailFinal ==
    ASSUME NEW q \in Seq(Event), q # <<>>, LastIsFinal(q)
    PROVE  /\ LastIsFinal(Tail(q))
           /\ \A o : Told(Tail(q), o) => Told(q, o)
<1> HIDE DEF Event
<1> DEFINE r == Tail(q)
<1>1. /\ Len(q) \in Nat /\ Len(r) = Len(q) - 1
      /\ \A j \in 1 .. Len(r) : r[j] = q[j + 1] /\ j + 1 \in 1 .. Len(q)
  OBVIOUS
<1> HIDE DEF r
<1>2. LastIsFinal(r)
  <2>1. SUFFICES ASSUME NEW j \in 1 .. Len(r), NEW k \in 1 .. Len(r), j < k,
                        r[j].kind = "report", r[j].final, r[k].kind \in {"report", "fill"}
                 PROVE  r[k].o # r[j].o
    BY DEF LastIsFinal
  <2>2. j + 1 < k + 1
    BY <1>1, <2>1
  <2> QED BY <1>1, <2>1, <2>2 DEF LastIsFinal
<1>3. \A o : Told(r, o) => Told(q, o)
  BY <1>1 DEF Told
<1> QED BY <1>2, <1>3 DEF r

\* An event for ts, when no report or fill goes to who has had the final report.
LEMMA DeliverFinal ==
    ASSUME TypeOK, FinalInv, NEW ts, NEW e \in Event, Deliver(ts, e),
           \A t \in Targets : t \in ts /\ e.kind \in {"report", "fill"} => ~Told(inbox[t], e.o)
    PROVE  \A t \in Targets :
              /\ LastIsFinal(inbox'[t])
              /\ \A o : Told(inbox'[t], o) =>
                    \/ Told(inbox[t], o)
                    \/ t \in ts /\ e.kind = "report" /\ e.final /\ e.o = o
<1> SUFFICES ASSUME NEW t \in Targets
             PROVE  /\ LastIsFinal(inbox'[t])
                    /\ \A o : Told(inbox'[t], o) =>
                          \/ Told(inbox[t], o)
                          \/ t \in ts /\ e.kind = "report" /\ e.final /\ e.o = o
  OBVIOUS
<1>1. inbox[t] \in Seq(Event) /\ LastIsFinal(inbox[t])
  BY DEF TypeOK, FinalInv
<1>2. CASE inbox'[t] = inbox[t]
  BY <1>1, <1>2
<1>3. CASE t \in ts /\ inbox'[t] = Append(inbox[t], e)
  <2>1. e.kind \in {"report", "fill"} => ~Told(inbox[t], e.o)
    BY <1>3
  <2>2. /\ LastIsFinal(Append(inbox[t], e))
        /\ \A o : Told(Append(inbox[t], e), o) =>
              Told(inbox[t], o) \/ (e.kind = "report" /\ e.final /\ e.o = o)
    BY <1>1, <2>1, AppendFinal
  <2> QED BY <1>3, <2>2
<1> QED BY <1>2, <1>3, DeliverAppends

\* Whom the hub finds has not had the order's final report.
LEMMA FoundNotTold ==
    ASSUME FinalInv, NEW o \in Orders, NEW found \in Finds(o), NEW t \in Targets, t \in found
    PROVE  t = owner[o] /\ ~Told(inbox[t], o)
BY DEF Finds, FinalInv

LEMMA OrderStateChangedFinal ==
    ASSUME TypeOK, FinalInv, NEW o \in Orders, NEW final \in BOOLEAN, OrderStateChanged(o, final)
    PROVE  FinalInv'
<1> DEFINE e == [kind |-> "report", o |-> o, final |-> final]
<1>1. PICK found \in Finds(o) :
        /\ Deliver(found, e)
        /\ owner' = IF final /\ found # {} THEN [owner EXCEPT ![o] = NoOne] ELSE owner
  BY DEF OrderStateChanged
<1>2. e \in Event /\ e.kind = "report" /\ e.final = final /\ e.o = o
  BY EventKinds
<1> HIDE DEF e
<1>3. \A t \in Targets :
        /\ LastIsFinal(inbox'[t])
        /\ \A u : Told(inbox'[t], u) =>
              \/ Told(inbox[t], u)
              \/ t \in found /\ e.kind = "report" /\ e.final /\ e.o = u
  BY <1>1, <1>2, FoundNotTold, DeliverFinal
<1>4. /\ final => stage'[o] = "done"
      /\ \A u \in Orders : stage[u] = "done" => stage'[u] = "done"
  BY DEF OrderStateChanged, TypeOK
<1>5. \A u \in Orders : owner'[u] = owner[u] \/ owner'[u] = NoOne
  BY <1>1 DEF TypeOK
<1>6. ASSUME NEW t \in Targets, NEW u \in Orders, Told(inbox'[t], u)
      PROVE  stage'[u] = "done" /\ owner'[u] # t
  <2>1. CASE Told(inbox[t], u)
    BY <1>4, <1>5, <2>1, TargetIsSomeone DEF FinalInv
  <2>2. CASE t \in found /\ e.final /\ e.o = u
    <3>1. u = o /\ final /\ found # {}
      BY <1>2, <2>2
    <3>2. owner'[u] = NoOne
      BY <1>1, <3>1 DEF TypeOK
    <3> QED BY <1>4, <3>1, <3>2, TargetIsSomeone
  <2> QED BY <1>3, <1>6, <2>1, <2>2
<1> QED BY <1>3, <1>6 DEF FinalInv

LEMMA OrderFillFinal ==
    ASSUME TypeOK, FinalInv, NEW o \in Orders, OrderFill(o)
    PROVE  FinalInv'
<1> DEFINE e == [kind |-> "fill", o |-> o]
<1>1. PICK found \in Finds(o) : Deliver(found, e)
  BY DEF OrderFill
<1>2. e \in Event /\ e.kind = "fill" /\ e.o = o
  BY EventKinds
<1> HIDE DEF e
<1>3. \A t \in Targets :
        /\ LastIsFinal(inbox'[t])
        /\ \A u : Told(inbox'[t], u) => Told(inbox[t], u)
  BY <1>1, <1>2, FoundNotTold, DeliverFinal
<1>4. UNCHANGED <<owner, stage>>
  BY DEF OrderFill, hubVars
<1> QED BY <1>3, <1>4 DEF FinalInv

\* Market data and updates are not about orders.
LEMMA OtherEventFinal ==
    ASSUME TypeOK, FinalInv, NEW ts, NEW e \in Event, Deliver(ts, e),
           e.kind \notin {"report", "fill"}, UNCHANGED <<owner, stage>>
    PROVE  FinalInv'
<1>1. \A t \in Targets :
        /\ LastIsFinal(inbox'[t])
        /\ \A u : Told(inbox'[t], u) => Told(inbox[t], u)
  BY DeliverFinal
<1> QED BY <1>1 DEF FinalInv

LEMMA ShorterFinal ==
    ASSUME TypeOK, FinalInv, NEW t \in Targets, Consume(t) \/ Disconnect(t)
    PROVE  FinalInv'
<1>1. \A u \in Targets :
        \/ inbox'[u] = inbox[u]
        \/ inbox[u] # <<>> /\ inbox'[u] = Tail(inbox[u])
        \/ inbox'[u] = <<>>
  BY DEF Consume, Disconnect, TypeOK
<1>2. LastIsFinal(<<>>) /\ \A o : ~Told(<<>>, o)
  BY DEF LastIsFinal, Told
<1>3. \A u \in Targets :
        /\ LastIsFinal(inbox'[u])
        /\ \A o : Told(inbox'[u], o) => Told(inbox[u], o)
  <2>1. SUFFICES ASSUME NEW u \in Targets
                 PROVE  /\ LastIsFinal(inbox'[u])
                        /\ \A o : Told(inbox'[u], o) => Told(inbox[u], o)
    OBVIOUS
  <2>2. inbox[u] \in Seq(Event) /\ LastIsFinal(inbox[u])
    BY DEF TypeOK, FinalInv
  <2>3. CASE inbox[u] # <<>> /\ inbox'[u] = Tail(inbox[u])
    BY <2>2, <2>3, TailFinal
  <2> QED BY <1>1, <1>2, <2>2, <2>3
<1>4. UNCHANGED <<owner, stage>>
  BY DEF Consume, Disconnect, hubVars, serviceVars
<1> QED BY <1>3, <1>4 DEF FinalInv

\* Nothing is delivered, and an order that is done stays so, with no new target.
LEMMA QuietFinal ==
    ASSUME FinalInv, UNCHANGED inbox,
           \A o \in Orders : stage[o] = "done" =>
              stage'[o] = "done" /\ (owner'[o] = owner[o] \/ owner'[o] = NoOne)
    PROVE  FinalInv'
BY TargetIsSomeone DEF FinalInv

LEMMA BatchPlaceFinal ==
    ASSUME TypeOK, FinalInv, NEW t \in Targets, NEW os \in SUBSET Orders, BatchPlace(t, os)
    PROVE  FinalInv'
<1>1. \A o \in Orders : stage[o] = "done" => stage'[o] = "done" /\ owner'[o] = owner[o]
  BY DEF BatchPlace
<1> QED BY <1>1, QuietFinal DEF BatchPlace, targetVars

LEMMA RestoreEndFinal ==
    ASSUME TypeOK, RouteInv, FinalInv, RestoreEnd
    PROVE  FinalInv'
<1>1. PICK r \in restoring, lost \in SUBSET Orders :
        /\ owner' = [o \in Orders |->
               CASE o \in lost                                        -> NoOne
                 [] o \notin lost /\ o = r.o /\ owner[o] = NoOne -> r.target
                 [] OTHER                                             -> owner[o]]
        /\ stage' = [stage EXCEPT ![r.o] = "open"]
        /\ UNCHANGED targetVars
  BY DEF RestoreEnd
<1>2. stage[r.o] = "stored"
  BY DEF RouteInv
<1>3. \A o \in Orders : stage[o] = "done" =>
         stage'[o] = "done" /\ (owner'[o] = owner[o] \/ owner'[o] = NoOne)
  BY <1>1, <1>2 DEF TypeOK
<1> QED BY <1>1, <1>3, QuietFinal DEF targetVars

LEMMA FinalNext == TypeOK /\ RouteInv /\ FinalInv /\ [Next]_vars => FinalInv'
<1> SUFFICES ASSUME TypeOK, RouteInv, FinalInv, [Next]_vars
             PROVE  FinalInv'
  OBVIOUS
<1>1. ASSUME NEW t \in Targets, NEW i \in Instruments, UpdateTicker(t, i)
      PROVE  FinalInv'
  <2>1. CASE Subscribers("ticker", i) = {}
    BY <1>1, <2>1, QuietFinal DEF UpdateTicker, targetVars
  <2>2. CASE Subscribers("ticker", i) # {}
    <3>1. Deliver({t}, [kind |-> "market", type |-> "ticker", i |-> i]) /\ UNCHANGED <<owner, stage>>
      BY <1>1, <2>2 DEF UpdateTicker
    <3>2. [kind |-> "market", type |-> "ticker", i |-> i] \in Event
      BY <1>1, EventKinds DEF UpdateTicker
    <3> QED BY <3>1, <3>2, OtherEventFinal
  <2> QED BY <2>1, <2>2
<1>2. ASSUME NEW t \in Targets, NEW type \in Types, NEW i \in Instruments,
             Subscribe(t, type, i) \/ Unsubscribe(t, type, i)
      PROVE  FinalInv'
  BY <1>2, QuietFinal DEF Subscribe, Unsubscribe, targetVars, serviceVars
<1>3. ASSUME NEW type, NEW i, IncomeData(type, i)
      PROVE  FinalInv'
  BY <1>3, QuietFinal DEF IncomeData, targetVars
<1>4. CASE NotifyOne
  <2>1. /\ Deliver({sweep.next}, [kind |-> "market", type |-> sweep.type, i |-> sweep.i])
        /\ UNCHANGED <<owner, stage>>
    BY <1>4 DEF NotifyOne
  <2>2. [kind |-> "market", type |-> sweep.type, i |-> sweep.i] \in Event
    BY <1>4, NotifyingSweep, EventKinds DEF NotifyOne
  <2> QED BY <2>1, <2>2, OtherEventFinal
<1>5. ASSUME NEW t \in Targets, NEW x \in Objects, UpdateObject(t, x)
      PROVE  FinalInv'
  BY <1>5, QuietFinal DEF UpdateObject, targetVars
<1>6. ASSUME NEW x \in Objects, ObjectUpdated(x)
      PROVE  FinalInv'
  <2>1. Deliver(waiting[x], [kind |-> "update", obj |-> x]) /\ UNCHANGED <<owner, stage>>
    BY <1>6 DEF ObjectUpdated
  <2>2. [kind |-> "update", obj |-> x] \in Event
    BY EventKinds
  <2> QED BY <2>1, <2>2, OtherEventFinal
<1>7. CASE OrderCall
  <2>1. ASSUME NEW t \in Targets, NEW o \in Stored, RestoreBegin(t, o)
        PROVE  FinalInv'
    BY <2>1, QuietFinal DEF RestoreBegin, targetVars, serviceVars
  <2> QED BY <1>7, <2>1, BatchPlaceFinal, RestoreEndFinal DEF OrderCall
<1>8. CASE OrderEvent
  BY <1>8, OrderFillFinal, OrderStateChangedFinal DEF OrderEvent
<1>9. CASE \E t \in Targets : Consume(t) \/ Disconnect(t)
  BY <1>9, ShorterFinal
<1>10. CASE UNCHANGED vars
  BY <1>10, QuietFinal DEF vars, hubVars, targetVars, serviceVars
<1> QED BY <1>1, <1>2, <1>3, <1>4, <1>5, <1>6, <1>7, <1>8, <1>9, <1>10 DEF Next, MarketCall

LEMMA FinalInit == Init => FinalInv
BY DEF Init, FinalInv, LastIsFinal, Told

\* After the final report of an order, which order_state_changed passes on before it
\* forgets the order, no report or fill of it is queued for the same target, whatever
\* the service repeats and whatever is restored meanwhile.
THEOREM HubFinalReportIsLast == Spec => []FinalReportIsLast
<1>1. Spec => [](TypeOK /\ RouteInv /\ FinalInv)
  BY TypeInit, TypeNext, RouteInit, RouteNext, FinalInit, FinalNext, PTL DEF Spec
<1> QED BY <1>1, FinalInvImplies, PTL

-----------------------------------------------------------------------------
(* The lock is never given back *)

\* A notification that has come to a stream's subscriber, or a disconnect that has left
\* the map, stays there: the loop visits the same entry again, and every operation that
\* could change the map waits for the lock.
THEOREM HubStaysStuck == Spec => [][Stuck => Stuck']_vars
<1>1. ASSUME TypeOK, [Next]_vars, Stuck
      PROVE  Stuck'
  <2>1. ~Free
    BY <1>1 DEF Stuck, Free, Idle, Hung
  <2>2. CASE NotifyOne
    <3>1. /\ sweep \in Notifying
          /\ subs[[type |-> sweep.type, i |-> sweep.i, target |-> sweep.next]] = "unlimited"
      BY <1>1, <2>2, NotifyingSweep DEF Stuck, Hung, NotifyOne
    <3>2. sweep' = [sweep EXCEPT !.remain = TRUE] /\ UNCHANGED subs
      BY <2>2, <3>1 DEF NotifyOne
    <3>3. /\ sweep'.at = "notify" /\ sweep'.type = sweep.type /\ sweep'.i = sweep.i
          /\ sweep'.next = sweep.next
      BY <3>1, <3>2 DEF Notifying
    <3> QED BY <3>1, <3>2, <3>3 DEF Stuck
  <2>3. CASE UNCHANGED <<subs, sweep, streams, lapsed>>
    BY <1>1, <2>3 DEF Stuck
  <2>4. CASE MarketCall
    BY <2>1, <2>4 DEF MarketCall, UpdateTicker, Subscribe, Unsubscribe
  <2>5. CASE \E st \in Stream : IncomeData(st[1], st[2])
    BY <2>1, <2>5 DEF IncomeData
  <2>6. CASE \E t \in Targets : Disconnect(t)
    BY <2>1, <2>6 DEF Disconnect
  <2> QED BY <1>1, <2>2, <2>3, <2>4, <2>5, <2>6, MarketFrame DEF MarketStep
<1> QED BY <1>1, HubTypes, PTL DEF Spec
=============================================================================
