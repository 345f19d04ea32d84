----------------------------- MODULE ExchangeHub -----------------------------
(***************************************************************************)
(* The object between the strategies and an exchange's service: class      *)
(* BasicExchangeContext.  Strategies (the targets) subscribe market data,   *)
(* request updates of accounts and instruments and place orders; the       *)
(* service answers from its own threads; the hub remembers which target    *)
(* gets what.                                                              *)
(*                                                                         *)
(* Every operation holds _mx from beginning to end, so it is one step,     *)
(* except: order_restore, which takes no lock, and the loop that notifies  *)
(* subscribers, which need not end (sweep is where it stands, and while it *)
(* stands anywhere no other operation can start).                          *)
(***************************************************************************)
EXTENDS Integers, Sequences, FiniteSets, SequencesExt

CONSTANTS
    Targets,        \* event targets; numbers, for the order of their addresses
    Types,          \* subscription types in use
    Instruments,    \* instruments; numbers, for their order
    Objects,        \* accounts and instruments whose update may be requested
    Orders,         \* order objects
    Stored,         \* those among them which a storage holds when the program starts
    Streaming,      \* targets subscribe streams, not only single tickers
    Leaving,        \* targets that may disconnect
    Repeats,        \* the service may emit events of an order after its final report
    MaxInbox,       \* bound on a target's queue
    MaxEmits,       \* bound on events of an order
    MaxAsked        \* bound on requests the service works on, per object

ASSUME TargetsAssumption == Targets \subseteq Nat /\ Instruments \subseteq Nat
ASSUME TypesAssumption == Types \subseteq {"ticker", "orderbook"}
ASSUME OrdersAssumption == Stored \subseteq Orders
ASSUME HubModeAssumption ==
    /\ Streaming \in BOOLEAN /\ Leaving \subseteq Targets
    /\ Repeats \in BOOLEAN
ASSUME HubBoundsAssumption == MaxInbox \in Nat /\ MaxEmits \in Nat /\ MaxAsked \in Nat

Stream == Types \X Instruments
Subscription == [type : Types, i : Instruments, target : Targets]
NoOne == -1

Event ==
    [kind : {"market"}, type : Types, i : Instruments]
        \cup [kind : {"update"}, obj : Objects]
        \cup [kind : {"report"}, o : Orders, final : BOOLEAN]
        \cup [kind : {"fill"}, o : Orders]

VARIABLES
    subs,       \* _subscriptions: Subscription -> "onceshot" or "unlimited"
    waiting,    \* _account_update_waiting, _instrument_update_waiting: who waits for an object
    owner,      \* _orders: an order's target, NoOne if it has no entry
    sweep,      \* where send_subscription_notify or disconnect stands
    restoring,  \* order_restore in progress: {[o, t, raced]}, {} if none
    alive,      \* targets that exist; disconnect is the last call of a target
    inbox,      \* what on_event of a target was given and it has not executed
    streams,    \* the service: streams it sends
    lapsed,     \* streams whose last request the service answered within the call
    asked,      \* the service: update requests it works on
    unheard,    \* objects whose last request the service answered within the call
    stage,      \* the service: "new", "stored", "open" or "done", per order
    issuer,     \* who placed an order or had it restored
    mislaid,    \* orders whose entry an unlocked restore has destroyed
    emits       \* number of events of an order

hubVars == <<subs, waiting, owner, sweep, restoring>>
targetVars == <<alive, inbox>>
serviceVars == <<streams, lapsed, asked, unheard, stage, issuer, mislaid, emits>>
vars == <<hubVars, targetVars, serviceVars>>

Idle == [at |-> "idle"]
\* disconnect stepped past the end of the map and runs for ever.
Hung == [at |-> "hung"]
Notifying == [at : {"notify"}, type : Types, i : Instruments, next : Targets, remain : BOOLEAN]

\* _mx is free.
Free == sweep = Idle

-----------------------------------------------------------------------------
(* Event targets *)

\* The targets' queues after on_event(e) for each member of ts; BasicContext merges
\* market data into an event that is already queued.
Delivered(ts, e) ==
    [t \in Targets |->
        IF t \in ts /\ ~(e.kind = "market" /\ e \in ToSet(inbox[t]))
        THEN Append(inbox[t], e)
        ELSE inbox[t]]

\* on_event(e) is called for every member of ts.  Only a live target's queue matters.
Deliver(ts, e) ==
    /\ inbox' = Delivered(ts \cap alive, e)
    /\ \A t \in Targets : Len(inbox'[t]) <= MaxInbox
    /\ UNCHANGED alive

Consume(t) ==
    /\ t \in alive /\ inbox[t] # <<>>
    /\ inbox' = [inbox EXCEPT ![t] = Tail(@)]
    /\ UNCHANGED <<hubVars, alive, serviceVars>>

-----------------------------------------------------------------------------
(* Market data *)

\* The map's order: type, instrument, target.
TypeRank(type) == IF type = "ticker" THEN 0 ELSE 1
Before(r, s) ==
    \/ TypeRank(r.type) < TypeRank(s.type)
    \/ r.type = s.type /\ r.i < s.i
    \/ r.type = s.type /\ r.i = s.i /\ r.target < s.target

Subscribers(type, i) == {t \in Targets : [type |-> type, i |-> i, target |-> t] \in DOMAIN subs}

\* _subscriptions[s] = kind.
Entered(s, kind) == [r \in DOMAIN subs \cup {s} |-> IF r = s THEN kind ELSE subs[r]]

\* _ptr->subscribe, called before the target is entered: the service sends the stream;
\* or it sends data within the call (_mx is recursive), income_data finds nobody and has
\* the service stop, and nobody asks again while the target stays.
RequestStream(type, i) ==
    \/ streams' = streams \cup {<<type, i>>} /\ lapsed' = lapsed \ {<<type, i>>}
    \/ streams' = streams \ {<<type, i>>} /\ lapsed' = lapsed \cup {<<type, i>>}

Subscribe(t, type, i) ==
    /\ Streaming
    /\ Free /\ t \in alive
    /\ IF Subscribers(type, i) = {} THEN RequestStream(type, i) ELSE UNCHANGED <<streams, lapsed>>
    /\ subs' = Entered([type |-> type, i |-> i, target |-> t], "unlimited")
    /\ UNCHANGED <<waiting, owner, sweep, restoring, targetVars, asked, unheard, stage, issuer, mislaid, emits>>

\* The service hears of it when the next data arrive.
Unsubscribe(t, type, i) ==
    /\ Free /\ t \in alive
    /\ subs' = [s \in DOMAIN subs \ {[type |-> type, i |-> i, target |-> t]} |-> subs[s]]
    /\ UNCHANGED <<waiting, owner, sweep, restoring, targetVars, serviceVars>>

\* Mutant: the service is not asked for the stream.
UpdateTickerUnserved(t, i) ==
    /\ Free /\ t \in alive /\ "ticker" \in Types
    /\ IF Subscribers("ticker", i) = {}
       THEN /\ subs' = Entered([type |-> "ticker", i |-> i, target |-> t], "onceshot")
            /\ UNCHANGED <<streams, lapsed, targetVars>>
       ELSE /\ Deliver({t}, [kind |-> "market", type |-> "ticker", i |-> i])
            /\ UNCHANGED <<subs, streams, lapsed>>
    /\ UNCHANGED <<waiting, owner, sweep, restoring, asked, unheard, stage, issuer, mislaid, emits>>

\* With a stream already there, the target is told at once, whether or not data have come yet.
UpdateTicker(t, i) ==
    /\ Free /\ t \in alive /\ "ticker" \in Types
    /\ IF Subscribers("ticker", i) = {}
       THEN /\ RequestStream("ticker", i)
            /\ subs' = Entered([type |-> "ticker", i |-> i, target |-> t], "onceshot")
            /\ UNCHANGED targetVars
       ELSE /\ Deliver({t}, [kind |-> "market", type |-> "ticker", i |-> i])
            /\ UNCHANGED <<subs, streams, lapsed>>
    /\ UNCHANGED <<waiting, owner, sweep, restoring, asked, unheard, stage, issuer, mislaid, emits>>

\* The rest of send_subscription_notify when ts are the subscribers not yet looked
\* at: the loop goes on with the first of them, or ends.
NotifyRest(type, i, ts, remain) ==
    IF ts # {}
    THEN /\ \E t \in ts :
              /\ \A u \in ts : t <= u
              /\ sweep' = [at |-> "notify", type |-> type, i |-> i, next |-> t, remain |-> remain]
         /\ UNCHANGED streams
    ELSE /\ sweep' = Idle
         /\ streams' = IF remain THEN streams ELSE streams \ {<<type, i>>}

IncomeData(type, i) ==
    /\ Free
    /\ NotifyRest(type, i, Subscribers(type, i), FALSE)
    /\ UNCHANGED <<subs, waiting, owner, restoring, targetVars, lapsed, asked, unheard, stage, issuer, mislaid, emits>>

\* Mutant: an entry is skipped when the round ends with it.
NotifyOneSkips ==
    /\ sweep.at = "notify"
    /\ Deliver({sweep.next}, [kind |-> "market", type |-> sweep.type, i |-> sweep.i])
    /\ sweep' = Idle
    /\ UNCHANGED <<subs, streams, lapsed, waiting, owner, restoring, asked, unheard, stage, issuer, mislaid, emits>>

\* One round of the loop.  Only the removal of a one-shot entry moves the iterator: an
\* unlimited one is counted and visited again.
NotifyOne ==
    /\ sweep.at = "notify"
    /\ LET s == [type |-> sweep.type, i |-> sweep.i, target |-> sweep.next]
           later == {t \in Subscribers(sweep.type, sweep.i) : t > sweep.next}
       IN
       /\ IF subs[s] = "onceshot"
          THEN /\ subs' = [r \in DOMAIN subs \ {s} |-> subs[r]]
               /\ NotifyRest(sweep.type, sweep.i, later, sweep.remain)
          ELSE /\ sweep' = [sweep EXCEPT !.remain = TRUE]
               /\ UNCHANGED <<subs, streams>>
       /\ Deliver({s.target}, [kind |-> "market", type |-> s.type, i |-> s.i])
    /\ UNCHANGED <<waiting, owner, restoring, lapsed, asked, unheard, stage, issuer, mislaid, emits>>

-----------------------------------------------------------------------------
(* Updates of accounts and instruments *)

\* update_account, update_instrument: the service is asked if nobody waits yet, and
\* then the target waits (a context asks only if none of its callbacks waits, so the list
\* names nobody twice).  A service that answers within the call finds nobody, and is not
\* asked again.
UpdateObject(t, x) ==
    /\ Free /\ t \in alive
    /\ t \notin waiting[x]
    /\ IF waiting[x] = {}
       THEN \/ /\ asked[x] < MaxAsked /\ asked' = [asked EXCEPT ![x] = @ + 1]
               /\ unheard' = unheard \ {x}
            \/ unheard' = unheard \cup {x} /\ UNCHANGED asked
       ELSE UNCHANGED <<asked, unheard>>
    /\ waiting' = [waiting EXCEPT ![x] = @ \cup {t}]
    /\ UNCHANGED <<subs, owner, sweep, restoring, targetVars, streams, lapsed, stage, issuer, mislaid, emits>>

\* Mutant: the waiting list is not cleared.
ObjectUpdatedKeeps(x) ==
    /\ Free
    /\ asked[x] > 0 /\ asked' = [asked EXCEPT ![x] = @ - 1]
    /\ unheard' = unheard \ {x}
    /\ Deliver(waiting[x], [kind |-> "update", obj |-> x])
    /\ UNCHANGED <<waiting, subs, owner, sweep, restoring, streams, lapsed, stage, issuer, mislaid, emits>>

\* object_updated: everyone who waits is told, and waits no longer.
ObjectUpdated(x) ==
    /\ Free
    /\ asked[x] > 0 /\ asked' = [asked EXCEPT ![x] = @ - 1]
    /\ unheard' = unheard \ {x}
    /\ Deliver(waiting[x], [kind |-> "update", obj |-> x])
    /\ waiting' = [waiting EXCEPT ![x] = {}]
    /\ UNCHANGED <<subs, owner, sweep, restoring, streams, lapsed, stage, issuer, mislaid, emits>>

-----------------------------------------------------------------------------
(* Orders *)

\* A change of _orders by another thread while order_restore changes it.
MeetRestore == restoring' = {[r EXCEPT !.raced = TRUE] : r \in restoring}

\* batch_place: the orders get their target before the service sees them.
BatchPlace(t, os) ==
    /\ Free /\ t \in alive
    /\ os # {} /\ \A o \in os : stage[o] = "new"
    /\ owner' = [o \in Orders |-> IF o \in os /\ owner[o] = NoOne THEN t ELSE owner[o]]
    /\ stage' = [o \in Orders |-> IF o \in os THEN "open" ELSE stage[o]]
    /\ issuer' = [o \in Orders |-> IF o \in os THEN t ELSE issuer[o]]
    /\ MeetRestore
    /\ UNCHANGED <<subs, waiting, sweep, targetVars, streams, lapsed, asked, unheard, mislaid, emits>>

\* The service emits events of an order while it is open, and then, if it repeats
\* itself, some more.
Emits(o) ==
    /\ stage[o] = "open" \/ (Repeats /\ stage[o] = "done")
    /\ emits[o] < MaxEmits /\ emits' = [emits EXCEPT ![o] = @ + 1]

\* What a search for the order in _orders may find: its target, or nobody if it has no
\* entry or an unlocked order_restore is moving the entries.
Finds(o) == {{t \in Targets : t = owner[o]}} \cup (IF restoring = {} THEN {} ELSE {{}})

\* Mutants: the entry is removed by every report; it is never removed.
OrderStateChangedForgets(o, final) ==
    /\ Free /\ Emits(o)
    /\ Deliver({t \in Targets : t = owner[o]}, [kind |-> "report", o |-> o, final |-> final])
    /\ owner' = [owner EXCEPT ![o] = NoOne]
    /\ stage' = IF final THEN [stage EXCEPT ![o] = "done"] ELSE stage
    /\ MeetRestore
    /\ UNCHANGED <<subs, waiting, sweep, streams, lapsed, asked, unheard, issuer, mislaid>>
OrderStateChangedKeeps(o, final) ==
    /\ Free /\ Emits(o)
    /\ Deliver({t \in Targets : t = owner[o]}, [kind |-> "report", o |-> o, final |-> final])
    /\ stage' = IF final THEN [stage EXCEPT ![o] = "done"] ELSE stage
    /\ MeetRestore
    /\ UNCHANGED <<owner, subs, waiting, sweep, streams, lapsed, asked, unheard, issuer, mislaid>>

\* order_state_changed: the report goes to the order's target; after a final one
\* (is_done) the hub forgets the order.
OrderStateChanged(o, final) ==
    /\ Free /\ Emits(o)
    /\ \E found \in Finds(o) :
          /\ Deliver(found, [kind |-> "report", o |-> o, final |-> final])
          /\ owner' = IF final /\ found # {} THEN [owner EXCEPT ![o] = NoOne] ELSE owner
    /\ stage' = IF final THEN [stage EXCEPT ![o] = "done"] ELSE stage
    /\ MeetRestore
    /\ UNCHANGED <<subs, waiting, sweep, streams, lapsed, asked, unheard, issuer, mislaid>>

OrderFill(o) ==
    /\ Free /\ Emits(o)
    /\ \E found \in Finds(o) : Deliver(found, [kind |-> "fill", o |-> o])
    /\ UNCHANGED <<hubVars, streams, lapsed, asked, unheard, stage, issuer, mislaid>>

\* restore_orders and the service's answer order_restore, without the lock: it begins
\* to change the map,
RestoreBegin(t, o) ==
    /\ t \in alive /\ restoring = {}
    /\ stage[o] = "stored"
    /\ restoring' = {[o |-> o, target |-> t, raced |-> FALSE]}
    /\ UNCHANGED <<subs, waiting, owner, sweep, targetVars, serviceVars>>

\* and ends.  If another thread changed the map meanwhile, entries may be destroyed.
RestoreEnd ==
    \E r \in restoring, lost \in SUBSET Orders :
        /\ r.raced \/ lost = {}
        /\ \A o \in lost : o = r.o \/ owner[o] # NoOne
        /\ owner' = [o \in Orders |->
               CASE o \in lost                                        -> NoOne
                 [] o \notin lost /\ o = r.o /\ owner[o] = NoOne -> r.target
                 [] OTHER                                             -> owner[o]]
        /\ mislaid' = mislaid \cup lost
        /\ stage' = [stage EXCEPT ![r.o] = "open"]
        /\ issuer' = [issuer EXCEPT ![r.o] = r.target]
        /\ restoring' = {}
        /\ UNCHANGED <<subs, waiting, sweep, targetVars, streams, lapsed, asked, unheard, emits>>

-----------------------------------------------------------------------------
(* disconnect *)

\* The loop over the subscriptions: what is kept, and whether the iterator was moved
\* after the last entry had been erased.  After an erasure the next entry is skipped,
\* so that of a run of t's entries every second one stays.
Sweep(t) ==
    LET \* t's entries right before s
        Run(s) == {r \in DOMAIN subs :
                      /\ Before(r, s)
                      /\ \A q \in DOMAIN subs :
                            q = r \/ (Before(r, q) /\ Before(q, s)) => q.target = t}
        erased == {s \in DOMAIN subs : s.target = t /\ Cardinality(Run(s)) % 2 = 0}
    IN [kept |-> DOMAIN subs \ erased,
        skip |-> \E s \in erased : \A r \in DOMAIN subs : ~Before(s, r)]

\* The orders are not looked at.  Past the end of the map the loop may come back into
\* it (more entries may go) and end, or run for ever.
Disconnect(t) ==
    /\ Free /\ t \in alive /\ t \in Leaving
    /\ LET swept == Sweep(t)
           rest == {s \in swept.kept : s.target = t}
       IN
       \/ /\ \E more \in SUBSET rest :
                /\ swept.skip \/ more = {}
                /\ subs' = [s \in swept.kept \ more |-> subs[s]]
          /\ waiting' = [x \in Objects |-> waiting[x] \ {t}]
          /\ alive' = alive \ {t}
          /\ inbox' = [inbox EXCEPT ![t] = <<>>]
          /\ UNCHANGED sweep
       \/ /\ swept.skip
          /\ subs' = [s \in swept.kept |-> subs[s]]
          /\ sweep' = Hung
          /\ UNCHANGED <<waiting, alive, inbox>>
    /\ UNCHANGED <<owner, restoring, serviceVars>>

-----------------------------------------------------------------------------
Init ==
    /\ subs = <<>> /\ sweep = Idle /\ restoring = {}
    /\ waiting = [x \in Objects |-> {}]
    /\ owner = [o \in Orders |-> NoOne]
    /\ alive = Targets /\ inbox = [t \in Targets |-> <<>>]
    /\ streams = {} /\ lapsed = {} /\ asked = [x \in Objects |-> 0] /\ unheard = {} /\ mislaid = {}
    /\ stage = [o \in Orders |-> IF o \in Stored THEN "stored" ELSE "new"]
    /\ issuer = [o \in Orders |-> NoOne] /\ emits = [o \in Orders |-> 0]

MarketCall ==
    \E t \in Targets, i \in Instruments :
        \/ UpdateTicker(t, i)
        \/ \E type \in Types : Subscribe(t, type, i) \/ Unsubscribe(t, type, i)

OrderCall ==
    \/ \E t \in Targets :
          \/ \E os \in SUBSET Orders : BatchPlace(t, os)
          \/ \E o \in Stored : RestoreBegin(t, o)
    \/ RestoreEnd

OrderEvent ==
    \E o \in Orders :
        \/ OrderFill(o)
        \/ \E final \in BOOLEAN : OrderStateChanged(o, final)

Next ==
    \/ MarketCall
    \/ \E st \in Stream : IncomeData(st[1], st[2])
    \/ NotifyOne
    \/ \E t \in Targets, x \in Objects : UpdateObject(t, x)
    \/ \E x \in Objects : ObjectUpdated(x)
    \/ OrderCall \/ OrderEvent
    \/ \E t \in Targets : Consume(t) \/ Disconnect(t)

Spec == Init /\ [][Next]_vars

\* Targets execute what is queued, the notifying thread keeps running, and the service
\* answers requests and sends data for the streams it was asked for.
FairSpec ==
    /\ Spec
    /\ WF_vars(NotifyOne)
    /\ \A t \in Targets : WF_vars(Consume(t))
    /\ \A x \in Objects : SF_vars(ObjectUpdated(x))
    /\ \A st \in Stream : SF_vars(st \in streams /\ IncomeData(st[1], st[2]))

-----------------------------------------------------------------------------
(* Properties *)

TypeOK ==
    /\ DOMAIN subs \subseteq Subscription
    /\ \A s \in DOMAIN subs : subs[s] \in {"onceshot", "unlimited"}
    /\ waiting \in [Objects -> SUBSET Targets]
    /\ owner \in [Orders -> Targets \cup {NoOne}]
    /\ sweep \in {Idle, Hung} \cup Notifying
    /\ restoring \subseteq [o : Orders, target : Targets, raced : BOOLEAN]
    /\ alive \subseteq Targets
    /\ inbox \in [Targets -> Seq(Event)]
    /\ streams \subseteq Stream /\ lapsed \subseteq Stream
    /\ asked \in [Objects -> 0 .. MaxAsked] /\ unheard \subseteq Objects
    /\ mislaid \subseteq Orders
    /\ stage \in [Orders -> {"new", "stored", "open", "done"}]
    /\ issuer \in [Orders -> Targets \cup {NoOne}] /\ emits \in [Orders -> 0 .. MaxEmits]

\* Whoever is subscribed, the service sends the stream, unless it answered the request
\* for it within the call: the hub asks for it with the first subscription only and
\* stops it only in a round that found nobody.
SubscribersServed ==
    \A s \in DOMAIN subs : <<s.type, s.i>> \in streams \/ <<s.type, s.i>> \in lapsed

\* Every order the service works on is routed to the target that placed or restored it,
\* as long as that target exists, unless its entry was destroyed by a change of the map
\* that met a restore.
OpenOrdersRouted ==
    \A o \in Orders \ mislaid :
        stage[o] = "open" /\ issuer[o] \in alive => owner[o] = issuer[o]

\* What basic_exchange.h:20-22 says of disconnect: the target's subscriptions, open
\* orders and pending updates are gone with it.
DisconnectDisposes ==
    \A t \in Targets \ alive :
        /\ \A s \in DOMAIN subs : s.target # t
        /\ \A o \in Orders : owner[o] # t
        /\ \A x \in Objects : t \notin waiting[x]

\* Nothing about an order follows its final report in the target's queue, even if
\* the service repeats itself.
FinalReportIsLast ==
    \A t \in Targets : \A j, k \in 1 .. Len(inbox[t]) :
        /\ j < k
        /\ inbox[t][j].kind = "report" /\ inbox[t][j].final
        /\ inbox[t][k].kind \in {"report", "fill"}
        => inbox[t][k].o # inbox[t][j].o

\* The lock is never given back: a notification has come to a stream's subscriber, or
\* disconnect has left the map.
Stuck ==
    \/ sweep = Hung
    \/ /\ sweep.at = "notify"
       /\ subs[[type |-> sweep.type, i |-> sweep.i, target |-> sweep.next]] = "unlimited"

\* A target that waits for an update is told of it, or leaves, while the hub works and
\* the service answers requests after the call that makes them.
WaitersAnswered ==
    \A t \in Targets, x \in Objects :
        (t \in waiting[x]) ~> (t \notin waiting[x] \/ Stuck \/ x \in unheard)

\* A one-shot subscription ends, while the hub works, unless the service answered the
\* request for its stream within the call, before the subscription was entered.
OneShotsServed ==
    \A s \in Subscription :
        (s \in DOMAIN subs /\ subs[s] = "onceshot") ~> (s \notin DOMAIN subs \/ Stuck \/ <<s.type, s.i>> \in lapsed)
=============================================================================
