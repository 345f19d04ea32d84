--------------------------- MODULE UpdateRequests ---------------------------
(***************************************************************************)
(* Requests to update one account (or instrument), from the strategies of  *)
(* several contexts through the exchange's hub to the service and back:    *)
(* update_account of BasicContext and of BasicExchangeContext,             *)
(* object_updated, and the event EvUpdateAccount that runs the callbacks.  *)
(* A context asks the hub only for its first callback, the hub the service *)
(* only for its first context; one answer serves everybody.                *)
(***************************************************************************)
EXTENDS Integers, Sequences, SequencesExt

CONSTANTS
    Contexts,       \* contexts of one exchange
    MaxCallbacks    \* bound on callbacks a context holds

ASSUME CallbacksAssumption == MaxCallbacks \in Nat \ {0}

VARIABLES
    cbs,        \* _cb_update_account, per context: each callback's Mark
    asking,     \* contexts between the lock and the call of the hub (do_call)
    events,     \* EvUpdateAccount events in each context's queue
    loc,        \* where the event's loop is: "idle", "call", "erase"
    waiting,    \* _account_update_waiting
    working,    \* updates the service works on
    unheard,    \* the service has answered within the call, which nobody hears
    stale       \* contexts whose first callback was called without an update

requestVars == <<cbs, asking, events, loc, waiting, working, unheard, stale>>

\* The callback that made its context ask the hub, one that joined it, or either once
\* an update was completed since it was registered.
Mark == {"first", "joined", "answered"}
Joining(s) == IF s = <<>> THEN "first" ELSE "joined"

\* All callbacks, once an update was completed.
Answered == [c \in Contexts |-> [k \in 1 .. Len(cbs[c]) |-> "answered"]]

\* The callbacks with a new one.
Registered(s) == Append(s, Joining(s))

\* The strategy of c may call update_account, from outside the loop.
Calm(c) == loc[c] = "idle" /\ c \notin asking

-----------------------------------------------------------------------------
(* update_account *)

\* Mutant: the callback is registered before the others are looked for.
RequestAfterInsert(c) ==
    /\ Calm(c) /\ Len(cbs[c]) < MaxCallbacks
    /\ cbs' = [cbs EXCEPT ![c] = Append(@, "joined")]
    /\ UNCHANGED <<asking, events, loc, waiting, working, unheard, stale>>

\* The locked part: the callback is registered, and do_call if it is the first.
Request(c) ==
    /\ Calm(c) /\ Len(cbs[c]) < MaxCallbacks
    /\ cbs' = [cbs EXCEPT ![c] = Registered(@)]
    /\ asking' = IF cbs[c] = <<>> THEN asking \cup {c} ELSE asking
    /\ UNCHANGED <<events, loc, waiting, working, unheard, stale>>

\* do_call, once the lock is released
DoCall(c) == c \in asking

\* The service works on the request and answers later.
AnswersLater ==
    /\ working' = working + 1
    /\ UNCHANGED <<cbs, unheard>>

\* It calls object_updated within the call, when nobody is in the list yet.
AnswersWithin ==
    /\ cbs' = Answered
    /\ unheard' = TRUE
    /\ UNCHANGED working

\* The hub: the service is asked if nobody waits, and then the context waits.
CallHub(c) ==
    /\ DoCall(c)
    /\ asking' = asking \ {c}
    /\ waiting' = Append(waiting, c)
    /\ IF waiting = <<>> THEN AnswersLater \/ AnswersWithin ELSE UNCHANGED <<cbs, working, unheard>>
    /\ UNCHANGED <<events, loc, stale>>

-----------------------------------------------------------------------------
(* The service answers *)

\* object_updated: everybody who waits gets an event.
ObjectUpdated ==
    /\ working > 0 /\ working' = working - 1
    /\ events' = [c \in Contexts |-> IF c \in ToSet(waiting) THEN events[c] + 1 ELSE events[c]]
    /\ waiting' = <<>>
    /\ cbs' = Answered
    /\ UNCHANGED <<asking, loc, unheard, stale>>

-----------------------------------------------------------------------------
(* EvUpdateAccount, on the scheduler's thread: call, erase, and so on *)

\* Mutants: the event is put back; it is not taken from the queue.
BeginPutsBack(c) == Calm(c) /\ events[c] > 0 /\ UNCHANGED requestVars
BeginKeepsEvent(c) ==
    /\ Calm(c) /\ events[c] > 0
    /\ loc' = IF cbs[c] = <<>> THEN loc ELSE [loc EXCEPT ![c] = "call"]
    /\ UNCHANGED <<cbs, asking, events, waiting, working, unheard, stale>>

Begin(c) ==
    /\ Calm(c) /\ events[c] > 0
    /\ events' = [events EXCEPT ![c] = @ - 1]
    /\ loc' = IF cbs[c] = <<>> THEN loc ELSE [loc EXCEPT ![c] = "call"]
    /\ UNCHANGED <<cbs, asking, waiting, working, unheard, stale>>

\* The callback is called; it is still registered, so that asking again from inside
\* it does not reach the hub.
Call(c) ==
    /\ loc[c] = "call"
    /\ loc' = [loc EXCEPT ![c] = "erase"]
    /\ stale' = IF Head(cbs[c]) = "first" THEN stale \cup {c} ELSE stale
    /\ \/ UNCHANGED cbs
       \/ /\ Len(cbs[c]) <= MaxCallbacks
          /\ cbs' = [cbs EXCEPT ![c] = Append(@, "joined")]
    /\ UNCHANGED <<asking, events, waiting, working, unheard>>

\* The callback is erased.  A new one is inserted before the end of the range, and
\* so the loop comes to it.
Erase(c) ==
    /\ loc[c] = "erase"
    /\ cbs' = [cbs EXCEPT ![c] = Tail(@)]
    /\ loc' = [loc EXCEPT ![c] = IF Tail(cbs[c]) = <<>> THEN "idle" ELSE "call"]
    /\ UNCHANGED <<asking, events, waiting, working, unheard, stale>>

\* Erasing it resumes the coroutine, which asks again: the erased callback is not
\* registered any more, and the loop's next position is already known.
EraseResumes(c) ==
    /\ loc[c] = "erase"
    /\ cbs' = [cbs EXCEPT ![c] = Registered(Tail(@))]
    /\ IF Tail(cbs[c]) = <<>>
       THEN asking' = asking \cup {c} /\ loc' = [loc EXCEPT ![c] = "idle"]
       ELSE UNCHANGED asking /\ loc' = [loc EXCEPT ![c] = "call"]
    /\ UNCHANGED <<events, waiting, working, unheard, stale>>

-----------------------------------------------------------------------------
RequestsInit ==
    /\ cbs = [c \in Contexts |-> <<>>]
    /\ asking = {}
    /\ events = [c \in Contexts |-> 0]
    /\ loc = [c \in Contexts |-> "idle"]
    /\ waiting = <<>> /\ working = 0 /\ unheard = FALSE
    /\ stale = {}

Run(c) == CallHub(c) \/ Begin(c) \/ Call(c) \/ Erase(c) \/ EraseResumes(c)

RequestsNext == ObjectUpdated \/ \E c \in Contexts : Request(c) \/ Run(c)

RequestsSpec == RequestsInit /\ [][RequestsNext]_requestVars

\* The service finishes its work; each context's thread runs on, and applies the event (it is
\* a punctual one: EventLoop, PunctualEventsApplied).
RequestsProceed ==
    /\ WF_requestVars(ObjectUpdated)
    /\ \A c \in Contexts : WF_requestVars(Run(c))

FairRequests == RequestsSpec /\ RequestsProceed

-----------------------------------------------------------------------------
(* Properties *)

\* The service works on one update at a time, and only while somebody waits; an
\* answer within the call leaves somebody who waits with nothing in work.
RequestsTypeOK ==
    /\ cbs \in [Contexts -> Seq(Mark)]
    /\ asking \subseteq Contexts
    /\ events \in [Contexts -> Nat]
    /\ loc \in [Contexts -> {"idle", "call", "erase"}]
    /\ waiting \in Seq(Contexts)
    /\ unheard \in BOOLEAN
    /\ stale \subseteq Contexts
    /\ working = IF waiting = <<>> \/ unheard THEN 0 ELSE 1
    /\ unheard => waiting # <<>>
    /\ \A c \in Contexts : loc[c] # "idle" => cbs[c] # <<>>

\* A registered callback is on its way to an answer: the hub will be asked, the service
\* works on what is waited for, the hub has answered, or the callbacks are being
\* called.  The exception is an answer within the call, which leaves everybody in the
\* list behind a request that is over.
NoCallbackStranded ==
    \A c \in Contexts : cbs[c] # <<>> =>
        \/ c \in asking
        \/ c \in ToSet(waiting) /\ (working > 0 \/ unheard)
        \/ events[c] > 0
        \/ loc[c] # "idle"

\* A context's callbacks are eventually called, unless it waits in the hub after an
\* answer within the call.
CallbacksRun ==
    \A c \in Contexts :
        (cbs[c] # <<>> /\ loc[c] = "idle")
            ~> (loc[c] = "call" \/ (unheard /\ c \in ToSet(waiting)))

\* What update_account is documented to do with its callback (strategy_context.h:328:
\* "function called when update is complete"): it is called, however the service
\* answers.  The simulated exchange answers within the call (sim_exchange.cpp:25), and
\* then it is not.
CalledWhenComplete ==
    \A c \in Contexts : (cbs[c] # <<>> /\ loc[c] = "idle") ~> (loc[c] = "call")

\* A callback that made its context ask is called for an update that was completed
\* after it was registered (one that joined it may be called for an earlier one, whose
\* answer was already queued).
FirstIsFresh == stale = {}

-----------------------------------------------------------------------------
(* The last property as part of an inductive one. *)

\* Of a request to the hub, a place in its list, an answer in the queue and a running
\* loop a context has at most one, and without callbacks none.
OneAnswerAhead(c) ==
    /\ events[c] <= 1
    /\ c \in asking => c \notin ToSet(waiting) /\ events[c] = 0 /\ loc[c] = "idle"
    /\ c \in ToSet(waiting) => events[c] = 0 /\ loc[c] = "idle"
    /\ events[c] > 0 => loc[c] = "idle"
    /\ cbs[c] = <<>> => c \notin asking /\ c \notin ToSet(waiting) /\ events[c] = 0

\* A first callback comes before all others, and waits for the answer.
FirstWaits(c) ==
    \A k \in 1 .. Len(cbs[c]) :
        cbs[c][k] = "first" => k = 1 /\ (c \in asking \/ c \in ToSet(waiting))

FreshInv == FirstIsFresh /\ \A c \in Contexts : OneAnswerAhead(c) /\ FirstWaits(c)
=============================================================================
