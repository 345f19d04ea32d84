------------------------------- MODULE Replay -------------------------------
(***************************************************************************)
(* What a back test is promised: recorded prices come out in the order of  *)
(* their time, each once, and time never runs past a price that was not    *)
(* yet shown.  Prices added for a time that is over are shown at once, and *)
(* set_time(t) returns only when all prices before t are out.              *)
(***************************************************************************)
EXTENDS Integers, Sequences

CONSTANTS
    Prices,         \* prices that may be recorded
    MaxTime         \* last time point

VARIABLES
    records,        \* recorded prices not shown yet
    shown,          \* tickers shown, in order
    now,            \* time of the back test
    goal            \* the time set_time is going to, 0 outside of it

vars == <<records, shown, now, goal>>

Due(t) == {r \in records : r.tp < t}

Record(r) ==
    /\ goal = 0
    /\ records' = records \cup {r}
    /\ UNCHANGED <<shown, now, goal>>

Go(t) == goal = 0 /\ goal' = t /\ UNCHANGED <<records, shown, now>>

\* A price is shown when time has come to it, and to no later price.
Show(r) ==
    /\ r \in Due(goal)
    /\ \A q \in records : r.tp <= q.tp
    /\ records' = records \ {r}
    /\ now' = (IF now < r.tp THEN r.tp ELSE now)
    /\ shown' = IF r.kind = "ticker" THEN Append(shown, r) ELSE shown
    /\ UNCHANGED goal

\* A strategy is woken in between: time advances to its timer.
Advance(t) ==
    /\ now < t /\ t < goal
    /\ Due(t) = {}
    /\ now' = t
    /\ UNCHANGED <<records, shown, goal>>

Arrive ==
    /\ goal # 0
    /\ Due(goal) = {}
    /\ now' = (IF now < goal THEN goal ELSE now)
    /\ goal' = 0
    /\ UNCHANGED <<records, shown>>

Init == records = {} /\ shown = <<>> /\ now = 0 /\ goal = 0

Next ==
    \/ \E r \in Prices : Record(r)
    \/ \E t \in 1 .. MaxTime : Go(t) \/ Advance(t)
    \/ \E r \in records : Show(r)
    \/ Arrive

Spec == Init /\ [][Next]_vars
=============================================================================
