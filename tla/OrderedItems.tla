---------------------------- MODULE OrderedItems ----------------------------
(***************************************************************************)
(* What a priority queue promises: a collection of items from which an     *)
(* item with the earliest time point is taken first.  The scheduler of     *)
(* EventLoop and RealTimeScheduler is written against this: a set of items *)
(* and its earliest one.                                                   *)
(***************************************************************************)
EXTENDS Integers

CONSTANTS
    Ids,        \* items
    Times       \* their time points

VARIABLES
    tp,         \* the time point of each item that is in the queue
    call        \* the last call: "take" or another

Put(i, t) ==
    /\ i \notin DOMAIN tp
    /\ tp' = [j \in DOMAIN tp \cup {i} |-> IF j = i THEN t ELSE tp[j]]
    /\ call' = "other"

\* The item taken is one that front() may return.
TakeFirst(i) ==
    /\ i \in DOMAIN tp
    /\ \A j \in DOMAIN tp : tp[i] <= tp[j]
    /\ tp' = [j \in DOMAIN tp \ {i} |-> tp[j]]
    /\ call' = "take"

Remove(i) ==
    /\ i \in DOMAIN tp
    /\ tp' = [j \in DOMAIN tp \ {i} |-> tp[j]]
    /\ call' = "other"

Move(i, t) ==
    /\ i \in DOMAIN tp
    /\ tp' = [tp EXCEPT ![i] = t]
    /\ call' = "other"

Init == tp = <<>> /\ call = "other"

Next ==
    \E i \in Ids :
        \/ TakeFirst(i) \/ Remove(i)
        \/ \E t \in Times : Put(i, t) \/ Move(i, t)

Spec == Init /\ [][Next]_<<tp, call>>
=============================================================================
