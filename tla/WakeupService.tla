---------------------------- MODULE WakeupService ----------------------------
(***************************************************************************)
(* What a context is promised by its scheduler: each client (ident) has at *)
(* most one wakeup; a function runs after its time has come and not        *)
(* before; one runs at a time; none starts once the scheduler is closed.   *)
(* This is the slot and the clock of EventLoop, for several contexts.      *)
(***************************************************************************)
EXTENDS Integers

CONSTANTS
    Idents,         \* clients
    MaxTime         \* last instant

Never == MaxTime + 1

VARIABLES
    entry,          \* when each client wants to be woken, Never if it does not
    clock,
    current,        \* the client whose function runs, or "nobody"
    open            \* the scheduler may start functions

\* A client asks for a wakeup, or moves the one it has.
Ask(i, t) ==
    /\ open
    /\ entry' = [entry EXCEPT ![i] = t]
    /\ UNCHANGED <<clock, current, open>>

Call(i) ==
    /\ open /\ current = "nobody"
    /\ entry[i] <= clock
    /\ \A j \in Idents : entry[i] <= entry[j]
    /\ entry' = [entry EXCEPT ![i] = Never]
    /\ current' = i
    /\ UNCHANGED <<clock, open>>

Return ==
    /\ current # "nobody"
    /\ current' = "nobody"
    /\ UNCHANGED <<entry, clock, open>>

\* One function may end and the next begin in one step.
ReturnCall(i) ==
    /\ open /\ current # "nobody"
    /\ entry[i] <= clock
    /\ \A j \in Idents : entry[i] <= entry[j]
    /\ entry' = [entry EXCEPT ![i] = Never]
    /\ current' = i
    /\ UNCHANGED <<clock, open>>

Pass == clock' = clock + 1 /\ UNCHANGED <<entry, current, open>>

Close == open' = FALSE /\ UNCHANGED <<entry, clock, current>>

Init ==
    /\ entry = [i \in Idents |-> Never]
    /\ clock = 1 /\ current = "nobody" /\ open = TRUE

Next ==
    \/ \E i \in Idents : Call(i) \/ ReturnCall(i) \/ \E t \in 0 .. MaxTime : Ask(i, t)
    \/ Return \/ Pass \/ Close

Spec == Init /\ [][Next]_<<entry, clock, current, open>>
=============================================================================
