------------------------- MODULE TransactionalStore -------------------------
(***************************************************************************)
(* A transactional store: writes made in a transaction are visible when    *)
(* the outermost transaction commits, all of them, or never when they are  *)
(* discarded.  A key that was not stored gets the new entry; one that was  *)
(* is stored with its old entry or with the new one, and a fill is added.  *)
(***************************************************************************)
EXTENDS Integers, Sequences

CONSTANTS
    Names,          \* persistent variables
    Values,         \* their values
    Orders,         \* orders
    Contents,       \* what is stored of an order
    Fills,          \* fills
    Missing         \* the value of what is not stored

VARIABLES
    db,             \* what load_open_orders, load_fills and enum_vars read
    work,           \* db with the writes of the open transaction
    depth,          \* transactions open
    call            \* the last call

Write(w, new) ==
    /\ call' = w
    /\ work' = new
    /\ db' = IF depth = 0 THEN new ELSE db
    /\ UNCHANGED depth

\* What a key may have for its entry once another one was put.
AfterPut(stored, new) == IF stored = Missing THEN {new} ELSE {stored, new}

PutVar(n, v) ==
    \E entry \in AfterPut(work.vars[n], v) :
        Write([op |-> "put_var", key |-> n, value |-> v], [work EXCEPT !.vars[n] = entry])
EraseVar(n) ==
    Write([op |-> "erase_var", key |-> n], [work EXCEPT !.vars[n] = Missing])
PutOrder(o, c) ==
    \E entry \in AfterPut(work.orders[o], c) :
        Write([op |-> "put_order", key |-> o], [work EXCEPT !.orders[o] = entry])
PutFill(f) ==
    Write([op |-> "put_fill", fill |-> f], [work EXCEPT !.fills = Append(@, f)])

Begin ==
    /\ call' = [op |-> "begin"]
    /\ depth' = depth + 1
    /\ UNCHANGED <<db, work>>

Outer == IF depth > 0 THEN depth - 1 ELSE 0

Commit ==
    /\ call' = [op |-> "commit"]
    /\ depth' = Outer
    /\ db' = IF Outer = 0 THEN work ELSE db
    /\ UNCHANGED work

Rollback ==
    /\ call' = [op |-> "rollback"]
    /\ depth' = Outer
    /\ work' = db
    /\ UNCHANGED db

Init ==
    /\ db = [vars   |-> [n \in Names |-> Missing],
             orders |-> [o \in Orders |-> Missing],
             fills  |-> <<>>]
    /\ work = db /\ depth = 0
    /\ call = [op |-> "none"]

Next ==
    \/ \E n \in Names : EraseVar(n) \/ \E v \in Values : PutVar(n, v)
    \/ \E o \in Orders, c \in Contents : PutOrder(o, c)
    \/ \E f \in Fills : PutFill(f)
    \/ Begin \/ Commit \/ Rollback

Spec == Init /\ [][Next]_<<db, work, depth, call>>
=============================================================================
