----------------------------- MODULE AtomicFuture -----------------------------
(***************************************************************************)
(* Class template atomic_future: a value constructed by hand in a union,   *)
(* and an atomic flag that says that it is there.  One thread sets it, any *)
(* number of threads test it, wait for it and read it, and copy it; what   *)
(* is marked "NOT MT SAFE", reset, is called by the setting thread while   *)
(* no other uses the object.  A store with release and the load with       *)
(* acquire that sees it order what is before and after them, so that steps *)
(* interleave as written.                                                  *)
(***************************************************************************)
EXTENDS Integers

CONSTANTS
    Readers,        \* threads that read
    MaxSets         \* bound on the values constructed

VARIABLES
    valid,          \* _valid
    value,          \* _value: "none", "partial" while its constructor runs, or "alive"
    writer,         \* where the setting thread is: "idle", "construct", "publish", "unmark"
    reader,         \* where each reader is: "idle", "test", "blocked", "read"
    waits,          \* readers that called get or wait, not try_get or the copy constructor
    sets            \* values constructed

futureVars == <<valid, value, writer, reader, waits, sets>>

\* ready, with acquire
Ready == valid

-----------------------------------------------------------------------------
(* The setting thread *)

\* Mutant: a value that is there is overwritten.
SetAgain ==
    /\ writer = "idle"
    /\ sets < MaxSets
    /\ writer' = "construct" /\ value' = "partial"
    /\ sets' = sets + 1
    /\ UNCHANGED <<valid, reader, waits>>

\* set: nothing if there is a value.
Set ==
    /\ writer = "idle"
    /\ ~Ready /\ sets < MaxSets
    /\ writer' = "construct" /\ value' = "partial"
    /\ sets' = sets + 1
    /\ UNCHANGED <<valid, reader, waits>>

Constructed ==
    /\ writer = "construct"
    /\ value' = "alive" /\ writer' = "publish"
    /\ UNCHANGED <<valid, reader, waits, sets>>

\* The flag is stored; nobody is notified.
Publish ==
    /\ writer = "publish"
    /\ valid' = TRUE /\ writer' = "idle"
    /\ UNCHANGED <<value, reader, waits, sets>>

\* reset: the value is destroyed, then the flag is stored.
Reset ==
    /\ writer = "idle" /\ Ready
    /\ \A r \in Readers : reader[r] = "idle"
    /\ value' = "none" /\ writer' = "unmark"
    /\ UNCHANGED <<valid, reader, waits, sets>>

Unmark ==
    /\ writer = "unmark"
    /\ valid' = FALSE /\ writer' = "idle"
    /\ UNCHANGED <<value, reader, waits, sets>>

-----------------------------------------------------------------------------
(* Readers, none of which comes in while reset runs *)

\* get and wait, or try_get and the copy constructor.
Come(r, w) ==
    /\ reader[r] = "idle" /\ writer # "unmark"
    /\ reader' = [reader EXCEPT ![r] = "test"]
    /\ waits' = IF w THEN waits \cup {r} ELSE waits \ {r}
    /\ UNCHANGED <<valid, value, writer, sets>>

\* A loaded flag leads to the value; otherwise try_get is done, and wait blocks.
Test(r) ==
    /\ reader[r] = "test"
    /\ reader' = [reader EXCEPT ![r] =
            IF Ready THEN "read" ELSE IF r \in waits THEN "blocked" ELSE "idle"]
    /\ UNCHANGED <<valid, value, writer, waits, sets>>

\* _valid.wait(false) returns at once if the flag is set by then, and otherwise only by
\* chance, because no store is followed by a notification.
Unblock(r) ==
    /\ reader[r] = "blocked"
    /\ reader' = [reader EXCEPT ![r] = "test"]
    /\ UNCHANGED <<valid, value, writer, waits, sets>>

Done(r) ==
    /\ reader[r] = "read"
    /\ reader' = [reader EXCEPT ![r] = "idle"]
    /\ UNCHANGED <<valid, value, writer, waits, sets>>

-----------------------------------------------------------------------------
\* A future is made empty or with its value.
FutureInit ==
    /\ valid \in BOOLEAN
    /\ value = IF valid THEN "alive" ELSE "none"
    /\ writer = "idle" /\ reader = [r \in Readers |-> "idle"]
    /\ waits = {} /\ sets = 0

FutureNext ==
    \/ Set \/ Constructed \/ Publish \/ Reset \/ Unmark
    \/ \E r \in Readers : (\E w \in BOOLEAN : Come(r, w)) \/ Test(r) \/ Unblock(r) \/ Done(r)

FutureSpec == FutureInit /\ [][FutureNext]_futureVars

\* Whoever reads the value, after get or with the pointer of try_get, finds one that is
\* completely constructed and not destroyed, over any number of resets and sets.
ReadsAreAlive == \A r \in Readers : reader[r] = "read" => value = "alive"
=============================================================================
