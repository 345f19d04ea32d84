\* One instrument with both kinds of market data, reports and fills, a timer, one
\* order on one of two exchanges; callbacks may throw, and the exception is thrown
\* again or swallowed.
SPECIFICATION Spec
CONSTANTS
    i1 = i1
    i2 = i2
    y = y
    x = x
    o1 = o1
    o2 = o2
    a = a
    b = b
    Instruments = {i1}
    Exchanges = {x, y}
    Orders = {o1}
    Venue <- OneVenue
    TimerIds = {a}
    EventKinds = {"report", "fill", "update"}
    MaxTime = 2
    MaxEvents = 2
    MaxTimers = 1
    Recoveries = {"rethrow", "swallow"}
    WakeInInit = FALSE
    RearmElapsed = TRUE
INVARIANTS
    QueueComplete
    UnseenIsQueued
    NoOrderLeftBehind
    SentOnce
\* The program ends when an exception is thrown again.
CHECK_DEADLOCK FALSE
