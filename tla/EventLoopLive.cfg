\* One feed, reports and fills, two timers, exceptions thrown again; the scheduler may
\* fire while on_init still runs.
SPECIFICATION FairSpec
CONSTANTS
    i1 = i1
    i2 = i2
    x = x
    y = y
    o1 = o1
    o2 = o2
    a = a
    b = b
    Instruments = {i1}
    Exchanges = {x}
    Orders = {}
    Venue <- OneVenue
    TimerIds = {a}
    EventKinds = {"report", "fill"}
    MaxTime = 2
    MaxEvents = 2
    MaxTimers = 2
    Recoveries = {"rethrow"}
    WakeInInit = TRUE
    RearmElapsed = FALSE
INVARIANTS
    EventsArmed
    AppliedIsCommitted
PROPERTIES
    TimersFire
    PunctualEventsApplied
\* The program ends when an exception is thrown again.
CHECK_DEADLOCK FALSE
