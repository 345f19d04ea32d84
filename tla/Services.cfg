SPECIFICATION ServicesSpec
CONSTANTS
\* The scheduler: three contexts, wakeups in the past and in the future.
    Idents = {a, b, c}
    MaxTime = 3
\* Requests: contexts with two callbacks each, which may ask again, a service that answers
\* later or within the call.
    Contexts = {c1, c2, c3}
    MaxCallbacks = 2
\* The back test: two contexts, two records, times 0 to 2.
    Strategies = {s1, s2}
    Exchange = ex
    LastTime = 2
    MaxRecords = 2
INVARIANTS
    NoOversleep
    GoneIsUnused
    NoCallbackStranded
    FirstIsFresh
PROPERTIES
    IsWakeupService
    DueIsCalled
    StopReturns
    CallbacksRun
    IsReplay
    SetTimeReturns
\* The scheduler may be destroyed, behind an answer within the call everybody may wait, and
\* a notification may never end.
CHECK_DEADLOCK FALSE
