\* Orders placed and restored, a service that repeats itself, targets that leave,
\* and updates requested by both.
SPECIFICATION Spec
CONSTANTS
    o1 = o1
    o2 = o2
    o3 = o3
    acc = acc
    Targets = {1, 2}
    Types = {}
    Instruments = {1}
    Objects = {acc}
    Orders = {o1, o2}
    Stored = {o2}
    Streaming = TRUE
    Leaving = {1, 2}
    Repeats = TRUE
    MaxInbox = 2
    MaxEmits = 3
    MaxAsked = 2
INVARIANTS
    OpenOrdersRouted
    FinalReportIsLast
\* All targets may be gone, or the lock taken for ever.
CHECK_DEADLOCK FALSE
