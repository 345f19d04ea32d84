\* Two contexts with one callback each.
SPECIFICATION FairRequests
CONSTANTS
    Contexts = {c1, c2}
    MaxCallbacks = 1
PROPERTIES
    CalledWhenComplete
\* Behind an answer within the call everybody may wait.
CHECK_DEADLOCK FALSE
