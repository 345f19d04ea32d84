\* Two targets, tickers single and streamed, updates, targets that leave, a service
\* that answers.
SPECIFICATION FairSpec
CONSTANTS
    o1 = o1
    o2 = o2
    o3 = o3
    acc = acc
    Targets = {1, 2}
    Types = {"ticker", "orderbook"}
    Instruments = {1}
    Objects = {acc}
    Orders = {}
    Stored = {}
    Streaming = TRUE
    Leaving = {2}
    Repeats = FALSE
    MaxInbox = 2
    MaxEmits = 2
    MaxAsked = 2
INVARIANTS
    SubscribersServed
PROPERTIES
    WaitersAnswered
    OneShotsServed
\* The lock may be taken for ever.
CHECK_DEADLOCK FALSE
