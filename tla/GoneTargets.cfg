\* One target that places an order, subscribes and leaves.
SPECIFICATION Spec
CONSTANTS
    o1 = o1
    o2 = o2
    o3 = o3
    acc = acc
    Targets = {1, 2}
    Types = {"ticker"}
    Instruments = {1, 2}
    Objects = {acc}
    Orders = {o1}
    Stored = {}
    Streaming = TRUE
    Leaving = {1}
    Repeats = FALSE
    MaxInbox = 2
    MaxEmits = 2
    MaxAsked = 1
INVARIANTS
    DisconnectDisposes
