\* Six items, as the schedulers use the queue; erase, as a context's timers need it, up
\* to five.
SPECIFICATION HeapSpec
CONSTANTS
    a = a
    b = b
    c = c
    d = d
    e = e
    f = f
    Ids = {a, b, c, d, e, f}
    Times = {0, 1, 2, 3}
    MaxSize = 6
    EraseSize = 5
SYMMETRY Symmetry
PROPERTIES
    IsPriorityQueue
