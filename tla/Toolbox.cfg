CONSTANTS
    Idents = {a, b}
    MaxTime = 2
    MaxItems = 4
    MaxCalls = 4
    Readers = {r1, r2}
    MaxSets = 2
    Functions_ = {f1, f2, f3}
    MaxCallables = 3
    m1 = m1
    m2 = m2
    n1 = n1
    n2 = n2
    Modules = {m1, m2}
    Libraries = {lib}
    Names = {n1, n2}
    Factories <- SharedName
    MaxAdded = 3
    MaxObjects = 2
    Controls <- ControlsOfDepth
    MaxDepth = 2
    MaxControls = 2
    Threads = {t1, t2, t3}
    Contexts = {c1}
    Hubs = {ex}
\* Asks at five prices, so that a tree has three levels, bids at two with two amounts.
    Keys = {1, 2, 3, 4, 5}
    Values = {1, 2}
    BidPrices = {2, 4}
    AskPrices = {1, 2, 3, 4, 5}
    BidAmounts = {1, 2}
    AskAmounts = {1}
SPECIFICATION ToolboxSpec
INVARIANTS
    EarlierIsSeen
    ReadsAreAlive
    OneOwner
    NewestMakes
    FormIsAsDeclared
    BooksBalanced
    KeyOutlivesUse
    IteratorsWalk
    NobodyWaitsInACircle
PROPERTIES
    IsPriceLevels
\* The program ends when the book reads the first level of an empty side, and a thread
\* may wait for itself.
CHECK_DEADLOCK FALSE
