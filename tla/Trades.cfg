SPECIFICATION TradesSpec
CONSTANTS
\* The storage: nested transactions over a variable, an order and fills that are reported
\* again, also with another timestamp.
    v1 = v1
    v2 = v2
    o1 = o1
    f1 = f1
    f2 = f2
    Names = {1}
    Values = {v1, v2}
    Orders = {o1}
    Fill <- OtherTime
    Labels <- OneLabel
    Missing = Missing
    MaxDepth = 2
    MaxQueued = 3
    MaxReports = 2
    MaxFills = 2
\* The simulator: four orders of seventeen setups against two tickers.
    Config <- MCConfig
    Tickers <- MCTickers
    Setups <- MCSetups
    Targets = {"a"}
    Leverage = 1
    Scale = 12
    Equity = 6
    MaxOrders = 4
INVARIANTS
    DuplicatesAreStored
    OneOutcome
PROPERTIES
    IsTransactionalStore
    OverallSumsUp
    WorthConserved
    TwoSidesOnlyByHedge
\* Every bound may be reached, in the storage and by the orders.
CHECK_DEADLOCK FALSE
