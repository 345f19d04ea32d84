\* One order of seventeen setups.
SPECIFICATION BackendSpec
CONSTANTS
    Config <- MCConfig
    Tickers <- MCTickers
    Setups <- MCSetups
    Targets = {"a"}
    Leverage = 1
    Scale = 12
    Equity = 6
    MaxOrders = 2
INVARIANTS
    PositionIsNet
