SPECIFICATION Spec
CONSTANTS
    Ids <- MCIds
    Prices <- MCPrices
    Quantities <- MCQuantities
    MaxOrders = 3
    MaxPriceLevels = 2
    MaxTrades = 2
    NoOrder = NoOrder
    InvalidPrice = InvalidPrice
    Inputs <- MCInputs
    QueueCapacity = 2
    BufferRecords = 2
    MaxCommands = 3
    NoCommand = NoCommand
INVARIANTS
    ReplayCountsTradesOnce
