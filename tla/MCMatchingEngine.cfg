SPECIFICATION Spec
CONSTANTS
    o1 = o1
    o2 = o2
    o3 = o3
    o4 = o4
    Ids <- MCIds
    Prices <- MCPrices
    Quantities <- MCQuantities
    MaxOrders = 3
    MaxPriceLevels = 2
    MaxTrades = 2
    NoOrder = NoOrder
    InvalidPrice = InvalidPrice
SYMMETRY IdSymmetry
INVARIANTS
    BookStaysSound
    PriceTimePriority
    TradesAtMakersPrice
    QuantityConserved
    OnlyTheCapCrosses
PROPERTIES
    RemainderDroppedOnlyWhenFull
    ImplementsMatching
