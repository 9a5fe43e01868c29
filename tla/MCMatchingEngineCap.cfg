SPECIFICATION Spec
CONSTANTS
    o1 = o1
    o2 = o2
    o3 = o3
    o4 = o4
    Ids <- MCIds
    Prices <- MCPrices
    Quantities <- MCQuantities
    MaxOrders = 2
    MaxPriceLevels = 2
    MaxTrades = 1
    NoOrder = NoOrder
    InvalidPrice = InvalidPrice
SYMMETRY IdSymmetry
INVARIANTS
    NeverCrossed
