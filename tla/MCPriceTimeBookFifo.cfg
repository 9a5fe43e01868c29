SPECIFICATION Spec
CONSTANTS
    o1 = o1
    o2 = o2
    o3 = o3
    Ids <- MCIds
    Prices <- MCPrices
    Quantities <- MCQuantities
    MaxOrders = 3
    MaxPriceLevels = 1
    NoOrder = NoOrder
    InvalidPrice = InvalidPrice
SYMMETRY IdSymmetry
PROPERTIES
    Fifo
