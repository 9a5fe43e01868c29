SPECIFICATION MCBooksSpec
CONSTANTS
    o1 = o1
    o2 = o2
    o3 = o3
    anchor = anchor
    late = late
    Ids <- MCIds
    Prices <- MCPrices
    Quantities <- MCQuantities
    MaxOrders = 4
    MaxPriceLevels = 3
    NoOrder = NoOrder
    InvalidPrice = InvalidPrice
SYMMETRY IdSymmetry
INVARIANTS
    QueuesMatchOrders
    LinkedBookIsTheBook
    QueriesMatchOrders
    MemorySound
PROPERTIES
    FifoWhenAccepted
    RejectedKeepsOrders
