SPECIFICATION Spec
CONSTANTS
    Ids <- MCIds
    Prices <- MCPrices
    Quantities <- MCQuantities
    MaxOrders = 7
    MaxPriceLevels = 6
    NoOrder = NoOrder
    InvalidPrice = InvalidPrice
    Unit = 120
    Divisors <- MCDivisors
    BucketCount = 2
    BucketVolume = 2
    MomentumWindow = 2
    Cost = 12
    MaxHistory = 2
    Modes = {"lobster"}
    Lines <- MCLines
    Tape <- MCTape
    Jitter = {2, 4}
    BarSignals <- MCBarSignals
    BarMids <- MCBarMids
    Gaps = {1, 2}
    LotsPerUnit = 10
    SampleEvery = 2
    HistoryEvery = 2
    FlowEvery = 3
    Depth = 2
    Horizons = {1, 2, 3}
    SimulatedVolume = 3
    CancelBack = 1
    ExecuteBack = 2
    MaxEvents <- MCMaxEvents
INVARIANTS
    DecayUsesPrices
CHECK_DEADLOCK FALSE
