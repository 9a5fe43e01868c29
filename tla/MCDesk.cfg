SPECIFICATION FairSpec
CONSTANTS
    Ids <- MCIds
    Prices <- MCPrices
    Quantities <- MCQuantities
    MaxOrders = 3
    MaxPriceLevels = 3
    MaxTrades = 2
    NoOrder = NoOrder
    InvalidPrice = InvalidPrice
    Tickets <- MCTickets
    Quotes <- MCQuotes
    Changes <- MCChanges
    Elsewhere <- MCElsewhere
    Replays <- MCReplays
    Slack = 1
    BlindSlack = 1
    Depth = 2
    QueueCapacity = 2
    ModifyAgain = FALSE
    Nothing = Nothing
INVARIANTS
    ListAgreesWithSubmissions
    WithdrawnStaysOut
    CancelPendingIsTrue
    TransientOnlyTakes
    JudgedRightIfCurrent
PROPERTIES TriggeredIsSent
