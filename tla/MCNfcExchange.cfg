SPECIFICATION FairExchangeSpec
CONSTANTS
    Passes = 4
    MaxEdges = 2
    MaxSlices = 2
INVARIANTS
    InterruptsAccounted
    DoubtHasReason
PROPERTIES
    ImplementsExchange
    ExchangeEnds
