SPECIFICATION Spec
CONSTANTS
    Symbols = 2
    TradeLimit = 4
    QuoteLimit = 5
    MaxContractsPerSymbol = 3
    Catalog <- MCCatalog
    Price <- MCPrice
    MinDays = 7
    MaxDays = 45
    MaxMoneyness = 20
    MaxPerSymbol = 4
    MaxCandidates = 5
CHECK_DEADLOCK FALSE
INVARIANT Accounted
INVARIANT FairShares
PROPERTY PlanReached
