SPECIFICATION PipelineSpec
CONSTANTS
    A = A
    B = B
    k2 = k2
    k1 = k1
    X1 = X1
    mkt = mkt
    Key <- MCKey
    Trade <- MCTrade
    Payload <- MCPayload
    KnownExchange <- MCKnownExchange
    MinExchanges = 1
    MinPremium = 1
    MinAskPercentage = 65
    MaxUnknownPercentage = 50
    Window = 1
    Freshness = 1
    Session <- MCSession
    LastTime = 4
    MaxOrder = 3
    Symbol <- MCSymbol
    Kind <- MCKind
    MaxStaleness = 1
    First = A
    SymbolOf <- MCSymbolOf
    Call <- MCCall
    Feed <- MCFeed
    FeedKind <- MCFeedKind
    FeedTargets <- MCFeedTargets
    Number = {1}
    Corrective = {}
    Instant <- MCInstant
    PhaseOf <- MCPhaseOf
    DateOf <- MCDateOf
INVARIANT ProjectionLatest
CHECK_DEADLOCK FALSE
