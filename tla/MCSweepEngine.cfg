SPECIFICATION Spec
CONSTANTS
    X1 = X1
    X2 = X2
    k1 = k1
    t1 = t1
    t2 = t2
    t3 = t3
    Key <- MCKey
    Trade <- MCTrade
    Payload <- MCPayload
    KnownExchange <- MCKnownExchange
    MinExchanges = 2
    MinPremium = 4
    MinAskPercentage = 65
    MaxUnknownPercentage = 50
    Window = 1
    Freshness = 2
    Session = {0, 1, 2}
    LastTime = 3
    MaxOrder = 4
SYMMETRY Symmetry
INVARIANT TypeOK
INVARIANT SessionTotalsExact
INVARIANT OneClusterPerTrade
INVARIANT WindowsRollForward
PROPERTY NoResurrection
PROPERTY FlipsAudited
PROPERTY OrdersContinue
PROPERTY TickClearsStale
PROPERTY RetiredNeverGrows
CHECK_DEADLOCK FALSE
