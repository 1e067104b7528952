SPECIFICATION ReplaySpec
CONSTANTS
    k1 = k1
    k2 = k2
    t1 = t1
    t2 = t2
    Key <- MCKey
    SymbolOf <- MCSymbolOf
    Trade <- MCTrade
    Interval = 1
    Lateness = 1
    LastTime = 3
    MaxQuotes = 3
SYMMETRY Symmetry
INVARIANT TypeOK
INVARIANT Lifecycle
INVARIANT OrdersUnique
INVARIANT AuditedOnce
INVARIANT LateTradesClassifiable
INVARIANT ReplayExact
CHECK_DEADLOCK FALSE
