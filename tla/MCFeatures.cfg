SPECIFICATION FeaturesSpec
CONSTANTS
    A = A
    SPY = SPY
    XLK = XLK
    c1 = c1
    Stock = A
    MarketSymbol = SPY
    SectorSymbol = XLK
    Symbol <- MCSymbol
    Kind <- MCKind
    MaxStaleness = 1
    Instant <- MCInstant
    Session <- MCSession
    PhaseOf <- MCPhaseOf
    DateOf <- MCDateOf
    MinuteOf <- MCMinuteOf
    SessionMinutes = 390
    BootstrapSession = "day1"
    DailyBar <- MCDailyBar
    MinuteBar <- MCMinuteBar
    ResistanceWindows <- MCResistanceWindows
    QuoteAge = 1
    Tape <- MCTape
    OpenInterest <- MCOpenInterest
    MinVolume = 2
    MinCallPremium = 6
    MinRatio = 1
    MinRoom = 25
    Capacity = 1
    SignalFreshness = 3
    PremiumBoundary = 30
    PriceStep = 1
INVARIANT TotalsExact
INVARIANT FireJustified
INVARIANT FiresToday
CHECK_DEADLOCK FALSE
