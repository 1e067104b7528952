----------------------------- MODULE Indicators -----------------------------
(***************************************************************************)
(* What an equity or option trade says by itself, and against the history  *)
(* loaded before the session (indicators.py, historical.py, and the        *)
(* bootstrap of providers/alpaca.py).                                      *)
(*                                                                         *)
(* Prices are cents.  A value that may be missing is a set with at most    *)
(* one element; a quotient is the pair of its numerator and its positive   *)
(* denominator.  The resistance cache is left out: what it keeps for a     *)
(* symbol and a session is a function of the bootstrap.                    *)
(***************************************************************************)
EXTENDS SessionClock, Sequences, FiniteSets, FiniteSetsExt

CONSTANTS
    Session,          \* the instants of regular_session, its ends included
    MinuteOf,         \* minutes since 9:30 of an instant, negative before it
    SessionMinutes,   \* the minutes of a session, 390
    BootstrapSession, \* HistoricalBootstrap.session, a date
    DailyBar,         \* daily bars: symbol, day (from that session), close and high
    MinuteBar,        \* minute bars: symbol, day, minute and volume
    ResistanceWindows,\* sessions looked back for a resistance: 5, 20 and 252
    QuoteAge          \* classify_ask_side: the greatest age of a quote

(* historical_bootstrap fails for a symbol without a completed session.    *)
Completed(symbol) == {b \in DailyBar : b.symbol = symbol /\ b.day < 0}

ASSUME IndicatorConstantsOK ==
    /\ Session \subseteq Instant
    /\ MinuteOf \in [Instant -> Int]
    /\ ResistanceWindows \subseteq Nat \ {0}
    /\ \A b \in DailyBar : Completed(b.symbol) # {}
    /\ \A b, c \in DailyBar : (b.symbol = c.symbol /\ b.day = c.day) => b = c
-----------------------------------------------------------------------------
(* The bootstrap and its lookups.                                          *)

Newest(bars, n) == {b \in bars : Cardinality({c \in bars : c.day > b.day}) < n}

PreviousClose(symbol, d) ==
    IF d = BootstrapSession THEN {b.close : b \in Newest(Completed(symbol), 1)} ELSE {}

(* ResistanceCache.calculate: the high of each window there are sessions   *)
(* enough for.  Longer windows have no lower highs, so the first that is   *)
(* above the price is the lowest.                                          *)
Levels(symbol, d) ==
    IF d # BootstrapSession THEN {}
    ELSE {Max({b.high : b \in Newest(Completed(symbol), n)}) :
             n \in {w \in ResistanceWindows : Cardinality(Completed(symbol)) >= w}}

Resistance(symbol, d, price) ==
    LET overhead == {level \in Levels(symbol, d) : level > price} IN
    IF d # BootstrapSession THEN [state |-> "missing", level |-> {}]
    ELSE IF overhead = {} THEN [state |-> "NO_OVERHEAD_RESISTANCE", level |-> {}]
    ELSE [state |-> "OVERHEAD_RESISTANCE", level |-> {Min(overhead)}]

(* cumulative_profiles: of completed days and regular hours, in all the    *)
(* days that have any, up to a minute; whatever the session.               *)
Profiled(symbol) ==
    {b \in MinuteBar : /\ b.symbol = symbol
                       /\ b.minute \in 0 .. SessionMinutes - 1
                       /\ b.day \in {c.day : c \in Completed(symbol)}}
ProfileDays(symbol) == Cardinality({b.day : b \in Profiled(symbol)})
ProfileSum(symbol, minute) ==
    MapThenSumSet(LAMBDA b : b.volume, {b \in Profiled(symbol) : b.minute <= minute})

RelativeVolume(volume, symbol, minute) ==
    IF minute \in 0 .. SessionMinutes - 1 /\ ProfileSum(symbol, minute) > 0
    THEN {<<volume * ProfileDays(symbol), ProfileSum(symbol, minute)>>}
    ELSE {}
-----------------------------------------------------------------------------
(* An equity trade e: symbol, at, price, size, conditions.                 *)

RegularSession(at) == at \in Session

(* eligible_equity_trade, which is not asked about a trade without tags.   *)
RegularSale(e) ==
    e.conditions = {} \/ ("@" \in e.conditions /\ e.conditions \cap {"C", "E", "Z"} = {})

(* Mutant: trades outside the regular session count too.                   *)
AnyHour(e) == RegularSale(e)
EligibleEquity(e) == RegularSale(e) /\ RegularSession(e.at)

(* previous_close_return, delta.                                           *)
Return(e) ==
    {<<e.price - close, close>> : close \in PreviousClose(e.symbol, DateOf[e.at]) \ {0}}

Exceeds(r, s) == r[1] * s[2] > s[1] * r[2]

(* Mutant: results of another minute are compared too.                     *)
SameDay(e, f) == DateOf[e.at] = DateOf[f.at]
SameWindow(e, f) == DateOf[e.at] = DateOf[f.at] /\ MinuteOf[e.at] = MinuteOf[f.at]

(* relative_strength > 0, against the last result of a benchmark.          *)
Stronger(e, benchmark) ==
    \E f \in benchmark : SameWindow(e, f) /\ \E r \in Return(e), s \in Return(f) : Exceeds(r, s)
-----------------------------------------------------------------------------
(* IndicatorState.                                                         *)
Minutes == {MinuteOf[at] : at \in Instant}
NoTotals(d) == [session |-> d, volume |-> 0, notional |-> 0,
                minutes |-> [m \in Minutes |-> 0]]

(* IndicatorCalculator.equity: the state after a trade.                    *)
Calculated(totals, e) ==
    LET current == IF totals.session = DateOf[e.at] THEN totals ELSE NoTotals(DateOf[e.at])
    IN  IF EligibleEquity(e)
        THEN [current EXCEPT !.volume = @ + e.size,
                             !.notional = @ + e.price * e.size,
                             !.minutes[MinuteOf[e.at]] = @ + e.size]
        ELSE current

(* current_cumulative.                                                     *)
CumulativeTo(totals, minute) ==
    MapThenSumSet(LAMBDA m : totals.minutes[m], {m \in Minutes : 0 <= m /\ m <= minute})
-----------------------------------------------------------------------------
(* An option trade e: right, price, size, condition (whether its code is   *)
(* eligible), and the quote it consumed, if any: bid, ask and age.         *)

EligibleOption(e) ==
    e.right = "C" /\ e.size >= 1 /\ RegularSession(e.at) /\ e.condition

AtAsk(e, q) == e.price >= q.ask - 1 /\ 2 * e.price > q.bid + q.ask

(* classify_ask_side, and the bid side after it.                           *)
Classification(e) ==
    IF \E q \in e.quote : /\ q.bid > 0 /\ q.ask > 0 /\ q.ask >= q.bid
                          /\ q.age \in 0 .. QuoteAge
                          /\ AtAsk(e, q)
    THEN "ask"
    ELSE IF \E q \in e.quote : /\ q.bid > 0 /\ q.ask >= q.bid
                               /\ q.age \in 0 .. QuoteAge
                               /\ e.price <= q.bid
    THEN "bid"
    ELSE "unknown"

(* In dollars: a contract is for a hundred shares.                         *)
Premium(e) == e.price * e.size
=============================================================================
