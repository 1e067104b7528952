------------------------------ MODULE Features ------------------------------
(***************************************************************************)
(* What SignalPipeline (pipeline.py) makes of a day's trades for one stock:*)
(* indicators, running totals, the synchronised input, and decisions, with *)
(* trades that come in any order, late, or not at all, and a session's end *)
(* and the next one's beginning between them.  Pipeline has the same calls *)
(* with several symbols, the sweep engine and refusals of the audit writer,*)
(* and leaves the values out; here the sweep engine is a choice.           *)
(*                                                                         *)
(* _equity_volume is kept for the stock only: no one reads it of the       *)
(* market and the sector.                                                  *)
(***************************************************************************)
EXTENDS Indicators, Signals, Synchronizer, Functions

CONSTANTS
    Stock,           \* the traded symbol
    MarketSymbol,    \* SPY
    SectorSymbol,    \* the sector's symbol
    Tape,            \* the trades there are, by their ids
    OpenInterest     \* of each contract, where it is known

EquitySymbol == {Stock, MarketSymbol, SectorSymbol}

(* A kind is that of the options or of one of the symbols.                 *)
TradeOK(id, e) ==
    /\ e.id = id
    /\ e.kind \in Kind /\ e.at \in Instant /\ e.price \in Nat /\ e.size \in Nat
    /\ e.symbol = CASE e.kind = "market" -> MarketSymbol
                    [] e.kind = "sector" -> SectorSymbol
                    [] OTHER -> Stock
    /\ e.kind = "options" => OpenInterest[e.contract] \subseteq Nat

ASSUME FeatureConstantsOK ==
    /\ Symbol = {Stock}
    /\ Kind = {"equity", "options", "market", "sector"}
    /\ Stock \notin {MarketSymbol, SectorSymbol} /\ MarketSymbol # SectorSymbol
    /\ IsFiniteSet(DOMAIN Tape)
    /\ \A id \in DOMAIN Tape : TradeOK(id, Tape[id])

(* From the last trade of a date to the next is longer than an event may   *)
(* be stale.                                                               *)
ASSUME NightOK ==
    \A id \in DOMAIN Tape, later \in Instant :
        (Tape[id].at < later /\ DateOf[Tape[id].at] # DateOf[later]) =>
            later - Tape[id].at > MaxStaleness

(* The session of a date is open from a REGULAR instant on, and the next   *)
(* date begins later after it than a sweep stays fresh.                    *)
ASSUME SessionsApart ==
    /\ \A at \in Session : \E open \in Instant :
          open <= at /\ DateOf[open] = DateOf[at] /\ PhaseOf[open] = "REGULAR"
    /\ \A at \in Session, later \in Instant :
          (at < later /\ DateOf[at] # DateOf[later]) => later - at >= SignalFreshness

VARIABLES
    coming,          \* the trades that may still be delivered
    entered,         \* the timestamp of a call that has passed a boundary, if any
    calculator,      \* IndicatorCalculator.states
    results,         \* _indicator_results: the trade each symbol's last one is of
    equity_volume,   \* _sessions and _equity_volume of the stock
    option_totals,   \* _sessions, _option_volume and _net_call_premium of the stock
    sweeps,          \* SweepEngine.snapshot: the session gate and the last sweep
    pending,         \* whose reasons are pending: "boundary", "sweep"
    evaluated,       \* _last_evaluated of the stock, if any
    made,            \* the decision of the last step, if any
    processed        \* the trades processed since the session opened: a history,
                     \* but for the sweep engine, whose clusters are of them

features == <<coming, entered, calculator, results, equity_volume, option_totals,
              sweeps, pending, evaluated, made, processed>>
feature_vars == <<clock, synchronizer, features>>

NoSweep == [gate |-> FALSE, latest |-> {}]
NoEquityVolume == [session |-> None, volume |-> 0]
NoOptionTotals == [session |-> None, volume |-> 0, premium |-> 0]
Untraded == [symbol \in EquitySymbol |-> NoTotals(None)]

FeaturesInit ==
    /\ ClockInit
    /\ SynchronizerInit
    /\ coming = DOMAIN Tape
    /\ entered = {}
    /\ calculator = Untraded
    /\ results = [symbol \in EquitySymbol |-> {}]
    /\ equity_volume = NoEquityVolume
    /\ option_totals = NoOptionTotals
    /\ sweeps = NoSweep
    /\ pending = {}
    /\ evaluated = {}
    /\ made = {}
    /\ processed = {}
-----------------------------------------------------------------------------
(* _handle_session_transition at the head of a call.                       *)

OpenSession(at) ==
    /\ entered = {}
    /\ Deliverable(at)
    /\ PassOpen(at)
    /\ entered' = {at}
    /\ calculator' = Untraded
    /\ results' = [symbol \in EquitySymbol |-> {}]
    /\ equity_volume' = NoEquityVolume
    /\ option_totals' = NoOptionTotals
    /\ sweeps' = NoSweep
    /\ pending' = (pending \ {"sweep"}) \cup {"boundary"}
    /\ evaluated' = {}
    /\ processed' = {}
    /\ ResetSynchronizers
    /\ made' = {}
    /\ UNCHANGED <<now, coming>>

CloseOfSession(at) ==
    /\ entered = {}
    /\ Deliverable(at)
    /\ PassClose(at)
    /\ entered' = {at}
    /\ pending' = pending \cup {"boundary"}
    /\ made' = {}
    /\ UNCHANGED <<now, synchronizer, coming, calculator, results, equity_volume,
                   option_totals, sweeps, evaluated, processed>>

InCall(at) ==
    \/ entered = {} /\ NoBoundary(at)
    \/ entered = {at} /\ UNCHANGED session

(* A quote, or a trade that is stale or a duplicate: only its timestamp    *)
(* counts, however old it is.                                              *)
PassesBy(at) ==
    /\ Deliverable(at)
    /\ InCall(at)
    /\ entered' = {}
    /\ made' = {}
    /\ UNCHANGED <<now, synchronizer, coming, calculator, results, equity_volume,
                   option_totals, sweeps, pending, evaluated, processed>>
-----------------------------------------------------------------------------
(* _apply_indicators and _enrich_state.                                    *)

OfSession(totals, none, d) ==
    IF totals.session = d THEN totals ELSE [none EXCEPT !.session = d]

(* The volume in the payload is the calculator's already; it is added to   *)
(* what was added up of it before.                                         *)
EquityVolume(e, totals) ==
    [OfSession(equity_volume, NoEquityVolume, DateOf[e.at]) EXCEPT !.volume = @ + totals.volume]

(* The benchmarks' last results, for the stock's trades only.              *)
Benchmark(e, symbol) ==
    IF e.symbol = Stock THEN {Tape[id] : id \in results[symbol]} ELSE {}

EquityEvent(e, totals) ==
    [id |-> e.id, kind |-> e.kind, sequence |-> e.sequence, at |-> e.at,
          volume |-> IF e.symbol = Stock THEN equity_volume'.volume ELSE totals.volume,
          missing_volume |-> totals.volume = 0,
          relative_volume |-> RelativeVolume(CumulativeTo(totals, MinuteOf[e.at]),
                                             e.symbol, MinuteOf[e.at]),
          above_market |-> Stronger(e, Benchmark(e, MarketSymbol)),
          above_sector |-> Stronger(e, Benchmark(e, SectorSymbol))]

ApplyEquity(e) ==
    /\ calculator' = [calculator EXCEPT ![e.symbol] = Calculated(@, e)]
    /\ results' = [results EXCEPT ![e.symbol] = {e.id}]
    /\ equity_volume' = IF e.symbol = Stock THEN EquityVolume(e, calculator'[Stock])
                                            ELSE equity_volume
    /\ Add({Stock}, EquityEvent(e, calculator'[e.symbol]))
    /\ UNCHANGED <<option_totals, sweeps>>

AskPremium(e) == IF Classification(e) = "ask" THEN Premium(e) ELSE 0

OptionTotals(e) ==
    LET current == OfSession(option_totals, NoOptionTotals, DateOf[e.at])
    IN  IF EligibleOption(e)
        THEN [current EXCEPT !.volume = @ + e.size, !.premium = @ + AskPremium(e)]
        ELSE current

(* The payload of an excluded trade has no totals at all.                  *)
OptionEvent(e) ==
    [id |-> e.id, kind |-> e.kind, sequence |-> e.sequence, at |-> e.at,
          option_volume |-> IF EligibleOption(e) THEN {option_totals'.volume} ELSE {},
          call_premium |-> IF EligibleOption(e) THEN {option_totals'.premium} ELSE {},
          sweeps |-> sweeps']

(* SweepEngine.process: an excluded trade changes nothing.  After an       *)
(* eligible one the gate may be either, and the latest sweep none or of    *)
(* any call the engine has seen in this session: the new one's, or an older*)
(* one's when the newest is revoked.                                       *)
SweepTimes ==
    {Tape[id].at : id \in {i \in processed' : Tape[i].kind = "options" /\ EligibleOption(Tape[i])}}
SweepsAfter(e) ==
    IF EligibleOption(e)
    THEN {[gate |-> gate, latest |-> latest] :
             gate \in BOOLEAN, latest \in {{}} \cup {{t} : t \in SweepTimes}}
    ELSE {sweeps}

ApplyOption(e) ==
    /\ option_totals' = OptionTotals(e)
    /\ sweeps' \in SweepsAfter(e)
    /\ Add({Stock}, OptionEvent(e))
    /\ UNCHANGED <<calculator, results, equity_volume>>
-----------------------------------------------------------------------------
(* snapshot: the synchronised input.                                       *)
Item(state, as_of) ==
    LET the(kind) == CHOOSE h \in state[kind] : TRUE
        trade(kind) == Tape[the(kind).id]
        equity == the("equity")
        options == the("options")
        price == trade("equity").price
    IN  [as_of |-> as_of,
         price |-> price,
         volume |-> equity.volume,
         missing_volume |-> \E kind \in {"equity", "market", "sector"} : the(kind).missing_volume,
         relative_volume |-> equity.relative_volume,
         equity_delta |-> Return(trade("equity")),
         above_market |-> equity.above_market,
         above_sector |-> equity.above_sector,
         resistance |-> Resistance(Stock, DateOf[equity.at], price),
         option_volume |-> options.option_volume,
         call_premium |-> options.call_premium,
         open_interest |-> OpenInterest[trade("options").contract],
         market_delta |-> Return(trade("market")),
         sector_delta |-> Return(trade("sector")),
         sweeps |-> options.sweeps]

Decided(item) == {[fire |-> Executable(item), as_of |-> item.as_of]}

(* The part of process after the synchroniser.  `reasons` are the pending  *)
(* ones, with this event's.                                                *)
Evaluate(e, reasons) ==
    \/ /\ Accepts(Stock, e) /\ Current(Stock, e.at)'
       /\ \E item \in {Item(held'[Stock], e.at)} :
             /\ evaluated' = {Summary(item)}
             /\ IF \/ evaluated = {} \/ reasons # {}
                   \/ e.kind = "options" /\ EligibleOption(e)
                   \/ \E previous \in evaluated : Material(previous, item)
                THEN made' = Decided(item) /\ pending' = {}
                ELSE made' = {} /\ pending' = reasons
    \/ /\ ~(Accepts(Stock, e) /\ Current(Stock, e.at)')
       /\ made' = {}
       /\ pending' = reasons
       /\ UNCHANGED evaluated

InTime(at) == Deliverable(at) /\ now - at <= MaxStaleness

(* process, for a trade that is neither stale nor a duplicate.  What the   *)
(* sweep engine made of it may be a reason or not.                         *)
Process(e) ==
    /\ InTime(e.at)
    /\ InCall(e.at)
    /\ coming' = coming \ {e.id}
    /\ processed' = processed \cup {e.id}
    /\ entered' = {}
    /\ \/ /\ e.kind # "options"
          /\ ApplyEquity(e)
          /\ Evaluate(e, pending)
       \/ /\ e.kind = "options"
          /\ ApplyOption(e)
          /\ \E reason \in SUBSET {"sweep"} : Evaluate(e, pending \cup reason)
    /\ UNCHANGED now

(* tick: the sweeps expire, the held option event is refreshed, and the    *)
(* stock is decided on for the first kind of reason there is, however      *)
(* stale its state.                                                        *)
Tick ==
    LET expiring == {t \in sweeps.latest : now - t >= SignalFreshness}
        reasons == IF expiring = {} THEN pending ELSE pending \cup {"sweep"}
        aged == \E previous \in evaluated : now - previous.as_of > MaxStaleness
    IN
    /\ InCall(now)
    /\ entered' = {}
    /\ sweeps' = [sweeps EXCEPT !.latest = @ \ expiring]
    /\ held' = [held EXCEPT ![Stock]["options"] = {[h EXCEPT !.sweeps = sweeps'] : h \in @}]
    /\ IF Complete(Stock) /\ (reasons # {} \/ aged)
       THEN /\ \E item \in {Item(held'[Stock], now)} :
                  made' = Decided(item) /\ evaluated' = {Summary(item)}
            /\ pending' = IF "sweep" \in reasons THEN reasons \ {"sweep"} ELSE {}
       ELSE /\ made' = {}
            /\ pending' = reasons
            /\ UNCHANGED evaluated
    /\ UNCHANGED <<now, last_sequence, coming, calculator, results, equity_volume,
                   option_totals, processed>>

(* Trades that are stale by now only pass by.                              *)
Advance ==
    /\ entered = {}
    /\ TimePasses
    /\ coming' = {id \in coming : now' - Tape[id].at <= MaxStaleness}
    /\ made' = {}
    /\ UNCHANGED <<synchronizer, entered, calculator, results, equity_volume,
                   option_totals, sweeps, pending, evaluated, processed>>

FeaturesNext ==
    \/ \E at \in Instant : OpenSession(at) \/ CloseOfSession(at) \/ PassesBy(at)
    \/ \E id \in coming : Process(Tape[id])
    \/ Tick
    \/ Advance

FeaturesSpec == FeaturesInit /\ [][FeaturesNext]_feature_vars
-----------------------------------------------------------------------------
(* The reference for the totals: the trades of a date that count.          *)
Processed(kind, d) == {id \in processed : Tape[id].kind = kind /\ DateOf[Tape[id].at] = d}
Regular(ids) == {id \in ids : Tape[id].at \in Session}

EligibleTrades(d) ==
    {id \in Regular(Processed("equity", d)) :
        LET tags == Tape[id].conditions
        IN  tags = {} \/ ("@" \in tags /\ tags \cap {"C", "E", "Z"} = {})}
EligibleCalls(d) ==
    {id \in Regular(Processed("options", d)) :
        Tape[id].right = "C" /\ Tape[id].condition /\ Tape[id].size > 0}
AskCalls(d) == {id \in EligibleCalls(d) : Classification(Tape[id]) = "ask"}

Sizes(ids) == SumFunctionOnSet([id \in DOMAIN Tape |-> Tape[id].size], ids)
Values(ids) == SumFunctionOnSet([id \in DOMAIN Tape |-> Tape[id].price * Tape[id].size], ids)

(* The running totals are those of the eligible trades of one date, each   *)
(* counted once, however late and out of order they came: volume, and its  *)
(* share of every minute, premium at the ask; and it is the present date   *)
(* once a trade of it has come (indicators.py:266-268, pipeline.py:752-757,*)
(* 786, 822).                                                              *)
EquityExact ==
    LET d == calculator[Stock].session
    IN  /\ calculator[Stock].volume = Sizes(EligibleTrades(d))
        /\ calculator[Stock].notional = Values(EligibleTrades(d))
        /\ \A m \in Minutes : calculator[Stock].minutes[m] =
              Sizes({id \in EligibleTrades(d) : MinuteOf[Tape[id].at] = m})
        /\ Processed("equity", DateOf[now]) # {} => d = DateOf[now]

OptionsExact ==
    LET d == option_totals.session
    IN  /\ option_totals.volume = Sizes(EligibleCalls(d))
        /\ option_totals.premium = Values(AskCalls(d))
        /\ Processed("options", DateOf[now]) # {} => d = DateOf[now]

TotalsExact == EquityExact /\ OptionsExact

Fired == \E d \in made : d.fire

(* A decision fires only on evidence that the trades of one day really     *)
(* gave: the stock rose more than the market and its sector did in a trade *)
(* of the very same minute, and calls at the ask were bought for at least  *)
(* the minimum premium and as many as the open interest asks for; although *)
(* the results compared are overwritten by late trades, and the timer      *)
(* decides on stale ones (pipeline.py:653-683, signals.py:29-45).          *)
FireJustified ==
    Fired =>
        /\ \A h \in held[Stock]["equity"], benchmark \in {"market", "sector"} :
              \E id \in Processed(benchmark, DateOf[h.at]) :
                 /\ MinuteOf[Tape[id].at] = MinuteOf[h.at]
                 /\ \E r \in Return(Tape[h.id]), s \in Return(Tape[id]) : Exceeds(r, s)
        /\ \A h \in held[Stock]["options"] :
              /\ Values(AskCalls(DateOf[h.at])) >= MinCallPremium
              /\ \E oi \in OpenInterest[Tape[h.id].contract] :
                    Sizes(EligibleCalls(DateOf[h.at])) >= MinRatio * oi

(* Nothing fires on the state of an earlier day, in part or in whole, or   *)
(* on a day whose history was not loaded, unless the day's open is missed; *)
(* the timer looks at stale states, before and after the open too, and     *)
(* timestamps come late (historical.py:26-29, pipeline.py:587-605).        *)
FiresToday ==
    \A d \in made : (d.fire /\ DateOf[d.as_of] \notin missed) =>
        \A kind \in Kind : \A h \in held[Stock][kind] :
            DateOf[h.at] = DateOf[d.as_of] /\ DateOf[h.at] = BootstrapSession
-----------------------------------------------------------------------------
=============================================================================
