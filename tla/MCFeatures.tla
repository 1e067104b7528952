----------------------------- MODULE MCFeatures -----------------------------
(* A stock with its benchmarks through one session and the next open: a    *)
(* trade in the first minute and one in the second; each benchmark once;   *)
(* calls at the ask, one of them with an excluded condition; on the next   *)
(* day, for which no history is loaded, a trade before the open, and one of*)
(* each kind after it.  A timestamp of the first session may still come    *)
(* before the second open, which is then missed.  Two completed sessions   *)
(* before, for windows of one, two and four.                               *)
EXTENDS Features, TLC

CONSTANTS A, SPY, XLK, c1

MCInstant == {1, 2, 3, 7, 9}
MCSession == {1, 2, 3, 9}
MCPhaseOf == (1 :> "REGULAR" @@ 2 :> "REGULAR"
              @@ 3 :> "AFTER_HOURS" @@ 7 :> "PREMARKET" @@ 9 :> "REGULAR")
MCDateOf == (1 :> "day1" @@ 2 :> "day1" @@ 3 :> "day1" @@ 7 :> "day2" @@ 9 :> "day2")
MCMinuteOf == (1 :> 0 @@ 2 :> 1 @@ 3 :> 390 @@ 7 :> -60 @@ 9 :> 0)

MCDailyBar ==
    {[symbol |-> A, day |-> -2, close |-> 90, high |-> 110],
     [symbol |-> A, day |-> -1, close |-> 100, high |-> 104],
     [symbol |-> A, day |-> 0, close |-> 105, high |-> 106],
     [symbol |-> SPY, day |-> -1, close |-> 100, high |-> 110],
     [symbol |-> XLK, day |-> -1, close |-> 100, high |-> 110]}
MCMinuteBar ==
    {[symbol |-> A, day |-> -2, minute |-> 0, volume |-> 1],
     [symbol |-> A, day |-> -1, minute |-> 0, volume |-> 1],
     [symbol |-> A, day |-> -1, minute |-> 390, volume |-> 1],
     [symbol |-> A, day |-> 0, minute |-> 0, volume |-> 1]}
MCResistanceWindows == {1, 2, 4}

MCSymbol == {A}
MCKind == {"equity", "options", "market", "sector"}
MCOpenInterest == c1 :> {2}

EquityTrade(kind, symbol, n, at, price, size, tags) ==
    [kind |-> kind, symbol |-> symbol, sequence |-> n, at |-> at,
     price |-> price, size |-> size, conditions |-> tags]
Call(n, contract, at, price, condition) ==
    [kind |-> "options", symbol |-> A, sequence |-> n, at |-> at,
     contract |-> contract, right |-> "C", price |-> price, size |-> 2, condition |-> condition,
     quote |-> {[bid |-> 1, ask |-> 3, age |-> 0]}]

Trades ==
    [e2 |-> EquityTrade("equity", A, 2, 1, 105, 2, {"@"}),
     e4 |-> EquityTrade("equity", A, 4, 2, 105, 1, {"@"}),
     m1 |-> EquityTrade("market", SPY, 1, 2, 102, 1, {"@"}),
     s1 |-> EquityTrade("sector", XLK, 1, 2, 101, 1, {"@"}),
     o1 |-> Call(1, c1, 1, 3, TRUE),
     o3 |-> Call(3, c1, 2, 3, FALSE),
     e5 |-> EquityTrade("equity", A, 5, 7, 107, 1, {"@"}),
     e6 |-> EquityTrade("equity", A, 6, 9, 108, 2, {"@"}),
     m6 |-> EquityTrade("market", SPY, 6, 9, 102, 1, {"@"}),
     s6 |-> EquityTrade("sector", XLK, 6, 9, 102, 1, {"@"}),
     o6 |-> Call(6, c1, 9, 3, TRUE)]
MCTape == [id \in DOMAIN Trades |-> [id |-> id] @@ Trades[id]]
=============================================================================
