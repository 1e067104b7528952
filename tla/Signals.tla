------------------------------ MODULE Signals -------------------------------
(***************************************************************************)
(* The gates S, F, R and E over one synchronised input (signals.py), and   *)
(* the changes of an input that are reason enough to evaluate it again     *)
(* (_material_change_reasons, pipeline.py).                                *)
(*                                                                         *)
(* The pipeline evaluates one input at a time, so ranking never has a      *)
(* choice to make.  An equity input always comes from a trade, whose       *)
(* spread is zero, and positions are none: what the gates and reasons ask  *)
(* of the spread and of open positions is always met.  ask_side_percentage *)
(* is never set, quote_validity never for a trade.                         *)
(***************************************************************************)
EXTENDS Integers

CONSTANTS
    MinVolume,        \* minimum_volume
    MinCallPremium,   \* minimum_call_premium
    MinRatio,         \* minimum_option_volume_oi_ratio
    MinRoom,          \* minimum_room, in ten-thousandths
    Capacity,         \* capacity
    SignalFreshness,  \* 30 minutes
    PremiumBoundary,  \* the boundary of call_premium_boundary, 500000
    PriceStep         \* the step of underlying_price_threshold, in ten-thousandths

ASSUME SignalConstantsOK ==
    {MinVolume, MinCallPremium, MinRatio, MinRoom, Capacity, SignalFreshness,
     PremiumBoundary, PriceStep} \subseteq Nat

AtLeast(value, bound) == \E x \in value : x >= bound
Positive(value) == \E q \in value : q[1] > 0
FarEnough(item) ==
    \E level \in item.resistance.level : 10000 * (level - item.price) >= MinRoom * item.price

Liquidity(item) == ~item.missing_volume /\ item.volume >= MinVolume

Options(item) ==
    /\ AtLeast(item.call_premium, MinCallPremium)
    /\ \E v \in item.option_volume, oi \in item.open_interest : oi > 0 /\ v >= MinRatio * oi

Equity(item) == Positive(item.equity_delta) /\ item.above_market /\ item.above_sector

SignalValid(item) ==
    /\ Liquidity(item) /\ Options(item) /\ Equity(item)
    /\ Positive(item.market_delta) /\ Positive(item.sector_delta)
    /\ item.sweeps.gate

Recent(item) == \E t \in item.sweeps.latest : item.as_of - t < SignalFreshness
Fresh(item) == Recent(item) /\ Options(item) /\ Equity(item)

Room(item) ==
    /\ item.resistance.state = "NO_OVERHEAD_RESISTANCE" \/ FarEnough(item)
    /\ item.volume >= MinVolume
    /\ 0 < Capacity

Executable(item) == SignalValid(item) /\ Fresh(item) /\ Room(item)

Gates(item) ==
    {gate \in {"S", "F", "R"} : CASE gate = "S" -> SignalValid(item)
                                  [] gate = "F" -> Fresh(item)
                                  [] gate = "R" -> Room(item)}
-----------------------------------------------------------------------------
(* What is kept of an evaluated input: the values that are known, and      *)
(* those of them below the boundary they are watched at.                   *)
Watched == {"rvol", "equity", "market", "sector", "premium", "room"}

Known(item) ==
    {name \in Watched :
        CASE name = "rvol" -> item.relative_volume # {}
          [] name = "equity" -> item.equity_delta # {}
          [] name = "market" -> item.market_delta # {}
          [] name = "sector" -> item.sector_delta # {}
          [] name = "premium" -> item.call_premium # {}
          [] name = "room" -> item.resistance.level # {}}

Negative(value) == \E q \in value : q[1] < 0

Below(item) ==
    {name \in Known(item) :
        CASE name = "rvol" -> \E q \in item.relative_volume : q[1] < 2 * q[2]
          [] name = "equity" -> Negative(item.equity_delta)
          [] name = "market" -> Negative(item.market_delta)
          [] name = "sector" -> Negative(item.sector_delta)
          [] name = "premium" -> ~AtLeast(item.call_premium, PremiumBoundary)
          [] name = "room" -> ~FarEnough(item)}

Distance(a, b) == IF a >= b THEN a - b ELSE b - a

Summary(item) ==
    [as_of |-> item.as_of, price |-> item.price, known |-> Known(item), below |-> Below(item),
     resistance |-> item.resistance.state, gates |-> Gates(item)]

(* The reasons that lie in the inputs themselves.                          *)
Material(previous, item) ==
    \/ 10000 * Distance(item.price, previous.price) >= PriceStep * previous.price
    \/ \E name \in previous.known \cap Known(item) :
          (name \in previous.below) # (name \in Below(item))
    \/ previous.resistance # item.resistance.state
=============================================================================
