------------------------ MODULE SubscriptionCapacity ------------------------
(***************************************************************************)
(* allocate_subscription_capacity (universe.py): a round over the symbols  *)
(* takes the next ranked contract of each, selects it if there is room and *)
(* records its exclusion if not; rounds go on until one takes nothing.     *)
(* Symbols are numbered in their sorted order.  A symbol that is not       *)
(* included or has no price has no candidates.                             *)
(***************************************************************************)
EXTENDS Integers, Sequences

CONSTANTS
    Symbols,                 \* how many symbols there are
    TradeLimit,              \* trade_limit
    QuoteLimit,              \* quote_limit
    MaxContractsPerSymbol    \* max_contracts_per_symbol

ASSUME LimitsPositive ==
    /\ Symbols \in Nat
    /\ {TradeLimit, QuoteLimit, MaxContractsPerSymbol} \subseteq Nat \ {0}

Symbol == 1..Symbols

VARIABLES
    candidates,              \* the ranked contracts of each symbol
    indices,                 \* how many of them have been taken; also rank_by_symbol
    selected,                \* the contracts selected, in this order
    selected_per_symbol,
    excluded,                \* the symbol, the contract and its rank
    turn,                    \* the symbol whose turn it is in this round
    progressed               \* this round took a contract

allocation == <<candidates, indices, selected, selected_per_symbol, excluded, turn, progressed>>

Capacity == IF TradeLimit < QuoteLimit THEN TradeLimit ELSE QuoteLimit

AllocationInit ==
    /\ indices = [s \in Symbol |-> 0]
    /\ selected = <<>>
    /\ selected_per_symbol = [s \in Symbol |-> 0]
    /\ excluded = <<>>
    /\ turn = 1
    /\ progressed = FALSE

Remaining(s) == indices[s] < Len(candidates[s])
Rank(s) == indices[s] + 1
Contract(s) == candidates[s][Rank(s)]

HasRoom(s) ==
    Len(selected) < Capacity /\ selected_per_symbol[s] < MaxContractsPerSymbol

(* Mutant: a symbol is served to its end before the next has a turn.       *)
SameSymbol(s) == s
NextSymbol(s) == s + 1

Take(s) ==
    /\ turn = s
    /\ Remaining(s)
    /\ indices' = [indices EXCEPT ![s] = @ + 1]
    /\ turn' = NextSymbol(s)
    /\ progressed' = TRUE
    /\ UNCHANGED candidates

SelectContract(s) ==
    /\ Take(s)
    /\ HasRoom(s)
    /\ selected' = Append(selected, Contract(s))
    /\ selected_per_symbol' = [selected_per_symbol EXCEPT ![s] = @ + 1]
    /\ UNCHANGED excluded

ExcludeContract(s) ==
    /\ Take(s)
    /\ ~HasRoom(s)
    /\ excluded' = Append(excluded, [symbol |-> s, contract |-> Contract(s), rank |-> Rank(s)])
    /\ UNCHANGED <<selected, selected_per_symbol>>

SkipSymbol(s) ==
    /\ turn = s
    /\ ~Remaining(s)
    /\ turn' = s + 1
    /\ UNCHANGED <<candidates, indices, selected, selected_per_symbol, excluded, progressed>>

NextRound ==
    /\ turn > Symbols
    /\ progressed
    /\ turn' = 1
    /\ progressed' = FALSE
    /\ UNCHANGED <<candidates, indices, selected, selected_per_symbol, excluded>>

AllocationDone == turn > Symbols /\ ~progressed

AllocationStep ==
    \/ \E s \in Symbol : SelectContract(s) \/ ExcludeContract(s) \/ SkipSymbol(s)
    \/ NextRound

(* The allocation alone, from any ranked contracts of a set.               *)
AllocationSpec(Contracts) ==
    /\ AllocationInit /\ candidates \in [Symbol -> Seq(Contracts)]
    /\ [][AllocationStep]_allocation

-----------------------------------------------------------------------------
CutOff(s) ==
    /\ \E i \in DOMAIN excluded : excluded[i].symbol = s
    /\ selected_per_symbol[s] < MaxContractsPerSymbol

(* A symbol cut off by the common capacity, not by its own limit, gives    *)
(* way to no other: no symbol has more contracts than it has, but for the  *)
(* symbols before it, which may be one ahead.                              *)
FairShares ==
    \A s, t \in Symbol : CutOff(s) =>
        selected_per_symbol[t] <= selected_per_symbol[s] + (IF t < s THEN 1 ELSE 0)
=============================================================================
