------------------------------ MODULE Universe ------------------------------
(***************************************************************************)
(* From the discovered catalog to the subscription plan, as the Phase 4    *)
(* runner goes: discovery page by page (alpaca_options.py), the mapping    *)
(* (contract_mapping.py), the shortlist (universe.py, coarse_select), the  *)
(* liquidity check (liquidity.py) and the allocation of the capacity.      *)
(* An entry is its position in the catalog, so a contract that is listed   *)
(* twice is two entries.                                                   *)
(***************************************************************************)
EXTENDS SubscriptionCapacity, FiniteSets, SequencesExt

CONSTANTS
    Catalog,         \* what the catalog may list, in its order
    Price,           \* underlying prices; 0 stands for none as well
    MinDays,         \* min_days
    MaxDays,         \* max_days
    MaxMoneyness,    \* max_moneyness_distance, in percent
    MaxPerSymbol,    \* max_per_symbol of the shortlist
    MaxCandidates    \* phase4_max_enrichment_candidates

Identity == [symbol : Symbol, expiration : Nat, strike : Nat, right : {"C", "P"}]

ASSUME UniverseConstantsOK ==
    /\ Catalog \in Seq([fields : Identity, occ : Identity, tradable : BOOLEAN])
    /\ Price \subseteq Nat
    /\ {MinDays, MaxDays, MaxMoneyness} \subseteq Nat
    /\ {MaxPerSymbol, MaxCandidates} \subseteq Nat \ {0}

VARIABLES
    stage,              \* where the runner is
    discovered,         \* the entries that came, in the catalog's order
    prices,             \* the underlying's price of each symbol
    liquid,             \* the contracts whose quotes pass every check
    shortlist,          \* coarse_selections: entries per symbol, ranked
    coarse_exclusions,  \* the entries of the shortlist's exclusion records
    selections          \* the contracts of each symbol that are liquid

vars == <<stage, discovered, prices, liquid, shortlist, coarse_exclusions, selections, allocation>>

Init ==
    /\ stage = "discovering"
    /\ discovered = {}
    /\ prices \in [Symbol -> Price]
    /\ liquid = {}
    /\ shortlist = [s \in Symbol |-> <<>>]
    /\ coarse_exclusions = {}
    /\ selections = [s \in Symbol |-> <<>>]
    /\ candidates = [s \in Symbol |-> <<>>]
    /\ AllocationInit

-----------------------------------------------------------------------------
(* map_alpaca_contract and round_trip_validate: the fields and the OCC     *)
(* symbol name the same contract, and the entry is a standard, active one. *)
IdentityOf(i) == Catalog[i].fields
Mapped(i) == Catalog[i].fields = Catalog[i].occ /\ Catalog[i].tradable

Distance(c) == IF c.strike < prices[c.symbol] THEN prices[c.symbol] - c.strike
                                              ELSE c.strike - prices[c.symbol]

(* The guards of coarse_select: the entry is mapped, a call, inside the    *)
(* window of expirations and near enough to the price of its underlying.   *)
Eligible(i) ==
    LET c == IdentityOf(i) IN
    /\ Mapped(i)
    /\ c.right = "C"
    /\ c.expiration \in MinDays..MaxDays
    /\ prices[c.symbol] > 0
    /\ 100 * Distance(c) <= MaxMoneyness * prices[c.symbol]

(* The key both stages sort by.                                            *)
Before(c, d) ==
    \/ c.expiration < d.expiration
    \/ c.expiration = d.expiration /\ Distance(c) < Distance(d)
    \/ c.expiration = d.expiration /\ Distance(c) = Distance(d) /\ c.strike < d.strike

EntryBefore(i, j) ==
    \/ Before(IdentityOf(i), IdentityOf(j))
    \/ ~Before(IdentityOf(j), IdentityOf(i)) /\ i < j

(* sorted(S): the k-th has k - 1 before it.                                *)
Sorted(S, Less(_, _)) ==
    [k \in 1..Cardinality(S) |-> CHOOSE x \in S : Cardinality({y \in S : Less(y, x)}) = k - 1]

EligibleOf(s) == {i \in discovered : Eligible(i) /\ IdentityOf(i).symbol = s}

(* The entries of the nearest expiration; the others are left without a    *)
(* record.                                                                 *)
Nearest(s) ==
    LET eligible == EligibleOf(s)
    IN  {i \in eligible : \A j \in eligible :
            IdentityOf(i).expiration <= IdentityOf(j).expiration}

RankedNearest(s) == Sorted(Nearest(s), EntryBefore)
Shortlist(s) ==
    LET ranked == RankedNearest(s) IN SubSeq(ranked, 1, Min({MaxPerSymbol, Len(ranked)}))

(* Mutant: the first one past the limit gets no record.                    *)
PastLimit(s) ==
    LET ranked == RankedNearest(s) IN {ranked[k] : k \in (MaxPerSymbol + 2)..Len(ranked)}
Overflow(s) ==
    LET ranked == RankedNearest(s) IN {ranked[k] : k \in (MaxPerSymbol + 1)..Len(ranked)}

Shortlisted == UNION {Range(shortlist[s]) : s \in Symbol}

-----------------------------------------------------------------------------
Discover(i) ==
    /\ stage = "discovering"
    /\ \A j \in discovered : j < i
    /\ discovered' = discovered \cup {i}
    /\ UNCHANGED <<stage, prices, liquid, shortlist, coarse_exclusions, selections, allocation>>

CoarseSelect ==
    /\ stage = "discovering"
    /\ shortlist' = [s \in Symbol |-> Shortlist(s)]
    /\ coarse_exclusions' = {i \in discovered : ~Eligible(i)} \cup UNION {Overflow(s) : s \in Symbol}
    /\ stage' = IF Cardinality({IdentityOf(i) : i \in UNION {Range(Shortlist(s)) : s \in Symbol}})
                       > MaxCandidates
                THEN "failed" ELSE "enriching"
    /\ UNCHANGED <<discovered, prices, liquid, selections, allocation>>

(* A request of the catalog or of the quotes fails.                        *)
ProviderFails ==
    /\ stage \in {"discovering", "enriching"}
    /\ stage' = "blocked"
    /\ UNCHANGED <<discovered, prices, liquid, shortlist, coarse_exclusions, selections, allocation>>

(* The entries of the shortlist whose quotes pass, in its order.           *)
LiquidOf(s, quoted) ==
    LET passing == Sorted({k \in DOMAIN shortlist[s] : IdentityOf(shortlist[s][k]) \in quoted}, <)
    IN  [n \in DOMAIN passing |-> IdentityOf(shortlist[s][passing[n]])]

(* Mutant: a contract delivered twice is a candidate twice.                *)
WithRepeats(accepted) == SortSeq(accepted, Before)
Ranked(accepted) == Sorted(Range(accepted), Before)

(* finalize_liquidity with the quotes of the market, and the beginning of  *)
(* the allocation.  Contracts off the shortlist have quotes too, but       *)
(* nobody asks for them.  What is on the shortlist has a price.            *)
FinalizeLiquidity ==
    /\ stage = "enriching"
    /\ \E quoted \in SUBSET {IdentityOf(i) : i \in UNION {EligibleOf(s) : s \in Symbol}} :
        /\ liquid' = quoted
        /\ selections' = [s \in Symbol |-> LiquidOf(s, quoted)]
        /\ candidates' = [s \in Symbol |-> Ranked(LiquidOf(s, quoted))]
    /\ stage' = "allocating"
    /\ UNCHANGED <<discovered, prices, shortlist, coarse_exclusions,
                   indices, selected, selected_per_symbol, excluded, turn, progressed>>

AllocateNext ==
    /\ stage = "allocating"
    /\ AllocationStep
    /\ UNCHANGED <<stage, discovered, prices, liquid, shortlist, coarse_exclusions, selections>>

Plan ==
    /\ stage = "allocating"
    /\ AllocationDone
    /\ stage' = IF selected = <<>> THEN "blocked" ELSE "planned"
    /\ UNCHANGED <<discovered, prices, liquid, shortlist, coarse_exclusions, selections, allocation>>

Next ==
    \/ \E i \in DOMAIN Catalog : Discover(i)
    \/ CoarseSelect
    \/ ProviderFails
    \/ FinalizeLiquidity
    \/ AllocateNext
    \/ Plan

(* The allocation is a loop without a wait.                                *)
Fairness == WF_vars(AllocateNext \/ Plan)

Spec == Init /\ [][Next]_vars /\ Fairness
-----------------------------------------------------------------------------
Decided(c) ==
    Cardinality({i \in DOMAIN selected : selected[i] = c})
      + Cardinality({i \in DOMAIN excluded : excluded[i].contract = c})

Expires(i, j) == IdentityOf(i).expiration < IdentityOf(j).expiration

(* Nothing the catalog listed disappears: an entry is on the shortlist or  *)
(* among its exclusions, never both, unless it is eligible and an entry of *)
(* its symbol expires before it; and of a liquid contract on the shortlist *)
(* the allocation has decided no more than once.                           *)
Accounted == stage \in {"enriching", "allocating", "planned"} =>
    /\ Shortlisted \cap coarse_exclusions = {}
    /\ \A i \in discovered \ (Shortlisted \cup coarse_exclusions) :
        \E j \in EligibleOf(IdentityOf(i).symbol) : Eligible(i) /\ Expires(j, i)
    /\ \A i \in Shortlisted : Decided(IdentityOf(i)) <= 1

(* The plan every allocation ends in, stated without sorting or rounds: of *)
(* a symbol's liquid entries among the MaxPerSymbol nearest, a contract is *)
(* selected when fewer than its limit rank before it, and fewer than the   *)
(* capacity have a lower rank, or the same one in an earlier symbol.       *)
Requested(s) ==
    LET nearest == Nearest(s)
        Ahead(i) == {j \in nearest : EntryBefore(j, i)}
    IN  {IdentityOf(i) : i \in {j \in nearest : Cardinality(Ahead(j)) < MaxPerSymbol}} \cap liquid

Planned ==
    LET requested == UNION {Requested(s) : s \in Symbol}
        RankOf(c) == Cardinality({d \in requested : d.symbol = c.symbol /\ Before(d, c)})
        inQuota == {c \in requested : RankOf(c) < MaxContractsPerSymbol}
        Sooner(c) == {d \in inQuota :
            RankOf(d) < RankOf(c) \/ (RankOf(d) = RankOf(c) /\ d.symbol < c.symbol)}
    IN  /\ Range(selected) = {c \in inQuota : Cardinality(Sooner(c)) < Capacity}
        /\ \A c \in requested : Decided(c) = 1

(* Every allocation ends, with the plan just defined.                      *)
PlanReached == (stage = "allocating") ~> (stage \in {"planned", "blocked"} /\ Planned)
=============================================================================
