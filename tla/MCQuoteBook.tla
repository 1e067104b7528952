---------------------------- MODULE MCQuoteBook ----------------------------
(* Two contracts of one symbol, whose quotes share ids when they are of    *)
(* one instant, and two trades; the window is two ticks, so a quote can be *)
(* pruned by a later quote or a later trade before a late trade comes.     *)
EXTENDS Replay, TLC

CONSTANTS k1, k2, t1, t2

MCKey == {k1, k2}
MCSymbolOf == [k \in MCKey |-> "AAPL"]
MCTrade == {t1, t2}
Symmetry == Permutations(MCTrade) \cup Permutations(MCKey)
=============================================================================
