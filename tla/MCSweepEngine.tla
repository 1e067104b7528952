--------------------------- MODULE MCSweepEngine ---------------------------
(* A small instance of SweepEngine: two exchanges are needed to qualify,   *)
(* so two trades of premium 2 can make a sweep, a bid or an unknown side   *)
(* can prevent it, and a correction or a cancellation can undo it.         *)
EXTENDS SweepEngine, TLC

CONSTANTS X1, X2, k1, t1, t2, t3

MCKey == {k1}
MCTrade == {t1, t2, t3}
MCKnownExchange == {X1, X2}
Pay(x, premium, side) == [exchange |-> x, premium |-> premium, side |-> side]
MCPayload == {Pay(X1, 2, "ask"), Pay(X2, 2, "ask"), Pay(X2, 2, "bid"), Pay(X2, 5, "unknown")}
Symmetry == Permutations(MCTrade)
=============================================================================
