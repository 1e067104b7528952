----------------------------- MODULE MCPipeline -----------------------------
(* A small instance of Pipeline: a symbol with a call, another with a put, *)
(* a market feed for both; a session, its closing instant, the open of the *)
(* next day.  One trade of the call makes a sweep; a second one replaces   *)
(* it, follows it, or joins it, also across the night.                     *)
EXTENDS Pipeline, TLC

CONSTANTS A, B, k2, k1, X1, mkt

MCKey == {k1,k2}
MCTrade == {1, 3}
MCCorrective == {2}
MCPayload == {[exchange |-> X1, premium |-> 1, side |-> "ask"]}
MCKnownExchange == {X1}
MCSymbol == {A, B}
MCKind == {"options", "market"}
MCCall == {k1}
MCSymbolOf == (k1 :> A @@ k2 :> B)
MCFeed == {mkt}
MCFeedKind == (mkt :> "market")
MCFeedTargets == (mkt :> <<A, B>>)
MCInstant == {0, 1, 4}
MCSession == {0, 1, 4}
MCPhaseOf == (0 :> "REGULAR" @@ 1 :> "AFTER_HOURS" @@ 4 :> "REGULAR")
MCDateOf == (0 :> "day1" @@ 1 :> "day1" @@ 4 :> "day2")
=============================================================================
