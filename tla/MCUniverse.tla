---------------------------- MODULE MCUniverse ----------------------------
EXTENDS Universe

Call(s, expiration, strike) ==
    [symbol |-> s, expiration |-> expiration, strike |-> strike, right |-> "C"]
Listed(c) == [fields |-> c, occ |-> c, tradable |-> TRUE]

(* The first symbol has four calls at its nearest expiration, one of them  *)
(* listed twice, and a later one; the second has two calls and an entry    *)
(* whose OCC symbol names another strike.                                  *)
MCCatalog == <<
    Listed(Call(1, 14, 10)), Listed(Call(1, 7, 11)), Listed(Call(1, 7, 12)),
    Listed(Call(1, 7, 10)), Listed(Call(1, 7, 9)), Listed(Call(1, 7, 10)),
    Listed(Call(2, 7, 11)), Listed(Call(2, 7, 10)),
    [fields |-> Call(2, 7, 12), occ |-> Call(2, 7, 13), tradable |-> TRUE]>>
MCPrice == {0, 10}
=============================================================================
