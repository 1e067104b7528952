------------------------- MODULE MCThetaDataStream -------------------------
(* Two contracts with two request types each: a contract may be let        *)
(* through by one of its two requests, and a connection may be lost with   *)
(* any subset of the four acknowledged; two connections, three failures    *)
(* in a row against two allowed attempts.                                  *)
EXTENDS ThetaDataStream

CONSTANTS c1, c2

MCContract == {c1, c2}
MCRequestType == {"TRADE", "QUOTE"}
=============================================================================
