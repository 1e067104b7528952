------------------------------ MODULE MCStreams -----------------------------
(* The two providers' streams, either of them: the retry loop is the same. *)
(* ThetaData has two contracts with two request types each: a contract may *)
(* be let through by one of its two requests, and a connection may be lost *)
(* with any subset of the four acknowledged.  Two connections of ThetaData *)
(* and three of Alpaca, three failures in a row against two attempts.      *)
EXTENDS ThetaDataStream, AlpacaStream

CONSTANTS c1, c2
VARIABLE provider

MCContract == {c1, c2}
MCRequestType == {"TRADE", "QUOTE"}

MCInit == Init /\ AlpacaInit /\ provider \in {"thetadata", "alpaca"}

MCNext ==
    /\ UNCHANGED provider
    /\ \/ provider = "thetadata" /\ Next /\ UNCHANGED alpaca_subscription
       \/ provider = "alpaca" /\ AlpacaNext /\ UNCHANGED subscriptions

MCSpec ==
    /\ MCInit
    /\ [][MCNext]_<<vars, alpaca_vars, provider>>
    /\ Fairness /\ AlpacaFairness
=============================================================================
