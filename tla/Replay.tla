------------------------------- MODULE Replay -------------------------------
(***************************************************************************)
(* Replay of a run's audit trail (replay.py) against the quote book that   *)
(* processed it live: when the run is over, the trades that were handed    *)
(* over and the quotes that were consumed are put back into the order of   *)
(* their receipt and given, one by one, to an empty book.  Every input     *)
(* takes one ingest order live, which is its place in `ingress`.  What     *)
(* replay makes of a timer event is said in the README; it leaves the      *)
(* book's windows alone.                                                   *)
(***************************************************************************)
EXTENDS QuoteBook

VARIABLES
    ingress,         \* history: quotes received and trades handed over, in order
    replaying,       \* the run is over and its audit trail is replayed
    inputs,          \* the ingest orders of what is still to be replayed
    replay_windows,  \* _windows of the replayed book
    replay_found     \* the trades replayed with a quote, and their quotes

replay == <<replaying, inputs, replay_windows, replay_found>>
replay_vars == <<vars, ingress, replay>>

QuoteInput(n) == [type |-> "quote", n |-> n]
TradeInput(t, k, at) == [type |-> "trade", trade |-> t, key |-> k, at |-> at]

ReplayInit ==
    /\ Init
    /\ ingress = <<>>
    /\ replaying = FALSE
    /\ inputs = {}
    /\ replay_windows = [k \in Key |-> <<>>]
    /\ replay_found = {}

(* The live run.                                                           *)
Live ==
    /\ ~replaying
    /\ \/ \E k \in Key, at \in Time :
             Receive(k, at) /\ ingress' = Append(ingress, QuoteInput(Len(arrivals')))
       \/ \E t \in Trade, k \in Key, at \in Time :
             ConsumeForTrade(t, k, at) /\ ingress' = Append(ingress, TradeInput(t, k, at))
       \/ ConsumeCurrentState /\ UNCHANGED ingress
    /\ UNCHANGED replay
-----------------------------------------------------------------------------
(* The quotes of the audit rows: one for an id, that of its first row.     *)
UniqueQuotes ==
    {row.quote : row \in {r \in consumptions :
        \A s \in consumptions : EventId(s.quote) = EventId(r.quote) => r.order <= s.order}}

Recorded(input) == input.type = "trade" \/ input.n \in UniqueQuotes

(* _ordered_consumed_inputs, which are sorted by their ingest orders.      *)
StartReplay ==
    /\ ~replaying
    /\ replaying' = TRUE
    /\ inputs' = {i \in DOMAIN ingress : Recorded(ingress[i])}
    /\ UNCHANGED <<vars, ingress, replay_windows, replay_found>>

(* Mutant: the quotes have lost their ingest order and come first.         *)
QuotesFirst(i) ==
    /\ i \in inputs
    /\ \A j \in inputs : ingress[j].type = "quote" => ingress[i].type = "quote" /\ i <= j
    /\ ingress[i].type = "trade" => \A j \in inputs : i <= j
NextInput(i) == i \in inputs /\ \A j \in inputs : i <= j

ReplayQuote(i) ==
    LET n == ingress[i].n
    IN
    /\ NextInput(i)
    /\ ingress[i].type = "quote"
    /\ replay_windows' =
          [replay_windows EXCEPT ![KeyOf(n)] = Expired(Append(@, n), arrivals, At(n))]
    /\ inputs' = inputs \ {i}
    /\ UNCHANGED <<vars, ingress, replaying, replay_found>>

ReplayTrade(i) ==
    LET trade == ingress[i]
        window == Expired(replay_windows[trade.key], arrivals, trade.at)
    IN
    /\ NextInput(i)
    /\ trade.type = "trade"
    /\ replay_windows' = [replay_windows EXCEPT ![trade.key] = window]
    /\ replay_found' = replay_found \cup
          {[trade |-> trade.trade, quote |-> n] : n \in LastValid(window, trade.at)}
    /\ inputs' = inputs \ {i}
    /\ UNCHANGED <<vars, ingress, replaying>>

ReplayNext == Live \/ StartReplay \/ \E i \in inputs : ReplayQuote(i) \/ ReplayTrade(i)

ReplaySpec == ReplayInit /\ [][ReplayNext]_replay_vars
-----------------------------------------------------------------------------
LiveFound ==
    {[trade |-> row.trade, quote |-> row.quote] :
        row \in {r \in consumptions : r.trade # NoTrade}}

(* Two consumed quotes with one id: replay keeps the first only.           *)
SharedIds ==
    \E r, s \in consumptions : r.quote # s.quote /\ EventId(r.quote) = EventId(s.quote)

(* A contract's quotes arrived in event-time order.                        *)
Ordered(k) ==
    \A m, n \in DOMAIN arrivals :
        (m < n /\ KeyOf(m) = k /\ KeyOf(n) = k) => At(m) <= At(n)

(* replay.py:82 "Replay only the trades and the exact quotes live          *)
(* processing consumed": a trade that consumed a quote live consumes that  *)
(* quote and no other when it is replayed, though the replayed windows     *)
(* hold other quotes and are pruned at other moments; provided ids are not *)
(* shared and a contract's quotes arrived in event-time order.             *)
ReplayExact ==
    (/\ replaying /\ inputs = {}
     /\ ~SharedIds /\ \A k \in Key : Ordered(k))
    => \A live \in LiveFound : {found \in replay_found : found.trade = live.trade} = {live}
=============================================================================
