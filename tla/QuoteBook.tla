----------------------------- MODULE QuoteBook -----------------------------
(***************************************************************************)
(* QuoteBook (quote_book.py): the latest quote of every contract, a window *)
(* of recent quotes per contract that classifies trades, and the audit of  *)
(* the quotes a decision consumed.  The quotes received are numbered in    *)
(* the order of their receipt, and stand by their numbers.                 *)
(*                                                                         *)
(* A quote's event id is what the adapters build it from: the symbol and   *)
(* the event time (quotes have no sequence of their own, the adapter puts  *)
(* the millisecond in its place).  Contracts of one symbol share ids.      *)
(* _last_consumption and _consumed_ids hold the ids of the audited quotes, *)
(* quotes_received is the number of arrivals, so neither is kept twice.    *)
(***************************************************************************)
EXTENDS Integers, Sequences, FiniteSets

CONSTANTS
    Key,             \* QuoteKey: provider and contract
    SymbolOf,        \* the symbol of each key
    Trade,           \* event ids of trades
    Interval,        \* the classification interval, 500 ms
    Lateness,        \* allowed_lateness_seconds
    LastTime,        \* bound: the last instant considered
    MaxQuotes        \* bound: quotes received

Time == 0 .. LastTime
NoTrade == "none"

ASSUME QuoteConstantsOK ==
    /\ IsFiniteSet(Key)
    /\ SymbolOf \in [Key -> STRING]
    /\ NoTrade \notin Trade
    /\ {Interval, Lateness, LastTime, MaxQuotes} \subseteq Nat

VARIABLES
    arrivals,           \* the quotes received
    latest,             \* _latest: the last quote of each key, in the dict's order
    windows,            \* _windows
    consumptions,       \* the audit rows made
    consumption_order,  \* _consumption_order
    seen,               \* SignalPipeline._seen: trades handed over already
    horizon             \* history: the latest time each window was expired to

vars == <<arrivals, latest, windows, consumptions, consumption_order, seen, horizon>>

(* The window the pipeline gives the book.                                 *)
Window == Interval + Lateness

Quote == [key : Key, at : Time]
Row == [order : Nat, quote : Nat, trade : Trade \cup {NoTrade}]

Role(row) == IF row.trade = NoTrade THEN "CURRENT_STATE" ELSE "BOTH"
At(n) == arrivals[n].at
KeyOf(n) == arrivals[n].key
EventId(n) == <<SymbolOf[KeyOf(n)], At(n)>>
ConsumedIds == {EventId(row.quote) : row \in consumptions}

Init ==
    /\ arrivals = <<>>
    /\ latest = <<>>
    /\ windows = [k \in Key |-> <<>>]
    /\ consumptions = {}
    /\ consumption_order = 0
    /\ seen = {}
    /\ horizon = [k \in Key |-> 0]
-----------------------------------------------------------------------------
Later(a, b) == IF a >= b THEN a ELSE b

(* Mutant: a quote as old as the cutoff is dropped with the older ones.    *)
OldOrAt(q, cutoff) == q.at <= cutoff
Old(q, cutoff) == q.at < cutoff

(* _expire: quotes that are too old leave the front of a window, up to the *)
(* first that is not.                                                      *)
Expired(window, received, at) ==
    LET old == {i \in DOMAIN window : \A j \in 1 .. i : Old(received[window[j]], at - Window)}
    IN  SubSeq(window, Cardinality(old) + 1, Len(window))

(* The slots of the latest quotes after the arrival of quote n with key k. *)
Overwritten(k, n) ==
    IF \E i \in DOMAIN latest : KeyOf(latest[i]) = k
    THEN [i \in DOMAIN latest |-> IF KeyOf(latest[i]) = k THEN n ELSE latest[i]]
    ELSE Append(latest, n)

(* receive.                                                                *)
Receive(k, at) ==
    LET n == Len(arrivals) + 1
        received == Append(arrivals, [key |-> k, at |-> at])
    IN
    /\ n <= MaxQuotes
    /\ arrivals' = received
    /\ latest' = Overwritten(k, n)
    /\ windows' = [windows EXCEPT ![k] = Expired(Append(@, n), received, at)]
    /\ horizon' = [horizon EXCEPT ![k] = Later(@, at)]
    /\ UNCHANGED <<consumptions, consumption_order, seen>>
-----------------------------------------------------------------------------
(* Mutant: no check that there is a quote, a trade without one gets a row. *)
WithoutCheck(k, at) ==
    LET candidates == {n \in DOMAIN arrivals : KeyOf(n) = k /\ At(n) <= at}
    IN  {IF candidates = {} THEN 0 ELSE CHOOSE n \in candidates : \A m \in candidates : m <= n}

(* newest_valid_at_or_before: the last in the expired window that is not   *)
(* later than the trade; none if there is no such quote.                   *)
LastValid(window, at) ==
    LET candidates == {i \in DOMAIN window : At(window[i]) <= at}
    IN  {window[i] : i \in {i \in candidates : \A j \in candidates : j <= i}}
NewestValid(k, at) == LastValid(Expired(windows[k], arrivals, at), at)

(* Mutant: the order is left where it was.                                 *)
SameOrder == consumption_order
(* consume: the order of the next row.                                     *)
NextOrder == consumption_order + 1

(* consume_for_trade, once for a trade, which the pipeline has not seen    *)
(* before: a row for every trade with a quote, whatever the quote was used *)
(* for earlier.                                                            *)
ConsumeForTrade(t, k, at) ==
    /\ t \notin seen
    /\ seen' = seen \cup {t}
    /\ windows' = [windows EXCEPT ![k] = Expired(@, arrivals, at)]
    /\ horizon' = [horizon EXCEPT ![k] = Later(@, at)]
    /\ consumptions' = consumptions \cup
          {[order |-> NextOrder, quote |-> n, trade |-> t] : n \in NewestValid(k, at)}
    /\ consumption_order' = consumption_order + Cardinality(NewestValid(k, at))
    /\ UNCHANGED <<arrivals, latest>>

(* Mutant: only current-state rows count as an audit of the quote.         *)
UnlessCurrent(i) ==
    /\ \A row \in consumptions :
          Role(row) = "CURRENT_STATE" => EventId(row.quote) # EventId(latest[i])
    /\ \A j \in 1 .. i - 1 : EventId(latest[j]) # EventId(latest[i])
(* consume_current_state makes a row for slot i: its id has no row yet,    *)
(* and is not that of an earlier slot.                                     *)
Unaudited(i) ==
    /\ EventId(latest[i]) \notin ConsumedIds
    /\ \A j \in 1 .. i - 1 : EventId(latest[j]) # EventId(latest[i])

UnauditedUpTo(n) == {i \in 1 .. n : Unaudited(i)}

ConsumeCurrentState ==
    /\ consumptions' = consumptions \cup
          {[order |-> consumption_order + Cardinality(UnauditedUpTo(i)),
            quote |-> latest[i], trade |-> NoTrade] : i \in UnauditedUpTo(Len(latest))}
    /\ consumption_order' = consumption_order + Cardinality(UnauditedUpTo(Len(latest)))
    /\ UNCHANGED <<arrivals, latest, windows, seen, horizon>>
-----------------------------------------------------------------------------
Next ==
    \/ \E k \in Key, at \in Time : Receive(k, at)
    \/ \E t \in Trade, k \in Key, at \in Time : ConsumeForTrade(t, k, at)
    \/ ConsumeCurrentState

Spec == Init /\ [][Next]_vars
-----------------------------------------------------------------------------
(* The counters of QuoteBookMetrics and quotes_pending_at_shutdown.        *)
quotes_received == Len(arrivals)
(* Mutant: every audit row counts.                                         *)
RowsConsumed == Cardinality(consumptions)
quotes_consumed == Cardinality(ConsumedIds)
PendingSlots == {i \in DOMAIN latest : EventId(latest[i]) \notin ConsumedIds}
quotes_pending_at_shutdown == Cardinality(PendingSlots)

(* Type invariant of the book, its windows and its audit rows.             *)
TypeOK ==
    /\ arrivals \in Seq(Quote)
    /\ latest \in Seq(DOMAIN arrivals)
    /\ windows \in [Key -> Seq(DOMAIN arrivals)]
    /\ consumptions \subseteq Row
    /\ \A row \in consumptions : row.quote \in DOMAIN arrivals
    /\ consumption_order \in Nat
    /\ seen \subseteq Trade
    /\ horizon \in [Key -> Time]

(* The lifecycle invariant of CURRENT_STATE.md: what was consumed and what *)
(* is pending at shutdown never exceeds what was received, though quotes   *)
(* are consumed out of the windows after their slot was overwritten, more  *)
(* than once, and under ids that several contracts share.                  *)
Lifecycle == quotes_consumed + quotes_pending_at_shutdown <= quotes_received

(* (run_id, consumption_order) is the primary key of quote_consumptions,   *)
(* whose conflicts are dropped silently: each order up to the counter is   *)
(* used by exactly one row, whether a trade or a decision made it.         *)
OrdersUnique ==
    /\ {row.order : row \in consumptions} = 1 .. consumption_order
    /\ Cardinality(consumptions) = consumption_order

(* A quote id is audited as CURRENT_STATE at most once and only if no      *)
(* trade had consumed it before; a trade consumes at most one quote        *)
(* (consume, quote_book.py:99-104).                                        *)
AuditedOnce ==
    \A r, s \in consumptions : r # s =>
        /\ r.trade # NoTrade => r.trade # s.trade
        /\ (Role(r) = "CURRENT_STATE" /\ EventId(r.quote) = EventId(s.quote)) =>
              r.order < s.order

(* The reference definition of the quote that classifies a trade: the last *)
(* received of those not later than the trade.                             *)
Before(k, at) == {n \in DOMAIN arrivals : KeyOf(n) = k /\ At(n) <= at}
Newest(S) == {n \in S : \A m \in S : m <= n}

(* Pruning the windows never costs a trade its quote, in whatever order    *)
(* the quotes of a contract come: a trade that is late by no more than the *)
(* allowed lateness still finds the last received quote at or before it,   *)
(* as long as that is within the classification interval (pipeline.py:86,  *)
(* _expire, quote_book.py:76).                                             *)
LateTradesClassifiable ==
    \A k \in Key, at \in Time :
        LET newest == Newest(Before(k, at))
        IN  (/\ at >= horizon[k] - Lateness
             /\ \E n \in newest : At(n) >= at - Interval)
            => NewestValid(k, at) = newest
=============================================================================
