---------------------------- MODULE SweepEngine ----------------------------
(***************************************************************************)
(* SweepEngine (sweeps.py): event-time clustering of eligible call trades  *)
(* into sweeps, with revocation, corrections, cancellations, a freshness   *)
(* limit and session totals.                                               *)
(*                                                                         *)
(* A cluster is identified, as its uuid5 is, by its contract key and the   *)
(* time of its first trade.  `active` is the dict key -> cluster (at most  *)
(* one cluster per key), `closed` the dict id -> cluster.  A cluster's     *)
(* `final` flag is set exactly where it is put in `closed`, and its        *)
(* `expired` flag exactly where its id is put in the engine's `expired`    *)
(* set, so each pair is one set here.  Premiums are whole numbers, times   *)
(* are ticks of the event clock.                                           *)
(***************************************************************************)
EXTENDS Integers, FiniteSets, FiniteSetsExt, Functions

CONSTANTS
    Key,                 \* contract identities (SweepKey) of calls
    Trade,               \* identifiers of option trades
    Payload,             \* what a trade carries: exchange, premium, side
    KnownExchange,       \* codes listed in THETADATA_EXCHANGE_CODES
    MinExchanges,        \* SWEEP_MIN_EXCHANGES
    MinPremium,          \* SWEEP_MIN_PREMIUM
    MinAskPercentage,    \* SWEEP_MIN_ASK_PERCENTAGE
    MaxUnknownPercentage,\* SWEEP_MAX_UNKNOWN_PERCENTAGE
    Window,              \* SWEEP_WINDOW
    Freshness,           \* SWEEP_FRESHNESS
    Session,             \* the instants of regular_session, its ends included
    LastTime,            \* bound: the last instant considered
    MaxOrder             \* bound: no new step once this many audits exist

Time == 0 .. LastTime

ASSUME ConstantsOK ==
    /\ IsFiniteSet(Key)
    /\ {Window, Freshness, LastTime, MaxOrder, MinExchanges, MinPremium} \subseteq Nat
    /\ {MinAskPercentage, MaxUnknownPercentage} \subseteq 0 .. 100
    /\ Session \subseteq Time
    /\ \A p \in Payload : /\ DOMAIN p = {"exchange", "premium", "side"}
                          /\ p.premium \in Nat
                          /\ p.side \in {"ask", "bid", "unknown"}

VARIABLES
    active,              \* values of SweepEngine.active
    closed,              \* keys of SweepEngine.closed: the final clusters
    trades,              \* SweepCluster.trades: the constituents of each cluster
    qualifying,          \* clusters whose `qualifying` flag is set
    expired,             \* SweepEngine.expired, and the clusters' `expired` flags
    session_qualifying,  \* the dict cluster -> premium, as a set of entries
    order,               \* _transition_order
    emitted,             \* transition audits returned by the last call
    seen                 \* SignalPipeline._seen: trades handed over already

vars == <<active, closed, trades, qualifying, expired, session_qualifying,
          order, emitted, seen>>

Cluster == Key \X Time
Event == [id : Trade, at : Time, payload : Payload, corrected : BOOLEAN]
Transition == {"CLUSTER_CLOSED", "NEW_QUALIFYING_SWEEP", "SWEEP_QUALIFICATION_REVOKED",
               "SWEEP_FRESHNESS_EXPIRED", "SWEEP_CORRECTION", "SWEEP_CANCELLATION"}

Audits == [cluster : Cluster, transition : Transition, order : Nat]

Live == active \cup closed
KeyOf(c) == c[1]
OpenAt(c) == c[2]
CloseAt(c) == c[2] + Window
InWindow(c, at) == OpenAt(c) <= at /\ at <= CloseAt(c)
RegularSession(at) == at \in Session
ActiveOf(k) == {c \in active : KeyOf(c) = k}
Ids(S) == {e.id : e \in S}
Constituents(c) == Ids(trades[c])
-----------------------------------------------------------------------------
(* SweepCluster.recompute: the thresholds of a cluster's current trades.   *)

Premium(S) == MapThenSumSet(LAMBDA e : e.payload.premium, S)
SidePremium(S, side) == Premium({e \in S : e.payload.side = side})
Exchanges(S) == {e.payload.exchange : e \in S} \cap KnownExchange

Qualifies(S) ==
    LET ask == SidePremium(S, "ask")
        classified == ask + SidePremium(S, "bid")
        unknown == Premium(S) - classified
    IN  /\ Cardinality(Exchanges(S)) >= MinExchanges
        /\ classified > 0
        /\ 100 * ask >= MinAskPercentage * classified
        /\ 100 * unknown <= MaxUnknownPercentage * Premium(S)
        /\ Premium(S) >= MinPremium

LastTimestamp(c) ==
    IF trades[c] = {} THEN OpenAt(c) ELSE Max({e.at : e \in trades[c]})

Stale(c, now) == now - LastTimestamp(c) >= Freshness
Fresh == {c \in Live : c \in qualifying /\ c \notin expired}

EntryPremium(E) == MapThenSumSet(LAMBDA q : q.premium, E)
(* snapshot: the session totals and the newest trade of a fresh cluster.   *)
Snapshot ==
    [count |-> Cardinality(session_qualifying),
     premium |-> EntryPremium(session_qualifying),
     latest |-> {t \in {LastTimestamp(c) : c \in Fresh} :
                    \A c \in Fresh : LastTimestamp(c) <= t}]
-----------------------------------------------------------------------------
Audit(c, transition, n) == [cluster |-> c, transition |-> transition, order |-> n]

(* Mutant: every recomputation of a qualifying cluster audits a new sweep. *)
QualifiesOrDid(c, S) == Qualifies(S) \/ c \in qualifying
(* The comparison of `before` with the recomputed flag.                    *)
Flips(c, S) == (c \in qualifying) # Qualifies(S)

(* The audit of a flip, when cluster c comes to hold S.                    *)
FlipAudit(c, S, n) ==
    IF ~Flips(c, S) THEN {}
    ELSE {Audit(c, IF Qualifies(S) THEN "NEW_QUALIFYING_SWEEP"
                                   ELSE "SWEEP_QUALIFICATION_REVOKED", n)}

(* Mutant: a cluster that stops qualifying keeps its session entry.        *)
OtherOrQualified(c, S) == {q \in session_qualifying : q.cluster # c \/ ~Qualifies(S)}
(* _update_session: the entries an update of cluster c leaves in place.    *)
OtherEntries(c, S) == {q \in session_qualifying : q.cluster # c}
SessionEntry(c, S) ==
    IF Qualifies(S) THEN {[cluster |-> c, premium |-> Premium(S)]} ELSE {}

(* Cluster c comes to hold S and is recomputed.                            *)
Recompute(c, S) ==
    /\ trades' = [trades EXCEPT ![c] = S]
    /\ qualifying' = IF Qualifies(S) THEN qualifying \cup {c} ELSE qualifying \ {c}
    /\ session_qualifying' = OtherEntries(c, S) \cup SessionEntry(c, S)

(* Mutant: the order advances once per call, however many audits it makes. *)
OnePerCall(A) == IF A = {} THEN 0 ELSE 1
(* _audit: one order per transition audit.                                 *)
OrdersUsed(A) == Cardinality(A)

Emit(A) ==
    /\ emitted' = A
    /\ order' = order + OrdersUsed(A)

Without(S, t) == {e \in S : e.id # t}
NewEvent(t, at, p) == [id |-> t, at |-> at, payload |-> p, corrected |-> FALSE]

Init ==
    /\ active = {}
    /\ closed = {}
    /\ trades = [c \in Cluster |-> {}]
    /\ qualifying = {}
    /\ expired = {}
    /\ session_qualifying = {}
    /\ order = 0
    /\ emitted = {}
    /\ seen = {}
-----------------------------------------------------------------------------
(* The pipeline hands a trade over once (SignalPipeline._seen).            *)
FirstSeen(t) ==
    /\ t \notin seen
    /\ seen' = seen \cup {t}

(* process: a trade that is not eligible or not a call, is outside the     *)
(* regular session, or is older than the active cluster of its contract    *)
(* changes nothing.                                                        *)
Ignore(t, k, at, eligible) ==
    /\ FirstSeen(t)
    /\ \/ ~eligible
       \/ ~RegularSession(at)
       \/ \E c \in ActiveOf(k) : at < OpenAt(c)
    /\ Emit({})
    /\ UNCHANGED <<active, closed, trades, qualifying, expired, session_qualifying>>

(* Mutant: a late trade joins any cluster of its contract whose window     *)
(* covers it.                                                              *)
Covering(k, at) == {c \in Live : KeyOf(c) = k /\ InWindow(c, at)}
(* process: the cluster a trade joins, if any.                             *)
Joinable(k, at) == {c \in ActiveOf(k) : InWindow(c, at)}

JoinCluster(t, k, at, p) ==
    \E c \in Joinable(k, at) :
        LET S == Without(trades[c], t) \cup {NewEvent(t, at, p)} IN
        /\ order < MaxOrder
        /\ RegularSession(at)
        /\ FirstSeen(t)
        /\ Recompute(c, S)
        /\ Emit(FlipAudit(c, S, order + 1))
        /\ UNCHANGED <<active, closed, expired>>

(* Mutant: the last instant of a window already opens the next one.        *)
AtWindowEnd(k, at) == \A c \in ActiveOf(k) : at >= CloseAt(c)
PastWindow(k, at) == \A c \in ActiveOf(k) : at > CloseAt(c)

(* process: the trade is past the window of its contract's active cluster, *)
(* or there is none.  The old cluster is finalised, a new one opened.      *)
OpenCluster(t, k, at, p) ==
    LET new == <<k, at>>
        old == ActiveOf(k)
        S == {NewEvent(t, at, p)}
    IN
    /\ order < MaxOrder
    /\ RegularSession(at)
    /\ PastWindow(k, at)
    /\ FirstSeen(t)
    /\ active' = (active \ old) \cup {new}
    /\ closed' = closed \cup old
    /\ Recompute(new, S)
    /\ Emit({Audit(c, "CLUSTER_CLOSED", order + 1) : c \in old} \cup
            FlipAudit(new, S, order + 1 + Cardinality(old)))
    /\ UNCHANGED expired
-----------------------------------------------------------------------------
(* Mutant: a trade that was seen need not be held by the cluster.          *)
HoldersOrAny(t) == IF t \in seen THEN Live ELSE {}
(* _apply_correction: the clusters, active or closed, that hold trade t.   *)
Holders(t) == {c \in Live : t \in Constituents(c)}

(* Mutant: the corrected trade is stored beside the original.              *)
BesideOriginal(S, t) == S
(* The constituents a corrected trade joins: those other than the original.*)
CorrectionBase(S, t) == Without(S, t)

Replace(c, S, transition) ==
    /\ order < MaxOrder
    /\ Recompute(c, S)
    /\ Emit({Audit(c, transition, order + 1)} \cup FlipAudit(c, S, order + 2))
    /\ UNCHANGED <<active, closed, expired, seen>>

(* The constituent keeps the original's identity and takes the corrective  *)
(* event's time and payload, whatever state the cluster is in.             *)
Correct(t, at, p) ==
    \E c \in Holders(t) :
        LET new == [id |-> t, at |-> at, payload |-> p, corrected |-> TRUE]
        IN  Replace(c, CorrectionBase(trades[c], t) \cup {new}, "SWEEP_CORRECTION")

Cancel(t) ==
    \E c \in Holders(t) : Replace(c, Without(trades[c], t), "SWEEP_CANCELLATION")

(* A correction or cancellation of a trade no cluster holds.               *)
Uncorrelated(t) ==
    /\ Holders(t) = {}
    /\ Emit({})
    /\ UNCHANGED <<active, closed, trades, qualifying, expired, session_qualifying, seen>>
-----------------------------------------------------------------------------
(* Mutant: closed clusters are not listed.                                 *)
TickListActive(now) == {<<"active", c>> : c \in {x \in active : x \in Fresh /\ Stale(x, now)}}
(* tick lists the values of `active` and then those of `closed`: a cluster *)
(* that close_session left in both is listed twice.  The order within the  *)
(* list follows the dicts' insertion order, here any order.                *)
TickList(now) ==
    {<<"active", c>> : c \in {x \in active : x \in Fresh /\ Stale(x, now)}} \cup
    {<<"closed", c>> : c \in {x \in closed : x \in Fresh /\ Stale(x, now)}}

(* Mutant: the contract is marked instead of the cluster.                  *)
ContractOf(l) == KeyOf(l[2])
ClusterOf(l) == l[2]

Tick(now) ==
    /\ order < MaxOrder
    /\ \E rank \in Bijection(TickList(now), 1 .. Cardinality(TickList(now))) :
          Emit({Audit(l[2], "SWEEP_FRESHNESS_EXPIRED", order + rank[l]) : l \in TickList(now)})
    /\ expired' = expired \cup {ClusterOf(l) : l \in TickList(now)}
    /\ UNCHANGED <<active, closed, trades, qualifying, session_qualifying, seen>>

(* close_session finalises every active cluster and leaves it in `active`. *)
CloseSession ==
    /\ order < MaxOrder
    /\ \E rank \in Bijection(active, 1 .. Cardinality(active)) :
          Emit({Audit(c, "CLUSTER_CLOSED", order + rank[c]) : c \in active})
    /\ closed' = closed \cup active
    /\ UNCHANGED <<active, trades, qualifying, expired, session_qualifying, seen>>

(* reset_session: a new trading day.  The audit order keeps counting.      *)
ResetSession ==
    /\ active' = {}
    /\ closed' = {}
    /\ trades' = [c \in Cluster |-> {}]
    /\ qualifying' = {}
    /\ expired' = {}
    /\ session_qualifying' = {}
    /\ Emit({})
    /\ UNCHANGED seen
-----------------------------------------------------------------------------
Next ==
    \/ \E t \in Trade, k \in Key, at \in Time :
          \/ \E eligible \in BOOLEAN : Ignore(t, k, at, eligible)
          \/ \E p \in Payload : JoinCluster(t, k, at, p) \/ OpenCluster(t, k, at, p)
    \/ \E t \in Trade, at \in Time, p \in Payload : Correct(t, at, p)
    \/ \E t \in Trade : Cancel(t) \/ Uncorrelated(t)
    \/ \E now \in Time : Tick(now)
    \/ CloseSession
    \/ ResetSession

Spec == Init /\ [][Next]_vars
-----------------------------------------------------------------------------
(* Type invariant of the engine's state.                                   *)
TypeOK ==
    /\ active \subseteq Cluster
    /\ closed \subseteq Cluster
    /\ trades \in [Cluster -> SUBSET Event]
    /\ qualifying \subseteq Cluster
    /\ expired \subseteq Cluster
    /\ \A q \in session_qualifying : q.cluster \in Cluster
    /\ order \in Nat
    /\ emitted \subseteq Audits
    /\ seen \subseteq Trade

(* The session totals behind the sweep gate (snapshot, sweeps.py:441) are  *)
(* those of the trades that survive: after any interleaving of trades,     *)
(* corrections, cancellations, roll-overs and resets there is one entry    *)
(* per cluster, live or closed, that meets the thresholds now, and it      *)
(* holds that cluster's current premium; so do the clusters' flags.        *)
SessionTotalsExact ==
    /\ qualifying = {c \in Live : Qualifies(trades[c])}
    /\ session_qualifying =
          {[cluster |-> c, premium |-> Premium(trades[c])] : c \in qualifying}

(* A trade counts towards at most one cluster, and once in it.  Otherwise  *)
(* premium is counted twice, and _apply_correction (sweeps.py:373), which  *)
(* stops at the first cluster holding its target, leaves the other stale.  *)
OneClusterPerTrade ==
    /\ \A c, d \in Live : c # d => Constituents(c) \cap Constituents(d) = {}
    /\ \A c \in Live : \A e, f \in trades[c] : e.id = f.id => e = f

(* The windows of one contract never overlap and roll forward: a contract  *)
(* has one active cluster, every other cluster of it ended before that one *)
(* opened and is final (sweeps.py:295-314).                                *)
WindowsRollForward ==
    /\ \A c, d \in active : KeyOf(c) = KeyOf(d) => c = d
    /\ \A c \in active, d \in Live :
          (KeyOf(c) = KeyOf(d) /\ c # d) => d \in closed /\ CloseAt(d) < OpenAt(c)
    /\ \A c, d \in Live :
          (KeyOf(c) = KeyOf(d) /\ c # d) =>
              (CloseAt(c) < OpenAt(d) \/ CloseAt(d) < OpenAt(c))

(* A constituent that was never corrected lies in its cluster's window,    *)
(* and in the regular session (sweeps.py:288).                             *)
UncorrectedInWindow ==
    \A c \in Live : \A e \in trades[c] :
        ~e.corrected => InWindow(c, e.at) /\ RegularSession(e.at)

(* A trade that was cancelled, ignored or dropped at a reset never comes   *)
(* back: once seen and in no cluster it stays in none, whatever late       *)
(* corrections and trades arrive.                                          *)
NoResurrection ==
    [][\A t \in seen : (\A c \in Live : t \notin Constituents(c)) =>
                       (\A c \in Live' : t \notin Constituents(c)')]_vars

(* Every step that flips a cluster's qualification emits exactly one audit *)
(* of that flip and no step emits one without a flip: "one-shot            *)
(* qualification transitions".  A reset drops clusters and emits nothing.  *)
FlipsAudited ==
    [][\/ Live' = {} /\ emitted' = {}
       \/ \A c \in Cluster :
             LET flips == {a \in emitted' : a.cluster = c /\ a.transition \in
                             {"NEW_QUALIFYING_SWEEP", "SWEEP_QUALIFICATION_REVOKED"}}
             IN  IF c \in qualifying \/ c \notin qualifying'
                 THEN IF c \in qualifying /\ c \notin qualifying'
                      THEN {a.transition : a \in flips} = {"SWEEP_QUALIFICATION_REVOKED"}
                           /\ Cardinality(flips) = 1
                      ELSE flips = {}
                 ELSE {a.transition : a \in flips} = {"NEW_QUALIFYING_SWEEP"}
                      /\ Cardinality(flips) = 1]_vars

(* The orders of the audits a step emits continue the earlier ones without *)
(* a gap or a repeat: (run, cluster, order) is a primary key of            *)
(* sweep_transitions whose conflicts are dropped silently, and replay      *)
(* sorts by it.                                                            *)
OrdersContinue ==
    [][{a.order : a \in emitted'} = (order + 1) .. order'
       /\ Cardinality(emitted') = order' - order]_vars

(* A tick leaves no stale cluster counted as fresh, closed ones included:  *)
(* the freshness gate reads the newest trade of a fresh cluster.           *)
TickClearsStale ==
    [][\A now \in Time :
          (UNCHANGED <<trades, seen>> /\ Tick(now)) => \A c \in Fresh' : ~Stale(c, now)]_vars

(* A cluster that has been replaced as the active one takes no new trade:  *)
(* only corrections and cancellations of its own constituents change it.   *)
RetiredNeverGrows ==
    [][\A c \in closed \ active : Constituents(c)' \subseteq Constituents(c)]_vars
-----------------------------------------------------------------------------
(* What makes the invariants above inductive: a cluster holds only trades  *)
(* the engine has been handed, and a contract keeps an active cluster from *)
(* its first trade to the reset.                                           *)
HeldAreSeen == \A c \in Cluster : Constituents(c) \subseteq seen
ContractsActive == \A d \in Live : \E c \in active : KeyOf(c) = KeyOf(d)

SweepInv ==
    /\ TypeOK
    /\ SessionTotalsExact
    /\ OneClusterPerTrade
    /\ WindowsRollForward
    /\ UncorrectedInWindow
    /\ HeldAreSeen
    /\ ContractsActive
=============================================================================
