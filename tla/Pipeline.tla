------------------------------ MODULE Pipeline ------------------------------
(***************************************************************************)
(* SignalPipeline (pipeline.py): events and a timer drive the sweep engine *)
(* and the synchronizers, every change goes to the audit writer, and       *)
(* changed states are decided upon.                                        *)
(*                                                                         *)
(* process and tick run without an await, so nothing else runs while       *)
(* `work` is not Idle; a call is split where one action of the engine ends *)
(* and where decisions follow each other.  The audit writer may refuse any *)
(* record, which ends the call at that point.  Quotes, feature values and  *)
(* the orders of events and decisions are left out: what they may do is a  *)
(* choice here (a quote row refused, a material change or none).           *)
(***************************************************************************)
EXTENDS SweepEngine, Synchronizer, SessionClock, Sequences

CONSTANTS
    First,           \* symbols[0], the only symbol the timer decides on
    SymbolOf,        \* the symbol of a contract
    Call,            \* the contracts that are calls
    Feed,            \* sources of underlying, market and sector events
    FeedKind,        \* the kind a feed's events are synchronised as
    FeedTargets,     \* the symbols a feed's events are synchronised for
    Number,          \* sequence numbers of the events of a feed
    Corrective       \* sequence numbers of corrections and cancellations

(* A trade is known by its sequence number, an event of a feed by feed and *)
(* number.  From a session to the next date is longer than an event may be *)
(* stale.                                                                  *)
ASSUME PipelineConstantsOK ==
    /\ First \in Symbol
    /\ Trade \cup Corrective \cup Number \subseteq Nat
    /\ Trade \cap Corrective = {}
    /\ Instant \subseteq Time
    /\ Kind \cap {"idle", "process", "tick", "timer"} = {}
    /\ \A f \in Feed : FeedKind[f] \in Kind \ {"options"} /\ FeedTargets[f] \in Seq(Symbol)
    /\ \A at \in Instant \cap Session, later \in Instant :
          (at < later /\ DateOf[at] # DateOf[later]) => later - at > MaxStaleness

(* The session of a date is open from a REGULAR instant on.                *)
ASSUME SessionsOpen ==
    \A at \in Instant \cap Session : \E open \in Instant :
        open <= at /\ DateOf[open] = DateOf[at] /\ PhaseOf[open] = "REGULAR"

VARIABLES
    boundary_reasons,\* _pending_boundary_reasons
    sweep_reasons,   \* _pending_sweep_reasons
    pending_closed,  \* _pending_closed_sweep_audits
    evaluated,       \* _last_evaluated: as_of of each symbol's snapshot, if any
    incomplete,      \* incomplete_run
    noted,           \* _seen, the events other than trades
    work,            \* the call that is under way
    recorded,        \* events the audit writer accepted
    transitions,     \* orders of the transition audits it accepted
    projected,       \* the last audit it accepted of each cluster
    made             \* the decision it accepted in the last step, if any

trail == <<recorded, transitions, projected>>
pipeline == <<clock, boundary_reasons, sweep_reasons, pending_closed,
              evaluated, incomplete, noted, work, trail, made>>
pipeline_vars == <<vars, synchronizer, pipeline>>

Working(call, at) == [call |-> call, at |-> at, eligible |-> FALSE, targets |-> <<>>]
Idle == Working("idle", 0)

PipelineInit ==
    /\ Init
    /\ SynchronizerInit
    /\ ClockInit
    /\ boundary_reasons = {}
    /\ sweep_reasons = {}
    /\ pending_closed = {}
    /\ evaluated = [s \in Symbol |-> {}]
    /\ incomplete = FALSE
    /\ noted = {}
    /\ work = Idle
    /\ recorded = {}
    /\ transitions = {}
    /\ projected = [c \in Cluster |-> {}]
    /\ made = {}
-----------------------------------------------------------------------------
OptionId(n) == <<"options", n>>

(* Records on their way to the audit writer.  An audit is a row: what it   *)
(* says of its cluster, and its place among the records of the call.       *)
StateOf(c) == [trades |-> trades[c], final |-> c \in closed, expired |-> c \in expired]
Row(part, c, transition, n) ==
    [part |-> part, cluster |-> c, transition |-> transition, order |-> n,
     state |-> StateOf(c)]

Precedes(r, q) == r.part < q.part \/ (r.part = q.part /\ r.order < q.order)
(* What was accepted when the writer refuses one of the rows, or none.     *)
Prefixes(R) == {P \in SUBSET R : \A q \in P, r \in R : Precedes(r, q) => r \in P}
LastOf(R) == CHOOSE r \in R : \A q \in R : q = r \/ Precedes(q, r)

Enqueue(P) ==
    /\ transitions' = transitions \cup {r.order : r \in {x \in P : x.transition # None}}
    /\ projected' = [c \in Cluster |->
          LET R == {r \in P : r.cluster = c} IN IF R = {} THEN projected[c] ELSE {LastOf(R)}]

(* The audits of the engine's step: of the cluster it updated, without a   *)
(* transition, and of the transitions.                                     *)
Updated == {c \in Cluster : trades'[c] # trades[c]}
(* Mutant: only updates with a transition are written.                     *)
FlippedRows == {Row(1, c, None, 0)' : c \in {x \in Updated : \E a \in emitted' : a.cluster = x}}
UpdateRows == {Row(1, c, None, 0)' : c \in Updated}
(* Mutant: the audits of the clusters a new one replaced are not written.  *)
WithoutClosed ==
    {Row(2, a.cluster, a.transition, a.order)' :
        a \in {x \in emitted' : x.transition # "CLUSTER_CLOSED"}}
TransitionRows == {Row(2, a.cluster, a.transition, a.order)' : a \in emitted'}
-----------------------------------------------------------------------------
(* A call begins: the first part of process, with an event's timestamp,    *)
(* and of tick, with the clock's.                                          *)
Called(call, at) == work = Idle /\ (IF call = "tick" THEN at = now ELSE Deliverable(at))

OpenBoundary(call, at) ==
    /\ Called(call, at)
    /\ PassOpen(at)
    /\ boundary_reasons' = boundary_reasons \cup {"session_boundary_open"}
    /\ sweep_reasons' = {}
    /\ evaluated' = [s \in Symbol |-> {}]
    /\ ResetSession
    /\ ResetSynchronizers
    /\ work' = Working(call, at)
    /\ made' = {}
    /\ UNCHANGED <<now, pending_closed, incomplete, noted, trail>>

CloseBoundary(call, at) ==
    /\ Called(call, at)
    /\ PassClose(at)
    /\ boundary_reasons' = boundary_reasons \cup {"session_boundary_close"}
    /\ CloseSession
    /\ pending_closed' = pending_closed \cup
          {Row(3, a.cluster, a.transition, a.order)' : a \in emitted'}
    /\ work' = Working(call, at)
    /\ made' = {}
    /\ UNCHANGED <<now, sweep_reasons, evaluated, incomplete, noted, trail, synchronizer>>

(* The rest of the call, after a boundary or without one.                  *)
Entered(call, at) ==
    /\ \/ Called(call, at) /\ NoBoundary(at)
       \/ work = Working(call, at) /\ UNCHANGED session
    /\ made' = {}
    /\ UNCHANGED <<now, boundary_reasons>>
-----------------------------------------------------------------------------
(* A quote, a stale trade or a duplicate: only its timestamp counted.      *)
PassesBy(at) ==
    /\ Entered("process", at)
    /\ work' = Idle
    /\ UNCHANGED <<vars, synchronizer, sweep_reasons, pending_closed, evaluated,
                   incomplete, noted, trail>>

InTime(at) == Entered("process", at) /\ now - at <= MaxStaleness

(* Mutant: whether the event itself was accepted is not looked at.         *)
RowsAccepted(event_accepted, P, R) == P = R
AllAccepted(event_accepted, P, R) == event_accepted /\ P = R

(* The event, the rows of the engine's step and the audits of a session    *)
(* close that are still pending are written; only then is the event        *)
(* synchronised.                                                           *)
Handled(e, targets, rows, eligible) ==
    LET R == rows \cup pending_closed IN
    \E event_accepted \in BOOLEAN, P \in Prefixes(R) :
        /\ ~event_accepted => P = {}
        /\ recorded' = IF event_accepted THEN recorded \cup {e.id} ELSE recorded
        /\ Enqueue(P)
        /\ incomplete' = (incomplete \/ ~event_accepted \/ P # R)
        /\ \/ /\ AllAccepted(event_accepted, P, R)
              /\ pending_closed' = {}
              /\ Add(Range(targets), e)
              /\ work' = IF \E s \in Range(targets) : Accepts(s, e)
                         THEN [call |-> e.kind, at |-> e.at,
                               eligible |-> eligible, targets |-> targets]
                         ELSE Idle
           \/ /\ ~AllAccepted(event_accepted, P, R)
              /\ work' = Idle
              /\ UNCHANGED <<pending_closed, synchronizer>>
        /\ UNCHANGED evaluated

(* An event of a feed.  Without calculated indicators it is only recorded. *)
Underlying(f, n, at, calculated) ==
    /\ InTime(at)
    /\ <<f, n>> \notin noted
    /\ noted' = noted \cup {<<f, n>>}
    /\ UNCHANGED <<vars, sweep_reasons>>
    /\ \/ /\ calculated
          /\ Handled([id |-> <<f, n>>, kind |-> FeedKind[f], sequence |-> n, at |-> at,
                      sweep |-> None], FeedTargets[f], {}, FALSE)
       \/ /\ ~calculated
          /\ \/ recorded' = recorded \cup {<<f, n>>} /\ UNCHANGED incomplete
             \/ incomplete' = TRUE /\ UNCHANGED recorded
          /\ work' = Idle
          /\ UNCHANGED <<synchronizer, pending_closed, evaluated, transitions, projected>>

(* Mutant: the totals of before the event are put into its payload.        *)
TotalsBefore == Snapshot
TotalsAfter == Snapshot'

(* What follows the engine's step on the option event n of contract k.     *)
OptionHandled(n, k, at, eligible, reasons) ==
    /\ sweep_reasons' = sweep_reasons \cup reasons \cup
          ({a.transition : a \in emitted'} \cap
              {"NEW_QUALIFYING_SWEEP", "SWEEP_QUALIFICATION_REVOKED"})
    /\ Handled([id |-> OptionId(n), kind |-> "options", sequence |-> n, at |-> at,
                sweep |-> TotalsAfter],
               IF SymbolOf[k] \in Symbol THEN <<SymbolOf[k]>> ELSE <<>>,
               UpdateRows \cup TransitionRows, eligible)

(* The quote row that classifies an option event is refused.               *)
QuoteRefused ==
    /\ incomplete' = TRUE
    /\ work' = Idle
    /\ UNCHANGED <<synchronizer, sweep_reasons, pending_closed, evaluated, trail>>

(* `eligible` in _enrich_state: a call's trade in the regular session, its *)
(* condition and size as good.                                             *)
EligibleTrade(k, at, good) == good /\ k \in Call /\ RegularSession(at)

OptionTrade(t, k, at, good) ==
    LET eligible == EligibleTrade(k, at, good) IN
    /\ InTime(at)
    /\ UNCHANGED noted
    /\ \/ Ignore(t, k, at, FALSE) /\ QuoteRefused
       \/ /\ Ignore(t, k, at, eligible)
          /\ OptionHandled(t, k, at, eligible,
                           IF eligible THEN {"SWEEP_OUT_OF_ORDER_BEFORE_OPEN"} ELSE {})
       \/ /\ eligible
          /\ \E p \in Payload : JoinCluster(t, k, at, p) \/ OpenCluster(t, k, at, p)
          /\ OptionHandled(t, k, at, eligible, {})

OptionCorrective(n, k, at, good) ==
    LET eligible == EligibleTrade(k, at, good) IN
    /\ InTime(at)
    /\ OptionId(n) \notin noted
    /\ noted' = noted \cup {OptionId(n)}
    /\ \/ UNCHANGED vars /\ QuoteRefused
       \/ /\ \E t \in Trade : Uncorrelated(t)
          /\ OptionHandled(n, k, at, eligible, {"SWEEP_UNCORRELATED_CORRECTION"})
       \/ /\ \E t \in Trade : Cancel(t) \/ \E p \in Payload : Correct(t, at, p)
          /\ OptionHandled(n, k, at, eligible, {})
-----------------------------------------------------------------------------
Decide(s, reasons) ==
    made' = {[symbol |-> s, call |-> work.call, reasons |-> reasons, inputs |-> Inputs(s),
              sweeps |-> {h.sweep : h \in held[s]["options"]}]}

Refused ==
    /\ incomplete' = TRUE
    /\ work' = Idle
    /\ made' = {}
    /\ UNCHANGED <<boundary_reasons, sweep_reasons>>

(* _material_change_reasons.                                               *)
Reasons(s, material) ==
    boundary_reasons \cup sweep_reasons \cup
        IF evaluated[s] = {} THEN {"initial_state"}
        ELSE {r \in {"new_eligible_option_trade", "material_change"} :
                 \/ r = "new_eligible_option_trade" /\ work.eligible
                 \/ r = "material_change" /\ material}

(* The loop over the symbols an event was synchronised for.  The snapshot  *)
(* counts as evaluated also when there is no reason to decide, or the      *)
(* decision is refused.                                                    *)
Evaluate(material) ==
    LET s == Head(work.targets)
        reasons == Reasons(s, material)
        rest == [work EXCEPT !.targets = Tail(@)]
        onwards == IF rest.targets = <<>> THEN Idle ELSE rest
        decides == Current(s, work.at) /\ reasons # {}
    IN
    /\ work.targets # <<>>
    /\ evaluated' = IF Current(s, work.at) THEN [evaluated EXCEPT ![s] = {work.at}]
                                           ELSE evaluated
    /\ \/ /\ ~decides
          /\ work' = onwards
          /\ made' = {}
          /\ UNCHANGED <<boundary_reasons, sweep_reasons, incomplete>>
       \/ decides /\ Refused
       \/ /\ decides
          /\ Decide(s, reasons)
          /\ boundary_reasons' = {}
          /\ sweep_reasons' = {}
          /\ work' = onwards
          /\ UNCHANGED incomplete
    /\ UNCHANGED <<vars, synchronizer, clock, pending_closed, noted, trail>>
-----------------------------------------------------------------------------
(* tick: the close audits, the engine's tick with the timer event and its  *)
(* audits, the refreshed synchronizers, then at most one decision.         *)

TimerRefused ==
    /\ Entered("tick", now)
    /\ \E P \in Prefixes(pending_closed) : P # pending_closed /\ Enqueue(P)
    /\ incomplete' = TRUE
    /\ work' = Idle
    /\ UNCHANGED <<vars, synchronizer, sweep_reasons, pending_closed, evaluated, noted, recorded>>

(* _refresh_sweep_state_in_synchronizer.                                   *)
RefreshSweepState ==
    /\ held' = [s \in Symbol |->
          [held[s] EXCEPT !["options"] = {[h EXCEPT !.sweep = Snapshot'] : h \in @}]]
    /\ UNCHANGED last_sequence

TimerTick ==
    /\ Entered("tick", now)
    /\ Tick(now)
    /\ RefreshSweepState
    /\ sweep_reasons' = sweep_reasons \cup {a.transition : a \in emitted'}
    /\ \E P \in Prefixes(TransitionRows) :
          /\ Enqueue(P \cup {[r EXCEPT !.part = 0] : r \in pending_closed})
          /\ incomplete' = (incomplete \/ P # TransitionRows)
          /\ work' = IF P = TransitionRows THEN Working("timer", now) ELSE Idle
    /\ pending_closed' = {}
    /\ UNCHANGED <<evaluated, noted, recorded>>

(* Mutant: the timer waits until the state of every symbol is complete.    *)
EveryState == \A s \in Symbol : Complete(s)
(* snapshot(symbols[0], now, allow_stale=True).                            *)
TimerState == Complete(First)

(* Mutant: a sweep decision discards the boundary reasons too.             *)
Discarded == {}
(* The boundary reasons after a sweep decision of the timer.               *)
KeptBoundaryReasons == boundary_reasons

TimerReasons ==
    IF sweep_reasons # {} THEN sweep_reasons
    ELSE IF boundary_reasons # {} THEN boundary_reasons
    ELSE IF \E t \in evaluated[First] : now - t > MaxStaleness THEN {"freshness_window_expiry"}
    ELSE {}

TimerDecides ==
    LET decides == TimerState /\ TimerReasons # {} IN
    /\ work.call = "timer"
    /\ \/ /\ ~decides
          /\ made' = {}
          /\ UNCHANGED <<boundary_reasons, sweep_reasons, evaluated, incomplete>>
       \/ decides /\ Refused /\ UNCHANGED evaluated
       \/ /\ decides
          /\ Decide(First, TimerReasons)
          /\ sweep_reasons' = {}
          /\ boundary_reasons' = IF sweep_reasons # {} THEN KeptBoundaryReasons ELSE {}
          /\ evaluated' = [evaluated EXCEPT ![First] = {now}]
          /\ UNCHANGED incomplete
    /\ work' = Idle
    /\ UNCHANGED <<vars, synchronizer, clock, pending_closed, noted, trail>>

Advance ==
    /\ work = Idle
    /\ TimePasses
    /\ made' = {}
    /\ UNCHANGED <<vars, synchronizer, boundary_reasons, sweep_reasons, pending_closed,
                   evaluated, incomplete, noted, work, trail>>
-----------------------------------------------------------------------------
Timer ==
    \/ OpenBoundary("tick", now)
    \/ CloseBoundary("tick", now)
    \/ TimerRefused
    \/ TimerTick

(* A refusal ends the streams (live_smoke.py:220), the timer goes on.       *)
EventArrives ==
    /\ ~incomplete
    /\ \E at \in Instant :
        \/ OpenBoundary("process", at)
        \/ CloseBoundary("process", at)
        \/ PassesBy(at)
        \/ \E f \in Feed, n \in Number, calculated \in BOOLEAN :
              Underlying(f, n, at, calculated)
        \/ \E k \in Key, good \in BOOLEAN :
              \/ \E t \in Trade : OptionTrade(t, k, at, good)
              \/ \E n \in Corrective : OptionCorrective(n, k, at, good)

Decisions ==
    \/ \E material \in BOOLEAN : Evaluate(material)
    \/ TimerDecides

PipelineNext == Timer \/ EventArrives \/ Decisions \/ Advance

(* A call that has begun ends, and the timer's loop keeps calling tick.    *)
Fairness ==
    /\ WF_pipeline_vars(work # Idle /\ PipelineNext)
    /\ WF_pipeline_vars(Timer)

PipelineSpec == PipelineInit /\ [][PipelineNext]_pipeline_vars /\ Fairness
-----------------------------------------------------------------------------
(* The audit trail can justify every decision: each event it names as an   *)
(* input was accepted by the audit writer before it (pipeline.py:226, 315),*)
(* whichever records were refused on the way.                              *)
DecisionTraceable == \A d \in made : d.inputs # {} /\ d.inputs \subseteq recorded

(* No transition of a cluster is lost unnoticed: as long as the run is not *)
(* marked incomplete, every transition audit the engine made is in the     *)
(* trail or waits with the audits of a session close; through boundaries,  *)
(* resets, and calls that returned early.                                  *)
LossesMarked ==
    ~incomplete => transitions \cup {r.order : r \in pending_closed} = 1 .. order

(* The last row written of a live cluster shows its present trades and     *)
(* flags, unless that row is the audit of a session close.                 *)
RowsFollow ==
    (~incomplete /\ pending_closed = {}) =>
        \A c \in Live : \E r \in projected[c] :
            r.state = StateOf(c) \/ r.transition = "CLUSTER_CLOSED"

(* Sweeps of two trading days count together only if the open of the later *)
(* one is missed: a REGULAR timestamp of an earlier day was the last before*)
(* its first.  However late and out of order the timestamps come, no other *)
(* way leads past the reset of a day (pipeline.py:587-605).                *)
OneSessionLive ==
    \A c, d \in Live :
        (OpenAt(c) < OpenAt(d) /\ DateOf[OpenAt(c)] # DateOf[OpenAt(d)]) =>
            DateOf[OpenAt(d)] \in missed

(* The gates of a decision made by the timer or by an option event see the *)
(* session totals as they are, those the decision records as sweep_state   *)
(* (pipeline.py:206, 481).                                                 *)
DecidesOnCurrentTotals ==
    \A d \in made : d.call \in {"timer", "options"} => d.sweeps = {Snapshot}

(* A pending reason is given up for a decision in the trail that names it, *)
(* or with the session it belonged to; never for a refused decision or an  *)
(* evaluation that decided nothing.                                        *)
ReasonsReachDecision ==
    [][\A r \in (boundary_reasons \cup sweep_reasons) :
          \/ r \in boundary_reasons' \cup sweep_reasons'
          \/ \E d \in made' : r \in d.reasons
          \/ tokens' # tokens]_pipeline_vars

(* A change of the sweeps is decided upon, without a further event, as     *)
(* soon as the first symbol's state is complete, however stale it is.      *)
PendingDecided ==
    (sweep_reasons # {} /\ Complete(First))
        ~> (sweep_reasons = {} \/ incomplete \/ order >= MaxOrder)
-----------------------------------------------------------------------------
(* CURRENT_STATE.md:237 "retaining the latest `sweep_clusters` projection":*)
(* a cluster's last row in the trail is its present state.                 *)
ProjectionLatest ==
    (~incomplete /\ pending_closed = {} /\ work = Idle) =>
        \A c \in Live : \E r \in projected[c] : r.state = StateOf(c)
=============================================================================
