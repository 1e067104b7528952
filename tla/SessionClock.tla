---------------------------- MODULE SessionClock ----------------------------
(***************************************************************************)
(* The clock of the pipeline and its view of the trading day               *)
(* (_handle_session_transition, pipeline.py, and session_phase,            *)
(* indicators.py): every event and every tick of the timer moves the phase *)
(* to that of its timestamp, backwards too, and the two boundaries of a    *)
(* day are passed once each.                                               *)
(***************************************************************************)
EXTENDS Integers

CONSTANTS
    Instant,         \* the instants at which something happens
    PhaseOf,         \* session_phase of an instant
    DateOf           \* the date of an instant

ASSUME ClockConstantsOK ==
    /\ Instant \subseteq Nat /\ Instant # {}
    /\ PhaseOf \in [Instant -> {"PREMARKET", "REGULAR", "AFTER_HOURS"}]

(* A date's instants follow each other.                                    *)
ASSUME CalendarOK ==
    \A at, mid, later \in Instant :
        (at < mid /\ mid < later /\ DateOf[at] = DateOf[later]) => DateOf[mid] = DateOf[at]

VARIABLES
    now,             \* the pipeline's clock
    phase,           \* _last_session_phase
    date,            \* _last_session_date
    tokens,          \* _boundary_tokens_seen
    missed           \* history: dates in whose session the open is still missed

session == <<phase, date, tokens, missed>>
clock == <<now, session>>

None == "none"
(* An event may carry the timestamp of any earlier instant: the phase is   *)
(* moved before anyone looks at its age (pipeline.py:129).                 *)
Deliverable(at) == at \in Instant /\ at <= now

ClockInit ==
    /\ now = CHOOSE t \in Instant : \A u \in Instant : t <= u
    /\ phase = None
    /\ date = None
    /\ tokens = {}
    /\ missed = {}

(* Mutant: the session opens once.                                         *)
OpensOnce(at) == <<"session", "open">>
OpenToken(at) == <<DateOf[at], "open">>
CloseToken == <<date, "close">>

Opens(at) == PhaseOf[at] = "REGULAR" /\ phase # "REGULAR" /\ OpenToken(at) \notin tokens
(* The open of a date is missed when a REGULAR timestamp of another date   *)
(* was the last before its first one.                                      *)
Misses(at) == PhaseOf[at] = "REGULAR" /\ phase = "REGULAR" /\ OpenToken(at) \notin tokens
Closes(at) == PhaseOf[at] = "AFTER_HOURS" /\ phase = "REGULAR" /\ CloseToken \notin tokens

EnterPhase(at) ==
    /\ phase' = PhaseOf[at]
    /\ date' = DateOf[at]

PassOpen(at) ==
    /\ Opens(at)
    /\ tokens' = tokens \cup {OpenToken(at)}
    /\ missed' = missed \ {DateOf[at]}
    /\ EnterPhase(at)

PassClose(at) ==
    /\ Closes(at)
    /\ tokens' = tokens \cup {CloseToken}
    /\ EnterPhase(at)
    /\ UNCHANGED missed

NoBoundary(at) ==
    /\ ~Opens(at)
    /\ ~Closes(at)
    /\ EnterPhase(at)
    /\ missed' = IF Misses(at) THEN missed \cup {DateOf[at]} ELSE missed
    /\ UNCHANGED tokens

(* The timer runs four times a second, so also after the last event of an  *)
(* instant: time does not pass before the phase is that of the clock.      *)
TimePasses ==
    /\ phase = PhaseOf[now]
    /\ date = DateOf[now]
    /\ now' \in {t \in Instant : t > now /\ \A u \in Instant : u <= now \/ t <= u}
    /\ UNCHANGED session
=============================================================================
