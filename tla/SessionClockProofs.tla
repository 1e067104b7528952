------------------------ MODULE SessionClockProofs --------------------------
(***************************************************************************)
(* What the clock promises to those who reset with it, for any instants    *)
(* and events as late as they like: the phase is REGULAR only on a date    *)
(* that runs, and a date runs when its open has passed or is missed.  So   *)
(* whatever happens in a date's session happens after the reset of that    *)
(* date, unless the date is among the missed.                              *)
(***************************************************************************)
EXTENDS SessionClock, WellFoundedInduction, TLAPS

LEMMA InstantsAreNat == Instant \subseteq Nat
BY ClockConstantsOK

(* The first instant exists, as the instants are natural numbers.          *)
LEMMA FirstInstantExists == \E t \in Instant : \A u \in Instant : t <= u
<1> DEFINE R == OpToRel(<, Nat)
<1>1. IsWellFoundedOn(R, Nat)
  BY NatLessThanWellFounded
<1>2. PICK t \in Instant : \A u \in Instant : ~(<<u, t>> \in R)
  BY <1>1, WFMin, ClockConstantsOK
<1>3. ASSUME NEW u \in Instant PROVE t <= u
  <2>1. u \in Nat /\ t \in Nat
    BY ClockConstantsOK
  <2>2. u < t => <<u, t>> \in R
    BY <2>1 DEF OpToRel
  <2>3. ~(u < t)
    BY <1>2, <2>2
  <2> QED
    BY <2>1, <2>3
<1> QED
  BY <1>3

LEMMA FirstInstant == ClockInit => now \in Instant
BY FirstInstantExists DEF ClockInit

-----------------------------------------------------------------------------
OpenOn(t) == <<DateOf[t], "open">> \in tokens
Running(d) == <<d, "open">> \in tokens \/ d \in missed

TokenInv ==
    /\ phase = "REGULAR" => Running(date)
    /\ \A t \in Instant : (PhaseOf[t] = "REGULAR" /\ t < now) => Running(DateOf[t])
    /\ \A u \in Instant : OpenOn(u) => \E t \in Instant : t <= now /\ DateOf[t] = DateOf[u]

(* What is younger than a night is of the clock's date.                    *)
LEMMA SameDate ==
  ASSUME now \in Instant, NEW at, Deliverable(at), NEW bound \in Nat, now - at <= bound,
         \A later \in Instant :
             (at < later /\ DateOf[at] # DateOf[later]) => later - at > bound
  PROVE  DateOf[at] = DateOf[now]
<1>1. at \in Instant /\ at \in Nat /\ now \in Nat /\ at <= now
  BY InstantsAreNat DEF Deliverable
<1>2. CASE at < now
  BY <1>1, <1>2
<1>3. CASE at = now
  BY <1>3
<1> QED
  BY <1>1, <1>2, <1>3

(* The clock's instant is delivered to the timer.                          *)
LEMMA NowDeliverable == now \in Instant => Deliverable(now)
BY InstantsAreNat DEF Deliverable

Begins(at) ==
    /\ Deliverable(at)
    /\ now' = now
    /\ PassOpen(at) \/ PassClose(at) \/ NoBoundary(at)

(* What runs goes on to run, and what is missed is missed until it opens.  *)
LEMMA RunsOn ==
  ASSUME NEW at, Begins(at)
  PROVE  /\ tokens \subseteq tokens'
         /\ \A d : Running(d) => Running(d)'
         /\ PassOpen(at) \/ missed \subseteq missed'
<1>1. CASE PassOpen(at)
  BY <1>1 DEF PassOpen, OpenToken, Running
<1>2. CASE PassClose(at)
  BY <1>2 DEF PassClose, Running
<1>3. CASE NoBoundary(at)
  BY <1>3 DEF NoBoundary, Running
<1> QED
  BY <1>1, <1>2, <1>3 DEF Begins

(* A call that begins leaves the tokens as TokenInv says.                  *)
LEMMA TokenBegins ==
  ASSUME now \in Instant, TokenInv, NEW at, Begins(at)
  PROVE  TokenInv' /\ phase' = PhaseOf[at] /\ date' = DateOf[at]
<1>1. at \in Instant /\ at <= now /\ now' = now
  BY DEF Begins, Deliverable
<1>2. phase' = PhaseOf[at] /\ date' = DateOf[at]
  BY DEF Begins, PassOpen, PassClose, NoBoundary, EnterPhase
<1>3. PhaseOf[at] = "REGULAR" => Running(DateOf[at])'
  <2>1. CASE PassOpen(at)
    BY <2>1 DEF PassOpen, OpenToken, Running
  <2>2. CASE PassClose(at)
    BY <2>2 DEF PassClose, Closes
  <2>3. CASE NoBoundary(at)
    BY <2>3 DEF NoBoundary, Opens, Misses, OpenToken, Running
  <2> QED
    BY <2>1, <2>2, <2>3 DEF Begins
<1>4. ASSUME NEW u \in Instant, OpenOn(u)'
      PROVE  \E t \in Instant : t <= now' /\ DateOf[t] = DateOf[u]
  <2>1. <<DateOf[u], "open">> \in tokens \cup {<<DateOf[at], "open">>, <<date, "close">>}
    BY <1>4 DEF Begins, PassOpen, PassClose, NoBoundary, OpenToken, CloseToken, OpenOn
  <2>2. OpenOn(u) \/ DateOf[u] = DateOf[at]
    BY <2>1 DEF OpenOn
  <2> QED
    BY <1>1, <2>2 DEF TokenInv
<1>5. phase' = "REGULAR" => Running(date)'
  BY <1>2, <1>3 DEF Running
<1>6. \A t \in Instant : (PhaseOf[t] = "REGULAR" /\ t < now') => Running(DateOf[t])'
  BY <1>1, RunsOn DEF TokenInv
<1> QED
  BY <1>2, <1>4, <1>5, <1>6 DEF TokenInv

(* A date that has not begun has no tokens.                                *)
LEMMA TokenTime ==
  ASSUME now \in Instant, TokenInv, TimePasses
  PROVE  TokenInv' /\ (OpenOn(now)' => DateOf[now'] = DateOf[now] /\ OpenOn(now))
<1>1. /\ now' \in Instant /\ now < now' /\ now \in Nat /\ now' \in Nat
      /\ phase = PhaseOf[now] /\ date = DateOf[now]
      /\ UNCHANGED <<phase, date, tokens, missed>>
  BY InstantsAreNat DEF TimePasses, session
<1>2. phase' = "REGULAR" => Running(date)'
  BY <1>1 DEF TokenInv, Running
<1>3. ASSUME NEW t \in Instant, PhaseOf[t] = "REGULAR", t < now' PROVE Running(DateOf[t])'
  <2>1. t \in Nat
    BY InstantsAreNat
  <2>2. CASE t < now
    BY <1>1, <1>3, <2>2 DEF TokenInv, Running
  <2>3. CASE t = now
    BY <1>1, <1>3, <2>3 DEF TokenInv, Running
  <2>4. \A u \in Instant : u <= now \/ now' <= u
    BY DEF TimePasses
  <2> QED
    BY <1>1, <1>3, <2>1, <2>2, <2>3, <2>4
<1>4. ASSUME NEW u \in Instant, OpenOn(u)'
      PROVE  \E t \in Instant : t <= now' /\ DateOf[t] = DateOf[u]
  <2>1. PICK t \in Instant : t <= now /\ DateOf[t] = DateOf[u]
    BY <1>1, <1>4 DEF TokenInv, OpenOn
  <2>2. t \in Nat
    BY InstantsAreNat
  <2> QED
    BY <1>1, <2>1, <2>2
<1>5. ASSUME OpenOn(now)' PROVE DateOf[now'] = DateOf[now] /\ OpenOn(now)
  <2>1. PICK t \in Instant : t <= now /\ DateOf[t] = DateOf[now']
    BY <1>1, <1>5 DEF TokenInv, OpenOn
  <2>2. t \in Nat
    BY InstantsAreNat
  <2>3. t < now \/ t = now
    BY <1>1, <2>1, <2>2
  <2>4. DateOf[now'] = DateOf[now]
    BY <1>1, <2>1, <2>3, CalendarOK
  <2> QED
    BY <1>1, <1>5, <2>4 DEF OpenOn
<1> QED
  BY <1>2, <1>3, <1>4, <1>5 DEF TokenInv

(* The rest of a call: no boundary, or the one the call began with.        *)
Enters(at) ==
    /\ Deliverable(at)
    /\ now' = now
    /\ NoBoundary(at) \/ UNCHANGED session
    /\ phase' = PhaseOf[at]
    /\ date' = DateOf[at]

LEMMA TokenEnters ==
  ASSUME now \in Instant, TokenInv, NEW at, Enters(at)
  PROVE  TokenInv' /\ tokens' = tokens /\ missed \subseteq missed'
<1>1. CASE NoBoundary(at)
  BY <1>1, TokenBegins DEF Enters, Begins, NoBoundary
<1>2. CASE UNCHANGED session
  BY <1>2 DEF Enters, session, TokenInv, OpenOn, Running
<1> QED
  BY <1>1, <1>2 DEF Enters

(* A call of the clock's date and after the REGULAR instant of it finds    *)
(* the date running.                                                       *)
LEMMA SessionOpened ==
  ASSUME now \in Instant, TokenInv, NEW at, Enters(at), DateOf[at] = DateOf[now],
         NEW open \in Instant, open <= at, DateOf[open] = DateOf[at], PhaseOf[open] = "REGULAR"
  PROVE  Running(DateOf[now])'
<1>1. TokenInv' /\ now' = now
  BY TokenEnters DEF Enters
<1>2. at \in Instant /\ at <= now /\ open \in Nat /\ at \in Nat /\ now \in Nat
  BY InstantsAreNat DEF Enters, Deliverable
<1>3. CASE open < now
  BY <1>1, <1>3 DEF TokenInv
<1>4. CASE open = now
  <2>1. at = now
    BY <1>2, <1>4
  <2>2. phase' = "REGULAR" /\ date' = DateOf[now]
    BY <1>4, <2>1 DEF Enters
  <2> QED
    BY <1>1, <2>2 DEF TokenInv, Running
<1> QED
  BY <1>2, <1>3, <1>4
=============================================================================
