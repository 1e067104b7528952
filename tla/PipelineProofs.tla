--------------------------- MODULE PipelineProofs ---------------------------
(***************************************************************************)
(* The pipeline keeps what the sweep engine promises, and adds to it: for  *)
(* every set of contracts, symbols, feeds and instants.                    *)
(*                                                                         *)
(* The first part shows that the pipeline takes only steps of the engine,  *)
(* so that SweepInv holds of the engine in it.  On that rest three         *)
(* invariants of the pipeline's own: what a decision is made from          *)
(* (DecisionInv), what becomes of the audits of the engine's steps         *)
(* (RowInv), and which day the clusters are of (SessionInv).  The last     *)
(* needs CalendarOK, SessionsOpen and nights longer than an event may be   *)
(* stale, the others no more than the types of the constants.              *)
(***************************************************************************)
EXTENDS Pipeline, SweepEngineProofs, SessionClockProofs

(* The pipeline's clock reads one of its instants, and these are times.    *)
LEMMA ClockStep ==
  ASSUME now \in Instant, [PipelineNext]_pipeline_vars
  PROVE  now' \in Instant /\ now \in Time /\ now <= now'
<1>1. Instant \subseteq Time /\ Instant \subseteq Nat /\ Time \subseteq Nat
  BY PipelineConstantsOK, ClockConstantsOK, TimesAreNat
<1>2. now \in Time /\ now \in Nat
  BY <1>1
<1>3. ASSUME NEW call, NEW at, OpenBoundary(call, at) \/ CloseBoundary(call, at)
      PROVE  now' = now
  BY <1>3 DEF OpenBoundary, CloseBoundary
<1>4. ASSUME NEW call, NEW at, Entered(call, at) PROVE now' = now
  BY <1>4 DEF Entered
<1>5. CASE EventArrives
  <2>1. ASSUME NEW at, PassesBy(at) PROVE now' = now
    BY <1>4, <2>1 DEF PassesBy
  <2>2. ASSUME NEW at, InTime(at) PROVE now' = now
    BY <1>4, <2>2 DEF InTime
  <2>3. ASSUME NEW f, NEW n, NEW at, NEW calculated, Underlying(f, n, at, calculated)
        PROVE  now' = now
    BY <2>2, <2>3 DEF Underlying
  <2>4. ASSUME NEW t, NEW k, NEW at, NEW good,
               OptionTrade(t, k, at, good) \/ OptionCorrective(t, k, at, good)
        PROVE  now' = now
    BY <2>2, <2>4 DEF OptionTrade, OptionCorrective
  <2>5. now' = now
    BY <1>3, <1>5, <2>1, <2>3, <2>4 DEF EventArrives
  <2> QED
    BY <1>2, <2>5
<1>6. CASE Timer
  BY <1>2, <1>3, <1>4, <1>6 DEF Timer, TimerRefused, TimerTick
<1>7. CASE Decisions
  BY <1>2, <1>7 DEF Decisions, Evaluate, TimerDecides, clock
<1>8. CASE Advance
  BY <1>1, <1>2, <1>8 DEF Advance, TimePasses
<1>9. CASE UNCHANGED pipeline_vars
  BY <1>2, <1>9 DEF pipeline_vars, pipeline, clock
<1> QED
  BY <1>2, <1>5, <1>6, <1>7, <1>8, <1>9 DEF PipelineNext

(* Whatever the pipeline does to the engine is a step of the engine.       *)
LEMMA EngineStep ==
  ASSUME now \in Instant, [PipelineNext]_pipeline_vars
  PROVE  [Next]_vars
<1>1. Instant \subseteq Time /\ now \in Time
  BY PipelineConstantsOK
<1>2. CASE Timer
  BY <1>1, <1>2 DEF Timer, OpenBoundary, CloseBoundary, TimerRefused, TimerTick, Next
<1>3. CASE Decisions \/ Advance
  BY <1>3 DEF Decisions, Evaluate, TimerDecides, Advance
<1>4. CASE UNCHANGED pipeline_vars
  BY <1>4 DEF pipeline_vars
<1>5. ASSUME NEW at \in Instant, NEW k \in Key, NEW good \in BOOLEAN, NEW t \in Trade,
             OptionTrade(t, k, at, good)
      PROVE  Next
  <2>1. at \in Time /\ EligibleTrade(k, at, good) \in BOOLEAN
    BY <1>1 DEF EligibleTrade, RegularSession
  <2>2. \/ \E eligible \in BOOLEAN : Ignore(t, k, at, eligible)
        \/ \E p \in Payload : JoinCluster(t, k, at, p) \/ OpenCluster(t, k, at, p)
    BY <1>5, <2>1 DEF OptionTrade
  <2> QED
    BY <2>1, <2>2 DEF Next
<1>6. ASSUME NEW at \in Instant, NEW k \in Key, NEW good \in BOOLEAN, NEW n \in Corrective,
             OptionCorrective(n, k, at, good)
      PROVE  [Next]_vars
  <2>1. \/ UNCHANGED vars
        \/ \E t \in Trade : Uncorrelated(t) \/ Cancel(t) \/ \E p \in Payload : Correct(t, at, p)
    BY <1>6 DEF OptionCorrective
  <2> QED
    BY <1>1, <2>1 DEF Next
<1>7. ASSUME NEW at \in Instant, NEW f \in Feed, NEW n \in Number, NEW calculated \in BOOLEAN,
             Underlying(f, n, at, calculated)
      PROVE  UNCHANGED vars
  BY <1>7 DEF Underlying
<1>8. ASSUME NEW at \in Instant,
             \/ OpenBoundary("process", at) \/ CloseBoundary("process", at) \/ PassesBy(at)
      PROVE  [Next]_vars
  BY <1>8 DEF OpenBoundary, CloseBoundary, PassesBy, Next
<1>9. CASE EventArrives
  BY <1>5, <1>6, <1>7, <1>8, <1>9 DEF EventArrives
<1> QED
  BY <1>2, <1>3, <1>4, <1>9 DEF PipelineNext

(* The pipeline drives the engine only as its specification allows, so all *)
(* that SweepEngineProofs shows of the engine holds of it in the pipeline. *)
THEOREM PipelineDrivesEngine == PipelineSpec => Spec
<1>1. PipelineInit => now \in Instant /\ Init
  BY FirstInstant DEF PipelineInit
<1>2. now \in Instant /\ [PipelineNext]_pipeline_vars => (now \in Instant)' /\ [Next]_vars
  BY ClockStep, EngineStep
<1> QED
  BY <1>1, <1>2, PTL DEF PipelineSpec, Spec

(* Under the pipeline the engine keeps its invariant: totals, windows and  *)
(* trades are what SweepEngineProofs shows of the engine alone.            *)
THEOREM PipelineSweeps == PipelineSpec => [](now \in Instant /\ SweepInv)
<1>1. PipelineInit => now \in Instant /\ SweepInv
  BY FirstInstant, SweepInit DEF PipelineInit
<1>2. (now \in Instant /\ SweepInv) /\ [PipelineNext]_pipeline_vars => (now \in Instant /\ SweepInv)'
  BY ClockStep, EngineStep, SweepStep
<1> QED
  BY <1>1, <1>2, PTL DEF PipelineSpec
-----------------------------------------------------------------------------
(* A pending reason is given up only for a decision in the trail that      *)
(* names it, or with its session (pipeline.py:334-345, 487-494).           *)
THEOREM ReasonsKept == PipelineSpec => ReasonsReachDecision
<1> DEFINE Reaches == \A r \in (boundary_reasons \cup sweep_reasons) :
                         \/ r \in boundary_reasons' \cup sweep_reasons'
                         \/ \E d \in made' : r \in d.reasons
                         \/ tokens' # tokens
           Grow == /\ boundary_reasons \subseteq boundary_reasons'
                   /\ sweep_reasons \subseteq sweep_reasons'
<1>1. ASSUME NEW call, NEW at, OpenBoundary(call, at) PROVE Reaches
  BY <1>1 DEF OpenBoundary, PassOpen, Opens
<1>2. ASSUME NEW call, NEW at, CloseBoundary(call, at) PROVE Grow
  BY <1>2 DEF CloseBoundary
<1>3. ASSUME NEW at, PassesBy(at) PROVE Grow
  BY <1>3 DEF PassesBy, Entered
<1>4. ASSUME NEW f, NEW n, NEW at, NEW calculated, Underlying(f, n, at, calculated) PROVE Grow
  BY <1>4 DEF Underlying, InTime, Entered
<1>5. ASSUME NEW t, NEW k, NEW at, NEW good, OptionTrade(t, k, at, good) PROVE Grow
  BY <1>5 DEF OptionTrade, OptionHandled, QuoteRefused, InTime, Entered
<1>6. ASSUME NEW n, NEW k, NEW at, NEW good, OptionCorrective(n, k, at, good) PROVE Grow
  BY <1>6 DEF OptionCorrective, OptionHandled, QuoteRefused, InTime, Entered
<1>7. ASSUME TimerRefused PROVE Grow
  BY <1>7 DEF TimerRefused, Entered
<1>8. ASSUME TimerTick PROVE Grow
  BY <1>8 DEF TimerTick, Entered
<1>9. ASSUME NEW material, Evaluate(material) PROVE Reaches
  <2> DEFINE s == Head(work.targets)
             reasons == Reasons(s, material)
  <2>1. boundary_reasons \cup sweep_reasons \subseteq reasons
    BY DEF Reasons
  <2> HIDE DEF reasons
  <2>2. CASE UNCHANGED <<boundary_reasons, sweep_reasons>>
    BY <2>2
  <2>3. CASE Decide(s, reasons)
    BY <2>1, <2>3 DEF Decide
  <2> QED
    BY <1>9, <2>2, <2>3 DEF Evaluate, Refused, reasons
<1>10. ASSUME TimerDecides PROVE Reaches
  <2>1. CASE UNCHANGED <<boundary_reasons, sweep_reasons>>
    BY <2>1
  <2>2. CASE /\ Decide(First, TimerReasons)
             /\ boundary_reasons' = IF sweep_reasons # {} THEN KeptBoundaryReasons ELSE {}
    <3>1. \E d \in made' : d.reasons = TimerReasons
      BY <2>2 DEF Decide
    <3>2. CASE sweep_reasons # {}
      <4>1. TimerReasons = sweep_reasons /\ boundary_reasons' = boundary_reasons
        BY <2>2, <3>2 DEF TimerReasons, KeptBoundaryReasons
      <4> QED
        BY <3>1, <4>1
    <3>3. CASE sweep_reasons = {}
      <4>1. boundary_reasons # {} => TimerReasons = boundary_reasons
        BY <3>3 DEF TimerReasons
      <4> QED
        BY <3>1, <3>3, <4>1
    <3> QED
      BY <3>2, <3>3
  <2> QED
    BY <1>10, <2>1, <2>2 DEF TimerDecides, Refused
<1>11. ASSUME Advance PROVE Grow
  BY <1>11 DEF Advance
<1>12. ASSUME PipelineNext PROVE Reaches
  <2>1. Grow => Reaches
    OBVIOUS
  <2> HIDE DEF Grow, Reaches
  <2>2. Timer => Reaches
    BY <1>1, <1>2, <1>7, <1>8, <2>1 DEF Timer
  <2>3. EventArrives => Reaches
    BY <1>1, <1>2, <1>3, <1>4, <1>5, <1>6, <2>1 DEF EventArrives
  <2>4. Decisions => Reaches
    BY <1>9, <1>10 DEF Decisions
  <2> QED
    BY <1>11, <1>12, <2>1, <2>2, <2>3, <2>4 DEF PipelineNext
<1> QED
  BY <1>12, PTL DEF PipelineSpec, ReasonsReachDecision
-----------------------------------------------------------------------------
(* What a decision is made from.  The synchronizers hold recorded events   *)
(* only, and while the timer or an option event is deciding those of the   *)
(* options show the totals of now: every change of the totals is followed, *)
(* within the same call, by the event or the refresh that carries them.    *)

HeldRecorded ==
    /\ DOMAIN held = Symbol
    /\ \A s \in Symbol : DOMAIN held[s] = Kind
    /\ \A s \in Symbol, kind \in Kind : \A h \in held[s][kind] :
          {"id", "sweep"} \subseteq DOMAIN h /\ h.id \in recorded

CallShape ==
    /\ DOMAIN work = {"call", "at", "eligible", "targets"}
    /\ work.targets \in Seq(Symbol)
    /\ work.call = "timer" => work.targets = <<>>
    /\ work.call = "options" => \E s \in Symbol : work.targets = <<s>>

CountsFor(s) == work.call = "timer" \/ (work.call = "options" /\ work.targets = <<s>>)
TotalsHeld ==
    \A s \in Symbol : CountsFor(s) => \A h \in held[s]["options"] : h.sweep = Snapshot

DecisionInv ==
    HeldRecorded /\ CallShape /\ TotalsHeld /\ DecisionTraceable /\ DecidesOnCurrentTotals

(* The names of calls are no kinds of events.                              *)
LEMMA CallNames ==
  /\ "options" \in Kind
  /\ Kind \cap {"idle", "process", "tick", "timer"} = {}
  /\ \A f \in Feed : FeedKind[f] \in Kind /\ FeedKind[f] # "options" /\ FeedTargets[f] \in Seq(Symbol)
BY PipelineConstantsOK, SynchronizerConstantsOK

(* A call without targets decides nothing for options.                     *)
LEMMA WorkingShape ==
  ASSUME NEW call, NEW at, call # "options"
  PROVE  work' = Working(call, at) => CallShape' /\ (call # "timer" => TotalsHeld')
BY DEF Working, CallShape, TotalsHeld, CountsFor

LEMMA IdleShape == work' = Idle => CallShape' /\ TotalsHeld'
BY WorkingShape DEF Idle

(* An unmade decision is traceable and current.                            *)
LEMMA NothingMade == made' = {} => DecisionTraceable' /\ DecidesOnCurrentTotals'
BY DEF DecisionTraceable, DecidesOnCurrentTotals

(* What the synchronizers hold after an event was added, or not.           *)
LEMMA HandledHeld ==
  ASSUME HeldRecorded, NEW e, {"id", "sweep", "kind"} \subseteq DOMAIN e, e.kind \in Kind,
         NEW targets, NEW rows, NEW eligible, Handled(e, targets, rows, eligible)
  PROVE  HeldRecorded'
<1>1. recorded \subseteq recorded'
  BY DEF Handled
<1>2. CASE e.id \in recorded' /\ Add(Range(targets), e)
  <2>1. held' = [s \in Symbol |->
          IF s \in Range(targets) /\ Accepts(s, e) THEN [held[s] EXCEPT ![e.kind] = {e}]
                                                   ELSE held[s]]
    BY <1>2 DEF Add
  <2>2. ASSUME NEW s \in Symbol
        PROVE  /\ DOMAIN held'[s] = Kind
               /\ \A kind \in Kind : held'[s][kind] \in {held[s][kind], {e}}
    BY <2>1, <2>2 DEF HeldRecorded
  <2>3. DOMAIN held' = Symbol
    BY <2>1
  <2> HIDE <2>1
  <2>4. ASSUME NEW s \in Symbol, NEW kind \in Kind, NEW h \in held'[s][kind]
        PROVE  {"id", "sweep"} \subseteq DOMAIN h /\ h.id \in recorded'
    <3>1. h \in held[s][kind] \/ h = e
      BY <2>2, <2>4
    <3> QED
      BY <1>1, <1>2, <2>4, <3>1 DEF HeldRecorded
  <2> QED
    BY <2>2, <2>3, <2>4 DEF HeldRecorded
<1>3. CASE UNCHANGED held
  BY <1>1, <1>3 DEF HeldRecorded
<1> QED
  BY <1>2, <1>3 DEF Handled, AllAccepted, synchronizer

(* The symbols that will be decided on after an event was handled.         *)
LEMMA HandledShape ==
  ASSUME HeldRecorded, NEW e, {"id", "sweep", "kind"} \subseteq DOMAIN e, e.kind \in Kind,
         NEW targets \in Seq(Symbol), NEW rows, NEW eligible,
         e.kind = "options" => /\ targets = <<>> \/ \E s \in Symbol : targets = <<s>>
                               /\ e.sweep = Snapshot',
         Handled(e, targets, rows, eligible)
  PROVE  CallShape' /\ TotalsHeld'
<1>1. CASE work' = Idle
  BY <1>1, IdleShape
<1>2. CASE /\ Add(Range(targets), e)
           /\ \E s \in Range(targets) : Accepts(s, e)
           /\ work' = [call |-> e.kind, at |-> e.at, eligible |-> eligible, targets |-> targets]
  <2>1. e.kind # "timer"
    BY CallNames
  <2>2. work'.call = e.kind /\ work'.targets = targets
        /\ DOMAIN work' = {"call", "at", "eligible", "targets"}
    BY <1>2
  <2>3. CASE e.kind # "options"
    BY <2>1, <2>2, <2>3 DEF CallShape, TotalsHeld, CountsFor
  <2>4. CASE e.kind = "options"
    <3>1. PICK s \in Symbol : targets = <<s>>
      BY <1>2, <2>4 DEF Range
    <3>2. Range(targets) = {s}
      BY <3>1 DEF Range
    <3>3. held'[s] = [held[s] EXCEPT !["options"] = {e}]
      BY <1>2, <2>4, <3>2 DEF Add
    <3>4. held'[s]["options"] = {e}
      BY <3>3, CallNames DEF HeldRecorded
    <3>5. \A x \in Symbol : CountsFor(x)' => x = s
      BY <2>1, <2>2, <2>4, <3>1 DEF CountsFor
    <3>6. TotalsHeld'
      BY <2>4, <3>4, <3>5 DEF TotalsHeld
    <3> QED
      BY <2>1, <2>2, <3>1, <3>6 DEF CallShape
  <2> QED
    BY <2>3, <2>4
<1> QED
  BY <1>1, <1>2 DEF Handled, AllAccepted

(* A snapshot of a complete state names recorded events, and the totals.   *)
LEMMA DecideWell ==
  ASSUME HeldRecorded, NEW s \in Symbol, NEW reasons, Complete(s), Decide(s, reasons),
         recorded' = recorded, Snapshot' = Snapshot,
         work.call \in {"timer", "options"} => \A h \in held[s]["options"] : h.sweep = Snapshot
  PROVE  DecisionTraceable' /\ DecidesOnCurrentTotals'
<1>1. PICK h \in held[s]["options"] : TRUE
  BY CallNames DEF Complete
<1>2. h.id \in Inputs(s) /\ Inputs(s) \subseteq recorded
  BY <1>1, CallNames DEF Inputs, HeldRecorded
<1>3. DecisionTraceable'
  BY <1>2 DEF Decide, DecisionTraceable
<1>4. DecidesOnCurrentTotals'
  BY <1>1 DEF Decide, DecidesOnCurrentTotals
<1> QED
  BY <1>3, <1>4

(* The totals change with the engine only.                                 *)
LEMMA SnapshotKept == UNCHANGED vars => Snapshot' = Snapshot
BY DEF vars, Snapshot, LastTimestamp, Fresh, Live

LEMMA EvaluateDecision ==
  ASSUME DecisionInv, NEW material, Evaluate(material)
  PROVE  DecisionInv'
<1> DEFINE s == Head(work.targets)
           reasons == Reasons(s, material)
           rest == [work EXCEPT !.targets = Tail(@)]
           onwards == IF rest.targets = <<>> THEN Idle ELSE rest
<1>1. /\ work.targets # <<>> /\ work.targets \in Seq(Symbol) /\ work.call # "timer"
      /\ UNCHANGED vars /\ recorded' = recorded /\ held' = held
  BY DEF Evaluate, DecisionInv, CallShape, trail, synchronizer
<1>2. s \in Symbol /\ Tail(work.targets) \in Seq(Symbol)
  BY <1>1
<1>3. Snapshot' = Snapshot
  BY <1>1, SnapshotKept
<1>4. work' \in {Idle, onwards}
  BY DEF Evaluate, Refused
<1>5. CallShape' /\ TotalsHeld'
  <2>1. CASE work' = Idle
    BY <2>1, IdleShape
  <2>2. CASE work' = rest /\ rest.targets # <<>>
    <3>1. /\ rest.call = work.call /\ rest.targets = Tail(work.targets)
          /\ DOMAIN rest = {"call", "at", "eligible", "targets"}
      BY DEF DecisionInv, CallShape
    <3>2. work.call # "options"
      BY <2>2, <3>1 DEF DecisionInv, CallShape
    <3> HIDE DEF rest
    <3> QED
      BY <1>1, <1>2, <2>2, <3>1, <3>2 DEF CallShape, TotalsHeld, CountsFor
  <2> QED
    BY <1>4, <2>1, <2>2
<1>6. DecisionTraceable' /\ DecidesOnCurrentTotals'
  <2>1. CASE made' = {}
    BY <2>1, NothingMade
  <2>2. CASE Current(s, work.at) /\ Decide(s, reasons)
    <3>1. Complete(s)
      BY <2>2 DEF Current
    <3>2. work.call = "options" => work.targets = <<s>>
      BY <1>1 DEF DecisionInv, CallShape
    <3>3. work.call \in {"timer", "options"} => \A h \in held[s]["options"] : h.sweep = Snapshot
      BY <1>1, <1>2, <3>2 DEF DecisionInv, TotalsHeld, CountsFor
    <3> HIDE DEF s, reasons
    <3> QED
      BY <1>1, <1>2, <1>3, <2>2, <3>1, <3>3, DecideWell DEF DecisionInv
  <2> QED
    BY <2>1, <2>2 DEF Evaluate, Refused
<1>7. HeldRecorded'
  BY <1>1 DEF DecisionInv, HeldRecorded
<1> QED
  BY <1>5, <1>6, <1>7 DEF DecisionInv

LEMMA TimerDecision ==
  ASSUME DecisionInv, TimerDecides
  PROVE  DecisionInv'
<1>1. /\ work.call = "timer" /\ First \in Symbol /\ work' = Idle
      /\ UNCHANGED vars /\ recorded' = recorded /\ held' = held
  BY PipelineConstantsOK DEF TimerDecides, Refused, trail, synchronizer
<1>2. DecisionTraceable' /\ DecidesOnCurrentTotals'
  <2>1. CASE made' = {}
    BY <2>1, NothingMade
  <2>2. CASE Complete(First) /\ Decide(First, TimerReasons)
    <3>1. \A h \in held[First]["options"] : h.sweep = Snapshot
      BY <1>1 DEF DecisionInv, TotalsHeld, CountsFor
    <3> QED
      BY <1>1, <2>2, <3>1, SnapshotKept, DecideWell DEF DecisionInv
  <2> QED
    BY <2>1, <2>2 DEF TimerDecides, Refused, TimerState
<1>3. HeldRecorded'
  BY <1>1 DEF DecisionInv, HeldRecorded
<1> QED
  BY <1>1, <1>2, <1>3, IdleShape DEF DecisionInv

(* The engine's step on an option event, and what is made of it.           *)
LEMMA OptionDecision ==
  ASSUME DecisionInv, NEW n, NEW k, NEW at, NEW eligible, NEW reasons,
         OptionHandled(n, k, at, eligible, reasons)
  PROVE  HeldRecorded' /\ CallShape' /\ TotalsHeld'
<1> DEFINE e == [id |-> OptionId(n), kind |-> "options", sequence |-> n, at |-> at,
                 sweep |-> TotalsAfter]
           targets == IF SymbolOf[k] \in Symbol THEN <<SymbolOf[k]>> ELSE <<>>
<1>1. /\ {"id", "sweep", "kind"} \subseteq DOMAIN e
      /\ e.kind = "options" /\ e.kind \in Kind /\ e.sweep = Snapshot'
  BY CallNames DEF TotalsAfter
<1>2. targets \in Seq(Symbol) /\ (targets = <<>> \/ \E s \in Symbol : targets = <<s>>)
  OBVIOUS
<1>3. Handled(e, targets, UpdateRows \cup TransitionRows, eligible)
  BY DEF OptionHandled
<1> HIDE DEF e, targets
<1> QED
  BY <1>1, <1>2, <1>3, HandledHeld, HandledShape DEF DecisionInv

(* A call that ends without an event leaves the synchronizers as they are. *)
LEMMA QuietDecision ==
  ASSUME DecisionInv, work' = Idle, made' = {}, UNCHANGED synchronizer,
         recorded \subseteq recorded'
  PROVE  DecisionInv'
<1>1. HeldRecorded'
  BY DEF DecisionInv, HeldRecorded, synchronizer
<1> QED
  BY <1>1, IdleShape, NothingMade DEF DecisionInv

LEMMA DecisionStep ==
  ASSUME DecisionInv, [PipelineNext]_pipeline_vars
  PROVE  DecisionInv'
<1>1. ASSUME NEW call \in {"process", "tick"}, NEW at, OpenBoundary(call, at)
      PROVE  DecisionInv'
  <2>1. HeldRecorded'
    BY <1>1 DEF OpenBoundary, ResetSynchronizers, HeldRecorded
  <2>2. CallShape' /\ TotalsHeld'
    BY <1>1, WorkingShape DEF OpenBoundary
  <2> QED
    BY <1>1, <2>1, <2>2, NothingMade DEF OpenBoundary, DecisionInv
<1>2. ASSUME NEW call \in {"process", "tick"}, NEW at, CloseBoundary(call, at)
      PROVE  DecisionInv'
  <2>1. HeldRecorded'
    BY <1>2 DEF CloseBoundary, DecisionInv, HeldRecorded, synchronizer, trail
  <2>2. CallShape' /\ TotalsHeld'
    BY <1>2, WorkingShape DEF CloseBoundary
  <2> QED
    BY <1>2, <2>1, <2>2, NothingMade DEF CloseBoundary, DecisionInv
<1>3. ASSUME NEW at, PassesBy(at) PROVE DecisionInv'
  BY <1>3, QuietDecision DEF PassesBy, Entered, trail
<1>4. ASSUME NEW f \in Feed, NEW n, NEW at, NEW calculated, Underlying(f, n, at, calculated)
      PROVE  DecisionInv'
  <2>1. made' = {}
    BY <1>4 DEF Underlying, InTime, Entered
  <2> DEFINE e == [id |-> <<f, n>>, kind |-> FeedKind[f], sequence |-> n, at |-> at,
                   sweep |-> None]
  <2>2. CASE Handled(e, FeedTargets[f], {}, FALSE)
    <3>1. /\ {"id", "sweep", "kind"} \subseteq DOMAIN e
          /\ e.kind # "options" /\ e.kind \in Kind /\ FeedTargets[f] \in Seq(Symbol)
      BY CallNames
    <3> HIDE DEF e
    <3>2. HeldRecorded' /\ CallShape' /\ TotalsHeld'
      BY <2>2, <3>1, HandledHeld, HandledShape DEF DecisionInv
    <3> QED
      BY <2>1, <3>2, NothingMade DEF DecisionInv
  <2>3. CASE work' = Idle /\ recorded \subseteq recorded' /\ UNCHANGED synchronizer
    BY <2>1, <2>3, QuietDecision
  <2> QED
    BY <1>4, <2>2, <2>3 DEF Underlying
<1>5. ASSUME NEW n, NEW k, NEW at, NEW eligible, NEW reasons,
             OptionHandled(n, k, at, eligible, reasons) \/ QuoteRefused, InTime(at)
      PROVE  DecisionInv'
  <2>1. made' = {}
    BY <1>5 DEF InTime, Entered
  <2>2. CASE QuoteRefused
    BY <2>1, <2>2, QuietDecision DEF QuoteRefused, trail
  <2>3. CASE OptionHandled(n, k, at, eligible, reasons)
    BY <2>1, <2>3, OptionDecision, NothingMade DEF DecisionInv
  <2> QED
    BY <1>5, <2>2, <2>3
<1>6. ASSUME NEW t, NEW k, NEW at, NEW good, OptionTrade(t, k, at, good) PROVE DecisionInv'
  BY <1>5, <1>6 DEF OptionTrade
<1>7. ASSUME NEW n, NEW k, NEW at, NEW good, OptionCorrective(n, k, at, good) PROVE DecisionInv'
  BY <1>5, <1>7 DEF OptionCorrective
<1>8. CASE TimerRefused
  BY <1>8, QuietDecision DEF TimerRefused, Entered
<1>9. CASE TimerTick
  <2>1. recorded' = recorded /\ made' = {} /\ work' \in {Working("timer", now), Idle}
    BY <1>9 DEF TimerTick, Entered
  <2>2. held' = [s \in Symbol |->
            [held[s] EXCEPT !["options"] = {[h EXCEPT !.sweep = Snapshot'] : h \in @}]]
    BY <1>9 DEF TimerTick, RefreshSweepState
  <2> DEFINE fresh(s) == {[h EXCEPT !.sweep = Snapshot'] : h \in held[s]["options"]}
  <2>3. DOMAIN held' = Symbol
    BY <2>2
  <2>4. ASSUME NEW s \in Symbol
        PROVE  /\ DOMAIN held'[s] = Kind
               /\ \A kind \in Kind :
                     held'[s][kind] = IF kind = "options" THEN fresh(s) ELSE held[s][kind]
    BY <2>2, CallNames DEF DecisionInv, HeldRecorded
  <2>5. ASSUME NEW s \in Symbol, NEW h \in fresh(s)
        PROVE  {"id", "sweep"} \subseteq DOMAIN h /\ h.id \in recorded /\ h.sweep = Snapshot'
    <3>1. PICK g \in held[s]["options"] : h = [g EXCEPT !.sweep = Snapshot']
      OBVIOUS
    <3>2. {"id", "sweep"} \subseteq DOMAIN g /\ g.id \in recorded
      BY CallNames DEF DecisionInv, HeldRecorded
    <3> QED
      BY <3>1, <3>2
  <2> HIDE DEF fresh
  <2>6. HeldRecorded'
    BY <2>1, <2>3, <2>4, <2>5 DEF DecisionInv, HeldRecorded
  <2>7. TotalsHeld'
    BY <2>4, <2>5, CallNames DEF TotalsHeld
  <2>8. CallShape'
    BY <2>1, IdleShape, WorkingShape DEF CallShape, Working
  <2> QED
    BY <2>1, <2>6, <2>7, <2>8, NothingMade DEF DecisionInv
<1>10. ASSUME NEW material, Evaluate(material) PROVE DecisionInv'
  BY <1>10, EvaluateDecision
<1>11. CASE TimerDecides
  BY <1>11, TimerDecision
<1>12. CASE Advance
  BY <1>12, QuietDecision DEF Advance, trail
<1>13. CASE UNCHANGED pipeline_vars
  <2>1. UNCHANGED <<vars, held, recorded, work, made>>
    BY <1>13 DEF pipeline_vars, synchronizer, pipeline, trail
  <2>2. Snapshot' = Snapshot
    BY <2>1, SnapshotKept
  <2> QED
    BY <2>1, <2>2 DEF DecisionInv, HeldRecorded, CallShape, TotalsHeld, CountsFor,
                      DecisionTraceable, DecidesOnCurrentTotals
<1>14. CASE EventArrives
  BY <1>1, <1>2, <1>3, <1>4, <1>6, <1>7, <1>14 DEF EventArrives
<1>15. CASE Timer
  BY <1>1, <1>2, <1>8, <1>9, <1>15 DEF Timer
<1> QED
  BY <1>10, <1>11, <1>12, <1>13, <1>14, <1>15 DEF PipelineNext, Decisions

LEMMA DecisionInit == PipelineInit => DecisionInv
<1> SUFFICES ASSUME PipelineInit PROVE DecisionInv
  OBVIOUS
<1>1. HeldRecorded
  BY DEF PipelineInit, SynchronizerInit, HeldRecorded
<1>2. CallShape /\ TotalsHeld
  BY DEF PipelineInit, Idle, Working, CallShape, TotalsHeld, CountsFor
<1> QED
  BY <1>1, <1>2 DEF PipelineInit, DecisionInv, DecisionTraceable, DecidesOnCurrentTotals

LEMMA DecisionInvariant == PipelineSpec => []DecisionInv
<1>1. DecisionInv /\ [PipelineNext]_pipeline_vars => DecisionInv'
  BY DecisionStep
<1> QED
  BY DecisionInit, <1>1, PTL DEF PipelineSpec

(* Every decision names events that the audit writer accepted before it    *)
(* (pipeline.py:226, 315), whatever was refused on the way.                *)
THEOREM DecisionsTraceable == PipelineSpec => []DecisionTraceable
<1>1. DecisionInv => DecisionTraceable
  BY DEF DecisionInv
<1> QED
  BY <1>1, DecisionInvariant, PTL

(* The decisions of the timer and of option events see the session totals  *)
(* as they are (pipeline.py:206, 481).                                     *)
THEOREM DecisionsCurrent == PipelineSpec => []DecidesOnCurrentTotals
<1>1. DecisionInv => DecidesOnCurrentTotals
  BY DEF DecisionInv
<1> QED
  BY <1>1, DecisionInvariant, PTL
-----------------------------------------------------------------------------
(* The audits on their way to the trail.  A row that waits with the audits *)
(* of a session close has an order of its own, below the engine's; and the *)
(* rows of a complete call tell of every cluster that the engine's step    *)
(* changed, whatever waited before it.                                     *)

PendingRows ==
    /\ \A r \in pending_closed :
          /\ {"part", "cluster", "transition", "order"} \subseteq DOMAIN r
          /\ r.part = 3 /\ r.transition = "CLUSTER_CLOSED" /\ r.order \in 1 .. order
    /\ \A q, r \in pending_closed : q.order = r.order => q = r

Told(c) == \E r \in projected[c] : r.state = StateOf(c) \/ r.transition = "CLUSTER_CLOSED"
Waits(c) == \E r \in pending_closed : r.cluster = c
RowsTell == ~incomplete => \A c \in Live : Waits(c) \/ Told(c)

RowInv == PendingRows /\ LossesMarked /\ RowsTell

(* What a step of the engine with the audits A says of the clusters.       *)
Tells(A) ==
    /\ A \subseteq Audits
    /\ {a.order : a \in A} = (order + 1) .. order'
    /\ order \in Nat /\ order' \in Nat /\ order <= order'
    /\ \A a, b \in A : a.order = b.order => a = b
    /\ Live' \subseteq Cluster
    /\ \A c \in Live' :
          (trades'[c] = trades[c] /\ \A a \in A : a.cluster # c) =>
              c \in Live /\ StateOf(c)' = StateOf(c)

LEMMA StepTells ==
  ASSUME SweepInv, Next
  PROVE  Tells(emitted')
<1>1. SweepInv'
  BY SweepStep
<1>2. emitted' \subseteq Audits /\ Live' \subseteq Cluster
  BY <1>1 DEF SweepInv, TypeOK, Live
<1>3. ASSUME NEW c \in Live', trades'[c] = trades[c], \A a \in emitted' : a.cluster # c
      PROVE  c \in Live /\ StateOf(c)' = StateOf(c)
  BY <1>2, <1>3, UntoldUnchanged DEF StateOf
<1> QED
  BY <1>2, <1>3, StepOrders DEF Tells

LEMMA QuietTells ==
  ASSUME SweepInv, UNCHANGED vars
  PROVE  Tells({})
BY LiveTyped DEF Tells, vars, SweepInv, TypeOK, Live, StateOf

(* Some row is the last of those of a cluster.                             *)
LEMMA Greatest ==
  ASSUME NEW n \in Nat, NEW S, S \subseteq 0 .. n, S # {}
  PROVE  \E x \in S : \A y \in S : y <= x
<1> DEFINE R == OpToRel(<, Nat)
           T == {n - x : x \in S}
<1>1. IsWellFoundedOn(R, Nat)
  BY NatLessThanWellFounded
<1>2. T \subseteq Nat /\ T # {}
  <2>1. \A x \in S : x \in 0 .. n /\ n - x \in Nat
    OBVIOUS
  <2>2. PICK x \in S : TRUE
    OBVIOUS
  <2>3. n - x \in T
    BY <2>2
  <2> QED
    BY <2>1, <2>3
<1>3. PICK t \in T : \A u \in T : ~(<<u, t>> \in R)
  <2> HIDE DEF R, T
  <2> QED
    BY <1>1, <1>2, WFMin
<1>4. PICK x \in S : t = n - x
  OBVIOUS
<1>5. ASSUME NEW y \in S PROVE y <= x
  <2>1. n - y \in T /\ n - y \in Nat /\ t \in Nat
    BY <1>2
  <2>2. n - y < t => <<n - y, t>> \in R
    BY <2>1 DEF OpToRel
  <2>3. ~(n - y < t)
    BY <1>3, <2>1, <2>2
  <2>4. x \in 0 .. n /\ y \in 0 .. n
    OBVIOUS
  <2> HIDE DEF R, T
  <2> QED
    BY <1>4, <2>3, <2>4
<1> QED
  BY <1>5

LEMMA LastExists ==
  ASSUME NEW n \in Nat, NEW R, R # {},
         \A r \in R : r.part \in 0 .. 3 /\ r.order \in 0 .. n,
         \A q, r \in R : (q.part = r.part /\ q.order = r.order) => q = r
  PROVE  LastOf(R) \in R
<1> DEFINE parts == {r.part : r \in R}
<1>1. PICK m \in parts : \A i \in parts : i <= m
  <2>1. parts \subseteq 0 .. 3 /\ parts # {}
    OBVIOUS
  <2> HIDE DEF parts
  <2> QED
    BY <2>1, Greatest
<1> DEFINE orders == {r.order : r \in {x \in R : x.part = m}}
<1>2. PICK o \in orders : \A i \in orders : i <= o
  <2>1. orders \subseteq 0 .. n /\ orders # {}
    OBVIOUS
  <2> HIDE DEF orders
  <2> QED
    BY <2>1, Greatest
<1>3. PICK r \in R : r.part = m /\ r.order = o
  OBVIOUS
<1>4. ASSUME NEW q \in R PROVE q = r \/ Precedes(q, r)
  <2>1. q.part <= m /\ (q.part = m => q.order <= o)
    BY <1>1, <1>2
  <2>2. q.part \in Int /\ q.order \in Int /\ m \in Int /\ o \in Int
    BY <1>3
  <2>3. q.part = m /\ q.order = o => q = r
    BY <1>3
  <2> HIDE DEF parts, orders
  <2> QED
    BY <1>3, <2>1, <2>2, <2>3 DEF Precedes
<1> QED
  BY <1>4 DEF LastOf

(* What the trail says of a cluster after rows were accepted.              *)
LEMMA Enqueued ==
  ASSUME NEW n \in Nat, NEW P, Enqueue(P), NEW c \in Cluster,
         \A r \in P : r.part \in 0 .. 3 /\ r.order \in 0 .. n,
         \A q, r \in P : (q.cluster = r.cluster /\ q.part = r.part /\ q.order = r.order) => q = r
  PROVE  \/ (\A r \in P : r.cluster # c) /\ projected'[c] = projected[c]
         \/ \E r \in P : r.cluster = c /\ projected'[c] = {r}
<1> DEFINE R == {r \in P : r.cluster = c}
<1>1. projected'[c] = IF R = {} THEN projected[c] ELSE {LastOf(R)}
  BY DEF Enqueue
<1>2. R # {} => LastOf(R) \in R
  BY LastExists
<1> QED
  BY <1>1, <1>2

(* Every order that was pending, or that the step used, is in the trail.   *)
Copies(C) ==
    /\ \A r \in C : r.part \in {0, 3} /\ r.transition = "CLUSTER_CLOSED" /\ r.order \in 1 .. order
    /\ \A q, r \in C : q.order = r.order => q = r
    /\ {r.order : r \in C} = {r.order : r \in pending_closed}
    /\ \A q \in pending_closed : \E r \in C : r.cluster = q.cluster

LEMMA PendingCopied ==
  ASSUME PendingRows
  PROVE  Copies(pending_closed) /\ Copies({[r EXCEPT !.part = 0] : r \in pending_closed})
<1> DEFINE f(r) == [r EXCEPT !.part = 0]
           C == {f(r) : r \in pending_closed}
<1>1. \A r \in pending_closed :
         /\ f(r).part = 0 /\ f(r).transition = "CLUSTER_CLOSED"
         /\ f(r).order = r.order /\ f(r).cluster = r.cluster
  BY DEF PendingRows
<1> HIDE DEF f
<1>2. {r.order : r \in C} = {r.order : r \in pending_closed}
  BY <1>1
<1>3. Copies(C)
  BY <1>1, <1>2 DEF PendingRows, Copies
<1>4. Copies(pending_closed)
  BY DEF PendingRows, Copies
<1> QED
  BY <1>3, <1>4 DEF f

AuditRows(A) == {Row(2, a.cluster, a.transition, a.order)' : a \in A}

(* A call whose rows are all accepted leaves nothing behind.               *)
LEMMA AllWritten ==
  ASSUME SweepInv, RowInv, ~incomplete, NEW A, Tells(A), NEW C, Copies(C),
         Enqueue(UpdateRows \cup AuditRows(A) \cup C), pending_closed' = {}
  PROVE  RowInv'
<1> DEFINE P == UpdateRows \cup AuditRows(A) \cup C
<1>1. \A r \in UpdateRows :
         /\ r.part = 1 /\ r.transition = None /\ r.order = 0 /\ r.cluster \in Updated
         /\ r.state = StateOf(r.cluster)' /\ r = Row(1, r.cluster, None, 0)'
  BY DEF UpdateRows, Row
<1>2. ASSUME NEW c \in Updated PROVE \E r \in UpdateRows : r.cluster = c
  <2>1. Row(1, c, None, 0)' \in UpdateRows
    BY DEF UpdateRows
  <2> QED
    BY <2>1 DEF Row
<1>3. \A r \in AuditRows(A) :
         /\ r.part = 2 /\ r.state = StateOf(r.cluster)'
         /\ \E a \in A : /\ r.cluster = a.cluster /\ r.transition = a.transition /\ r.order = a.order
                         /\ r = Row(2, a.cluster, a.transition, a.order)'
  BY DEF AuditRows, Row
<1>4. ASSUME NEW a \in A
      PROVE  \E r \in AuditRows(A) :
                r.cluster = a.cluster /\ r.transition = a.transition /\ r.order = a.order
  <2>1. Row(2, a.cluster, a.transition, a.order)' \in AuditRows(A)
    BY DEF AuditRows
  <2> QED
    BY <2>1 DEF Row
<1>5. /\ \A a \in A : a.cluster \in Cluster /\ a.transition # None /\ a.order \in (order + 1) .. order'
      /\ \A a, b \in A : a.order = b.order => a = b
      /\ order \in Nat /\ order' \in Nat /\ order <= order'
  <2>1. None \notin Transition
    BY DEF None, Transition
  <2> QED
    BY <2>1 DEF Tells, Audits
<1>6. \A r \in P : r.part \in 0 .. 3 /\ r.order \in 0 .. order'
  <2>1. \A r \in C : r.part \in 0 .. 3 /\ r.order \in 0 .. order'
    BY <1>5 DEF Copies
  <2>2. \A r \in AuditRows(A) : r.part \in 0 .. 3 /\ r.order \in 0 .. order'
    BY <1>3, <1>5
  <2>3. \A r \in UpdateRows : r.part \in 0 .. 3 /\ r.order \in 0 .. order'
    BY <1>1, <1>5
  <2> QED
    BY <2>1, <2>2, <2>3
<1>7. \A q, r \in P : (q.cluster = r.cluster /\ q.part = r.part /\ q.order = r.order) => q = r
  <2>1. ASSUME NEW q \in UpdateRows, NEW r \in UpdateRows, q.cluster = r.cluster
        PROVE  q = r
    BY <1>1, <2>1
  <2>2. ASSUME NEW q \in AuditRows(A), NEW r \in AuditRows(A), q.order = r.order
        PROVE  q = r
    BY <1>3, <1>5, <2>2
  <2>3. \A q, r \in C : q.order = r.order => q = r
    BY DEF Copies
  <2>4. /\ \A q \in UpdateRows : q.part = 1
        /\ \A q \in AuditRows(A) : q.part = 2
        /\ \A q \in C : q.part # 1 /\ q.part # 2
    BY <1>1, <1>3 DEF Copies
  <2> QED
    BY <2>1, <2>2, <2>3, <2>4
<1>8. ASSUME NEW c \in Live' PROVE Told(c)'
  <2>1. c \in Cluster
    BY DEF Tells
  <2>2. CASE \E r \in P : r.cluster = c /\ projected'[c] = {r}
    <3>1. PICK r \in P : r.cluster = c /\ projected'[c] = {r}
      BY <2>2
    <3>2. r.state = StateOf(c)' \/ r.transition = "CLUSTER_CLOSED"
      BY <1>1, <1>3, <3>1 DEF Copies
    <3> QED
      BY <3>1, <3>2 DEF Told
  <2>3. CASE (\A r \in P : r.cluster # c) /\ projected'[c] = projected[c]
    <3>1. c \notin Updated
      BY <1>2, <2>3
    <3>2. trades'[c] = trades[c] /\ \A a \in A : a.cluster # c
      BY <1>4, <2>1, <2>3, <3>1 DEF Updated
    <3>3. c \in Live /\ StateOf(c)' = StateOf(c)
      BY <3>2 DEF Tells
    <3>4. ~Waits(c)
      BY <2>3 DEF Waits, Copies
    <3>5. Told(c)
      BY <3>3, <3>4 DEF RowInv, RowsTell
    <3> QED
      BY <2>3, <3>3, <3>5 DEF Told
  <2> HIDE DEF P
  <2>4. Enqueue(P)
    BY DEF P
  <2> QED
    BY <1>5, <1>6, <1>7, <2>1, <2>2, <2>3, <2>4, Enqueued
<1>9. LossesMarked'
  <2>1. transitions' = transitions \cup {r.order : r \in {x \in P : x.transition # None}}
    BY DEF Enqueue
  <2>2. {r.order : r \in {x \in P : x.transition # None}}
            = {a.order : a \in A} \cup {r.order : r \in C}
    <3>1. \A r \in C : r.transition # None
      BY DEF Copies, None
    <3>2. \A r \in P : r.transition # None => r \in AuditRows(A) \/ r \in C
      BY <1>1
    <3>3. \A r \in AuditRows(A) : r.transition # None /\ \E a \in A : r.order = a.order
      BY <1>3, <1>5
    <3> HIDE DEF P
    <3>4. AuditRows(A) \subseteq P /\ C \subseteq P
      BY DEF P
    <3> QED
      BY <1>4, <3>1, <3>2, <3>3, <3>4
  <2>3. transitions \cup {r.order : r \in pending_closed} = 1 .. order
    BY DEF RowInv, LossesMarked
  <2>4. transitions' = (1 .. order) \cup ((order + 1) .. order')
    BY <2>1, <2>2, <2>3 DEF Copies, Tells
  <2>5. (1 .. order) \cup ((order + 1) .. order') = 1 .. order'
    BY <1>5
  <2> QED
    BY <2>4, <2>5 DEF LossesMarked
<1>10. PendingRows' /\ RowsTell'
  BY <1>8 DEF PendingRows, RowsTell
<1> QED
  BY <1>9, <1>10 DEF RowInv

(* A call of which a row is refused marks the run.                         *)
LEMMA Marked ==
  ASSUME RowInv, incomplete', order \in Nat, order' \in Nat, order <= order',
         pending_closed' \subseteq pending_closed
  PROVE  RowInv'
<1>1. PendingRows'
  BY DEF RowInv, PendingRows
<1> QED
  BY <1>1 DEF RowInv, LossesMarked, RowsTell

(* A call without rows.                                                    *)
LEMMA Unwritten ==
  ASSUME SweepInv, RowInv, UNCHANGED vars, UNCHANGED <<pending_closed, transitions, projected>>,
         incomplete => incomplete'
  PROVE  RowInv'
<1>1. Live' = Live /\ \A c : StateOf(c)' = StateOf(c)
  BY DEF vars, Live, StateOf
<1>2. \A c \in Live : (Told(c) => Told(c)') /\ (Waits(c) => Waits(c)')
  BY <1>1 DEF Told, Waits
<1>3. RowsTell'
  BY <1>1, <1>2 DEF RowInv, RowsTell
<1> QED
  BY <1>3 DEF RowInv, PendingRows, LossesMarked, vars

LEMMA HandledRows ==
  ASSUME SweepInv, RowInv, NEW A, Tells(A), NEW e, NEW targets, NEW eligible,
         Handled(e, targets, UpdateRows \cup AuditRows(A), eligible)
  PROVE  RowInv'
<1>1. order \in Nat /\ order' \in Nat /\ order <= order'
  BY DEF Tells
<1>2. CASE incomplete'
  BY <1>1, <1>2, Marked DEF Handled
<1>3. CASE ~incomplete'
  <2>1. /\ ~incomplete /\ pending_closed' = {}
        /\ Enqueue(UpdateRows \cup AuditRows(A) \cup pending_closed)
    BY <1>3 DEF Handled, AllAccepted
  <2> QED
    BY <2>1, AllWritten, PendingCopied DEF RowInv
<1> QED
  BY <1>2, <1>3

LEMMA OptionRows ==
  ASSUME SweepInv, RowInv, Next, NEW n, NEW k, NEW at, NEW eligible, NEW reasons,
         OptionHandled(n, k, at, eligible, reasons)
  PROVE  RowInv'
<1>1. TransitionRows = AuditRows(emitted')
  BY DEF TransitionRows, AuditRows
<1> QED
  BY <1>1, StepTells, HandledRows DEF OptionHandled

LEMMA UnderlyingRows ==
  ASSUME SweepInv, RowInv, NEW f, NEW n, NEW at, NEW calculated,
         Underlying(f, n, at, calculated)
  PROVE  RowInv'
<1>1. UNCHANGED vars
  BY DEF Underlying
<1>2. UpdateRows \cup AuditRows({}) = {}
  BY <1>1 DEF vars, UpdateRows, Updated, AuditRows
<1> DEFINE e == [id |-> <<f, n>>, kind |-> FeedKind[f], sequence |-> n, at |-> at,
                 sweep |-> None]
<1>3. CASE Handled(e, FeedTargets[f], {}, FALSE)
  <2> HIDE DEF e
  <2> QED
    BY <1>1, <1>2, <1>3, QuietTells, HandledRows
<1>4. CASE /\ UNCHANGED <<pending_closed, transitions, projected>>
           /\ UNCHANGED incomplete \/ incomplete' = TRUE
  <2>1. incomplete => incomplete'
    BY <1>4
  <2> QED
    BY <1>1, <1>4, <2>1, Unwritten
<1>5. CASE calculated
  BY <1>3, <1>5 DEF Underlying
<1>6. CASE ~calculated
  BY <1>4, <1>6 DEF Underlying
<1> QED
  BY <1>5, <1>6

LEMMA CloseRows ==
  ASSUME SweepInv, RowInv, NEW call, NEW at, CloseBoundary(call, at)
  PROVE  RowInv'
<1> DEFINE new == {Row(3, a.cluster, a.transition, a.order)' : a \in emitted'}
<1>1. /\ CloseSession /\ pending_closed' = pending_closed \cup new
      /\ UNCHANGED <<incomplete, transitions, projected>>
  BY DEF CloseBoundary, trail
<1>2. Tells(emitted')
  BY <1>1, StepTells DEF Next
<1>3. \A a \in emitted' : a.transition = "CLUSTER_CLOSED"
  <2>1. PICK rank : emitted' = {Audit(c, "CLUSTER_CLOSED", order + rank[c]) : c \in active}
    BY <1>1 DEF CloseSession, Emit
  <2> QED
    BY <2>1 DEF Audit
<1>4. /\ \A a \in emitted' : a.order \in (order + 1) .. order'
      /\ order \in Nat /\ order' \in Nat /\ order <= order'
      /\ \A a, b \in emitted' : a.order = b.order => a = b
  BY <1>2 DEF Tells
<1>5. \A r \in new : \E a \in emitted' :
         /\ r = Row(3, a.cluster, a.transition, a.order)'
         /\ {"part", "cluster", "transition", "order"} \subseteq DOMAIN r
         /\ r.part = 3 /\ r.transition = "CLUSTER_CLOSED" /\ r.order = a.order
  BY <1>3 DEF Row
<1>6. ASSUME NEW a \in emitted'
      PROVE  \E r \in new : r.cluster = a.cluster /\ r.order = a.order
  <2>1. Row(3, a.cluster, a.transition, a.order)' \in new
    OBVIOUS
  <2> QED
    BY <2>1 DEF Row
<1> HIDE DEF new
<1>7. PendingRows'
  <2>1. ASSUME NEW r \in pending_closed'
        PROVE  /\ {"part", "cluster", "transition", "order"} \subseteq DOMAIN r
               /\ r.part = 3 /\ r.transition = "CLUSTER_CLOSED" /\ r.order \in 1 .. order'
    <3>1. CASE r \in new
      BY <1>4, <1>5, <3>1
    <3>2. CASE r \in pending_closed
      BY <1>4, <3>2 DEF RowInv, PendingRows
    <3> QED
      BY <1>1, <2>1, <3>1, <3>2
  <2>2. ASSUME NEW q \in pending_closed', NEW r \in pending_closed', q.order = r.order
        PROVE  q = r
    <3>1. CASE q \in new /\ r \in new
      BY <1>4, <1>5, <2>2, <3>1
    <3>2. \A x \in new : x.order \in (order + 1) .. order'
      BY <1>4, <1>5
    <3>3. \A x \in pending_closed : x.order \in 1 .. order
      BY DEF RowInv, PendingRows
    <3>4. (q \in new <=> r \in new) /\ (q \in pending_closed <=> r \in pending_closed)
      BY <1>1, <1>4, <2>2, <3>2, <3>3
    <3>5. CASE q \in pending_closed /\ r \in pending_closed
      BY <2>2, <3>5 DEF RowInv, PendingRows
    <3> QED
      BY <1>1, <2>2, <3>1, <3>4, <3>5
  <2> QED
    BY <2>1, <2>2 DEF PendingRows
<1>8. LossesMarked'
  <2>1. {r.order : r \in pending_closed'} =
            {r.order : r \in pending_closed} \cup {a.order : a \in emitted'}
    BY <1>1, <1>5, <1>6
  <2>2. (1 .. order) \cup ((order + 1) .. order') = 1 .. order'
    BY <1>4
  <2> QED
    BY <1>1, <1>2, <2>1, <2>2 DEF RowInv, LossesMarked, Tells
<1>9. RowsTell'
  <2> SUFFICES ASSUME ~incomplete', NEW c \in Live'
               PROVE  Waits(c)' \/ Told(c)'
    BY DEF RowsTell
  <2>1. CASE \E a \in emitted' : a.cluster = c
    BY <1>1, <1>6, <2>1 DEF Waits
  <2>2. CASE \A a \in emitted' : a.cluster # c
    <3>1. c \in Live /\ StateOf(c)' = StateOf(c)
      BY <1>1, <1>2, <2>2 DEF Tells, CloseSession
    <3>2. Waits(c) \/ Told(c)
      BY <1>1, <3>1 DEF RowInv, RowsTell
    <3> QED
      BY <1>1, <3>1, <3>2 DEF Waits, Told
  <2> QED
    BY <2>1, <2>2
<1> QED
  BY <1>7, <1>8, <1>9 DEF RowInv

LEMMA TickRows ==
  ASSUME SweepInv, RowInv, now \in Time, TimerTick
  PROVE  RowInv'
<1>1. Tick(now) /\ pending_closed' = {}
  BY DEF TimerTick
<1>2. Tells(emitted')
  BY <1>1, StepTells DEF Next
<1>3. order \in Nat /\ order' \in Nat /\ order <= order'
  BY <1>2 DEF Tells
<1>4. CASE incomplete'
  BY <1>1, <1>3, <1>4, Marked
<1>5. CASE ~incomplete'
  <2> DEFINE C == {[r EXCEPT !.part = 0] : r \in pending_closed}
  <2>1. ~incomplete /\ Enqueue(TransitionRows \cup C)
    BY <1>5 DEF TimerTick
  <2>2. UpdateRows = {} /\ TransitionRows = AuditRows(emitted')
    BY <1>1 DEF Tick, UpdateRows, Updated, TransitionRows, AuditRows
  <2>3. Copies(C)
    BY PendingCopied DEF RowInv
  <2>4. UpdateRows \cup AuditRows(emitted') \cup C = TransitionRows \cup C
    BY <2>2
  <2> HIDE DEF C
  <2> QED
    BY <1>1, <1>2, <2>1, <2>3, <2>4, AllWritten
<1> QED
  BY <1>4, <1>5

LEMMA RowStep ==
  ASSUME now \in Instant, SweepInv, RowInv, [PipelineNext]_pipeline_vars
  PROVE  RowInv'
<1>1. now \in Time /\ Instant \subseteq Time
  BY PipelineConstantsOK
<1>2. order \in Nat
  BY DEF SweepInv, TypeOK
<1>3. ASSUME NEW call, NEW at, OpenBoundary(call, at) PROVE RowInv'
  <2>1. /\ Live' = {} /\ order' = order + Cardinality({})
        /\ UNCHANGED <<pending_closed, incomplete, transitions, projected>>
    BY <1>3 DEF OpenBoundary, ResetSession, Live, Emit, OrdersUsed, trail
  <2>2. order' = order
    BY <1>2, <2>1, FS_EmptySet
  <2> QED
    BY <2>1, <2>2 DEF RowInv, PendingRows, LossesMarked, RowsTell
<1>4. ASSUME NEW call, NEW at, CloseBoundary(call, at) PROVE RowInv'
  BY <1>4, CloseRows
<1>5. ASSUME NEW at, PassesBy(at) PROVE RowInv'
  BY <1>5, Unwritten DEF PassesBy, trail
<1>6. ASSUME NEW f, NEW n, NEW at, NEW calculated, Underlying(f, n, at, calculated)
      PROVE  RowInv'
  BY <1>6, UnderlyingRows
<1>7. ASSUME [Next]_vars, QuoteRefused PROVE RowInv'
  <2>1. order' \in Nat /\ order <= order'
    <3>1. CASE Next
      BY <3>1, StepOrders
    <3>2. CASE UNCHANGED vars
      BY <1>2, <3>2 DEF vars
    <3> QED
      BY <1>7, <3>1, <3>2
  <2> QED
    BY <1>2, <1>7, <2>1, Marked DEF QuoteRefused
<1>8. ASSUME NEW t, NEW k, NEW at, NEW good, OptionTrade(t, k, at, good) PROVE
      \/ QuoteRefused
      \/ \E eligible, reasons : OptionHandled(t, k, at, eligible, reasons)
  BY <1>8 DEF OptionTrade
<1>9. ASSUME NEW at \in Instant, NEW k \in Key, NEW t \in Trade, NEW good \in BOOLEAN,
             OptionTrade(t, k, at, good)
      PROVE  RowInv'
  <2>1. Next
    <3>1. at \in Time /\ EligibleTrade(k, at, good) \in BOOLEAN
      BY <1>1 DEF EligibleTrade, RegularSession
    <3>2. \/ \E eligible \in BOOLEAN : Ignore(t, k, at, eligible)
          \/ \E p \in Payload : JoinCluster(t, k, at, p) \/ OpenCluster(t, k, at, p)
      BY <1>9, <3>1 DEF OptionTrade
    <3> QED
      BY <3>1, <3>2 DEF Next
  <2> QED
    BY <1>7, <1>8, <1>9, <2>1, OptionRows
<1>10. ASSUME NEW at \in Instant, NEW k, NEW n, NEW good, OptionCorrective(n, k, at, good)
       PROVE  RowInv'
  <2>1. CASE UNCHANGED vars /\ QuoteRefused
    BY <1>7, <2>1
  <2>2. CASE /\ \E t \in Trade : Uncorrelated(t) \/ Cancel(t) \/ \E p \in Payload : Correct(t, at, p)
             /\ \E eligible, reasons : OptionHandled(n, k, at, eligible, reasons)
    <3>1. Next
      BY <1>1, <2>2 DEF Next
    <3> QED
      BY <2>2, <3>1, OptionRows
  <2> QED
    BY <1>10, <2>1, <2>2 DEF OptionCorrective
<1>11. CASE TimerRefused
  <2>1. order' = order /\ incomplete' /\ pending_closed' = pending_closed
    BY <1>11 DEF TimerRefused, vars
  <2> QED
    BY <1>2, <2>1, Marked
<1>12. CASE TimerTick
  BY <1>1, <1>12, TickRows
<1>13. ASSUME NEW material, Evaluate(material) PROVE RowInv'
  BY <1>13, Unwritten DEF Evaluate, Refused, trail
<1>14. CASE TimerDecides
  BY <1>14, Unwritten DEF TimerDecides, Refused, trail
<1>15. CASE Advance
  BY <1>15, Unwritten DEF Advance, trail
<1>16. CASE UNCHANGED pipeline_vars
  BY <1>16, Unwritten DEF pipeline_vars, pipeline, trail
<1>17. CASE EventArrives
  BY <1>3, <1>4, <1>5, <1>6, <1>9, <1>10, <1>17 DEF EventArrives
<1>18. CASE Timer
  BY <1>3, <1>4, <1>11, <1>12, <1>18 DEF Timer
<1> QED
  BY <1>13, <1>14, <1>15, <1>16, <1>17, <1>18 DEF PipelineNext, Decisions

LEMMA RowInit == PipelineInit => RowInv
BY DEF PipelineInit, Init, Live, RowInv, PendingRows, LossesMarked, RowsTell

LEMMA RowInvariant == PipelineSpec => []RowInv
<1>1. RowInv /\ (now \in Instant /\ SweepInv) /\ [PipelineNext]_pipeline_vars => RowInv'
  BY RowStep
<1> QED
  BY RowInit, PipelineSweeps, <1>1, PTL DEF PipelineSpec

(* As long as the run is not marked incomplete, every transition audit is  *)
(* in the trail or waits with those of a session close (pipeline.py:236-   *)
(* 262, 458-471).                                                          *)
THEOREM NoLossUnmarked == PipelineSpec => []LossesMarked
<1>1. RowInv => LossesMarked
  BY DEF RowInv
<1> QED
  BY <1>1, RowInvariant, PTL

(* The last row of a live cluster is its present state or the audit of a   *)
(* session close (pipeline.py:240-262).                                    *)
THEOREM RowsCurrent == PipelineSpec => []RowsFollow
<1>1. RowInv => RowsFollow
  BY DEF RowInv, RowsTell, RowsFollow, Waits, Told
<1> QED
  BY <1>1, RowInvariant, PTL
-----------------------------------------------------------------------------
(* One session at a time.  The phase is REGULAR only on a date that runs,  *)
(* and the open of a date is the reset that empties the engine: so a trade *)
(* that can open a cluster arrives after the reset of its own date, and no *)
(* cluster is left of an earlier one, unless the reset of the date is      *)
(* missed.  A trade from before the night is stale: it moves the phase,    *)
(* but opens no cluster.                                                   *)

LiveInv ==
    /\ \A c \in Live : OpenAt(c) \in Instant /\ OpenAt(c) <= now
    /\ OpenOn(now) => \A c \in Live : DateOf[OpenAt(c)] = DateOf[now]
    /\ OneSessionLive

CallInv ==
    work.call \in {"process", "tick"} =>
        /\ Deliverable(work.at) /\ phase = PhaseOf[work.at] /\ date = DateOf[work.at]
        /\ work.targets = <<>>

SessionInv == TokenInv /\ LiveInv /\ CallInv

LEMMA EnteredEnters ==
  ASSUME now \in Instant, CallInv, NEW call \in {"process", "tick"}, NEW at,
         call = "tick" => at = now, Entered(call, at)
  PROVE  Enters(at)
<1>1. now' = now
  BY DEF Entered
<1>2. CASE Called(call, at) /\ NoBoundary(at)
  <2>1. Deliverable(at)
    BY <1>2, NowDeliverable DEF Called
  <2> QED
    BY <1>1, <1>2, <2>1 DEF Enters, NoBoundary, EnterPhase
<1>3. CASE work = Working(call, at) /\ UNCHANGED session
  <2>1. work.call = call /\ work.at = at
    BY <1>3 DEF Working
  <2> QED
    BY <1>1, <1>3, <2>1 DEF Enters, CallInv, session
<1> QED
  BY <1>2, <1>3 DEF Entered

(* Fewer clusters, and what was missed still is.                           *)
LEMMA FewerLive ==
  ASSUME OneSessionLive, Live' \subseteq Live, missed \subseteq missed'
  PROVE  OneSessionLive'
BY DEF OneSessionLive, OpenAt

Adds(k, at) == Live' = Live \cup {<<k, at>>} /\ RegularSession(at) /\ now - at <= MaxStaleness

(* A trade that opens a cluster is of the clock's date.                    *)
LEMMA AddsToday ==
  ASSUME now \in Instant, NEW at, Deliverable(at), RegularSession(at), now - at <= MaxStaleness
  PROVE  DateOf[at] = DateOf[now]
<1>1. MaxStaleness \in Nat /\ at \in Instant \cap Session
  BY SynchronizerConstantsOK DEF Deliverable, RegularSession
<1> QED
  BY <1>1, SameDate, PipelineConstantsOK

(* A trade opens a cluster only on a date that runs.                       *)
LEMMA LiveEnters ==
  ASSUME now \in Instant, TokenInv, LiveInv, NEW at, Enters(at),
         Live' \subseteq Live \/ \E k : Adds(k, at)
  PROVE  LiveInv'
<1>1. TokenInv' /\ tokens' = tokens /\ missed \subseteq missed' /\ now' = now
  BY TokenEnters DEF Enters
<1>2. CASE Live' \subseteq Live
  <2>1. /\ \A c \in Live' : OpenAt(c) \in Instant /\ OpenAt(c) <= now'
        /\ OpenOn(now)' => \A c \in Live' : DateOf[OpenAt(c)] = DateOf[now']
    BY <1>1, <1>2 DEF LiveInv, OpenOn
  <2>2. OneSessionLive'
    BY <1>1, <1>2, FewerLive DEF LiveInv
  <2> QED
    BY <2>1, <2>2 DEF LiveInv, OpenAt
<1>3. ASSUME NEW k, Adds(k, at) PROVE LiveInv'
  <2>1. OpenAt(<<k, at>>) = at
    BY DEF OpenAt
  <2>2. at \in Instant /\ at <= now /\ DateOf[at] = DateOf[now]
    BY <1>3, AddsToday DEF Enters, Deliverable, Adds
  <2>3. PICK open \in Instant :
            open <= at /\ DateOf[open] = DateOf[at] /\ PhaseOf[open] = "REGULAR"
    BY <1>3, <2>2, SessionsOpen DEF Adds, RegularSession
  <2>4. Running(DateOf[now])'
    BY <2>2, <2>3, SessionOpened
  <2>5. ASSUME NEW c \in Live'
        PROVE  /\ OpenAt(c) \in Instant /\ OpenAt(c) <= now
               /\ OpenOn(now)' => DateOf[OpenAt(c)] = DateOf[now]
               /\ at < OpenAt(c) => DateOf[OpenAt(c)] = DateOf[now]
    <3>1. CASE c \in Live
      <4>1. OpenAt(c) \in Instant /\ OpenAt(c) <= now
        BY <3>1 DEF LiveInv
      <4>2. OpenOn(now)' => DateOf[OpenAt(c)] = DateOf[now]
        BY <1>1, <3>1 DEF LiveInv, OpenOn
      <4>3. ASSUME at < OpenAt(c) PROVE DateOf[OpenAt(c)] = DateOf[now]
        <5>1. OpenAt(c) \in Nat /\ now \in Nat
          BY <4>1, InstantsAreNat
        <5> QED
          BY <2>2, <4>1, <4>3, <5>1, CalendarOK
      <4> QED
        BY <4>1, <4>2, <4>3
    <3>2. CASE c = <<k, at>>
      BY <2>1, <2>2, <3>2
    <3> QED
      BY <1>3, <3>1, <3>2 DEF Adds
  <2>6. ASSUME NEW c \in Live', NEW d \in Live', OpenAt(c) < OpenAt(d),
               DateOf[OpenAt(c)] # DateOf[OpenAt(d)]
        PROVE  DateOf[OpenAt(d)] \in missed'
    <3>1. ~OpenOn(now)' /\ DateOf[now] \in missed'
      BY <1>1, <2>4, <2>5, <2>6 DEF Running, OpenOn
    <3>2. CASE d = <<k, at>>
      BY <2>1, <2>2, <3>1, <3>2
    <3>3. CASE c = <<k, at>>
      <4>1. DateOf[OpenAt(c)] = DateOf[now] /\ DateOf[OpenAt(d)] = DateOf[now]
        BY <2>1, <2>2, <2>5, <2>6, <3>3
      <4> QED
        BY <2>6, <4>1
    <3>4. CASE c \in Live /\ d \in Live
      BY <1>1, <2>6, <3>4 DEF LiveInv, OneSessionLive
    <3> QED
      BY <1>3, <3>2, <3>3, <3>4 DEF Adds
  <2>7. OneSessionLive'
    BY <2>6 DEF OneSessionLive, OpenAt
  <2> QED
    BY <1>1, <2>5, <2>7 DEF LiveInv, OpenAt
<1> QED
  BY <1>2, <1>3

(* A call that begins with a boundary.                                     *)
LEMMA LiveBegins ==
  ASSUME now \in Instant, LiveInv, NEW at, Begins(at), Live' \subseteq Live,
         Live' = {} \/ ~PassOpen(at)
  PROVE  LiveInv'
<1>1. \A c \in Live' : OpenAt(c) \in Instant /\ OpenAt(c) <= now'
  BY DEF LiveInv, Begins
<1>2. CASE Live' = {}
  BY <1>2 DEF LiveInv, OneSessionLive
<1>3. CASE ~PassOpen(at)
  <2>1. OpenOn(now)' => OpenOn(now)
    BY <1>3 DEF Begins, PassClose, NoBoundary, CloseToken, OpenOn
  <2>2. OneSessionLive'
    BY <1>3, RunsOn, FewerLive DEF LiveInv
  <2> QED
    BY <1>1, <2>1, <2>2 DEF LiveInv, OpenAt, Begins
<1> QED
  BY <1>2, <1>3

LEMMA LiveTime ==
  ASSUME now \in Instant, TokenInv, LiveInv, TimePasses, Live' = Live
  PROVE  LiveInv'
<1>1. now' \in Nat /\ now \in Nat /\ now < now'
  BY InstantsAreNat DEF TimePasses
<1>2. ASSUME NEW c \in Live PROVE OpenAt(c) \in Instant /\ OpenAt(c) <= now'
  <2>1. OpenAt(c) \in Instant /\ OpenAt(c) <= now /\ OpenAt(c) \in Nat
    BY InstantsAreNat DEF LiveInv
  <2> QED
    BY <1>1, <2>1
<1>3. OneSessionLive'
  BY FewerLive DEF LiveInv, TimePasses, session
<1>4. OpenOn(now)' => \A c \in Live : DateOf[OpenAt(c)] = DateOf[now']
  BY TokenTime DEF LiveInv
<1> QED
  BY <1>2, <1>3, <1>4 DEF LiveInv, OpenAt

(* Only a trade that finds no open window adds a cluster.                  *)
LEMMA EngineLive ==
  /\ \A t, k, at, eligible : Ignore(t, k, at, eligible) => Live' = Live
  /\ \A t, k, at, p : JoinCluster(t, k, at, p) => Live' = Live
  /\ \A t, k, at, p : OpenCluster(t, k, at, p) => Live' = Live \cup {<<k, at>>}
  /\ \A t, at, p : Correct(t, at, p) => Live' = Live
  /\ \A t : Cancel(t) \/ Uncorrelated(t) => Live' = Live
  /\ Tick(now) \/ CloseSession \/ UNCHANGED vars => Live' = Live
  /\ ResetSession => Live' = {}
<1>1. \A t, k, at, eligible : Ignore(t, k, at, eligible) => Live' = Live
  BY DEF Ignore, Live
<1>2. \A t, k, at, p : JoinCluster(t, k, at, p) => Live' = Live
  BY DEF JoinCluster, Live
<1>3. \A t, k, at, p : OpenCluster(t, k, at, p) => Live' = Live \cup {<<k, at>>}
  BY DEF OpenCluster, Live, ActiveOf
<1>4. \A c, S, word : Replace(c, S, word) => Live' = Live
  BY DEF Replace, Live
<1>5. Tick(now) \/ CloseSession \/ UNCHANGED vars => Live' = Live
  BY DEF Tick, CloseSession, vars, Live
<1>6. ResetSession => Live' = {}
  BY DEF ResetSession, Live
<1>7. \A t, at, p : Correct(t, at, p) => Live' = Live
  BY <1>4 DEF Correct
<1>8. \A t : Cancel(t) \/ Uncorrelated(t) => Live' = Live
  BY <1>4 DEF Cancel, Uncorrelated, Live
<1> QED
  BY <1>1, <1>2, <1>3, <1>5, <1>6, <1>7, <1>8

LEMMA SessionBegins ==
  ASSUME now \in Instant, SessionInv, NEW call \in {"process", "tick"}, NEW at,
         call = "tick" => at = now, OpenBoundary(call, at) \/ CloseBoundary(call, at)
  PROVE  SessionInv'
<1>1. Called(call, at) /\ now' = now /\ work' = Working(call, at)
  BY DEF OpenBoundary, CloseBoundary
<1>2. Deliverable(at)
  BY <1>1, NowDeliverable DEF Called
<1>3. Begins(at)
  BY <1>1, <1>2 DEF Begins, OpenBoundary, CloseBoundary
<1>4. Live' \subseteq Live /\ (Live' = {} \/ ~PassOpen(at))
  <2>1. CASE OpenBoundary(call, at)
    BY <2>1, EngineLive DEF OpenBoundary
  <2>2. CASE CloseBoundary(call, at)
    BY <2>2, EngineLive DEF CloseBoundary, PassClose, Closes, PassOpen, Opens
  <2> QED
    BY <2>1, <2>2
<1>5. TokenInv' /\ LiveInv'
  BY <1>3, <1>4, TokenBegins, LiveBegins DEF SessionInv
<1>6. CallInv'
  <2>1. /\ work'.at = at /\ work'.targets = <<>> /\ Deliverable(at)'
        /\ phase' = PhaseOf[at] /\ date' = DateOf[at]
    BY <1>1, <1>2, <1>3, TokenBegins DEF Working, Deliverable, SessionInv
  <2> QED
    BY <2>1 DEF CallInv, Deliverable
<1> QED
  BY <1>5, <1>6 DEF SessionInv

(* A call that has ended, or that goes on to decide.                       *)
LEMMA CallEnds ==
  ASSUME work'.call \notin {"process", "tick"}
  PROVE  CallInv'
BY DEF CallInv

LEMMA SessionEnters ==
  ASSUME now \in Instant, SessionInv, NEW call \in {"process", "tick"}, NEW at,
         call = "tick" => at = now, Entered(call, at),
         Live' \subseteq Live \/ \E k : Adds(k, at),
         work'.call \notin {"process", "tick"}
  PROVE  SessionInv'
BY EnteredEnters, TokenEnters, LiveEnters, CallEnds DEF SessionInv

LEMMA IdleCall == Idle.call = "idle" /\ Working("timer", now).call = "timer"
BY DEF Idle, Working

LEMMA HandledCall ==
  ASSUME NEW e, e.kind \in Kind, NEW targets, NEW rows, NEW eligible,
         Handled(e, targets, rows, eligible)
  PROVE  work'.call \notin {"process", "tick"}
<1>1. work' = Idle \/ work'.call = e.kind
  BY DEF Handled
<1> QED
  BY <1>1, IdleCall, CallNames

(* A step that leaves clock and clusters alone.                            *)
LEMMA SessionQuiet ==
  ASSUME SessionInv, UNCHANGED clock, Live' = Live,
         work' = work \/ work'.call \notin {"process", "tick"}
  PROVE  SessionInv'
<1>1. now' = now /\ phase' = phase /\ date' = date /\ tokens' = tokens /\ missed' = missed
  BY DEF clock, session
<1>2. TokenInv' /\ LiveInv'
  BY <1>1 DEF SessionInv, TokenInv, LiveInv, OneSessionLive, OpenOn, Running, OpenAt
<1>3. CallInv'
  BY <1>1, CallEnds DEF SessionInv, CallInv, Deliverable
<1> QED
  BY <1>2, <1>3 DEF SessionInv

LEMMA SessionStep ==
  ASSUME now \in Instant, DecisionInv, SessionInv, [PipelineNext]_pipeline_vars
  PROVE  SessionInv'
<1>1. ASSUME NEW at, OpenBoundary("process", at) \/ CloseBoundary("process", at)
      PROVE  SessionInv'
  BY <1>1, SessionBegins
<1>2. CASE OpenBoundary("tick", now) \/ CloseBoundary("tick", now)
  BY <1>2, SessionBegins
<1>3. ASSUME NEW at, PassesBy(at) PROVE SessionInv'
  <2>1. Entered("process", at) /\ work' = Idle /\ UNCHANGED vars
    BY <1>3 DEF PassesBy
  <2> QED
    BY <2>1, EngineLive, IdleCall, SessionEnters
<1>4. ASSUME NEW f \in Feed, NEW n, NEW at, NEW calculated, Underlying(f, n, at, calculated)
      PROVE  SessionInv'
  <2>1. Entered("process", at) /\ UNCHANGED vars
    BY <1>4 DEF Underlying, InTime
  <2> DEFINE e == [id |-> <<f, n>>, kind |-> FeedKind[f], sequence |-> n, at |-> at,
                   sweep |-> None]
  <2>2. e.kind \in Kind
    BY CallNames
  <2>3. work' = Idle \/ Handled(e, FeedTargets[f], {}, FALSE)
    BY <1>4 DEF Underlying
  <2> HIDE DEF e
  <2>4. work'.call \notin {"process", "tick"}
    BY <2>2, <2>3, IdleCall, HandledCall
  <2> QED
    BY <2>1, <2>4, EngineLive, SessionEnters
<1>5. ASSUME NEW n, NEW k, NEW at, NEW eligible, NEW reasons,
             OptionHandled(n, k, at, eligible, reasons) \/ QuoteRefused
      PROVE  work'.call \notin {"process", "tick"}
  <2> DEFINE e == [id |-> OptionId(n), kind |-> "options", sequence |-> n, at |-> at,
                   sweep |-> TotalsAfter]
  <2>1. e.kind \in Kind
    BY CallNames
  <2>2. CASE \E targets, rows : Handled(e, targets, rows, eligible)
    <3> HIDE DEF e
    <3> QED
      BY <2>1, <2>2, HandledCall
  <2>3. CASE work' = Idle
    BY <2>3, IdleCall
  <2>4. CASE OptionHandled(n, k, at, eligible, reasons)
    BY <2>2, <2>4 DEF OptionHandled
  <2> HIDE DEF e
  <2> QED
    BY <1>5, <2>3, <2>4 DEF QuoteRefused
<1>6. ASSUME NEW t, NEW k, NEW at, NEW good, OptionTrade(t, k, at, good) PROVE SessionInv'
  <2>1. Entered("process", at)
    BY <1>6 DEF OptionTrade, InTime
  <2>2. Live' \subseteq Live \/ \E x : Adds(x, at)
    <3>1. CASE \E p : OpenCluster(t, k, at, p)
      BY <1>6, <3>1, EngineLive DEF OptionTrade, EligibleTrade, InTime, Adds
    <3>2. CASE ~\E p : OpenCluster(t, k, at, p)
      BY <1>6, <3>2, EngineLive DEF OptionTrade
    <3> QED
      BY <3>1, <3>2
  <2>3. work'.call \notin {"process", "tick"}
    BY <1>5, <1>6 DEF OptionTrade
  <2> QED
    BY <2>1, <2>2, <2>3, SessionEnters
<1>7. ASSUME NEW n, NEW k, NEW at, NEW good, OptionCorrective(n, k, at, good) PROVE SessionInv'
  <2>1. Entered("process", at)
    BY <1>7 DEF OptionCorrective, InTime
  <2>2. Live' = Live
    BY <1>7, EngineLive DEF OptionCorrective
  <2>3. work'.call \notin {"process", "tick"}
    BY <1>5, <1>7 DEF OptionCorrective
  <2> QED
    BY <2>1, <2>2, <2>3, SessionEnters
<1>8. CASE TimerRefused
  <2>1. Entered("tick", now) /\ work' = Idle /\ UNCHANGED vars
    BY <1>8 DEF TimerRefused
  <2> QED
    BY <2>1, EngineLive, IdleCall, SessionEnters
<1>9. CASE TimerTick
  <2>1. Entered("tick", now) /\ Tick(now) /\ work' \in {Idle, Working("timer", now)}
    BY <1>9 DEF TimerTick
  <2>2. work'.call \notin {"process", "tick"}
    BY <2>1, IdleCall
  <2> QED
    BY <2>1, <2>2, EngineLive, SessionEnters
<1>10. ASSUME NEW material, Evaluate(material) PROVE SessionInv'
  <2> DEFINE rest == [work EXCEPT !.targets = Tail(@)]
  <2>1. UNCHANGED clock /\ UNCHANGED vars /\ work.targets # <<>> /\ work' \in {Idle, rest}
    BY <1>10 DEF Evaluate, Refused
  <2>2. rest.call = work.call
    BY DEF DecisionInv, CallShape
  <2>3. work.call \notin {"process", "tick"}
    BY <2>1 DEF SessionInv, CallInv
  <2> HIDE DEF rest
  <2>4. work'.call \notin {"process", "tick"}
    BY <2>1, <2>2, <2>3, IdleCall
  <2> QED
    BY <2>1, <2>4, EngineLive, SessionQuiet
<1>11. CASE TimerDecides
  <2>1. UNCHANGED clock /\ UNCHANGED vars /\ work' = Idle
    BY <1>11 DEF TimerDecides, Refused
  <2> QED
    BY <2>1, EngineLive, IdleCall, SessionQuiet
<1>12. CASE Advance
  <2>1. TimePasses /\ UNCHANGED vars /\ work' = Idle
    BY <1>12 DEF Advance
  <2>2. work'.call \notin {"process", "tick"}
    BY <2>1, IdleCall
  <2> QED
    BY <2>1, <2>2, EngineLive, TokenTime, LiveTime, CallEnds DEF SessionInv
<1>13. CASE UNCHANGED pipeline_vars
  <2>1. UNCHANGED clock /\ UNCHANGED vars /\ work' = work
    BY <1>13 DEF pipeline_vars, pipeline
  <2> QED
    BY <2>1, EngineLive, SessionQuiet
<1>14. CASE EventArrives
  BY <1>1, <1>3, <1>4, <1>6, <1>7, <1>14 DEF EventArrives
<1>15. CASE Timer
  BY <1>2, <1>8, <1>9, <1>15 DEF Timer
<1> QED
  BY <1>10, <1>11, <1>12, <1>13, <1>14, <1>15 DEF PipelineNext, Decisions

LEMMA SessionInit == PipelineInit => SessionInv
<1> SUFFICES ASSUME PipelineInit PROVE SessionInv
  OBVIOUS
<1>1. now \in Instant /\ now = CHOOSE t \in Instant : \A u \in Instant : t <= u
  BY FirstInstant DEF PipelineInit, ClockInit
<1>2. \A u \in Instant : ~(u < now)
  <2>1. PICK t \in Instant : \A u \in Instant : t <= u
    BY FirstInstantExists
  <2>2. \A u \in Instant : now <= u
    BY <1>1, <2>1
  <2>3. \A u \in Instant : u \in Nat
    BY InstantsAreNat
  <2> QED
    BY <1>1, <2>2, <2>3
<1>3. TokenInv
  BY <1>2 DEF PipelineInit, ClockInit, TokenInv, OpenOn, None
<1>4. LiveInv
  BY DEF PipelineInit, Init, Live, LiveInv, OneSessionLive
<1>5. CallInv
  BY IdleCall DEF PipelineInit, CallInv
<1> QED
  BY <1>3, <1>4, <1>5 DEF SessionInv

LEMMA SessionInvariant == PipelineSpec => []SessionInv
<1>1. SessionInv /\ (now \in Instant /\ SweepInv) /\ DecisionInv /\ [PipelineNext]_pipeline_vars
          => SessionInv'
  BY SessionStep
<1> QED
  BY SessionInit, PipelineSweeps, DecisionInvariant, <1>1, PTL DEF PipelineSpec

(* The clusters behind the session totals are of one trading day, unless   *)
(* the open of the later day is missed: the reset at a day's open comes    *)
(* before its first trade, however late the events are that move the phase *)
(* back and forth (pipeline.py:587-605).                                   *)
THEOREM OneSession == PipelineSpec => []OneSessionLive
<1>1. SessionInv => OneSessionLive
  BY DEF SessionInv, LiveInv
<1> QED
  BY <1>1, SessionInvariant, PTL
=============================================================================
