------------------------------- MODULE LiveRun -------------------------------
(***************************************************************************)
(* The end of a live run (live_smoke.run, lines 164-293): two provider     *)
(* streams and the 0.25 s timer feed the pipeline, whose audit records go  *)
(* to the AuditWriter; the runner waits for the subscription               *)
(* acknowledgement, observes, cancels the producers and closes the writer. *)
(* When the acknowledgement does not come in time it closes the writer     *)
(* first and cancels the producers afterwards.                             *)
(***************************************************************************)
EXTENDS AuditWriter

VARIABLES
    running,         \* producer tasks that run
    runner,          \* where run() is
    outcome          \* how the observation went

runVars == <<running, runner, outcome>>
allVars == <<vars, runVars>>

Stream == {"options", "equity"}
RunnerState == {"awaiting_ack", "closing", "observing", "cancelling",
                "draining", "completed", "failed"}

RunInit ==
    /\ Init
    /\ running = {"options", "timer"}
    /\ runner = "awaiting_ack"
    /\ outcome = "none"
-----------------------------------------------------------------------------
(* A stream whose event leaves the pipeline with incomplete_run set raises *)
(* and ends; the timer does not look at it.  An event has several records, *)
(* so the stream may have more to enqueue before it raises.                *)
StreamEnqueue(p, r) ==
    /\ p \in running \cap Stream
    /\ Enqueue(r)
    /\ running' \in {running} \cup (IF refused THEN {running \ {p}} ELSE {})
    /\ UNCHANGED <<runner, outcome>>

StreamRefused(p) ==
    /\ p \in running \cap Stream
    /\ Refuse
    /\ running' = running \ {p}
    /\ UNCHANGED <<runner, outcome>>

TimerEnqueue(r) ==
    /\ "timer" \in running
    /\ Enqueue(r)
    /\ UNCHANGED runVars

TimerRefused ==
    /\ "timer" \in running
    /\ Refuse
    /\ UNCHANGED runVars

(* A stream that fails while the run goes on is reported, not restarted.   *)
OptionsEnd ==
    /\ up
    /\ runner \in {"awaiting_ack", "closing", "observing"}
    /\ running' = running \ {"options"}
    /\ UNCHANGED <<vars, runner, outcome>>
-----------------------------------------------------------------------------
AckArrives ==
    /\ LoopFree
    /\ runner = "awaiting_ack"
    /\ runner' = "observing"
    /\ running' = running \cup {"equity"}
    /\ UNCHANGED <<vars, outcome>>

AckTimeout ==
    /\ runner = "awaiting_ack"
    /\ StartDrain
    /\ runner' = "closing"
    /\ UNCHANGED <<running, outcome>>

(* writer.close() returns or raises into the finally clause, which cancels *)
(* the streams before anything else runs.                                  *)
CloseReturns ==
    /\ runner = "closing"
    /\ AwaitTask \/ DrainTimeout
    /\ running' = running \ Stream
    /\ runner' = "cancelling"
    /\ UNCHANGED outcome

(* The equity stream's time is over, or it raised what _collect does not   *)
(* catch.                                                                  *)
ObservationEnds ==
    /\ LoopFree
    /\ runner = "observing"
    /\ outcome' \in {"observed", "raised"}
    /\ running' = running \ Stream
    /\ runner' = "cancelling"
    /\ UNCHANGED vars

(* Mutant: the timer is left running while the writer drains.              *)
TimerKept == {"timer"}
(* The producers left when the timer has been cancelled and awaited.       *)
AfterCancel == {}

(* The streams have ended, the timer is cancelled; only an observation     *)
(* that did not raise goes on to close the writer.                         *)
TimerCancelled ==
    /\ LoopFree
    /\ runner = "cancelling"
    /\ running' = AfterCancel
    /\ IF outcome = "observed"
       THEN StartDrain /\ runner' = "draining"
       ELSE UNCHANGED vars /\ runner' = "failed"
    /\ UNCHANGED outcome

DrainReturns ==
    /\ runner = "draining"
    /\ AwaitTask \/ DrainTimeout
    /\ runner' = IF drain' = "drained" THEN "completed" ELSE "failed"
    /\ UNCHANGED <<running, outcome>>

BackgroundStep ==
    /\ WriterStep \/ RunStatement \/ FlushFails \/ Joined
    /\ UNCHANGED runVars

RunNext ==
    \/ \E t \in Audited : \E r \in Record(t) :
          TimerEnqueue(r) \/ \E p \in Stream : StreamEnqueue(p, r)
    \/ TimerRefused
    \/ \E p \in Stream : StreamRefused(p)
    \/ OptionsEnd
    \/ AckArrives
    \/ AckTimeout
    \/ CloseReturns
    \/ ObservationEnds
    \/ TimerCancelled
    \/ DrainReturns
    \/ BackgroundStep

(* The event loop runs what is ready; the observation and the wait for the *)
(* acknowledgement end, each by its own timeout.                           *)
RunFairness ==
    /\ WF_allVars(WriterStep /\ UNCHANGED runVars)
    /\ WF_allVars(RunStatement /\ UNCHANGED runVars)
    /\ WF_allVars(Joined /\ UNCHANGED runVars)
    /\ WF_allVars(AckArrives \/ AckTimeout)
    /\ WF_allVars(ObservationEnds)
    /\ WF_allVars(CloseReturns)
    /\ WF_allVars(TimerCancelled)
    /\ WF_allVars(DrainReturns)

RunSpec == RunInit /\ [][RunNext]_allVars /\ RunFairness
-----------------------------------------------------------------------------
Accepted == {id \in DOMAIN log : log[id].table \in Audited}

(* A run that completes has every accepted record in the database: the     *)
(* last producer was gone before the writer began to drain.                *)
CompletedDurable == runner = "completed" => Accepted \subseteq Durable

(* Every run ends, whichever step fails or times out: the bounded drain    *)
(* ends it even when the writer's task has failed.                         *)
RunEnds == <>(runner \in {"completed", "failed"})

(* CURRENT_STATE.md:540-541 "Accepted writes are drained on acknowledgement*)
(* timeout before the bounded failure exits": when the drain of that path  *)
(* succeeded, all that was accepted is durable at the exit.                *)
TimeoutDrained ==
    (runner = "failed" /\ outcome = "none" /\ drain = "drained") => Accepted \subseteq Durable
=============================================================================
