----------------------------- MODULE AuditWriter -----------------------------
(***************************************************************************)
(* AsyncAuditWriter (persistence_async.py) in front of PostgresRepository: *)
(* a bounded queue filled from the event path, and one task that takes a   *)
(* batch, records it and flushes the repository.                           *)
(*                                                                         *)
(* Everything runs on one event loop, and the task does not yield from the *)
(* end of wait_for(queue.get()) to the end of the flush: while it records  *)
(* or a flush runs, nothing else does.  The process may die between any    *)
(* two statements.  The soft limit changes only metrics and a warning.     *)
(***************************************************************************)
EXTENDS PostgresRepository, FiniteSets

CONSTANTS
    HardLimit,       \* hard_limit: the capacity of the queue
    BatchSize        \* batch_size

ASSUME WriterConstantsOK == {HardLimit, BatchSize} \subseteq Nat \ {0}

VARIABLES
    queue,           \* the asyncio.Queue
    unfinished,      \* its count of records without task_done
    refused,         \* persistence_backpressure_failure
    batch,           \* what the task has left to record of its batch
    task,            \* where the task is
    stopping,        \* _stopping
    drain,           \* where the caller of drain is
    up               \* the process runs

writer == <<queue, unfinished, refused, batch, task, stopping, drain>>
vars == <<log, repository, writer, up>>

Audited == Table \ {"universe"}
TaskState == {"waiting", "recording", "threshold_flush", "flushing",
              "stopped", "failed", "cancelled"}
DrainState == {"no", "joining", "joined", "awaiting", "drained", "raised", "timed_out"}

(* No callback runs synchronously: another one may start.                  *)
LoopFree == up /\ ~Flushing /\ task \notin {"recording", "threshold_flush", "flushing"}

WriterInit ==
    /\ queue = <<>>
    /\ unfinished = 0
    /\ refused = FALSE
    /\ batch = <<>>
    /\ task = "waiting"
    /\ stopping = FALSE
    /\ drain = "no"

Init == log = <<>> /\ RepositoryInit /\ WriterInit /\ up = TRUE
-----------------------------------------------------------------------------
(* Mutant: the queue takes one record more than its limit.                 *)
OverFull == Len(queue) > HardLimit
Full == Len(queue) >= HardLimit

Enqueue(r) ==
    /\ LoopFree
    /\ Len(log) < MaxLog
    /\ ~Full
    /\ log' = Append(log, r)
    /\ queue' = Append(queue, Len(log'))
    /\ unfinished' = unfinished + 1
    /\ UNCHANGED <<repository, refused, batch, task, stopping, drain, up>>

Refuse ==
    /\ LoopFree
    /\ Full
    /\ refused' = TRUE
    /\ UNCHANGED <<log, repository, queue, unfinished, batch, task, stopping, drain, up>>
-----------------------------------------------------------------------------
(* The task: wait_for(queue.get()) answers, get_nowait fills the batch.    *)
Take ==
    /\ LoopFree
    /\ task = "waiting"
    /\ queue # <<>>
    /\ LET n == IF Len(queue) < BatchSize THEN Len(queue) ELSE BatchSize IN
          /\ batch' = SubSeq(queue, 1, n)
          /\ queue' = SubSeq(queue, n + 1, Len(queue))
    /\ task' = "recording"
    /\ UNCHANGED <<log, repository, unfinished, refused, stopping, drain, up>>

(* queue.task_done: the last one wakes join.                               *)
TaskDone ==
    /\ unfinished' = unfinished - 1
    /\ drain' = IF drain = "joining" /\ unfinished = 1 THEN "joined" ELSE drain

(* record_event, ... of the next record of the batch.                      *)
RecordHead ==
    /\ up
    /\ task = "recording"
    /\ batch # <<>>
    /\ RecordNow(Head(batch))
    /\ IF AtThreshold(Head(batch))
       THEN /\ task' = "threshold_flush"
            /\ UNCHANGED <<batch, unfinished, drain>>
       ELSE /\ batch' = Tail(batch)
            /\ TaskDone
            /\ UNCHANGED task
    /\ UNCHANGED <<log, queue, refused, stopping, up>>

RecordDone ==
    /\ up
    /\ task = "threshold_flush"
    /\ ~Flushing
    /\ batch' = Tail(batch)
    /\ TaskDone
    /\ task' = "recording"
    /\ UNCHANGED <<log, repository, queue, refused, stopping, up>>

FlushBatch ==
    /\ up
    /\ task = "recording"
    /\ batch = <<>>
    /\ BeginFlush
    /\ task' = "flushing"
    /\ UNCHANGED <<log, queue, unfinished, refused, batch, stopping, drain, up>>

BatchDone ==
    /\ up
    /\ task = "flushing"
    /\ ~Flushing
    /\ task' = "waiting"
    /\ UNCHANGED <<log, repository, queue, unfinished, refused, batch, stopping, drain, up>>

(* The loop condition of _run.                                             *)
LoopEnds == stopping /\ queue = <<>>

Stop ==
    /\ LoopFree
    /\ task = "waiting"
    /\ LoopEnds
    /\ task' = "stopped"
    /\ UNCHANGED <<log, repository, queue, unfinished, refused, batch, stopping, drain, up>>

(* A statement of the flush in progress; when one fails, the exception     *)
(* ends the task if it was the task's flush, with what its batch had left. *)
RunStatement ==
    /\ up
    /\ Statement
    /\ UNCHANGED <<log, writer, up>>

FlushFails ==
    /\ up
    /\ StatementFails
    /\ IF task \in {"threshold_flush", "flushing"}
       THEN task' = "failed" /\ batch' = <<>>
       ELSE UNCHANGED <<task, batch>>
    /\ UNCHANGED <<log, queue, unfinished, refused, stopping, drain, up>>
-----------------------------------------------------------------------------
(* Calls of the repository beside the writer's: record_universe, and the   *)
(* readers replay_* and *_count, which flush first.                        *)
RecordUniverse ==
    /\ LoopFree
    /\ Len(log) < MaxLog
    /\ log' = Append(log, [table |-> "universe"])
    /\ pending' = [pending EXCEPT !["universe"] = Append(@, Len(log'))]
    /\ IF Len(pending'["universe"]) >= Threshold["universe"]
       THEN FlushOf(pending') ELSE UNCHANGED flush
    /\ UNCHANGED <<rows, projection, copies, failures, writer, up>>

ReadBack ==
    /\ LoopFree
    /\ BeginFlush
    /\ UNCHANGED <<log, writer, up>>
-----------------------------------------------------------------------------
(* drain: queue.join returns at once when nothing is unfinished.  Once it  *)
(* is woken it returns even if records were enqueued since.                *)
StartDrain ==
    /\ LoopFree
    /\ drain = "no"
    /\ IF unfinished > 0
       THEN drain' = "joining" /\ UNCHANGED stopping
       ELSE drain' = "awaiting" /\ stopping' = TRUE
    /\ UNCHANGED <<log, repository, queue, unfinished, refused, batch, task, up>>

Joined ==
    /\ LoopFree
    /\ drain = "joined"
    /\ drain' = "awaiting"
    /\ stopping' = TRUE
    /\ UNCHANGED <<log, repository, queue, unfinished, refused, batch, task, up>>

AwaitTask ==
    /\ LoopFree
    /\ drain = "awaiting"
    /\ \/ task = "stopped" /\ drain' = "drained"
       \/ task = "failed" /\ drain' = "raised"
    /\ UNCHANGED <<log, repository, queue, unfinished, refused, batch, task, stopping, up>>

(* Mutant: only the wait for the task is bounded.                          *)
AwaitTimeout ==
    /\ LoopFree
    /\ drain = "awaiting"
    /\ drain' = "timed_out"
    /\ task' = IF task = "waiting" THEN "cancelled" ELSE task
    /\ UNCHANGED <<log, repository, queue, unfinished, refused, batch, stopping, up>>
(* bounded_startup gives up on the drain; if it awaits the task already,   *)
(* the cancellation reaches the task.                                      *)
DrainTimeout ==
    /\ LoopFree
    /\ drain \in {"joining", "joined", "awaiting"}
    /\ drain' = "timed_out"
    /\ task' = IF drain = "awaiting" /\ task = "waiting" THEN "cancelled" ELSE task
    /\ UNCHANGED <<log, repository, queue, unfinished, refused, batch, stopping, up>>

(* The process dies: what is not in a table is gone.                       *)
Crash ==
    /\ up
    /\ up' = FALSE
    /\ UNCHANGED <<log, repository, writer>>
-----------------------------------------------------------------------------
WriterStep == \/ Take \/ RecordHead \/ RecordDone \/ FlushBatch \/ BatchDone \/ Stop
DrainStep == Joined \/ AwaitTask

Next ==
    \/ \E t \in Audited : \E r \in Record(t) : Enqueue(r)
    \/ Refuse
    \/ WriterStep
    \/ RunStatement
    \/ FlushFails
    \/ RecordUniverse
    \/ ReadBack
    \/ StartDrain
    \/ DrainStep
    \/ DrainTimeout
    \/ Crash

(* The event loop runs every callback that is ready, and the database      *)
(* answers.  Nothing is assumed of producers, failures or timeouts.        *)
Fairness == WF_vars(WriterStep) /\ WF_vars(RunStatement) /\ WF_vars(DrainStep)

Spec == Init /\ [][Next]_vars /\ Fairness
-----------------------------------------------------------------------------
Pending(id) == \E i \in 1 .. Len(pending[log[id].table]) : pending[log[id].table][i] = id

(* As long as the task has not failed, no accepted record is lost on the   *)
(* way: it is queued, in the batch, pending or written; and a universe     *)
(* audit, whose rows number themselves, is written again only where a      *)
(* flush failed after it (persistence.py:208).                             *)
RecordsKept ==
    /\ task # "failed" =>
          \A id \in DOMAIN log :
              \/ id \in Range(queue) \cup Range(batch)
              \/ Pending(id)
              \/ InTable(id)
    /\ \A id \in Number : copies[id] <= failures + 1

(* The queue never holds more than hard_limit records, and join waits for  *)
(* exactly those that are queued or in the batch of a live task.           *)
JoinCountsWork ==
    /\ Len(queue) <= HardLimit
    /\ task # "failed" => unfinished = Len(queue) + Len(batch)

(* With no flush in progress and no sweep pending, a cluster's row holds   *)
(* the last of its audits that reached the repository, even after flushes  *)
(* that failed part of the way and were repeated.                          *)
ProjectionCurrent ==
    (~Flushing /\ pending["sweep"] = <<>>) =>
        \A id \in rows["sweep"] : id <= projection[log[id].cluster]

(* The repository and its queue keep the promise of AuditLog.              *)
AL == INSTANCE AuditLog WITH
          Kind <- Table, Event <- "event", Dependent <- {"decision", "quote", "sweep"},
          accepted <- [i \in DOMAIN log |-> log[i].table], durable <- Durable
(* The promise of the audit trail, after every statement and every crash.  *)
ImplementsAuditLog == AL!Spec

(* Without a failure or a crash, every accepted record becomes durable,    *)
(* unless the task was told to stop before or was cancelled.               *)
AcceptedBecomeDurable ==
    \A id \in Number :
        (id \in DOMAIN log /\ log[id].table \in Audited) ~>
            (id \in Durable \/ task \in {"failed", "stopped", "cancelled"} \/ ~up)
=============================================================================
