------------------------- MODULE PostgresRepository -------------------------
(***************************************************************************)
(* PostgresRepository (persistence.py): records are held in one pending    *)
(* list per table and written by flush, on an autocommit connection: every *)
(* statement is durable by itself, a pending list is cleared only when all *)
(* of its rows are written, and a failed statement leaves it whole, to be  *)
(* written again by the next flush.                                        *)
(*                                                                         *)
(* A record stands by its number.  The rows of the tables with a primary   *)
(* key are the set of the records in them; sweep_clusters keeps the last   *)
(* audit of each cluster, universe_audits numbers its rows itself.         *)
(* The database is modelled from how flush uses it.                        *)
(***************************************************************************)
EXTENDS Integers, Sequences, Functions

CONSTANTS
    SweepCluster,    \* cluster ids
    Threshold,       \* pending list lengths at which record_* flushes
    MaxLog,          \* bound: records
    MaxFailures      \* bound: statements that fail

Table == {"event", "decision", "quote", "sweep", "universe"}

(* A record: its table and, for a sweep audit, its cluster and whether it  *)
(* carries a transition.                                                   *)
Record(table) ==
    IF table = "sweep" THEN [table : {table}, cluster : SweepCluster, transition : BOOLEAN]
                       ELSE [table : {table}]

ASSUME RepositoryConstantsOK ==
    /\ Threshold \in [Table -> Nat \ {0}]
    /\ MaxLog \in Nat
    /\ MaxFailures \in Nat

Number == 1 .. MaxLog

VARIABLES
    log,             \* the records handed to the audit path, by number
    pending,         \* _pending_events, _pending_decisions, ...
    cursor,          \* the flush in progress: the place in its list of the
                     \* record it writes next; 0 when there is none
    upserted,        \* the record's cluster is written, its transition not yet
    rows,            \* rows ever written, by table
    projection,      \* sweep_clusters: the audit each cluster's row holds
    copies,          \* universe_audits: the number of rows of each audit
    failures         \* statements that failed

flush == <<cursor, upserted>>
repository == <<pending, flush, rows, projection, copies, failures>>

NoAudit == 0
Flushing == cursor # 0

RepositoryInit ==
    /\ pending = [t \in Table |-> <<>>]
    /\ cursor = 0
    /\ upserted = FALSE
    /\ rows = [t \in Table \cup {"transition"} |-> {}]
    /\ projection = [c \in SweepCluster |-> NoAudit]
    /\ copies = [id \in Number |-> 0]
    /\ failures = 0
-----------------------------------------------------------------------------
(* Mutant: the decisions are written before the events they rest on.       *)
DecisionsFirst == [decision |-> 1, event |-> 2, quote |-> 3, sweep |-> 4, universe |-> 5]
(* The order of the stages of a flush.  A stage ends by clearing its list, *)
(* and nothing is added during a flush.                                    *)
Stage == [event |-> 1, decision |-> 2, quote |-> 3, sweep |-> 4, universe |-> 5]

InTurn(t) ==
    /\ Flushing
    /\ pending[t] # <<>>
    /\ \A u \in Table : Stage[u] < Stage[t] => pending[u] = <<>>

Written(list) == \A t \in Table : list[t] = <<>>

(* Mutant: a flush returns early when there are no events.                 *)
WithoutEvents(list) == list["event"] = <<>>
(* The early return of flush.                                              *)
NothingPending(list) == Written(list)

(* A flush of these pending lists begins, if it has anything to write.     *)
FlushOf(list) ==
    /\ cursor' = IF NothingPending(list) THEN 0 ELSE 1
    /\ upserted' = FALSE

(* record_event, record_decision, ...: append, and flush at the threshold. *)
Pend(id) == [pending EXCEPT ![log[id].table] = Append(@, id)]
AtThreshold(id) == Len(pending[log[id].table]) + 1 >= Threshold[log[id].table]

RecordNow(id) ==
    /\ pending' = Pend(id)
    /\ IF AtThreshold(id) THEN FlushOf(Pend(id)) ELSE UNCHANGED flush
    /\ UNCHANGED <<rows, projection, copies, failures>>

BeginFlush ==
    /\ FlushOf(pending)
    /\ UNCHANGED <<pending, rows, projection, copies, failures>>
-----------------------------------------------------------------------------
(* What the next statement of a stage writes.  The events go by one insert *)
(* from a staging table, the others row by row; a sweep audit first        *)
(* overwrites its cluster's row, then its transition is inserted.          *)
Ids(t) == IF t = "event" THEN Range(pending[t]) ELSE {pending[t][cursor]}
TransitionDue(t) == t = "sweep" /\ ~upserted /\ log[pending[t][cursor]].transition
LastOf(t) == t = "event" \/ cursor = Len(pending[t])

Overwritten(c) ==
    InTurn("sweep") /\ ~upserted /\ log[pending["sweep"][cursor]].cluster = c

(* Mutant: the row of a cluster is kept on a conflict.                     *)
WriteOnce(c) == IF Overwritten(c) /\ projection[c] = NoAudit
                THEN pending["sweep"][cursor] ELSE projection[c]
(* A row of sweep_clusters is overwritten, ON CONFLICT DO UPDATE.          *)
Projected(c) == IF Overwritten(c) THEN pending["sweep"][cursor] ELSE projection[c]

(* A row of a keyed table is left alone, ON CONFLICT DO NOTHING;           *)
(* universe_audits has no key that a repeated row could conflict with.     *)
Write(t) ==
    /\ rows' = [rows EXCEPT ![IF upserted THEN "transition" ELSE t] = @ \cup Ids(t)]
    /\ projection' = [c \in SweepCluster |-> Projected(c)]
    /\ copies' = [id \in Number |->
          IF t = "universe" /\ id \in Ids(t) THEN copies[id] + 1 ELSE copies[id]]

(* Mutant: pending rows are dropped when a statement fails.                *)
DropAll(list) == [t \in Table |-> <<>>]
(* A failed flush keeps the pending lists that it did not finish.          *)
KeptOnFailure(list) == list

(* The statement after this one, the list being cleared after its last.    *)
Proceed(t) ==
    \/ /\ TransitionDue(t)
       /\ upserted' = TRUE
       /\ UNCHANGED <<pending, cursor>>
    \/ /\ ~TransitionDue(t) /\ ~LastOf(t)
       /\ cursor' = cursor + 1
       /\ upserted' = FALSE
       /\ UNCHANGED pending
    \/ /\ ~TransitionDue(t) /\ LastOf(t)
       /\ pending' = [pending EXCEPT ![t] = <<>>]
       /\ cursor' = IF Written(pending') THEN 0 ELSE 1
       /\ upserted' = FALSE

Statement ==
    \E t \in Table :
        /\ InTurn(t)
        /\ Write(t)
        /\ Proceed(t)
        /\ UNCHANGED failures

(* The connection fails at a statement, before or after the server has     *)
(* committed it: flush raises to its caller.                               *)
StatementFails ==
    /\ failures < MaxFailures
    /\ failures' = failures + 1
    /\ \E t \in Table : InTurn(t) /\ (Write(t) \/ UNCHANGED <<rows, projection, copies>>)
    /\ pending' = KeptOnFailure(pending)
    /\ cursor' = 0
    /\ upserted' = FALSE
-----------------------------------------------------------------------------
InTable(id) ==
    /\ id \in rows[log[id].table]
    /\ (log[id].table = "sweep" /\ log[id].transition) => id \in rows["transition"]

Durable == {id \in DOMAIN log : InTable(id)}
=============================================================================
