--------------------------- MODULE AuditPathProofs ----------------------------
(***************************************************************************)
(* The audit path, for every limit, batch size, threshold and number of    *)
(* failing statements.                                                     *)
(*                                                                         *)
(* WriterInv is about what queue.join waits for.  The count is decreased   *)
(* where a record leaves the batch, not where it leaves the queue.  That   *)
(* taking a batch neither drops nor repeats a record of the old one needs  *)
(* that a waiting task has recorded all of it, and that a record leaves    *)
(* the batch needs that a flush at a threshold began with one.             *)
(*                                                                         *)
(* QueueOrder and TrailInv follow a record from the queue to the database. *)
(* Records pass each place in the order of their numbers, so what rests on *)
(* an event is recorded after it and, the events being the first stage of  *)
(* a flush, written after it.  A flush that failed is repeated from the    *)
(* first row it had not cleared: an older sweep audit may overwrite its    *)
(* cluster's row again, but then a newer one is still held (Overwrites),   *)
(* and a universe audit is written twice only by a flush after the failed  *)
(* one (Copied).  The refinement of AuditLog is a reading of TrailInv.     *)
(*                                                                         *)
(* A live run that completes has lost nothing, for every number of         *)
(* records, limit, batch size, threshold and failing statement.            *)
(*                                                                         *)
(* The writer's task stops only with an empty queue, after a flush that    *)
(* left nothing pending; what is accepted later would be lost.  Nothing    *)
(* is: drain sets the stop flag, and the runner calls it only when its     *)
(* last producer is gone.                                                  *)
(***************************************************************************)
EXTENDS LiveRun, SequenceTheorems, TLAPS

WriterTypeOK ==
    /\ queue \in Seq(Nat)
    /\ batch \in Seq(Nat)
    /\ log \in Seq(UNION {Record(t) : t \in Table})
    /\ unfinished \in Int
    /\ task \in TaskState

BatchOfTask ==
    /\ task \in {"waiting", "flushing", "stopped", "cancelled"} => batch = <<>>
    /\ task = "threshold_flush" => batch # <<>>

WriterInv == WriterTypeOK /\ BatchOfTask /\ JoinCountsWork
-----------------------------------------------------------------------------
(* The writer starts with an empty queue and nothing to wait for.          *)
LEMMA WriterInvInit == Init => WriterInv
<1> SUFFICES ASSUME Init PROVE WriterInv
  OBVIOUS
<1>1. /\ queue = <<>> /\ batch = <<>> /\ log = <<>> /\ unfinished = 0 /\ task = "waiting"
  BY DEF Init, WriterInit
<1>2. HardLimit \in Nat
  BY WriterConstantsOK DEF WriterConstantsOK
<1>3. WriterTypeOK
  BY <1>1 DEF WriterTypeOK, TaskState
<1> QED
  BY <1>1, <1>2, <1>3 DEF WriterInv, BatchOfTask, JoinCountsWork

(* A batch is the front of the queue, and the rest stays.                  *)
LEMMA TakeCounts ==
  ASSUME WriterInv, Take
  PROVE  /\ queue' \in Seq(Nat) /\ batch' \in Seq(Nat)
         /\ Len(queue') + Len(batch') = Len(queue)
         /\ Len(queue') <= Len(queue)
<1> DEFINE n == IF Len(queue) < BatchSize THEN Len(queue) ELSE BatchSize
<1>1. queue \in Seq(Nat) /\ Len(queue) \in Nat
  BY DEF WriterInv, WriterTypeOK
<1>2. n \in Nat /\ n <= Len(queue)
  BY <1>1, WriterConstantsOK DEF WriterConstantsOK
<1>3. batch' = SubSeq(queue, 1, n) /\ queue' = SubSeq(queue, n + 1, Len(queue))
  BY DEF Take
<1> HIDE DEF n
<1>4. batch' \in Seq(Nat) /\ Len(batch') = n
  BY <1>1, <1>2, <1>3
<1>5. queue' \in Seq(Nat) /\ Len(queue') = Len(queue) - n
  BY <1>1, <1>2, <1>3
<1> QED
  BY <1>1, <1>2, <1>4, <1>5

(* A record is done exactly when it leaves the batch.                      *)
LEMMA DoneCounts ==
  ASSUME WriterInv, batch # <<>>, batch' = Tail(batch), TaskDone, UNCHANGED queue,
         task # "failed"
  PROVE  /\ batch' \in Seq(Nat) /\ unfinished' \in Int
         /\ unfinished' = Len(queue') + Len(batch')
<1>1. batch \in Seq(Nat) /\ queue \in Seq(Nat) /\ unfinished = Len(queue) + Len(batch)
  BY DEF WriterInv, WriterTypeOK, JoinCountsWork
<1>2. batch' \in Seq(Nat) /\ Len(batch') = Len(batch) - 1
  BY <1>1
<1> QED
  BY <1>1, <1>2 DEF TaskDone

(* Every step of the producers, the task, the repository, its readers and  *)
(* the caller of drain keeps the invariant.                                *)
LEMMA WriterInvStep == WriterInv /\ [Next]_vars => WriterInv'
<1> SUFFICES ASSUME WriterInv, [Next]_vars PROVE WriterInv'
  OBVIOUS
<1> USE DEF WriterInv, WriterTypeOK, BatchOfTask, JoinCountsWork, TaskState
<1>1. ASSUME NEW t \in Audited, NEW r \in Record(t), Enqueue(r) PROVE WriterInv'
  <2>1. r \in UNION {Record(s) : s \in Table}
    BY <1>1 DEF Audited
  <2>2. log' = Append(log, r) /\ Len(log') \in Nat /\ log' \in Seq(UNION {Record(s) : s \in Table})
    BY <1>1, <2>1 DEF Enqueue
  <2>3. /\ queue' = Append(queue, Len(log')) /\ ~Full /\ unfinished' = unfinished + 1
        /\ batch' = batch /\ task' = task
    BY <1>1 DEF Enqueue
  <2>4. queue' \in Seq(Nat) /\ Len(queue') = Len(queue) + 1 /\ Len(queue) \in Nat
    BY <2>2, <2>3
  <2>5. Len(queue') <= HardLimit
    BY <2>3, <2>4, WriterConstantsOK DEF Full, WriterConstantsOK
  <2>6. task # "failed" => unfinished' = Len(queue') + Len(batch)
    <3>1. Len(batch) \in Nat
      OBVIOUS
    <3> QED
      BY <2>3, <2>4, <3>1
  <2>7. BatchOfTask'
    BY <2>3
  <2> HIDE DEF BatchOfTask
  <2>8. unfinished' \in Int
    BY <2>3
  <2> QED
    BY <2>2, <2>3, <2>4, <2>5, <2>6, <2>7, <2>8
<1>2. CASE Refuse \/ ReadBack \/ RunStatement \/ Crash
  <2>1. UNCHANGED <<queue, batch, log, unfinished, task>>
    BY <1>2 DEF Refuse, ReadBack, RunStatement, Crash, writer
  <2> QED
    BY <2>1
<1>3. CASE Take
  <2>1. /\ task = "waiting" /\ batch = <<>> /\ task' = "recording"
        /\ UNCHANGED <<log, unfinished>>
    BY <1>3 DEF Take
  <2>2. /\ queue' \in Seq(Nat) /\ batch' \in Seq(Nat)
        /\ Len(queue') + Len(batch') = Len(queue)
        /\ Len(queue') <= Len(queue)
    BY <1>3, TakeCounts
  <2>3. Len(queue) <= HardLimit /\ unfinished = Len(queue) /\ Len(queue) \in Nat
    <3>1. Len(batch) = 0 /\ Len(queue) \in Nat /\ unfinished = Len(queue) + Len(batch)
      BY <2>1
    <3> QED
      BY <3>1
  <2>4. JoinCountsWork'
    <3>1. Len(queue') \in Nat /\ Len(batch') \in Nat
      BY <2>2, SMTT(30)
    <3>2. HardLimit \in Nat
      BY WriterConstantsOK DEF WriterConstantsOK
    <3>3. Len(queue') <= HardLimit
      BY <2>2, <2>3, <3>1, <3>2
    <3>4. unfinished' = Len(queue') + Len(batch')
      BY <2>1, <2>2, <2>3
    <3> QED
      BY <3>3, <3>4
  <2> QED
    BY <2>1, <2>2, <2>4
<1>4. CASE RecordHead
  <2>1. task = "recording" /\ batch # <<>> /\ UNCHANGED <<log, queue>>
    BY <1>4 DEF RecordHead
  <2>2. CASE AtThreshold(Head(batch))
    BY <1>4, <2>1, <2>2 DEF RecordHead
  <2>3. CASE ~AtThreshold(Head(batch))
    <3>1. batch' = Tail(batch) /\ TaskDone /\ task' = task
      BY <1>4, <2>3 DEF RecordHead
    <3> QED
      BY <2>1, <3>1, DoneCounts
  <2> QED
    BY <2>2, <2>3
<1>5. CASE RecordDone
  <2>1. /\ task = "threshold_flush" /\ batch # <<>> /\ task' = "recording"
        /\ batch' = Tail(batch) /\ TaskDone /\ UNCHANGED <<log, queue>>
    BY <1>5 DEF RecordDone
  <2> QED
    BY <2>1, DoneCounts
<1>6. CASE FlushBatch
  BY <1>6 DEF FlushBatch
<1>7. CASE BatchDone
  BY <1>7 DEF BatchDone
<1>8. CASE Stop
  BY <1>8 DEF Stop
<1>9. CASE FlushFails
  <2>1. UNCHANGED <<log, queue, unfinished>>
    BY <1>9 DEF FlushFails
  <2>2. CASE task \in {"threshold_flush", "flushing"}
    <3>1. task' = "failed" /\ batch' = <<>>
      BY <1>9, <2>2 DEF FlushFails
    <3>2. batch' \in Seq(Nat)
      BY <3>1
    <3> QED
      BY <2>1, <3>1, <3>2
  <2>3. CASE task \notin {"threshold_flush", "flushing"}
    <3>1. task' = task /\ batch' = batch
      BY <1>9, <2>3 DEF FlushFails
    <3> QED
      BY <2>1, <3>1
  <2> QED
    BY <2>2, <2>3
<1>10. CASE RecordUniverse
  <2>1. log' \in Seq(UNION {Record(s) : s \in Table})
    <3>1. [table |-> "universe"] \in Record("universe")
      BY DEF Record
    <3> QED
      BY <1>10, <3>1 DEF RecordUniverse, Table
  <2> QED
    BY <1>10, <2>1 DEF RecordUniverse, writer
<1>11. CASE StartDrain \/ DrainStep
  <2>1. UNCHANGED <<queue, batch, log, unfinished, task>>
    BY <1>11 DEF StartDrain, DrainStep, Joined, AwaitTask
  <2> QED
    BY <2>1
<1>12. CASE DrainTimeout
  BY <1>12 DEF DrainTimeout
<1>13. CASE UNCHANGED vars
  BY <1>13 DEF vars, writer
<1> QED
  BY <1>1, <1>2, <1>3, <1>4, <1>5, <1>6, <1>7, <1>8, <1>9, <1>10, <1>11, <1>12, <1>13
     DEF Next, WriterStep

(* The inductive invariant of the writer's queue and batch.                *)
THEOREM WriterInvariant == Spec => []WriterInv
BY WriterInvInit, WriterInvStep, PTL DEF Spec

(* The queue keeps its limit, and join waits for exactly what is queued or *)
(* in the batch of a live task (persistence_async.py:66-110).              *)
THEOREM WriterJoin == Spec => []JoinCountsWork
<1>1. WriterInv => JoinCountsWork
  BY DEF WriterInv
<1> QED
  BY <1>1, WriterInvariant, PTL
-----------------------------------------------------------------------------
(* The records on their way to the repository.  That of a threshold flush  *)
(* has arrived there and is still the head of the batch.                   *)
Todo == IF task = "threshold_flush" THEN Tail(batch) ELSE batch
Waiting == Range(Todo) \cup Range(queue)
Rising(s) == \A i, j \in DOMAIN s : i < j => s[i] < s[j]

QueueOrder ==
    /\ Rising(Todo)
    /\ Rising(queue)
    /\ \A a \in Range(Todo), b \in Range(queue) : a < b
    /\ \A id \in Waiting : id \in DOMAIN log /\ log[id].table \in Audited

(* A greater number at the end keeps a sequence rising.                    *)
LEMMA AppendRising ==
  ASSUME NEW s \in Seq(Nat), Rising(s), NEW n \in Nat, \A x \in Range(s) : x < n
  PROVE  /\ Append(s, n) \in Seq(Nat) /\ Rising(Append(s, n))
         /\ Range(Append(s, n)) = Range(s) \cup {n}
<1> DEFINE r == Append(s, n)
<1>1. r \in Seq(Nat) /\ Len(r) = Len(s) + 1 /\ r[Len(s) + 1] = n /\ Len(s) \in Nat
  OBVIOUS
<1>2. \A i \in 1 .. Len(s) : r[i] = s[i] /\ r[i] < n
  BY DEF Range
<1>3. DOMAIN r = 1 .. Len(s) + 1
  BY <1>1
<1> HIDE DEF r
<1>4. Rising(r)
  <2> SUFFICES ASSUME NEW i \in DOMAIN r, NEW j \in DOMAIN r, i < j PROVE r[i] < r[j]
    BY DEF Rising
  <2>1. i \in 1 .. Len(s)
    BY <1>1, <1>3
  <2>2. CASE j \in 1 .. Len(s)
    BY <1>2, <2>1, <2>2 DEF Rising
  <2>3. CASE j = Len(s) + 1
    BY <1>1, <1>2, <2>1, <2>3
  <2> QED
    BY <1>1, <1>3, <2>2, <2>3
<1>5. Range(r) = Range(s) \cup {n}
  <2>1. \A i \in DOMAIN r : i \in 1 .. Len(s) \/ i = Len(s) + 1
    BY <1>3
  <2>2. DOMAIN s = 1 .. Len(s) /\ DOMAIN s \subseteq DOMAIN r /\ Len(s) + 1 \in DOMAIN r
    BY <1>3
  <2> QED
    BY <1>1, <1>2, <2>1, <2>2 DEF Range
<1> QED
  BY <1>1, <1>4, <1>5 DEF r

(* The head of a rising sequence is below the rest.                        *)
LEMMA TailRising ==
  ASSUME NEW s \in Seq(Nat), Rising(s), s # <<>>
  PROVE  /\ Tail(s) \in Seq(Nat) /\ Rising(Tail(s))
         /\ Head(s) \in Nat
         /\ Range(s) = Range(Tail(s)) \cup {Head(s)}
         /\ \A x \in Range(Tail(s)) : Head(s) < x
<1> DEFINE r == Tail(s)
<1>1. r \in Seq(Nat) /\ Len(r) = Len(s) - 1 /\ Len(s) \in Nat \ {0} /\ Head(s) = s[1] /\ s[1] \in Nat
  OBVIOUS
<1>2. DOMAIN r = 1 .. Len(s) - 1 /\ DOMAIN s = 1 .. Len(s)
  BY <1>1
<1>3. \A i \in DOMAIN r : r[i] = s[i + 1] /\ i + 1 \in DOMAIN s
  BY <1>1, <1>2
<1> HIDE DEF r
<1>4. Rising(r)
  BY <1>2, <1>3 DEF Rising
<1>5. \A i \in DOMAIN r : s[1] < r[i]
  <2> SUFFICES ASSUME NEW i \in DOMAIN r PROVE s[1] < r[i]
    OBVIOUS
  <2>1. 1 \in DOMAIN s /\ i + 1 \in DOMAIN s /\ 1 < i + 1 /\ r[i] = s[i + 1]
    BY <1>1, <1>2, <1>3, SMTT(30)
  <2> QED
    BY <2>1 DEF Rising
<1>6. \A i \in DOMAIN s : i = 1 \/ (i - 1 \in DOMAIN r /\ s[i] = r[i - 1])
  BY <1>1, <1>2, <1>3, SMTT(30)
<1>7. 1 \in DOMAIN s
  BY <1>1, <1>2
<1>8. Range(s) = Range(r) \cup {s[1]}
  BY <1>3, <1>6, <1>7 DEF Range
<1> QED
  BY <1>1, <1>4, <1>5, <1>8 DEF r, Range

(* A rising sequence cut in two.                                           *)
LEMMA CutRising ==
  ASSUME NEW s \in Seq(Nat), Rising(s), NEW n \in 0 .. Len(s)
  PROVE  LET a == SubSeq(s, 1, n)
             b == SubSeq(s, n + 1, Len(s))
         IN  /\ Rising(a) /\ Rising(b)
             /\ Range(s) = Range(a) \cup Range(b)
             /\ \A x \in Range(a), y \in Range(b) : x < y
<1> DEFINE a == SubSeq(s, 1, n)
           b == SubSeq(s, n + 1, Len(s))
<1>1. Len(s) \in Nat /\ DOMAIN s = 1 .. Len(s) /\ n \in Nat /\ n <= Len(s)
  OBVIOUS
<1>2. DOMAIN a = 1 .. n /\ \A i \in 1 .. n : a[i] = s[i]
  OBVIOUS
<1>3. DOMAIN b = 1 .. Len(s) - n /\ \A i \in 1 .. Len(s) - n : b[i] = s[n + i]
  BY <1>1
<1> HIDE DEF a, b
<1>4. Rising(a)
  BY <1>1, <1>2 DEF Rising
<1>5. Rising(b)
  <2> SUFFICES ASSUME NEW i \in DOMAIN b, NEW j \in DOMAIN b, i < j PROVE b[i] < b[j]
    BY DEF Rising
  <2>1. n + i \in DOMAIN s /\ n + j \in DOMAIN s /\ n + i < n + j
    BY <1>1, <1>3, SMTT(30)
  <2>2. b[i] = s[n + i] /\ b[j] = s[n + j]
    BY <1>3
  <2> QED
    BY <2>1, <2>2 DEF Rising
<1>6. \A i \in DOMAIN s : (i \in DOMAIN a /\ s[i] = a[i]) \/ (i - n \in DOMAIN b /\ s[i] = b[i - n])
  BY <1>1, <1>2, <1>3
<1>7. \A i \in DOMAIN a : i \in DOMAIN s /\ a[i] = s[i]
  BY <1>1, <1>2
<1>8. \A i \in DOMAIN b : n + i \in DOMAIN s /\ b[i] = s[n + i]
  BY <1>1, <1>3
<1>9. Range(s) = Range(a) \cup Range(b)
  BY <1>6, <1>7, <1>8 DEF Range
<1>10. \A i \in DOMAIN a, j \in DOMAIN b : a[i] < b[j]
  BY <1>1, <1>2, <1>3, <1>7, <1>8 DEF Rising
<1> QED
  BY <1>4, <1>5, <1>9, <1>10 DEF a, b, Range

(* What each action does to the waiting records.                           *)
LEMMA EnqueueWaits ==
  ASSUME WriterInv, QueueOrder, NEW t \in Audited, NEW r \in Record(t), Enqueue(r)
  PROVE  /\ QueueOrder'
         /\ Waiting' = Waiting \cup {Len(log')}
         /\ log' = Append(log, r) /\ Len(log) < MaxLog
         /\ UNCHANGED repository /\ task' = task
<1>1. /\ log' = Append(log, r) /\ queue' = Append(queue, Len(log')) /\ Len(log) < MaxLog
      /\ UNCHANGED <<repository, batch, task>>
  BY DEF Enqueue
<1>2. log \in Seq(UNION {Record(s) : s \in Table}) /\ r \in UNION {Record(s) : s \in Table}
  BY DEF WriterInv, WriterTypeOK, Audited
<1>3. /\ Len(log) \in Nat /\ Len(log') = Len(log) + 1 /\ log'[Len(log')] = r
      /\ DOMAIN log = 1 .. Len(log) /\ DOMAIN log' = 1 .. Len(log')
      /\ \A id \in DOMAIN log : log'[id] = log[id]
  BY <1>1, <1>2
<1>4. r.table = t
  BY DEF Record
<1>5. \A id \in Waiting : id < Len(log')
  BY <1>3 DEF QueueOrder
<1>6. /\ Rising(queue') /\ Range(queue') = Range(queue) \cup {Len(log')}
  <2>1. queue \in Seq(Nat) /\ Rising(queue) /\ Len(log') \in Nat
    BY <1>3 DEF WriterInv, WriterTypeOK, QueueOrder
  <2>2. \A x \in Range(queue) : x < Len(log')
    BY <1>5 DEF Waiting
  <2> QED
    BY <1>1, <2>1, <2>2, AppendRising
<1>7. Todo' = Todo
  BY <1>1 DEF Todo
<1>8. Waiting' = Waiting \cup {Len(log')}
  BY <1>6, <1>7 DEF Waiting
<1>9. \A a \in Range(Todo'), b \in Range(queue') : a < b
  BY <1>5, <1>6, <1>7 DEF QueueOrder, Waiting
<1>10. \A id \in Waiting' : id \in DOMAIN log' /\ log'[id].table \in Audited
  BY <1>3, <1>4, <1>8 DEF QueueOrder
<1>11. QueueOrder'
  <2>1. Rising(Todo')
    BY <1>7 DEF QueueOrder
  <2> QED
    BY <1>6, <1>9, <1>10, <2>1 DEF QueueOrder, Rising
<1> QED
  BY <1>1, <1>8, <1>11

LEMMA TakeWaits ==
  ASSUME WriterInv, QueueOrder, Take
  PROVE  QueueOrder' /\ Waiting' = Waiting
<1> DEFINE n == IF Len(queue) < BatchSize THEN Len(queue) ELSE BatchSize
<1>1. queue \in Seq(Nat) /\ Rising(queue) /\ Len(queue) \in Nat
  BY DEF WriterInv, WriterTypeOK, QueueOrder
<1>2. n \in 0 .. Len(queue)
  BY <1>1, WriterConstantsOK DEF WriterConstantsOK
<1>3. /\ batch' = SubSeq(queue, 1, n) /\ queue' = SubSeq(queue, n + 1, Len(queue))
      /\ task = "waiting" /\ task' = "recording" /\ batch = <<>> /\ log' = log
  BY DEF Take, WriterInv, BatchOfTask
<1> HIDE DEF n
<1>4. /\ Rising(batch') /\ Rising(queue')
      /\ Range(queue) = Range(batch') \cup Range(queue')
      /\ \A x \in Range(batch'), y \in Range(queue') : x < y
  BY <1>1, <1>2, <1>3, CutRising
<1>5. Todo' = batch' /\ Todo = <<>>
  BY <1>3 DEF Todo
<1>6. Range(Todo) = {}
  BY <1>5 DEF Range
<1>7. Waiting' = Waiting
  BY <1>4, <1>5, <1>6 DEF Waiting
<1>8. Rising(Todo') /\ \A x \in Range(Todo'), y \in Range(queue') : x < y
  BY <1>4, <1>5
<1>9. \A id \in Waiting' : id \in DOMAIN log' /\ log'[id].table \in Audited
  BY <1>3, <1>7 DEF QueueOrder
<1> QED
  BY <1>4, <1>7, <1>8, <1>9 DEF QueueOrder, Rising

(* The record handed to the repository is the oldest of those waiting.     *)
LEMMA RecordWaits ==
  ASSUME WriterInv, QueueOrder, RecordHead
  PROVE  /\ QueueOrder'
         /\ Waiting = Waiting' \cup {Head(batch)}
         /\ Head(batch) \in DOMAIN log /\ log[Head(batch)].table \in Audited
         /\ \A w \in Waiting' : Head(batch) < w
<1>1. /\ task = "recording" /\ batch # <<>> /\ log' = log /\ queue' = queue
      /\ batch \in Seq(Nat)
  BY DEF RecordHead, WriterInv, WriterTypeOK
<1>2. Todo = batch
  BY <1>1 DEF Todo
<1>3. Todo' = Tail(batch)
  BY <1>1 DEF RecordHead, Todo
<1>4. /\ Rising(Tail(batch)) /\ Range(batch) = Range(Tail(batch)) \cup {Head(batch)}
      /\ \A x \in Range(Tail(batch)) : Head(batch) < x
  BY <1>1, <1>2, TailRising DEF QueueOrder
<1>5. Waiting = Waiting' \cup {Head(batch)}
  BY <1>1, <1>2, <1>3, <1>4 DEF Waiting
<1>6. \A w \in Waiting' : Head(batch) < w
  BY <1>1, <1>2, <1>3, <1>4 DEF Waiting, QueueOrder
<1>7. \A a \in Range(Todo'), b \in Range(queue') : a < b
  BY <1>1, <1>2, <1>3, <1>4 DEF QueueOrder
<1>8. Rising(Todo') /\ Rising(queue')
  BY <1>1, <1>3, <1>4 DEF QueueOrder
<1>9. \A id \in Waiting' : id \in DOMAIN log' /\ log'[id].table \in Audited
  BY <1>1, <1>5 DEF QueueOrder
<1>10. QueueOrder'
  BY <1>7, <1>8, <1>9 DEF QueueOrder, Rising
<1> QED
  BY <1>5, <1>6, <1>10 DEF QueueOrder

(* A failed flush of the task drops the rest of its batch, no other does.  *)
LEMMA FailureWaits ==
  ASSUME WriterInv, QueueOrder, FlushFails
  PROVE  /\ QueueOrder' /\ Waiting' \subseteq Waiting
         /\ task' # "failed" => Waiting' = Waiting
         /\ task = "failed" => task' = "failed"
<1>1. log' = log /\ queue' = queue
  BY DEF FlushFails
<1>2. CASE task \in {"threshold_flush", "flushing"}
  <2>1. task' = "failed" /\ batch' = <<>>
    BY <1>2 DEF FlushFails
  <2>2. Todo' = <<>> /\ Range(Todo') = {}
    BY <2>1 DEF Todo, Range
  <2>3. Waiting' \subseteq Waiting
    BY <1>1, <2>2 DEF Waiting
  <2>4. Rising(Todo')
    BY <2>2 DEF Rising
  <2> QED
    BY <1>1, <1>2, <2>1, <2>2, <2>3, <2>4 DEF QueueOrder, Rising
<1>3. CASE task \notin {"threshold_flush", "flushing"}
  <2>1. task' = task /\ batch' = batch
    BY <1>3 DEF FlushFails
  <2>2. Todo' = Todo
    BY <2>1 DEF Todo
  <2>3. Waiting' = Waiting
    BY <1>1, <2>2 DEF Waiting
  <2> QED
    BY <1>1, <2>1, <2>2, <2>3 DEF QueueOrder, Rising
<1> QED
  BY <1>2, <1>3

(* Every other step moves no record.                                       *)
LEMMA NothingMoves ==
  ASSUME WriterInv, QueueOrder, UNCHANGED <<batch, queue, log>>,
         (task' = "threshold_flush") = (task = "threshold_flush")
  PROVE  QueueOrder' /\ Waiting' = Waiting
<1>1. Todo' = Todo
  BY DEF Todo
<1>2. Waiting' = Waiting
  BY <1>1 DEF Waiting
<1> QED
  BY <1>1, <1>2 DEF QueueOrder, Rising

(* The record of a threshold flush leaves the batch when it ends.          *)
LEMMA RecordDoneWaits ==
  ASSUME WriterInv, QueueOrder, RecordDone
  PROVE  QueueOrder' /\ Waiting' = Waiting
<1>1. /\ task = "threshold_flush" /\ task' = "recording" /\ batch' = Tail(batch)
      /\ log' = log /\ queue' = queue
  BY DEF RecordDone
<1>2. Todo' = Todo
  BY <1>1 DEF Todo
<1>3. Waiting' = Waiting
  BY <1>1, <1>2 DEF Waiting
<1> QED
  BY <1>1, <1>2, <1>3 DEF QueueOrder, Rising
-----------------------------------------------------------------------------
(* The rest of the invariant of the audit trail.                           *)
Held(t) == Range(pending[t])
Recorded(id) == id \in Held(log[id].table) \/ InTable(id)

TrailTypeOK ==
    /\ Len(log) <= MaxLog
    /\ pending \in [Table -> Seq(Nat)]
    /\ cursor \in Nat
    /\ upserted \in BOOLEAN
    /\ rows \in [Table \cup {"transition"} -> SUBSET Nat]
    /\ projection \in [SweepCluster -> Nat]
    /\ copies \in [Number -> Nat]
    /\ failures \in Nat

(* A record is held and written where its table says.                      *)
Placed == \A t \in Table : \A id \in Held(t) \cup rows[t] :
              id \in DOMAIN log /\ log[id].table = t

(* The records reach the repository, and are written, in their order.      *)
InOrder ==
    /\ \A t \in Table : Rising(pending[t])
    /\ \A t \in Audited : \A id \in Held(t) \cup rows[t], w \in Waiting : id < w
    /\ \A t \in Table : \A id \in rows[t] : id \in Held(t) \/ \A p \in Held(t) : id < p

Kept == task # "failed" => \A id \in DOMAIN log : id \in Waiting \/ Recorded(id)

(* A flush has rows to write, and has written those before its cursor.     *)
FlushGoes ==
    /\ Flushing => task # "recording" /\ \E t \in Table : pending[t] # <<>>
    /\ \A t \in Table : InTurn(t) =>
          /\ cursor <= Len(pending[t])
          /\ t = "event" => cursor = 1
          /\ \A i \in 1 .. cursor - 1 : InTable(pending[t][i])
    /\ upserted =>
          /\ InTurn("sweep")
          /\ pending["sweep"][cursor] \in rows["sweep"]
          /\ log[pending["sweep"][cursor]].transition

(* A record that rests on earlier events is not written before them, and   *)
(* reaches the repository after them.                                      *)
Dependent == {"decision", "quote", "sweep"}
EventsFirst ==
    \A t \in Dependent : \A i \in Held(t) \cup rows[t] :
        \A j \in 1 .. i - 1 : log[j].table = "event" =>
            j \in rows["event"] \/ (i \notin rows[t] /\ j \in Held("event"))

(* What the flush in progress, or the next one, writes yet.                *)
Outstanding(t, i) == ~(InTurn(t) /\ (i < cursor \/ (i = cursor /\ upserted)))

(* Where a cluster's row is behind, an audit that overwrites it is held.   *)
Overwrites ==
    \A id \in rows["sweep"] :
        \/ id <= projection[log[id].cluster]
        \/ \E i \in DOMAIN pending["sweep"] :
              /\ Outstanding("sweep", i)
              /\ id <= pending["sweep"][i]
              /\ log[pending["sweep"][i]].cluster = log[id].cluster

(* A universe audit is repeated only by a flush after one that failed.     *)
Copied ==
    /\ \A id \in Number : copies[id] <= failures + 1
    /\ \A id \in Number : copies[id] > 0 => id \in rows["universe"]
    /\ \A i \in DOMAIN pending["universe"] :
          Outstanding("universe", i) => copies[pending["universe"][i]] <= failures

TrailInv ==
    /\ TrailTypeOK
    /\ Placed
    /\ InOrder
    /\ Kept
    /\ FlushGoes
    /\ EventsFirst
    /\ Overwrites
    /\ Copied
-----------------------------------------------------------------------------
(* One stage of a flush is in turn at a time.                              *)
LEMMA TurnUnique ==
  ASSUME NEW t \in Table, NEW u \in Table, InTurn(t), InTurn(u)
  PROVE  t = u
BY DEF InTurn, Stage, Table

(* Nothing is waiting, held or written at first.                           *)
LEMMA TrailInvInit == Init => QueueOrder /\ TrailInv
<1> SUFFICES ASSUME Init PROVE QueueOrder /\ TrailInv
  OBVIOUS
<1>1. /\ queue = <<>> /\ batch = <<>> /\ log = <<>> /\ task = "waiting"
      /\ pending = [t \in Table |-> <<>>] /\ cursor = 0 /\ upserted = FALSE
      /\ rows = [t \in Table \cup {"transition"} |-> {}]
      /\ projection = [c \in SweepCluster |-> 0]
      /\ copies = [id \in Number |-> 0] /\ failures = 0
  BY DEF Init, WriterInit, RepositoryInit, NoAudit
<1>2. Range(Todo) = {} /\ Range(queue) = {} /\ Todo = <<>>
  BY <1>1 DEF Todo, Range
<1>3. Waiting = {}
  BY <1>2 DEF Waiting
<1>4. \A t \in Table : Held(t) = {} /\ rows[t] = {} /\ pending[t] = <<>>
  BY <1>1 DEF Held, Range
<1>5. QueueOrder
  BY <1>1, <1>2, <1>3 DEF QueueOrder, Rising
<1>6. TrailTypeOK
  <2>1. Len(log) = 0 /\ MaxLog \in Nat
    BY <1>1, RepositoryConstantsOK DEF RepositoryConstantsOK
  <2>2. pending \in [Table -> Seq(Nat)] /\ <<>> \in Seq(Nat)
    BY <1>1
  <2>3. rows \in [Table \cup {"transition"} -> SUBSET Nat]
    BY <1>1
  <2>4. projection \in [SweepCluster -> Nat] /\ copies \in [Number -> Nat]
    BY <1>1
  <2>5. Len(log) <= MaxLog
    BY <2>1
  <2>6. cursor \in Nat /\ upserted \in BOOLEAN /\ failures \in Nat
    BY <1>1
  <2> QED
    BY <2>2, <2>3, <2>4, <2>5, <2>6 DEF TrailTypeOK
<1>7. Placed /\ InOrder
  BY <1>3, <1>4 DEF Placed, InOrder, Rising
<1>8. Kept /\ FlushGoes
  BY <1>1 DEF Kept, FlushGoes, InTurn, Flushing
<1>9. EventsFirst
  <2>1. Dependent \subseteq Table
    BY DEF Dependent, Table
  <2> QED
    BY <1>4, <2>1 DEF EventsFirst
<1>10. Overwrites /\ Copied
  <2>1. "sweep" \in Table /\ "universe" \in Table
    BY DEF Table
  <2> QED
    BY <1>1, <1>4, <2>1 DEF Overwrites, Copied
<1> QED
  BY <1>5, <1>6, <1>7, <1>8, <1>9, <1>10 DEF TrailInv

(* A step that moves no record and leaves the repository alone.            *)
LEMMA TrailUnmoved ==
  ASSUME TrailInv, UNCHANGED <<log, repository>>, Waiting' = Waiting,
         task = "failed" => task' = "failed",
         task' = "recording" => task = "recording" \/ ~Flushing
  PROVE  TrailInv'
<1>1. /\ pending' = pending /\ cursor' = cursor /\ upserted' = upserted /\ rows' = rows
      /\ projection' = projection /\ copies' = copies /\ failures' = failures /\ log' = log
  BY DEF repository, flush
<1> USE DEF TrailInv
<1>2. TrailTypeOK' /\ Placed'
  BY <1>1 DEF TrailTypeOK, Placed, Held
<1>3. InOrder'
  BY <1>1 DEF InOrder, Held, Rising
<1>4. Kept' /\ EventsFirst'
  BY <1>1 DEF Kept, EventsFirst, Held, Recorded, InTable
<1>5. FlushGoes'
  BY <1>1 DEF FlushGoes, Flushing, InTurn, InTable
<1>6. Overwrites' /\ Copied'
  BY <1>1 DEF Overwrites, Copied, Outstanding, Flushing, InTurn
<1> QED
  BY <1>2, <1>3, <1>4, <1>5, <1>6

(* A record accepted waits, behind all those that wait or were recorded.   *)
LEMMA TrailAccepted ==
  ASSUME TrailInv, WriterInv, NEW r, log' = Append(log, r), Len(log) < MaxLog,
         UNCHANGED repository, Waiting' = Waiting \cup {Len(log')}, task' = task
  PROVE  TrailInv'
<1>1. /\ pending' = pending /\ cursor' = cursor /\ upserted' = upserted /\ rows' = rows
      /\ projection' = projection /\ copies' = copies /\ failures' = failures
  BY DEF repository, flush
<1>2. /\ Len(log) \in Nat /\ MaxLog \in Nat
      /\ DOMAIN log = 1 .. Len(log) /\ DOMAIN log' = 1 .. Len(log) + 1 /\ Len(log') = Len(log) + 1
      /\ \A id \in DOMAIN log : log'[id] = log[id]
  BY RepositoryConstantsOK DEF WriterInv, WriterTypeOK, RepositoryConstantsOK
<1> USE DEF TrailInv
<1>3. \A t \in Table : \A id \in Held(t) \cup rows[t] :
         id \in DOMAIN log /\ log[id].table = t /\ log'[id] = log[id]
  BY <1>2 DEF Placed
<1>4. TrailTypeOK'
  BY <1>1, <1>2 DEF TrailTypeOK
<1>5. Placed'
  BY <1>1, <1>2, <1>3 DEF Placed, Held
<1>6. InOrder'
  <2>1. \A t \in Audited : \A id \in Held(t) \cup rows[t] : id < Len(log')
    BY <1>2, <1>3 DEF Audited
  <2> QED
    BY <1>1, <2>1 DEF InOrder, Held, Rising
<1>7. Kept'
  <2>1. \A id \in DOMAIN log : Recorded(id)' <=> Recorded(id)
    BY <1>1, <1>2 DEF Recorded, Held, InTable
  <2> QED
    BY <1>2, <2>1 DEF Kept
<1>8. \A t \in Table : \A i \in DOMAIN pending[t] :
         pending[t][i] \in DOMAIN log /\ log'[pending[t][i]] = log[pending[t][i]]
  BY <1>3 DEF Held, Range
<1>9. FlushGoes'
  <2>1. \A t \in Table : InTurn(t) => \A i \in 1 .. cursor : i \in DOMAIN pending[t]
    BY DEF FlushGoes, TrailTypeOK
  <2>2. \A t \in Table : InTurn(t)' <=> InTurn(t)
    BY <1>1 DEF InTurn, Flushing
  <2>3. \A t \in Table : \A i \in DOMAIN pending[t] : InTable(pending[t][i]) => InTable(pending[t][i])'
    BY <1>1, <1>8 DEF InTable
  <2>4. \A t \in Table : InTurn(t)' =>
          /\ cursor' <= Len(pending'[t])
          /\ t = "event" => cursor' = 1
          /\ \A i \in 1 .. cursor' - 1 : InTable(pending[t][i])'
    <3> SUFFICES ASSUME NEW t \in Table, InTurn(t)
                 PROVE  /\ cursor' <= Len(pending'[t])
                        /\ t = "event" => cursor' = 1
                        /\ \A i \in 1 .. cursor' - 1 : InTable(pending[t][i])'
      BY <2>2
    <3>1. \A i \in 1 .. cursor - 1 : i \in DOMAIN pending[t]
      BY <2>1 DEF TrailTypeOK
    <3>2. \A i \in 1 .. cursor - 1 : InTable(pending[t][i])'
      BY <2>3, <3>1 DEF FlushGoes
    <3> QED
      BY <1>1, <3>2 DEF FlushGoes
  <2>5. upserted' => /\ InTurn("sweep")'
                     /\ pending'["sweep"][cursor'] \in rows'["sweep"]
                     /\ log'[pending'["sweep"][cursor']].transition
    <3>1. upserted => cursor \in DOMAIN pending["sweep"] /\ "sweep" \in Table
      BY <2>1 DEF FlushGoes, InTurn, Flushing, TrailTypeOK, Table
    <3> QED
      BY <1>1, <1>8, <2>2, <3>1 DEF FlushGoes
  <2>6. Flushing' => task' # "recording" /\ \E t \in Table : pending'[t] # <<>>
    BY <1>1 DEF FlushGoes, Flushing
  <2> QED
    BY <1>1, <2>4, <2>5, <2>6 DEF FlushGoes
<1>10. EventsFirst'
  <2>1. Dependent \subseteq Table
    BY DEF Dependent, Table
  <2>2. \A t \in Dependent : \A i \in Held(t) \cup rows[t] : \A j \in 1 .. i - 1 :
           j \in DOMAIN log
    BY <1>2, <1>3, <2>1
  <2> QED
    BY <1>1, <1>2, <2>2 DEF EventsFirst, Held
<1>11. Overwrites'
  <2>1. "sweep" \in Table
    BY DEF Table
  <2> QED
    BY <1>1, <1>3, <1>8, <2>1 DEF Overwrites, Outstanding, InTurn, Flushing
<1>12. Copied'
  BY <1>1 DEF Copied, Outstanding, InTurn, Flushing
<1> QED
  BY <1>4, <1>5, <1>6, <1>7, <1>9, <1>10, <1>11, <1>12

(* A flush that begins has everything that is pending before it.           *)
LEMMA FlushBegins ==
  ASSUME TrailInv, ~Flushing, pending' \in [Table -> Seq(Nat)],
         FlushOf(pending') \/ UNCHANGED flush,
         task' = "recording" => UNCHANGED flush
  PROVE  /\ FlushGoes'
         /\ cursor' \in Nat /\ upserted' = FALSE
         /\ \A t \in Table : \A i \in DOMAIN pending'[t] : Outstanding(t, i)'
<1>1. cursor = 0 /\ upserted = FALSE
  BY DEF Flushing, TrailInv, FlushGoes, TrailTypeOK, InTurn
<1>2. cursor' \in {0, 1} /\ upserted' = FALSE /\ (cursor' = 1 => ~Written(pending') /\ task' # "recording")
  BY <1>1 DEF FlushOf, NothingPending, flush
<1>3. \A t \in Table : InTurn(t)' => cursor' = 1 /\ Len(pending'[t]) \in Nat \ {0}
  BY <1>2 DEF InTurn, Flushing
<1>4. FlushGoes'
  <2>1. Flushing' => task' # "recording" /\ \E t \in Table : pending'[t] # <<>>
    BY <1>2 DEF Flushing, Written
  <2>2. \A t \in Table : InTurn(t)' =>
          /\ cursor' <= Len(pending'[t])
          /\ t = "event" => cursor' = 1
          /\ \A i \in 1 .. cursor' - 1 : InTable(pending[t][i])'
    BY <1>3
  <2> QED
    BY <1>2, <2>1, <2>2 DEF FlushGoes
<1>5. \A t \in Table : \A i \in DOMAIN pending'[t] : i \in Nat /\ i >= 1
  OBVIOUS
<1>6. \A t \in Table : \A i \in DOMAIN pending'[t] : Outstanding(t, i)'
  BY <1>2, <1>3, <1>5 DEF Outstanding
<1> QED
  BY <1>2, <1>4, <1>6

(* A flush of the task, or one that a reader asks for.                     *)
LEMMA TrailFlushed ==
  ASSUME TrailInv, ~Flushing, BeginFlush, log' = log, Waiting' = Waiting,
         task = "failed" => task' = "failed", task' = "recording" => UNCHANGED flush
  PROVE  TrailInv'
<1>1. /\ pending' = pending /\ FlushOf(pending') /\ rows' = rows
      /\ projection' = projection /\ copies' = copies /\ failures' = failures
  BY DEF BeginFlush
<1> USE DEF TrailInv
<1>2. /\ FlushGoes' /\ cursor' \in Nat /\ upserted' = FALSE
      /\ \A t \in Table : \A i \in DOMAIN pending'[t] : Outstanding(t, i)'
  BY <1>1, FlushBegins DEF TrailTypeOK
<1>3. TrailTypeOK' /\ Placed'
  BY <1>1, <1>2 DEF TrailTypeOK, Placed, Held
<1>4. InOrder'
  BY <1>1 DEF InOrder, Held, Rising
<1>5. Kept' /\ EventsFirst'
  BY <1>1 DEF Kept, EventsFirst, Held, Recorded, InTable
<1>6. \A t \in Table : \A i \in DOMAIN pending[t] : Outstanding(t, i)
  BY DEF Outstanding, InTurn
<1>7. "sweep" \in Table /\ "universe" \in Table
  BY DEF Table
<1>8. Overwrites'
  BY <1>1, <1>2, <1>7 DEF Overwrites
<1>9. Copied'
  BY <1>1, <1>2, <1>6, <1>7 DEF Copied
<1> QED
  BY <1>2, <1>3, <1>4, <1>5, <1>8, <1>9

(* Every record belongs to a table.                                        *)
LEMMA LogTables ==
  ASSUME WriterInv
  PROVE  /\ Len(log) \in Nat /\ DOMAIN log = 1 .. Len(log)
         /\ \A i \in DOMAIN log : log[i].table \in Table
<1>1. log \in Seq(UNION {Record(t) : t \in Table})
  BY DEF WriterInv, WriterTypeOK
<1>2. \A t \in Table : \A r \in Record(t) : r.table = t
  BY DEF Record
<1>3. Len(log) \in Nat /\ DOMAIN log = 1 .. Len(log)
  BY <1>1
<1>4. \A i \in DOMAIN log : log[i] \in UNION {Record(t) : t \in Table}
  BY <1>1
<1> QED
  BY <1>2, <1>3, <1>4

(* A record that reaches the repository comes after those of its table.    *)
LEMMA TrailPended ==
  ASSUME TrailInv, WriterInv, ~Flushing, NEW t \in Table, NEW id \in Nat,
         pending' = [pending EXCEPT ![t] = Append(@, id)],
         FlushOf(pending') \/ UNCHANGED flush,
         task' = "recording" => UNCHANGED flush,
         UNCHANGED <<rows, projection, copies, failures>>,
         Len(log') \in Nat, DOMAIN log' = 1 .. Len(log'), Len(log') <= MaxLog,
         DOMAIN log \subseteq DOMAIN log', DOMAIN log' \subseteq DOMAIN log \cup {id},
         \A i \in DOMAIN log : log'[i] = log[i],
         id \in DOMAIN log', log'[id].table = t,
         Waiting' \subseteq Waiting, Waiting \subseteq Waiting' \cup {id},
         task = "failed" => task' = "failed",
         \A i \in Held(t) \cup rows[t] : i < id,
         t \in Audited => \A w \in Waiting' : id < w,
         t \in Dependent => \A j \in 1 .. id - 1 :
             log'[j].table = "event" => j \in rows["event"] \cup Held("event")
  PROVE  TrailInv'
<1> USE DEF TrailInv
<1>1. \A u \in Table : pending[u] \in Seq(Nat) /\ Rising(pending[u])
  BY DEF TrailTypeOK, InOrder
<1>2. /\ Append(pending[t], id) \in Seq(Nat) /\ Rising(Append(pending[t], id))
      /\ Range(Append(pending[t], id)) = Range(pending[t]) \cup {id}
  BY <1>1, AppendRising DEF Held
<1>3. \A u \in Table : pending'[u] = IF u = t THEN Append(pending[u], id) ELSE pending[u]
  BY DEF TrailTypeOK
<1>4. pending' \in [Table -> Seq(Nat)]
  BY <1>2 DEF TrailTypeOK
<1>5. /\ FlushGoes' /\ cursor' \in Nat /\ upserted' = FALSE
      /\ \A u \in Table : \A i \in DOMAIN pending'[u] : Outstanding(u, i)'
  BY <1>4, FlushBegins
<1>6. \A u \in Table : Held(u)' = IF u = t THEN Held(u) \cup {id} ELSE Held(u)
  <2> SUFFICES ASSUME NEW u \in Table
               PROVE  Range(pending'[u]) = IF u = t THEN Range(pending[u]) \cup {id} ELSE Range(pending[u])
    BY DEF Held
  <2>1. CASE u = t
    BY <1>2, <1>3, <2>1
  <2>2. CASE u # t
    BY <1>3, <2>2
  <2> QED
    BY <2>1, <2>2
<1>7. \A u \in Table : \A i \in DOMAIN pending[u] : Outstanding(u, i)
  BY DEF Outstanding, InTurn
<1>8. TrailTypeOK'
  BY <1>4, <1>5 DEF TrailTypeOK
<1>9. \A u \in Table : \A i \in Held(u) \cup rows[u] :
         i \in DOMAIN log /\ log[i].table = u /\ log'[i] = log[i]
  BY DEF Placed
<1>10. Placed'
  BY <1>6, <1>9 DEF Placed
<1>11. InOrder'
  <2>1. \A u \in Table : Rising(pending'[u])
    BY <1>1, <1>2, <1>3
  <2>2. \A u \in Audited : \A i \in Held(u)' \cup rows[u], w \in Waiting' : i < w
    <3> SUFFICES ASSUME NEW u \in Audited, NEW i \in Held(u)' \cup rows[u], NEW w \in Waiting'
                 PROVE  i < w
      OBVIOUS
    <3>1. CASE i \in Held(u) \cup rows[u]
      BY <3>1 DEF InOrder
    <3>2. CASE i \notin Held(u) \cup rows[u]
      <4>1. i = id /\ u = t
        BY <1>6, <3>2 DEF Audited
      <4> QED
        BY <4>1
    <3> QED
      BY <3>1, <3>2
  <2>3. \A u \in Table : \A i \in rows[u] : i \in Held(u)' \/ \A p \in Held(u)' : i < p
    BY <1>6 DEF InOrder
  <2> QED
    BY <2>1, <2>2, <2>3 DEF InOrder, Held, Rising
<1>12. Kept'
  <2> SUFFICES ASSUME task' # "failed", NEW i \in DOMAIN log'
               PROVE  i \in Waiting' \/ Recorded(i)'
    BY DEF Kept
  <2>1. CASE i = id
    <3>1. id \in Held(t)'
      BY <1>6
    <3> QED
      BY <2>1, <3>1 DEF Recorded, Held
  <2>2. CASE i # id /\ i \in Waiting
    BY <2>2
  <2>3. CASE i # id /\ i \notin Waiting
    <3>1. i \in DOMAIN log /\ Recorded(i) /\ log'[i] = log[i]
      BY <2>3 DEF Kept
    <3>2. CASE InTable(i)
      BY <3>1, <3>2 DEF Recorded, InTable
    <3>3. CASE i \in Held(log[i].table)
      <4>1. log[i].table \in Table
        BY <3>1, LogTables
      <4>2. i \in Held(log[i].table)'
        BY <1>6, <3>3, <4>1
      <4> QED
        BY <3>1, <4>2 DEF Recorded, Held
    <3> QED
      BY <3>1, <3>2, <3>3 DEF Recorded
  <2> QED
    BY <2>1, <2>2, <2>3
<1>13. EventsFirst'
  <2>1. Dependent \subseteq Table /\ "event" \in Table /\ "event" \notin Dependent
    BY DEF Dependent, Table
  <2> SUFFICES ASSUME NEW u \in Dependent, NEW i \in Held(u)' \cup rows[u],
                      NEW j \in 1 .. i - 1, log'[j].table = "event"
               PROVE  j \in rows["event"] \/ (i \notin rows[u] /\ j \in Held("event")')
    BY DEF EventsFirst
  <2>2. CASE i \in Held(u) \cup rows[u]
    <3>1. j \in DOMAIN log /\ log'[j] = log[j]
      BY <1>9, <2>1, <2>2, LogTables
    <3> QED
      BY <1>6, <2>1, <2>2, <3>1 DEF EventsFirst
  <2>3. CASE i \notin Held(u) \cup rows[u]
    <3>1. i = id /\ u = t
      BY <1>6, <2>1, <2>3
    <3> QED
      BY <1>6, <2>1, <2>3, <3>1
  <2> QED
    BY <2>2, <2>3
<1>14. "sweep" \in Table /\ "universe" \in Table
  BY DEF Table
<1>15. \A u \in Table : \A i \in DOMAIN pending[u] :
          i \in DOMAIN pending'[u] /\ pending'[u][i] = pending[u][i] /\ pending[u][i] \in Held(u)
  BY <1>1, <1>3 DEF Held, Range
<1>16. Overwrites'
  <2> SUFFICES ASSUME NEW i \in rows["sweep"]
               PROVE  \/ i <= projection[log'[i].cluster]
                      \/ \E k \in DOMAIN pending'["sweep"] :
                            /\ Outstanding("sweep", k)'
                            /\ i <= pending'["sweep"][k]
                            /\ log'[pending'["sweep"][k]].cluster = log'[i].cluster
    BY DEF Overwrites
  <2>1. log'[i] = log[i]
    BY <1>9, <1>14
  <2>2. CASE i <= projection[log[i].cluster]
    BY <2>1, <2>2
  <2>3. ASSUME NEW k \in DOMAIN pending["sweep"], i <= pending["sweep"][k],
               log[pending["sweep"][k]].cluster = log[i].cluster
        PROVE  \E m \in DOMAIN pending'["sweep"] :
                  /\ Outstanding("sweep", m)'
                  /\ i <= pending'["sweep"][m]
                  /\ log'[pending'["sweep"][m]].cluster = log'[i].cluster
    <3>1. /\ k \in DOMAIN pending'["sweep"] /\ pending'["sweep"][k] = pending["sweep"][k]
          /\ log'[pending["sweep"][k]] = log[pending["sweep"][k]]
      BY <1>9, <1>14, <1>15
    <3> QED
      BY <1>5, <1>14, <2>1, <2>3, <3>1
  <2> QED
    BY <2>2, <2>3 DEF Overwrites
<1>17. Copied'
  <2>1. \A i \in DOMAIN pending'["universe"] : copies[pending'["universe"][i]] <= failures
    <3> SUFFICES ASSUME NEW i \in DOMAIN pending'["universe"]
                 PROVE  copies[pending'["universe"][i]] <= failures
      OBVIOUS
    <3>1. CASE i \in DOMAIN pending["universe"]
      BY <1>7, <1>14, <1>15, <3>1 DEF Copied
    <3>2. CASE i \notin DOMAIN pending["universe"]
      <4>1. t = "universe" /\ pending'["universe"][i] = id
        BY <1>1, <1>3, <1>14, <3>2
      <4>2. id \in Number /\ id \notin rows["universe"]
        BY <4>1, RepositoryConstantsOK DEF Number, RepositoryConstantsOK, TrailTypeOK
      <4>3. copies[id] \in Nat /\ ~(copies[id] > 0) /\ failures \in Nat
        BY <4>2 DEF Copied, TrailTypeOK
      <4> QED
        BY <4>1, <4>3
    <3> QED
      BY <3>1, <3>2
  <2> QED
    BY <2>1 DEF Copied
<1> QED
  BY <1>5, <1>8, <1>10, <1>11, <1>12, <1>13, <1>16, <1>17
-----------------------------------------------------------------------------
(* What a statement of stage t may do to the tables.                       *)
Grows(t) ==
    /\ rows' \in [Table \cup {"transition"} -> SUBSET Nat]
    /\ \A u \in Table : rows[u] \subseteq rows'[u] /\ rows'[u] \subseteq rows[u] \cup Held(u)
    /\ \A u \in Table : u # t => rows'[u] = rows[u]
    /\ rows["transition"] \subseteq rows'["transition"]

(* The records of a table: those of sweep name a cluster.                  *)
LEMMA SweepsNamed ==
  ASSUME WriterInv, Placed, NEW id \in Held("sweep") \cup rows["sweep"]
  PROVE  id \in DOMAIN log /\ log[id].cluster \in SweepCluster
<1>1. log \in Seq(UNION {Record(t) : t \in Table})
  BY DEF WriterInv, WriterTypeOK
<1>2. id \in DOMAIN log /\ log[id].table = "sweep"
  BY DEF Placed, Table
<1>3. \A t \in Table : \A r \in Record(t) : r.table = t /\ (t = "sweep" => r.cluster \in SweepCluster)
  BY DEF Record
<1>4. log[id] \in UNION {Record(t) : t \in Table}
  BY <1>1, <1>2
<1> QED
  BY <1>2, <1>3, <1>4

(* The row at the cursor.                                                  *)
LEMMA AtCursor ==
  ASSUME TrailInv, NEW t \in Table, InTurn(t)
  PROVE  /\ cursor \in 1 .. Len(pending[t]) /\ DOMAIN pending[t] = 1 .. Len(pending[t])
         /\ pending[t][cursor] \in Held(t) /\ pending[t][cursor] \in Nat
         /\ pending[t] \in Seq(Nat) /\ pending[t] # <<>> /\ Len(pending[t]) \in Nat
         /\ Ids(t) \subseteq Held(t)
         /\ upserted => t = "sweep"
<1>1. pending[t] \in Seq(Nat) /\ pending[t] # <<>> /\ cursor \in Nat \ {0} /\ cursor <= Len(pending[t])
  BY DEF TrailInv, TrailTypeOK, FlushGoes, InTurn, Flushing
<1>2. cursor \in 1 .. Len(pending[t]) /\ DOMAIN pending[t] = 1 .. Len(pending[t])
  BY <1>1
<1>3. pending[t][cursor] \in Held(t) /\ pending[t][cursor] \in Nat
  BY <1>1, <1>2 DEF Held, Range
<1>4. Ids(t) \subseteq Held(t)
  BY <1>3 DEF Ids, Held
<1>5. upserted => t = "sweep"
  <2>1. upserted => InTurn("sweep")
    BY DEF TrailInv, FlushGoes
  <2>2. "sweep" \in Table
    BY DEF Table
  <2> QED
    BY <2>1, <2>2, TurnUnique
<1> QED
  BY <1>1, <1>2, <1>3, <1>4, <1>5

(* What a statement writes.                                                *)
LEMMA StatementWrites ==
  ASSUME TrailInv, NEW t \in Table, InTurn(t), Write(t)
  PROVE  /\ Grows(t)
         /\ ~upserted => rows'[t] = rows[t] \cup Ids(t)
         /\ upserted => rows'[t] = rows[t] /\ pending[t][cursor] \in rows'["transition"]
<1>1. /\ Ids(t) \subseteq Held(t) /\ pending[t][cursor] \in Held(t)
      /\ upserted => t = "sweep"
      /\ Held(t) \subseteq Nat
  <2>1. \A i \in DOMAIN pending[t] : pending[t][i] \in Nat
    BY DEF TrailInv, TrailTypeOK
  <2>2. Held(t) \subseteq Nat
    BY <2>1 DEF Held, Range
  <2> QED
    BY <2>2, AtCursor
<1>2. rows \in [Table \cup {"transition"} -> SUBSET Nat] /\ "transition" \notin Table
  BY DEF TrailInv, TrailTypeOK, Table
<1>3. CASE upserted
  <2>1. rows' = [rows EXCEPT !["transition"] = @ \cup Ids(t)]
    BY <1>3 DEF Write
  <2>2. pending[t][cursor] \in Ids(t)
    <3>1. t # "event"
      BY <1>1, <1>3
    <3> QED
      BY <3>1 DEF Ids
  <2>3. rows'["transition"] = rows["transition"] \cup Ids(t)
    BY <1>2, <2>1
  <2>4. \A u \in Table : rows'[u] = rows[u]
    BY <1>2, <2>1
  <2>5. rows' \in [Table \cup {"transition"} -> SUBSET Nat]
    <3>1. rows["transition"] \cup Ids(t) \in SUBSET Nat
      BY <1>1, <1>2
    <3> QED
      BY <1>2, <2>1, <3>1
  <2> QED
    BY <1>3, <2>2, <2>3, <2>4, <2>5 DEF Grows
<1>4. CASE ~upserted
  <2>1. rows' = [rows EXCEPT ![t] = @ \cup Ids(t)]
    BY <1>4 DEF Write
  <2>2. rows'[t] = rows[t] \cup Ids(t)
    BY <1>2, <2>1
  <2>3. \A u \in Table \cup {"transition"} : u # t => rows'[u] = rows[u]
    BY <1>2, <2>1
  <2>4. rows' \in [Table \cup {"transition"} -> SUBSET Nat]
    <3>1. rows[t] \cup Ids(t) \in SUBSET Nat
      BY <1>1, <1>2
    <3> QED
      BY <1>2, <2>1, <3>1
  <2>5. Grows(t)
    BY <1>1, <1>2, <2>2, <2>3, <2>4 DEF Grows
  <2> QED
    BY <1>4, <2>2, <2>5
<1> QED
  BY <1>3, <1>4

(* Order, place and provenance outlive a statement, provided that no       *)
(* record is dropped before it is written.                                 *)
LEMMA TrailSettles ==
  ASSUME TrailInv, WriterInv, log' = log, NEW t \in Table, InTurn(t), Grows(t),
         \A u \in Table : pending'[u] \in {pending[u], <<>>},
         \A u \in Table : \A i \in Held(u) : i \in Held(u)' \/ InTable(i)',
         Waiting' \subseteq Waiting,
         task' # "failed" => task # "failed" /\ Waiting' = Waiting
  PROVE  Placed' /\ InOrder' /\ Kept' /\ EventsFirst'
<1> USE DEF TrailInv
<1>1. \A u \in Table : Held(u)' \in {Held(u), {}}
  <2>1. Range(<<>>) = {}
    BY DEF Range
  <2> QED
    BY <2>1 DEF Held
<1>2. Placed'
  BY <1>1 DEF Placed, Grows
<1>3. InOrder'
  <2>1. \A u \in Table : Rising(pending'[u])
    BY DEF InOrder, Rising
  <2>2. \A u \in Audited : \A i \in Held(u)' \cup rows'[u], w \in Waiting' : i < w
    BY <1>1 DEF InOrder, Grows, Audited
  <2>3. \A u \in Table : \A i \in rows'[u] : i \in Held(u)' \/ \A p \in Held(u)' : i < p
    BY <1>1 DEF InOrder, Grows
  <2> QED
    BY <2>1, <2>2, <2>3 DEF InOrder, Rising
<1>4. \A i \in DOMAIN log : InTable(i) => InTable(i)'
  BY LogTables DEF InTable, Grows
<1>5. Kept'
  BY <1>4, LogTables DEF Kept, Recorded
<1>6. EventsFirst'
  <2> SUFFICES ASSUME NEW u \in Dependent, NEW i \in Held(u)' \cup rows'[u],
                      NEW j \in 1 .. i - 1, log[j].table = "event"
               PROVE  j \in rows'["event"] \/ (i \notin rows'[u] /\ j \in Held("event")')
    BY DEF EventsFirst
  <2>1. u \in Table /\ "event" \in Table /\ u # "event"
    BY DEF Dependent, Table
  <2>2. i \in Held(u) \cup rows[u]
    BY <1>1, <2>1 DEF Grows
  <2>3. CASE j \in rows["event"]
    BY <2>1, <2>3 DEF Grows
  <2>4. CASE i \notin rows[u] /\ j \in Held("event")
    <3>1. pending["event"] # <<>>
      BY <2>4 DEF Held, Range
    <3>2. t = "event"
      BY <2>1, <3>1 DEF InTurn, Stage, Table
    <3>3. rows'[u] = rows[u]
      BY <2>1, <3>2 DEF Grows
    <3>4. j \in Held("event")' \/ j \in rows'["event"]
      BY <2>1, <2>4 DEF InTable
    <3> QED
      BY <2>4, <3>3, <3>4
  <2> QED
    BY <2>2, <2>3, <2>4 DEF EventsFirst
<1> QED
  BY <1>2, <1>3, <1>5, <1>6

(* Up to its cursor, a stage has written what it passes.                   *)
LEMMA WrittenSoFar ==
  ASSUME TrailInv, WriterInv, log' = log, NEW t \in Table, InTurn(t), Write(t),
         ~TransitionDue(t)
  PROVE  /\ \A i \in 1 .. cursor, id \in Held(t) : id = pending[t][i] => InTable(id)'
         /\ t = "event" => \A id \in Held(t) : InTable(id)'
<1> USE DEF TrailInv
<1> DEFINE p == pending[t]
<1>1. /\ cursor \in 1 .. Len(p) /\ DOMAIN p = 1 .. Len(p) /\ Len(p) \in Nat
      /\ upserted => t = "sweep"
  BY AtCursor
<1>2. /\ Grows(t)
      /\ ~upserted => rows'[t] = rows[t] \cup Ids(t)
      /\ upserted => rows'[t] = rows[t] /\ p[cursor] \in rows'["transition"]
  BY StatementWrites
<1>3. \A i \in DOMAIN p : p[i] \in DOMAIN log /\ log[p[i]].table = t
  BY DEF Placed, Held, Range
<1> SUFFICES /\ \A i \in 1 .. cursor : /\ p[i] \in rows'[t]
                                       /\ (t = "sweep" /\ log[p[i]].transition) => p[i] \in rows'["transition"]
             /\ t = "event" => \A i \in DOMAIN p : p[i] \in rows'[t]
  <2>1. \A id \in Held(t) : log[id].table = t /\ \E i \in DOMAIN p : id = p[i]
    BY <1>3 DEF Held, Range
  <2> QED
    BY <2>1 DEF InTable
<1>5. ASSUME NEW i \in 1 .. cursor - 1
      PROVE  /\ p[i] \in rows'[t]
             /\ (t = "sweep" /\ log[p[i]].transition) => p[i] \in rows'["transition"]
  <2>1. i \in DOMAIN p
    BY <1>1
  <2>2. InTable(p[i])
    BY DEF FlushGoes
  <2> QED
    BY <1>2, <1>3, <2>1, <2>2 DEF InTable, Grows
<1>6. p[cursor] \in rows'[t]
  <2>1. CASE upserted
    <3>1. p[cursor] \in rows[t]
      BY <1>1, <2>1 DEF FlushGoes
    <3> QED
      BY <1>2, <2>1, <3>1
  <2>2. CASE ~upserted
    <3>1. p[cursor] \in Ids(t)
      BY <1>1 DEF Ids, Range
    <3> QED
      BY <1>2, <2>2, <3>1
  <2> QED
    BY <2>1, <2>2
<1>7. (t = "sweep" /\ log[p[cursor]].transition) => p[cursor] \in rows'["transition"]
  BY <1>2 DEF TransitionDue
<1>8. t = "event" => \A i \in DOMAIN p : p[i] \in rows'[t]
  <2>1. t = "event" => Ids(t) = Range(p) /\ rows'[t] = rows[t] \cup Ids(t)
    BY <1>1, <1>2 DEF Ids
  <2> QED
    BY <2>1 DEF Range
<1>9. \A i \in 1 .. cursor : i \in 1 .. cursor - 1 \/ i = cursor
  BY <1>1
<1> QED
  BY <1>5, <1>6, <1>7, <1>8, <1>9

(* A statement that succeeds moves the flush on.                           *)
LEMMA FlushAdvances ==
  ASSUME TrailInv, WriterInv, log' = log, task' = task, NEW t \in Table, InTurn(t),
         Write(t), Proceed(t)
  PROVE  /\ pending' \in [Table -> Seq(Nat)] /\ cursor' \in Nat /\ upserted' \in BOOLEAN
         /\ \A u \in Table : pending'[u] \in {pending[u], <<>>}
         /\ \A u \in Table : \A i \in Held(u) : i \in Held(u)' \/ InTable(i)'
         /\ FlushGoes'
         /\ \A i \in DOMAIN pending[t] :
               (i > cursor /\ t # "event") => pending'[t] = pending[t] /\ Outstanding(t, i)'
         /\ ~TransitionDue(t) => \A i \in DOMAIN pending'[t] :
               Outstanding(t, i)' => i \in DOMAIN pending[t] /\ i > cursor
         /\ \A u \in Table \ {t} :
               pending'[u] = pending[u] /\ \A i \in DOMAIN pending[u] : Outstanding(u, i)'
<1> USE DEF TrailInv
<1>1. /\ cursor \in 1 .. Len(pending[t]) /\ DOMAIN pending[t] = 1 .. Len(pending[t])
      /\ Len(pending[t]) \in Nat /\ pending[t] # <<>>
      /\ pending[t] \in Seq(Nat)
      /\ upserted => t = "sweep"
  BY AtCursor
<1>2. pending \in [Table -> Seq(Nat)] /\ task # "recording"
  BY DEF TrailTypeOK, FlushGoes, InTurn
<1>3. \A u \in Table : u # t => ~InTurn(u)
  BY TurnUnique
<1>4. CASE ~LastOf(t) \/ TransitionDue(t)
  <2>1. /\ pending' = pending /\ t # "event"
        /\ \/ TransitionDue(t) /\ cursor' = cursor /\ upserted' = TRUE
           \/ ~TransitionDue(t) /\ cursor' = cursor + 1 /\ upserted' = FALSE /\ cursor < Len(pending[t])
    BY <1>1, <1>4 DEF Proceed, LastOf, TransitionDue
  <2>2. cursor' \in 1 .. Len(pending[t]) /\ upserted' \in BOOLEAN
    <3>1. cursor' \in 1 .. Len(pending[t])
      BY <1>1, <2>1
    <3>2. upserted' \in BOOLEAN
      BY <2>1
    <3> QED
      BY <3>1, <3>2
  <2>3. \A u \in Table : InTurn(u)' <=> InTurn(u)
    BY <1>1, <2>1, <2>2 DEF InTurn, Flushing
  <2>4. \A i \in 1 .. cursor' - 1 : InTable(pending[t][i])'
    <3>1. CASE TransitionDue(t)
      <4>1. \A i \in 1 .. cursor - 1 : InTable(pending[t][i])
        BY DEF FlushGoes
      <4>2. \A i \in 1 .. cursor - 1 : i \in DOMAIN pending[t] /\ pending[t][i] \in DOMAIN log /\ log[pending[t][i]].table = t
        BY <1>1 DEF Placed, Held, Range
      <4>3. Grows(t)
        BY StatementWrites
      <4>4. \A i \in 1 .. cursor - 1 : InTable(pending[t][i])'
        BY <2>1, <4>1, <4>2, <4>3 DEF InTable, Grows
      <4> QED
        BY <2>1, <3>1, <4>4
    <3>2. CASE ~TransitionDue(t)
      <4>1. \A i \in 1 .. cursor, id \in Held(t) : id = pending[t][i] => InTable(id)'
        BY <3>2, WrittenSoFar
      <4>2. \A i \in 1 .. cursor : pending[t][i] \in Held(t)
        BY <1>1 DEF Held, Range
      <4>3. cursor' - 1 = cursor
        BY <1>1, <2>1, <3>2
      <4> QED
        BY <2>1, <4>1, <4>2, <4>3 DEF InTable
    <3> QED
      BY <3>1, <3>2
  <2>5. FlushGoes'
    <3>1. Flushing' => task' # "recording" /\ \E u \in Table : pending'[u] # <<>>
      BY <1>1, <1>2, <2>1
    <3>2. \A u \in Table : InTurn(u)' =>
            /\ cursor' <= Len(pending'[u])
            /\ u = "event" => cursor' = 1
            /\ \A i \in 1 .. cursor' - 1 : InTable(pending[u][i])'
      <4>1. \A u \in Table : InTurn(u)' => u = t
        BY <1>3, <2>3
      <4>2. cursor' <= Len(pending'[t])
        BY <1>1, <2>1, <2>2
      <4> QED
        BY <2>1, <2>4, <4>1, <4>2
    <3>3. upserted' => /\ InTurn("sweep")'
                       /\ pending'["sweep"][cursor'] \in rows'["sweep"]
                       /\ log'[pending'["sweep"][cursor']].transition
      <4> SUFFICES ASSUME upserted' PROVE /\ InTurn("sweep")'
                                          /\ pending["sweep"][cursor] \in rows'["sweep"]
                                          /\ log[pending["sweep"][cursor]].transition
        BY <2>1
      <4>1. t = "sweep" /\ ~upserted /\ log[pending["sweep"][cursor]].transition
        BY <2>1 DEF TransitionDue
      <4>2. rows'[t] = rows[t] \cup Ids(t)
        BY <4>1, StatementWrites
      <4>3. pending[t][cursor] \in Ids(t)
        BY <4>1 DEF Ids
      <4> QED
        BY <2>3, <4>1, <4>2, <4>3
    <3> QED
      BY <3>1, <3>2, <3>3 DEF FlushGoes
  <2>6. \A i \in DOMAIN pending[t] : i > cursor => Outstanding(t, i)'
    BY <1>1, <2>1 DEF Outstanding
  <2>7. \A u \in Table \ {t} : \A i \in DOMAIN pending[u] : Outstanding(u, i)'
    BY <1>3, <2>3 DEF Outstanding
  <2>9. ~TransitionDue(t) => \A i \in DOMAIN pending[t] : Outstanding(t, i)' => i > cursor
    BY <1>1, <2>1, <2>3 DEF Outstanding
  <2>8. \A u \in Table : Held(u)' = Held(u)
    BY <2>1 DEF Held
  <2> QED
    BY <1>2, <2>1, <2>2, <2>5, <2>6, <2>7, <2>8, <2>9
<1>5. CASE LastOf(t) /\ ~TransitionDue(t)
  <2>1. /\ pending' = [pending EXCEPT ![t] = <<>>]
        /\ cursor' = IF Written(pending') THEN 0 ELSE 1
        /\ upserted' = FALSE
        /\ t = "event" \/ cursor = Len(pending[t])
    BY <1>5 DEF Proceed, LastOf
  <2>2. /\ pending'[t] = <<>> /\ \A u \in Table \ {t} : pending'[u] = pending[u]
        /\ pending' \in [Table -> Seq(Nat)]
    <3>1. <<>> \in Seq(Nat)
      OBVIOUS
    <3> QED
      BY <1>2, <2>1, <3>1
  <2>3. cursor' \in {0, 1} /\ (cursor' = 1 => ~Written(pending'))
    BY <2>1
  <2>4. FlushGoes'
    <3>1. Flushing' => task' # "recording" /\ \E u \in Table : pending'[u] # <<>>
      BY <1>2, <2>3 DEF Flushing, Written
    <3>2. \A u \in Table : InTurn(u)' =>
            /\ cursor' <= Len(pending'[u])
            /\ u = "event" => cursor' = 1
            /\ \A i \in 1 .. cursor' - 1 : InTable(pending[u][i])'
      <4>1. \A u \in Table : InTurn(u)' => cursor' = 1 /\ Len(pending'[u]) \in Nat \ {0}
        BY <2>2, <2>3 DEF InTurn, Flushing
      <4> QED
        BY <4>1
    <3> QED
      BY <2>1, <3>1, <3>2 DEF FlushGoes
  <2>5. \A u \in Table : \A i \in DOMAIN pending[u] : Outstanding(u, i)'
    <3>1. \A u \in Table : \A i \in DOMAIN pending[u] : i \in Nat /\ i >= 1
      BY <1>2
    <3> QED
      BY <2>1, <2>3, <3>1 DEF Outstanding, InTurn, Flushing
  <2>6. \A i \in DOMAIN pending[t] : (i > cursor /\ t # "event") => FALSE
    BY <1>1, <2>1
  <2>7. \A i \in Held(t) : InTable(i)'
    <3>1. CASE t = "event"
      BY <1>5, <3>1, WrittenSoFar
    <3>2. CASE cursor = Len(pending[t])
      <4>1. \A id \in Held(t) : \E i \in 1 .. cursor : id = pending[t][i]
        BY <1>1, <3>2 DEF Held, Range
      <4> QED
        BY <1>5, <4>1, WrittenSoFar
    <3> QED
      BY <2>1, <3>1, <3>2
  <2>8. \A u \in Table \ {t} : Held(u)' = Held(u)
    BY <2>2 DEF Held
  <2>9. DOMAIN pending'[t] = {}
    BY <2>2
  <2>10. cursor' \in Nat /\ upserted' \in BOOLEAN
    BY <2>1, <2>3
  <2>11. \A u \in Table : \A i \in Held(u) : i \in Held(u)' \/ InTable(i)'
    BY <2>7, <2>8
  <2>12. \A u \in Table \ {t} : \A i \in DOMAIN pending[u] : Outstanding(u, i)'
    BY <2>5
  <2> QED
    BY <2>2, <2>4, <2>6, <2>9, <2>10, <2>11, <2>12
<1> QED
  BY <1>4, <1>5

(* The row of a cluster is behind only where an audit held overwrites it:  *)
(* one beyond the cursor, for the audits are written in their order.       *)
LEMMA OverwritesStep ==
  ASSUME TrailInv, WriterInv, log' = log, NEW t \in Table, InTurn(t), Write(t),
         t = "sweep" => \A i \in DOMAIN pending["sweep"] :
             i > cursor => pending'["sweep"] = pending["sweep"] /\ Outstanding("sweep", i)',
         t # "sweep" => /\ pending'["sweep"] = pending["sweep"]
                        /\ \A i \in DOMAIN pending["sweep"] : Outstanding("sweep", i)'
  PROVE  Overwrites' /\ projection' \in [SweepCluster -> Nat]
<1> USE DEF TrailInv
<1>1. projection' = [c \in SweepCluster |-> Projected(c)] /\ projection \in [SweepCluster -> Nat]
  BY DEF Write, TrailTypeOK
<1>2. "sweep" \in Table /\ Grows(t)
  BY StatementWrites DEF Table
<1> DEFINE p == pending["sweep"]
           covered(id) == \E i \in DOMAIN pending'["sweep"] :
                             /\ Outstanding("sweep", i)'
                             /\ id <= pending'["sweep"][i]
                             /\ log[pending'["sweep"][i]].cluster = log[id].cluster
<1> SUFFICES /\ \A id \in rows'["sweep"] : id <= projection'[log[id].cluster] \/ covered(id)
             /\ projection' \in [SweepCluster -> Nat]
  BY DEF Overwrites
<1>3. \A id \in rows["sweep"] \cup Held("sweep") : log[id].cluster \in SweepCluster
  BY SweepsNamed
<1>4. CASE t # "sweep" \/ upserted
  <2>1. \A c \in SweepCluster : ~Overwritten(c)
    BY <1>2, <1>4, TurnUnique DEF Overwritten
  <2>2. projection' = projection
    BY <1>1, <2>1 DEF Projected
  <2>3. rows'["sweep"] = rows["sweep"]
    BY <1>2, <1>4, StatementWrites DEF Grows
  <2> SUFFICES ASSUME NEW id \in rows["sweep"], ~(id <= projection[log[id].cluster])
               PROVE  covered(id)
    BY <1>1, <2>2, <2>3
  <2>4. PICK i \in DOMAIN p : /\ Outstanding("sweep", i) /\ id <= p[i]
                              /\ log[p[i]].cluster = log[id].cluster
    BY DEF Overwrites
  <2>5. CASE t # "sweep"
    BY <2>4, <2>5
  <2>6. CASE t = "sweep"
    <3>1. upserted /\ cursor \in Nat /\ i \in Nat
      BY <1>2, <1>4, <2>6 DEF TrailTypeOK
    <3>2. i > cursor
      BY <2>4, <2>6, <3>1 DEF Outstanding
    <3> QED
      BY <2>4, <2>6, <3>2
  <2> QED
    BY <2>5, <2>6
<1>5. CASE t = "sweep" /\ ~upserted
  <2> DEFINE id0 == p[cursor]
             c0 == log[id0].cluster
  <2>1. /\ cursor \in DOMAIN p /\ id0 \in Held("sweep") /\ id0 \in Nat /\ p \in Seq(Nat)
        /\ DOMAIN p = 1 .. Len(p) /\ Len(p) \in Nat
    BY <1>5, AtCursor
  <2>2. Ids("sweep") = {id0}
    BY DEF Ids
  <2>3. rows'["sweep"] = rows["sweep"] \cup {id0}
    BY <1>5, <2>2, StatementWrites
  <2>4. \A c \in SweepCluster : projection'[c] = IF c = c0 THEN id0 ELSE projection[c]
    BY <1>1, <1>5 DEF Projected, Overwritten
  <2>5. projection' \in [SweepCluster -> Nat]
    <3>1. \A c \in SweepCluster : Projected(c) \in Nat
      BY <1>1, <2>1 DEF Projected
    <3> QED
      BY <1>1, <3>1
  <2>6. c0 \in SweepCluster
    BY <1>3, <2>1
  <2> SUFFICES ASSUME NEW id \in rows["sweep"] \cup {id0}
               PROVE  id <= projection'[log[id].cluster] \/ covered(id)
    BY <2>3, <2>5
  <2>7. id \in Nat /\ log[id].cluster \in SweepCluster /\ Rising(p)
    BY <1>2, <1>3, <2>1 DEF TrailTypeOK, InOrder
  <2>8. CASE id <= id0 /\ log[id].cluster = c0
    BY <2>4, <2>6, <2>8
  <2>9. CASE id > id0 /\ log[id].cluster = c0
    <3>1. id \in rows["sweep"] /\ ~(id < id0)
      BY <2>1, <2>7, <2>9
    <3>2. id \in Held("sweep")
      BY <1>2, <2>1, <3>1 DEF InOrder
    <3>3. PICK m \in DOMAIN p : id = p[m]
      BY <3>2 DEF Held, Range
    <3>4. m > cursor
      BY <2>1, <2>7, <2>9, <3>3, SMTT(30) DEF Rising
    <3>5. pending'["sweep"] = p /\ Outstanding("sweep", m)'
      BY <1>5, <3>3, <3>4
    <3> QED
      BY <2>7, <3>3, <3>5
  <2>10. CASE log[id].cluster # c0
    <3>1. id \in rows["sweep"]
      BY <2>10
    <3>2. CASE id <= projection[log[id].cluster]
      BY <2>4, <2>7, <2>10, <3>2
    <3>3. CASE ~(id <= projection[log[id].cluster])
      <4>1. PICK i \in DOMAIN p : /\ Outstanding("sweep", i) /\ id <= p[i]
                                  /\ log[p[i]].cluster = log[id].cluster
        BY <3>1, <3>3 DEF Overwrites
      <4>2. i # cursor /\ ~(i < cursor) /\ i \in Nat /\ cursor \in Nat
        BY <1>5, <2>1, <2>10, <4>1 DEF Outstanding
      <4>3. i > cursor
        BY <4>2
      <4> QED
        BY <1>5, <4>1, <4>3
    <3> QED
      BY <3>2, <3>3
  <2> QED
    BY <2>1, <2>7, <2>8, <2>9, <2>10
<1> QED
  BY <1>4, <1>5

(* A universe audit is written once by a flush, and once more for every    *)
(* flush that fails.                                                       *)
LEMMA CopiesStep ==
  ASSUME TrailInv, WriterInv, log' = log, NEW t \in Table, InTurn(t), Write(t),
         \/ /\ failures' = failures
            /\ t = "universe" => \A i \in DOMAIN pending["universe"] :
                  i > cursor => pending'["universe"] = pending["universe"]
            /\ t = "universe" => \A i \in DOMAIN pending'["universe"] :
                  Outstanding("universe", i)' => i \in DOMAIN pending["universe"] /\ i > cursor
            /\ t # "universe" => pending'["universe"] = pending["universe"]
         \/ failures' = failures + 1 /\ pending' = pending
  PROVE  Copied' /\ copies' \in [Number -> Nat]
<1> USE DEF TrailInv
<1> DEFINE p == pending["universe"]
<1>1. /\ "universe" \in Table /\ Grows(t) /\ failures \in Nat /\ copies \in [Number -> Nat]
      /\ p \in Seq(Nat)
  BY StatementWrites DEF Table, TrailTypeOK
<1>2. \A i \in DOMAIN p : p[i] \in Number
  <2>1. \A i \in DOMAIN p : p[i] \in DOMAIN log
    BY <1>1 DEF Placed, Held, Range
  <2>2. Len(log) \in Nat /\ Len(log) <= MaxLog /\ MaxLog \in Nat /\ DOMAIN log = 1 .. Len(log)
    BY LogTables, RepositoryConstantsOK DEF RepositoryConstantsOK, TrailTypeOK
  <2> QED
    BY <2>1, <2>2 DEF Number
<1>3. CASE t # "universe"
  <2>1. copies' = copies
    BY <1>1, <1>3 DEF Write
  <2>2. pending'["universe"] = p /\ failures' \in Nat /\ failures' >= failures
    BY <1>1, <1>3
  <2>3. \A i \in DOMAIN p : Outstanding("universe", i)
    BY <1>1, <1>3, TurnUnique DEF Outstanding
  <2>4. \A i \in DOMAIN p : copies[p[i]] <= failures'
    BY <1>1, <1>2, <2>2, <2>3 DEF Copied
  <2>5. \A id \in Number : copies[id] <= failures' + 1
    BY <1>1, <2>2 DEF Copied
  <2>6. \A id \in Number : copies[id] > 0 => id \in rows'["universe"]
    BY <1>1 DEF Copied, Grows
  <2> QED
    BY <1>1, <2>1, <2>2, <2>4, <2>5, <2>6 DEF Copied
<1>4. CASE t = "universe"
  <2> DEFINE id0 == p[cursor]
  <2>1. /\ cursor \in DOMAIN p /\ id0 \in Number /\ ~upserted /\ cursor \in Nat
        /\ DOMAIN p = 1 .. Len(p)
    BY <1>2, <1>4, AtCursor
  <2>2. Ids("universe") = {id0}
    BY DEF Ids
  <2>3. rows'["universe"] = rows["universe"] \cup {id0}
    BY <1>4, <2>1, <2>2, StatementWrites
  <2>4. copies' = [id \in Number |-> IF id = id0 THEN copies[id] + 1 ELSE copies[id]]
    BY <1>4, <2>2 DEF Write
  <2>5. copies' \in [Number -> Nat]
    BY <1>1, <2>4
  <2>6. copies[id0] <= failures
    BY <2>1 DEF Copied, Outstanding
  <2>7. \A id \in Number : copies'[id] <= failures + 1
    BY <1>1, <2>1, <2>4, <2>6 DEF Copied
  <2>8. \A id \in Number : copies'[id] > 0 => id \in rows'["universe"]
    BY <1>1, <2>3, <2>4 DEF Copied
  <2>9. CASE failures' = failures + 1 /\ pending' = pending
    <3>1. \A id \in Number : copies'[id] <= failures' /\ copies'[id] <= failures' + 1
      BY <1>1, <2>5, <2>7, <2>9
    <3>2. \A i \in DOMAIN pending'["universe"] : pending'["universe"][i] \in Number
      BY <1>2, <2>9
    <3> QED
      BY <2>5, <2>8, <3>1, <3>2 DEF Copied
  <2>10. CASE /\ failures' = failures
              /\ \A i \in DOMAIN pending["universe"] :
                    i > cursor => pending'["universe"] = pending["universe"]
              /\ \A i \in DOMAIN pending'["universe"] :
                    Outstanding("universe", i)' => i \in DOMAIN pending["universe"] /\ i > cursor
    <3> SUFFICES ASSUME NEW i \in DOMAIN pending'["universe"], Outstanding("universe", i)'
                 PROVE  copies'[pending'["universe"][i]] <= failures
      BY <2>5, <2>7, <2>8, <2>10 DEF Copied
    <3>1. i \in DOMAIN p /\ i > cursor /\ pending'["universe"] = p
      BY <2>10
    <3>2. p[i] # id0 /\ p[i] \in Number
      <4>1. Rising(p) /\ i \in Nat
        BY <1>1, <2>1, <3>1 DEF InOrder
      <4>2. p[cursor] \in Nat /\ p[i] \in Nat
        BY <1>1, <2>1, <3>1
      <4>3. p[cursor] < p[i]
        BY <2>1, <3>1, <4>1 DEF Rising
      <4> QED
        BY <1>2, <3>1, <4>2, <4>3
    <3>3. Outstanding("universe", i)
      BY <2>1, <3>1 DEF Outstanding
    <3> QED
      BY <2>4, <3>1, <3>2, <3>3 DEF Copied
  <2> QED
    BY <1>4, <2>9, <2>10
<1> QED
  BY <1>3, <1>4

(* Every statement of a flush keeps the trail, and so does one that fails. *)
LEMMA TrailStatement ==
  ASSUME TrailInv, WriterInv, Statement, log' = log, task' = task, Waiting' = Waiting
  PROVE  TrailInv'
<1>1. PICK t \in Table : InTurn(t) /\ Write(t) /\ Proceed(t) /\ failures' = failures
  BY DEF Statement
<1>2. Grows(t)
  BY <1>1, StatementWrites
<1>3. /\ pending' \in [Table -> Seq(Nat)] /\ cursor' \in Nat /\ upserted' \in BOOLEAN
      /\ \A u \in Table : pending'[u] \in {pending[u], <<>>}
      /\ \A u \in Table : \A i \in Held(u) : i \in Held(u)' \/ InTable(i)'
      /\ FlushGoes'
      /\ \A i \in DOMAIN pending[t] :
            (i > cursor /\ t # "event") => pending'[t] = pending[t] /\ Outstanding(t, i)'
      /\ ~TransitionDue(t) => \A i \in DOMAIN pending'[t] :
            Outstanding(t, i)' => i \in DOMAIN pending[t] /\ i > cursor
      /\ \A u \in Table \ {t} :
            pending'[u] = pending[u] /\ \A i \in DOMAIN pending[u] : Outstanding(u, i)'
  BY <1>1, FlushAdvances
<1>4. Placed' /\ InOrder' /\ Kept' /\ EventsFirst'
  BY <1>1, <1>2, <1>3, TrailSettles
<1>5. "sweep" \in Table /\ "universe" \in Table
  BY DEF Table
<1>6. Overwrites' /\ projection' \in [SweepCluster -> Nat]
  BY <1>1, <1>3, <1>5, OverwritesStep
<1>7. Copied' /\ copies' \in [Number -> Nat]
  <2>1. t = "universe" => ~TransitionDue(t)
    BY DEF TransitionDue
  <2> QED
    BY <1>1, <1>3, <1>5, <2>1, CopiesStep
<1>8. TrailTypeOK'
  BY <1>1, <1>2, <1>3, <1>6, <1>7 DEF TrailTypeOK, Grows, TrailInv
<1> QED
  BY <1>3, <1>4, <1>6, <1>7, <1>8 DEF TrailInv

LEMMA TrailFailure ==
  ASSUME TrailInv, WriterInv, StatementFails, log' = log,
         Waiting' \subseteq Waiting, task' = "recording" => task = "recording",
         task' # "failed" => task # "failed" /\ Waiting' = Waiting
  PROVE  TrailInv'
<1>1. PICK t \in Table : InTurn(t) /\ (Write(t) \/ UNCHANGED <<rows, projection, copies>>)
  BY DEF StatementFails
<1>2. /\ failures' = failures + 1 /\ pending' = pending /\ cursor' = 0 /\ upserted' = FALSE
  BY DEF StatementFails, KeptOnFailure
<1>3. Grows(t)
  <2>1. CASE Write(t)
    BY <1>1, <2>1, StatementWrites
  <2>2. CASE UNCHANGED <<rows, projection, copies>>
    BY <2>2 DEF Grows, TrailInv, TrailTypeOK
  <2> QED
    BY <1>1, <2>1, <2>2
<1>4. Placed' /\ InOrder' /\ Kept' /\ EventsFirst'
  <2>1. \A u \in Table : Held(u)' = Held(u)
    BY <1>2 DEF Held
  <2> QED
    BY <1>1, <1>2, <1>3, <2>1, TrailSettles
<1>5. FlushGoes'
  BY <1>2 DEF FlushGoes, InTurn, Flushing
<1>6. \A u \in Table, i \in Nat : Outstanding(u, i)'
  BY <1>2 DEF Outstanding, InTurn, Flushing
<1>7. \A u \in Table : \A i \in DOMAIN pending[u] : Outstanding(u, i)'
  <2>1. \A u \in Table : \A i \in DOMAIN pending[u] : i \in Nat
    BY DEF TrailInv, TrailTypeOK
  <2> QED
    BY <1>6, <2>1
<1>8. "sweep" \in Table /\ "universe" \in Table
  BY DEF Table
<1>9. Overwrites' /\ projection' \in [SweepCluster -> Nat]
  <2>1. CASE Write(t)
    BY <1>1, <1>2, <1>7, <1>8, <2>1, OverwritesStep
  <2>2. CASE UNCHANGED <<rows, projection, copies>>
    BY <1>2, <1>7, <1>8, <2>2 DEF Overwrites, TrailInv, TrailTypeOK
  <2> QED
    BY <1>1, <2>1, <2>2
<1>10. Copied' /\ copies' \in [Number -> Nat]
  <2>1. CASE Write(t)
    BY <1>1, <1>2, <2>1, CopiesStep
  <2>2. CASE UNCHANGED <<rows, projection, copies>>
    <3>1. copies \in [Number -> Nat] /\ failures \in Nat
      BY DEF TrailInv, TrailTypeOK
    <3>2. \A i \in DOMAIN pending["universe"] : pending["universe"][i] \in Number
      <4>1. \A i \in DOMAIN pending["universe"] : pending["universe"][i] \in DOMAIN log
        BY <1>8 DEF TrailInv, Placed, Held, Range
      <4>2. Len(log) \in Nat /\ Len(log) <= MaxLog /\ MaxLog \in Nat /\ DOMAIN log = 1 .. Len(log)
        BY LogTables, RepositoryConstantsOK DEF RepositoryConstantsOK, TrailInv, TrailTypeOK
      <4> QED
        BY <4>1, <4>2 DEF Number
    <3>3. \A id \in Number : copies[id] <= failures'
      BY <1>2, <3>1 DEF TrailInv, Copied
    <3>4. \A id \in Number : copies[id] <= failures' + 1
      BY <1>2, <3>1, <3>3
    <3> QED
      BY <1>2, <2>2, <3>1, <3>2, <3>3, <3>4 DEF Copied, TrailInv
  <2> QED
    BY <1>1, <2>1, <2>2
<1>11. TrailTypeOK'
  <2>1. failures' \in Nat /\ cursor' \in Nat
    BY <1>2 DEF TrailInv, TrailTypeOK
  <2>2. upserted' \in BOOLEAN
    BY <1>2
  <2> QED
    BY <1>2, <1>3, <1>9, <1>10, <2>1, <2>2 DEF TrailTypeOK, Grows, TrailInv
<1> QED
  BY <1>4, <1>5, <1>9, <1>10, <1>11 DEF TrailInv
-----------------------------------------------------------------------------
AuditInv == WriterInv /\ QueueOrder /\ TrailInv

LEMMA AuditInvInit == Init => AuditInv
BY WriterInvInit, TrailInvInit DEF AuditInv

(* The task hands its next record to the repository: the events before it  *)
(* are there, for they waited before it.                                   *)
LEMMA TrailRecorded ==
  ASSUME AuditInv, RecordHead
  PROVE  TrailInv' /\ QueueOrder'
<1> USE DEF AuditInv
<1> DEFINE id == Head(batch)
           t == log[id].table
<1>1. /\ QueueOrder' /\ Waiting = Waiting' \cup {id} /\ id \in DOMAIN log /\ t \in Audited
      /\ \A w \in Waiting' : id < w
  BY RecordWaits
<1>2. /\ Len(log) \in Nat /\ DOMAIN log = 1 .. Len(log) /\ Audited \subseteq Table /\ id \in Nat
  BY <1>1, LogTables DEF Audited
<1>3. task = "recording" /\ log' = log /\ RecordNow(id) /\ (AtThreshold(id) => task' = "threshold_flush")
  BY DEF RecordHead
<1>4. task' # "failed"
  BY DEF RecordHead
<1>5. /\ pending' = [pending EXCEPT ![t] = Append(@, id)]
      /\ FlushOf(pending') \/ UNCHANGED flush
      /\ task' = "recording" => UNCHANGED flush
      /\ UNCHANGED <<rows, projection, copies, failures>>
  BY <1>3 DEF RecordNow, Pend
<1>6. ~Flushing
  BY <1>3 DEF TrailInv, FlushGoes
<1>7. \A i \in Held(t) \cup rows[t] : i < id
  BY <1>1 DEF TrailInv, InOrder
<1>8. t \in Dependent => \A j \in 1 .. id - 1 :
          log[j].table = "event" => j \in rows["event"] \cup Held("event")
  <2> SUFFICES ASSUME NEW j \in 1 .. id - 1, log[j].table = "event"
               PROVE  j \in rows["event"] \cup Held("event")
    OBVIOUS
  <2>1. j \in DOMAIN log /\ j \in Nat /\ j < id
    BY <1>1, <1>2
  <2>2. j \notin Waiting
    BY <1>1, <1>2, <2>1
  <2>3. Recorded(j)
    BY <1>3, <2>1, <2>2 DEF TrailInv, Kept
  <2> QED
    BY <2>3 DEF Recorded, InTable
<1>9. TrailInv'
  <2> HIDE DEF id, t
  <2>1. Len(log) <= MaxLog /\ task # "failed"
    BY <1>3 DEF TrailInv, TrailTypeOK
  <2>2. log'[id].table = t
    BY <1>3 DEF t
  <2>3. t \in Dependent => \A j \in 1 .. id - 1 :
          log'[j].table = "event" => j \in rows["event"] \cup Held("event")
    BY <1>3, <1>8
  <2>4. Waiting' \subseteq Waiting /\ Waiting \subseteq Waiting' \cup {id}
    BY <1>1
  <2>5. t \in Table
    BY <1>1, <1>2
  <2> QED
    BY <1>1, <1>2, <1>3, <1>5, <1>6, <1>7, <2>1, <2>2, <2>3, <2>4, <2>5, TrailPended
<1> QED
  BY <1>1, <1>9

(* record_universe, which does not pass the queue.                         *)
LEMMA TrailUniverse ==
  ASSUME AuditInv, RecordUniverse
  PROVE  TrailInv' /\ QueueOrder'
<1> USE DEF AuditInv
<1> DEFINE id == Len(log) + 1
<1>1. /\ log' = Append(log, [table |-> "universe"]) /\ Len(log) < MaxLog /\ ~Flushing
      /\ task \notin {"recording"} /\ task' = task /\ batch' = batch /\ queue' = queue
      /\ UNCHANGED <<rows, projection, copies, failures>>
      /\ pending' = [pending EXCEPT !["universe"] = Append(@, Len(log'))]
      /\ FlushOf(pending') \/ UNCHANGED flush
  BY DEF RecordUniverse, LoopFree, writer
<1>2. /\ Len(log) \in Nat /\ DOMAIN log = 1 .. Len(log) /\ MaxLog \in Nat
      /\ Len(log') = id /\ DOMAIN log' = 1 .. id /\ log'[id] = [table |-> "universe"]
      /\ \A i \in DOMAIN log : log'[i] = log[i]
  <2>1. log \in Seq(UNION {Record(t) : t \in Table}) /\ MaxLog \in Nat
    BY RepositoryConstantsOK DEF WriterInv, WriterTypeOK, RepositoryConstantsOK
  <2> QED
    BY <1>1, <2>1
<1>3. Todo' = Todo
  BY <1>1 DEF Todo
<1>4. Waiting' = Waiting
  BY <1>1, <1>3 DEF Waiting
<1>5. QueueOrder'
  <2>1. \A w \in Waiting' : w \in DOMAIN log' /\ log'[w].table \in Audited
    BY <1>2, <1>4 DEF QueueOrder
  <2> QED
    BY <1>1, <1>3, <2>1 DEF QueueOrder, Rising
<1>6. \A i \in Held("universe") \cup rows["universe"] : i < id
  BY <1>2 DEF TrailInv, Placed, Table
<1>7. "universe" \in Table /\ "universe" \notin Audited /\ "universe" \notin Dependent
  BY DEF Table, Audited, Dependent
<1>8. id \in Nat /\ id \in DOMAIN log' /\ Len(log') <= MaxLog /\ Len(log') \in Nat
  BY <1>1, <1>2
<1>9. DOMAIN log \subseteq DOMAIN log' /\ DOMAIN log' \subseteq DOMAIN log \cup {id}
  BY <1>2
<1>10. log'[id].table = "universe" /\ pending' = [pending EXCEPT !["universe"] = Append(@, id)]
  BY <1>1, <1>2
<1> HIDE DEF id
<1>11. DOMAIN log' = 1 .. Len(log')
  BY <1>2
<1>12. TrailInv'
  BY <1>1, <1>2, <1>4, <1>6, <1>7, <1>8, <1>9, <1>10, <1>11, TrailPended
<1> QED
  BY <1>5, <1>12

(* Every step of the producers, the task, the repository, its readers and  *)
(* the caller of drain keeps the trail.                                    *)
LEMMA AuditInvStep == AuditInv /\ [Next]_vars => AuditInv'
<1> SUFFICES ASSUME AuditInv, [Next]_vars PROVE AuditInv'
  OBVIOUS
<1>1. WriterInv'
  BY WriterInvStep DEF AuditInv
<1> SUFFICES QueueOrder' /\ TrailInv'
  BY <1>1 DEF AuditInv
<1> USE DEF AuditInv
<1>2. ASSUME NEW t \in Audited, NEW r \in Record(t), Enqueue(r) PROVE QueueOrder' /\ TrailInv'
  <2>1. /\ QueueOrder' /\ Waiting' = Waiting \cup {Len(log')} /\ task' = task
        /\ log' = Append(log, r) /\ Len(log) < MaxLog /\ UNCHANGED repository
    BY <1>2, EnqueueWaits
  <2> QED
    BY <2>1, TrailAccepted
<1>3. CASE Take
  <2>1. UNCHANGED <<log, repository>> /\ ~Flushing /\ task = "waiting"
    BY <1>3 DEF Take, LoopFree
  <2> QED
    BY <1>3, <2>1, TakeWaits, TrailUnmoved
<1>4. CASE RecordHead
  BY <1>4, TrailRecorded
<1>5. CASE RecordDone
  <2>1. UNCHANGED <<log, repository>> /\ ~Flushing /\ task = "threshold_flush"
    BY <1>5 DEF RecordDone
  <2> QED
    BY <1>5, <2>1, RecordDoneWaits, TrailUnmoved
<1>6. CASE FlushBatch \/ ReadBack
  <2>1. /\ UNCHANGED <<batch, queue, log>> /\ BeginFlush
        /\ task # "threshold_flush" /\ task' # "threshold_flush" /\ task' # "recording"
        /\ task = "failed" => task' = "failed"
        /\ ~Flushing
    BY <1>6 DEF FlushBatch, ReadBack, LoopFree, writer, TrailInv, FlushGoes
  <2>2. QueueOrder' /\ Waiting' = Waiting
    BY <2>1, NothingMoves
  <2> QED
    BY <2>1, <2>2, TrailFlushed
<1>7. CASE Refuse \/ BatchDone \/ Stop \/ StartDrain \/ DrainStep \/ DrainTimeout \/ Crash
           \/ UNCHANGED vars
  <2>1. /\ UNCHANGED <<batch, queue, log, repository>>
        /\ task' = "threshold_flush" <=> task = "threshold_flush"
        /\ task = "failed" => task' = "failed"
        /\ task' = "recording" => task = "recording"
    BY <1>7 DEF Refuse, BatchDone, Stop, StartDrain, DrainStep, Joined, AwaitTask,
                DrainTimeout, Crash, vars, writer
  <2>2. QueueOrder' /\ Waiting' = Waiting
    BY <2>1, NothingMoves
  <2> QED
    BY <2>1, <2>2, TrailUnmoved
<1>8. CASE RunStatement
  <2>1. UNCHANGED <<batch, queue, log, task>> /\ Statement
    BY <1>8 DEF RunStatement, writer
  <2>2. QueueOrder' /\ Waiting' = Waiting
    BY <2>1, NothingMoves
  <2> QED
    BY <2>1, <2>2, TrailStatement
<1>9. CASE FlushFails
  <2>1. /\ StatementFails /\ log' = log
        /\ task' = "recording" => task = "recording"
    BY <1>9 DEF FlushFails
  <2> QED
    BY <1>9, <2>1, FailureWaits, TrailFailure
<1>10. CASE RecordUniverse
  BY <1>10, TrailUniverse
<1> QED
  BY <1>2, <1>3, <1>4, <1>5, <1>6, <1>7, <1>8, <1>9, <1>10 DEF Next, WriterStep

(* The inductive invariant of the audit trail: where each record is, in    *)
(* which order, and what a flush that stopped part of the way has left.    *)
THEOREM AuditInvariant == Spec => []AuditInv
BY AuditInvInit, AuditInvStep, PTL DEF Spec

(* No accepted record is lost while the task lives, and a universe audit   *)
(* is repeated at most once per failure (persistence.py:138-226).          *)
THEOREM TrailKept == Spec => []RecordsKept
<1>1. AuditInv => RecordsKept
  <2> SUFFICES ASSUME AuditInv PROVE RecordsKept
    OBVIOUS
  <2> USE DEF AuditInv, TrailInv
  <2>1. Waiting \subseteq Range(queue) \cup Range(batch)
    <3>1. CASE task = "threshold_flush"
      <4>1. batch \in Seq(Nat) /\ batch # <<>>
        BY <3>1 DEF WriterInv, WriterTypeOK, BatchOfTask
      <4>2. \A i \in DOMAIN Tail(batch) : i + 1 \in DOMAIN batch /\ Tail(batch)[i] = batch[i + 1]
        BY <4>1
      <4> QED
        BY <3>1, <4>2 DEF Waiting, Todo, Range
    <3>2. CASE task # "threshold_flush"
      BY <3>2 DEF Waiting, Todo
    <3> QED
      BY <3>1, <3>2
  <2>2. \A id \in DOMAIN log : Recorded(id) => Pending(id) \/ InTable(id)
    <3> SUFFICES ASSUME NEW id \in DOMAIN log, id \in Held(log[id].table) PROVE Pending(id)
      BY DEF Recorded
    <3>1. log[id].table \in Table
      BY LogTables
    <3>2. pending[log[id].table] \in Seq(Nat)
      BY <3>1 DEF TrailTypeOK
    <3> QED
      BY <3>2 DEF Held, Pending, Range
  <2> QED
    BY <2>1, <2>2 DEF RecordsKept, Kept, Copied
<1> QED
  BY <1>1, AuditInvariant, PTL

(* With nothing of it pending, sweep_clusters shows the last audit of each *)
(* cluster, however many flushes failed (persistence.py:191-207).          *)
THEOREM TrailProjection == Spec => []ProjectionCurrent
<1>1. AuditInv => ProjectionCurrent
  <2>1. DOMAIN <<>> = {}
    OBVIOUS
  <2> QED
    BY <2>1 DEF AuditInv, TrailInv, Overwrites, ProjectionCurrent
<1> QED
  BY <1>1, AuditInvariant, PTL
-----------------------------------------------------------------------------
(* The events that a written record rests on are written.                  *)
LEMMA DurableReplayable ==
  AuditInv => Durable \subseteq DOMAIN log /\ AL!Replayable(Durable)
<1> USE DEF AuditInv, TrailInv
<1> SUFFICES ASSUME AuditInv,
                    NEW i \in Durable, log[i].table \in {"decision", "quote", "sweep"},
                    NEW j \in 1 .. i - 1, [k \in DOMAIN log |-> log[k].table][j] = "event"
             PROVE  j \in Durable
  BY DEF AL!Replayable, Durable
<1>1. i \in DOMAIN log /\ i \in rows[log[i].table]
  BY DEF Durable, InTable
<1>2. j \in DOMAIN log /\ log[j].table = "event"
  BY <1>1, LogTables
<1>3. j \in rows["event"]
  BY <1>1, <1>2 DEF EventsFirst, Dependent
<1> QED
  BY <1>2, <1>3 DEF Durable, InTable

(* Nothing written is taken back.                                          *)
LEMMA DurableGrows ==
  ASSUME AuditInv, log' = log, NEW t \in Table, Grows(t)
  PROVE  Durable \subseteq Durable'
BY LogTables DEF AuditInv, Durable, InTable, Grows

LEMMA AuditLogInit == Init => AL!Init
<1> SUFFICES ASSUME Init PROVE AL!Init
  OBVIOUS
<1>1. log = <<>>
  BY DEF Init
<1>2. DOMAIN log = {} /\ Durable = {}
  BY <1>1 DEF Durable
<1> QED
  BY <1>1, <1>2 DEF AL!Init

(* Every step of the code is one of the abstract audit log, or none.       *)
LEMMA AuditLogStep ==
  AuditInv /\ AuditInv' /\ [Next]_vars =>
    [AL!Next]_<<[i \in DOMAIN log |-> log[i].table], Durable>>
<1> DEFINE accepted == [i \in DOMAIN log |-> log[i].table]
<1> SUFFICES ASSUME AuditInv, AuditInv', [Next]_vars
             PROVE  AL!Next \/ (accepted' = accepted /\ Durable' = Durable)
  OBVIOUS
<1>1. ASSUME NEW r, NEW t \in Table, r.table = t, log' = Append(log, r), Len(log) < MaxLog, rows' = rows
      PROVE  AL!Next
  <2>1. /\ Len(log) \in Nat /\ DOMAIN log = 1 .. Len(log) /\ DOMAIN log' = 1 .. Len(log) + 1
        /\ log'[Len(log) + 1] = r /\ \A i \in DOMAIN log : log'[i] = log[i]
    BY <1>1 DEF AuditInv, WriterInv, WriterTypeOK
  <2>2. accepted \in Seq(Table) /\ Len(accepted) = Len(log)
    <3>1. \A i \in 1 .. Len(log) : log[i].table \in Table
      BY <2>1, LogTables DEF AuditInv
    <3> QED
      BY <2>1, <3>1
  <2>3. accepted' = Append(accepted, t)
    <3>1. Append(accepted, t) = [i \in 1 .. Len(log) + 1 |-> IF i = Len(log) + 1 THEN t ELSE accepted[i]]
      BY <2>1, <2>2
    <3>2. \A i \in 1 .. Len(log) + 1 :
             log'[i].table = IF i = Len(log) + 1 THEN t ELSE accepted[i]
      BY <1>1, <2>1
    <3> QED
      BY <2>1, <3>1, <3>2
  <2>4. Durable' = Durable
    <3>1. Len(log) + 1 \notin rows[t]
      BY <2>1 DEF AuditInv, TrailInv, Placed
    <3>2. \A i \in DOMAIN log : InTable(i)' <=> InTable(i)
      BY <1>1, <2>1 DEF InTable
    <3>3. \A i \in DOMAIN log' : i = Len(log) + 1 => ~InTable(i)'
      BY <1>1, <2>1, <3>1 DEF InTable
    <3>4. \A i \in DOMAIN log' : i \in DOMAIN log \/ i = Len(log) + 1
      BY <2>1
    <3>5. DOMAIN log \subseteq DOMAIN log'
      BY <2>1
    <3> QED
      BY <3>2, <3>3, <3>4, <3>5 DEF Durable
  <2>5. AL!Accept(t)
    BY <1>1, <2>2, <2>3, <2>4 DEF AL!Accept
  <2> QED
    BY <2>5 DEF AL!Next
<1>2. ASSUME log' = log, NEW t \in Table, Grows(t)
      PROVE  AL!Next
  <2>1. Durable \subseteq Durable'
    BY <1>2, DurableGrows
  <2>2. Durable' \subseteq DOMAIN log /\ AL!Replayable(Durable)'
    <3>1. AuditInv' => (Durable \subseteq DOMAIN log /\ AL!Replayable(Durable))'
      BY DurableReplayable, PTL
    <3> QED
      BY <1>2, <3>1
  <2>3. AL!Replayable(Durable')
    BY <1>2, <2>2 DEF AL!Replayable
  <2>4. AL!Persist
    BY <1>2, <2>1, <2>2, <2>3 DEF AL!Persist
  <2> QED
    BY <2>4 DEF AL!Next
<1>3. ASSUME log' = log, rows' = rows
      PROVE  accepted' = accepted /\ Durable' = Durable
  BY <1>3 DEF Durable, InTable
<1>4. ASSUME NEW t \in Audited, NEW r \in Record(t), Enqueue(r) PROVE AL!Next
  <2>1. r.table = t /\ t \in Table
    BY DEF Record, Audited
  <2>2. log' = Append(log, r) /\ Len(log) < MaxLog /\ rows' = rows
    BY <1>4 DEF Enqueue, repository
  <2> QED
    BY <1>1, <2>1, <2>2
<1>5. CASE RecordUniverse
  <2>1. log' = Append(log, [table |-> "universe"]) /\ Len(log) < MaxLog /\ rows' = rows
    BY <1>5 DEF RecordUniverse
  <2> QED
    BY <1>1, <2>1 DEF Table
<1>6. CASE RunStatement
  <2>1. PICK t \in Table : InTurn(t) /\ Write(t)
    BY <1>6 DEF RunStatement, Statement
  <2>2. log' = log
    BY <1>6 DEF RunStatement
  <2> QED
    BY <1>2, <2>1, <2>2, StatementWrites DEF AuditInv
<1>7. CASE FlushFails
  <2>1. PICK t \in Table : InTurn(t) /\ (Write(t) \/ UNCHANGED <<rows, projection, copies>>)
    BY <1>7 DEF FlushFails, StatementFails
  <2>2. log' = log
    BY <1>7 DEF FlushFails
  <2>3. CASE Write(t)
    BY <1>2, <2>1, <2>2, <2>3, StatementWrites DEF AuditInv
  <2>4. CASE UNCHANGED <<rows, projection, copies>>
    BY <1>3, <2>2, <2>4
  <2> QED
    BY <2>1, <2>3, <2>4
<1>8. CASE RecordHead \/ FlushBatch \/ ReadBack
  <2>1. log' = log /\ rows' = rows
    BY <1>8 DEF RecordHead, RecordNow, FlushBatch, ReadBack, BeginFlush
  <2> QED
    BY <1>3, <2>1
<1>9. CASE Refuse \/ Take \/ RecordDone \/ BatchDone \/ Stop \/ StartDrain \/ DrainStep
           \/ DrainTimeout \/ Crash \/ UNCHANGED vars
  <2>1. log' = log /\ rows' = rows
    BY <1>9 DEF Refuse, Take, RecordDone, BatchDone, Stop, StartDrain, DrainStep, Joined,
                AwaitTask, DrainTimeout, Crash, vars, repository
  <2> QED
    BY <1>3, <2>1
<1> QED
  BY <1>4, <1>5, <1>6, <1>7, <1>8, <1>9 DEF Next, WriterStep

(* The queue, the task and the repository implement AuditLog: nothing      *)
(* durable is taken back, and after every statement, failure or crash the  *)
(* store holds the events that its decisions, quotes and sweeps rest on.   *)
THEOREM TrailRefines == Spec => ImplementsAuditLog
BY AuditLogInit, AuditInvariant, AuditLogStep, PTL DEF Spec, ImplementsAuditLog, AL!Spec
-----------------------------------------------------------------------------
(* A live run.                                                             *)

(* The flush at the end of a batch leaves nothing pending or ends the task.*)
FlushedOut ==
    /\ task \in {"waiting", "stopped", "cancelled"} => ~Flushing /\ Written(pending)
    /\ task = "flushing" => Flushing \/ Written(pending)

StopOrder ==
    /\ drain = "no" => ~stopping
    /\ task = "stopped" => stopping
    /\ runner \in {"draining", "completed"} => running = {}
    /\ (runner \in {"draining", "completed"} /\ task = "stopped") => queue = <<>>
    /\ runner = "completed" => task = "stopped"

RunInv == AuditInv /\ FlushedOut /\ StopOrder
-----------------------------------------------------------------------------
(* The run takes only steps of the audit path; no reader, no universe      *)
(* audit and no crash is among them.                                       *)
PathStep ==
    \/ \E t \in Audited : \E r \in Record(t) : Enqueue(r)
    \/ Refuse
    \/ WriterStep
    \/ RunStatement
    \/ FlushFails
    \/ StartDrain
    \/ DrainStep
    \/ DrainTimeout
    \/ UNCHANGED vars

LEMMA RunSteps == [RunNext]_allVars => PathStep /\ [Next]_vars
<1> SUFFICES ASSUME [RunNext]_allVars PROVE PathStep
  BY DEF PathStep, Next
<1>1. CASE \E t \in Audited : \E r \in Record(t) :
              TimerEnqueue(r) \/ \E p \in Stream : StreamEnqueue(p, r)
  BY <1>1 DEF TimerEnqueue, StreamEnqueue, PathStep
<1>2. CASE TimerRefused \/ \E p \in Stream : StreamRefused(p)
  BY <1>2 DEF TimerRefused, StreamRefused, PathStep
<1>3. CASE OptionsEnd \/ AckArrives \/ ObservationEnds \/ UNCHANGED allVars
  BY <1>3 DEF OptionsEnd, AckArrives, ObservationEnds, allVars, PathStep
<1>4. CASE AckTimeout \/ TimerCancelled
  BY <1>4 DEF AckTimeout, TimerCancelled, PathStep
<1>5. CASE CloseReturns \/ DrainReturns
  BY <1>5 DEF CloseReturns, DrainReturns, PathStep, DrainStep
<1>6. CASE BackgroundStep
  BY <1>6 DEF BackgroundStep, PathStep, DrainStep
<1> QED
  BY <1>1, <1>2, <1>3, <1>4, <1>5, <1>6 DEF RunNext

LEMMA RunInvInit == RunInit => RunInv
<1> SUFFICES ASSUME RunInit PROVE RunInv
  OBVIOUS
<1>1. Init /\ AuditInv
  BY AuditInvInit DEF RunInit
<1>2. /\ task = "waiting" /\ drain = "no" /\ stopping = FALSE /\ cursor = 0
      /\ pending = [t \in Table |-> <<>>]
  BY <1>1 DEF Init, WriterInit, RepositoryInit
<1>3. FlushedOut
  BY <1>2 DEF FlushedOut, Flushing, Written
<1>4. StopOrder
  BY <1>2 DEF StopOrder, RunInit
<1> QED
  BY <1>1, <1>3, <1>4 DEF RunInv

(* What a step of the audit path beside the readers does to the pending    *)
(* lists: only a statement ends a flush, and only with nothing left.       *)
LEMMA FlushedOutStep ==
  ASSUME AuditInv, FlushedOut, PathStep
  PROVE  FlushedOut'
<1> USE DEF FlushedOut
<1>1. ASSUME NEW t \in Audited, NEW r \in Record(t), Enqueue(r) PROVE FlushedOut'
  BY <1>1 DEF Enqueue, repository, flush, Flushing, Written
<1>2. CASE Refuse \/ StartDrain \/ DrainStep \/ Stop \/ UNCHANGED vars
  BY <1>2 DEF Refuse, StartDrain, DrainStep, Joined, AwaitTask, Stop,
              vars, writer, repository, flush, Flushing, Written
<1>3. CASE Take \/ RecordDone
  BY <1>3 DEF Take, RecordDone
<1>4. CASE RecordHead
  BY <1>4 DEF RecordHead
<1>5. CASE FlushBatch
  <2>1. /\ task' = "flushing" /\ pending' = pending
        /\ cursor' = IF Written(pending) THEN 0 ELSE 1
    BY <1>5 DEF FlushBatch, BeginFlush, FlushOf, NothingPending
  <2> QED
    BY <2>1 DEF Flushing, Written
<1>6. CASE BatchDone
  BY <1>6 DEF BatchDone, repository, flush, Flushing, Written
<1>7. CASE DrainTimeout
  BY <1>7 DEF DrainTimeout, repository, flush, Flushing, Written
<1>8. CASE RunStatement
  <2>1. PICK t \in Table : InTurn(t) /\ Proceed(t)
    BY <1>8 DEF RunStatement, Statement
  <2>2. task' = task /\ Flushing /\ cursor \in Nat
    BY <1>8, <2>1 DEF RunStatement, writer, InTurn, AuditInv, TrailInv, TrailTypeOK
  <2>3. cursor' = 0 => Written(pending')
    BY <2>1, <2>2 DEF Proceed, Flushing
  <2> QED
    BY <2>2, <2>3 DEF Flushing, Written
<1>9. CASE FlushFails
  <2>1. Flushing
    BY <1>9 DEF FlushFails, StatementFails, InTurn
  <2> QED
    BY <1>9, <2>1 DEF FlushFails
<1> QED
  BY <1>1, <1>2, <1>3, <1>4, <1>5, <1>6, <1>7, <1>8, <1>9 DEF PathStep, WriterStep

(* What the steps of the audit path do to the task, the flag and drain.    *)
LEMMA TaskSteps ==
  ASSUME [Next]_vars, drain = "no" => ~stopping, task = "stopped" => stopping
  PROVE  /\ drain' = "no" => ~stopping'
         /\ task' = "stopped" => stopping'
         /\ task = "stopped" => task' = "stopped"
         /\ (task' = "stopped" /\ task # "stopped") => queue = <<>> /\ queue' = queue
<1>1. ASSUME NEW t \in Audited, NEW r \in Record(t), Enqueue(r)
      PROVE  UNCHANGED <<drain, stopping, task>>
  BY <1>1 DEF Enqueue
<1>2. CASE Refuse \/ RunStatement \/ RecordUniverse \/ ReadBack \/ Crash \/ UNCHANGED vars
  BY <1>2 DEF Refuse, RunStatement, RecordUniverse, ReadBack, Crash, vars, writer
<1>3. CASE Take \/ FlushBatch \/ BatchDone
  BY <1>3 DEF Take, FlushBatch, BatchDone
<1>4. CASE Stop
  BY <1>4 DEF Stop, LoopEnds
<1>5. CASE RecordHead \/ RecordDone
  BY <1>5 DEF RecordHead, RecordDone, TaskDone
<1>6. CASE FlushFails
  BY <1>6 DEF FlushFails
<1>7. CASE StartDrain
  BY <1>7 DEF StartDrain
<1>8. CASE DrainStep
  BY <1>8 DEF DrainStep, Joined, AwaitTask
<1>9. CASE DrainTimeout
  BY <1>9 DEF DrainTimeout
<1> QED
  BY <1>1, <1>2, <1>3, <1>4, <1>5, <1>6, <1>7, <1>8, <1>9 DEF Next, WriterStep

(* The task of a stopped writer finds no record: the queue stays empty.    *)
LEMMA NothingTaken ==
  ASSUME BackgroundStep \/ AwaitTask \/ DrainTimeout \/ StartDrain
  PROVE  queue' = queue \/ (Take /\ task' # "stopped")
BY DEF BackgroundStep, WriterStep, Take, RecordHead, RecordDone, FlushBatch, BatchDone,
       Stop, RunStatement, FlushFails, Joined, AwaitTask, DrainTimeout, StartDrain, writer

LEMMA StopOrderStep ==
  ASSUME RunInv, RunNext
  PROVE  StopOrder'
<1> USE DEF StopOrder
<1>1. [Next]_vars
  BY RunSteps
<1>2. /\ drain' = "no" => ~stopping'
      /\ task' = "stopped" => stopping'
      /\ task = "stopped" => task' = "stopped"
      /\ (task' = "stopped" /\ task # "stopped") => queue = <<>> /\ queue' = queue
  BY <1>1, TaskSteps DEF RunInv
<1>3. StopOrder
  BY DEF RunInv
<1>4. ASSUME runner' \notin {"draining", "completed"} PROVE StopOrder'
  BY <1>2, <1>4
<1>5. CASE \E t \in Audited : \E r \in Record(t) :
              TimerEnqueue(r) \/ \E p \in Stream : StreamEnqueue(p, r)
  <2>1. running # {} /\ runner' = runner
    BY <1>5 DEF TimerEnqueue, StreamEnqueue, runVars
  <2> QED
    BY <1>3, <1>4, <2>1
<1>6. CASE TimerRefused \/ \E p \in Stream : StreamRefused(p)
  <2>1. running # {} /\ runner' = runner
    BY <1>6 DEF TimerRefused, StreamRefused, runVars
  <2> QED
    BY <1>3, <1>4, <2>1
<1>7. CASE OptionsEnd \/ AckArrives \/ AckTimeout \/ CloseReturns \/ ObservationEnds
  <2>1. runner' \notin {"draining", "completed"}
    BY <1>7 DEF OptionsEnd, AckArrives, AckTimeout, CloseReturns, ObservationEnds
  <2> QED
    BY <1>4, <2>1
<1>8. CASE TimerCancelled
  <2>1. CASE outcome = "observed"
    <3>1. /\ running' = {} /\ runner' = "draining"
          /\ drain = "no" /\ task' = task
      BY <1>8, <2>1 DEF TimerCancelled, AfterCancel, StartDrain
    <3>2. task' # "stopped"
      BY <1>3, <3>1
    <3> QED
      BY <1>2, <3>1, <3>2
  <2>2. CASE outcome # "observed"
    BY <1>4, <1>8, <2>2 DEF TimerCancelled
  <2> QED
    BY <2>1, <2>2
<1>9. CASE DrainReturns
  <2>1. runner = "draining" /\ running' = running /\ (AwaitTask \/ DrainTimeout)
    BY <1>9 DEF DrainReturns
  <2>2. running' = {}
    BY <1>3, <2>1
  <2>3. task' = "stopped" => queue' = <<>>
    BY <1>2, <1>3, <2>1, NothingTaken
  <2>4. runner' = "completed" => task' = "stopped"
    BY <1>9, <2>1 DEF DrainReturns, AwaitTask, DrainTimeout
  <2> QED
    BY <1>2, <2>2, <2>3, <2>4
<1>10. CASE BackgroundStep
  <2>1. UNCHANGED <<running, runner>>
    BY <1>10 DEF BackgroundStep, runVars
  <2>2. (runner \in {"draining", "completed"} /\ task' = "stopped") => queue' = <<>>
    BY <1>2, <1>3, <1>10, NothingTaken
  <2> QED
    BY <1>2, <1>3, <2>1, <2>2
<1> QED
  BY <1>5, <1>6, <1>7, <1>8, <1>9, <1>10 DEF RunNext

LEMMA RunInvStep == RunInv /\ [RunNext]_allVars => RunInv'
<1> SUFFICES ASSUME RunInv, [RunNext]_allVars PROVE RunInv'
  OBVIOUS
<1>1. PathStep /\ [Next]_vars
  BY RunSteps
<1>2. AuditInv'
  BY <1>1, AuditInvStep DEF RunInv
<1>3. FlushedOut'
  BY <1>1, FlushedOutStep DEF RunInv
<1>4. CASE RunNext
  BY <1>2, <1>3, <1>4, StopOrderStep DEF RunInv
<1>5. CASE UNCHANGED allVars
  <2>1. StopOrder'
    BY <1>5 DEF RunInv, StopOrder, allVars, runVars, vars, writer
  <2> QED
    BY <1>2, <1>3, <2>1 DEF RunInv
<1> QED
  BY <1>4, <1>5

(* The inductive invariant of a live run.                                  *)
THEOREM RunInvariant == RunSpec => []RunInv
BY RunInvInit, RunInvStep, PTL DEF RunSpec

(* A run that completes has every accepted record in the database          *)
(* (live_smoke.py:260-293).                                                *)
THEOREM RunDurable == RunSpec => []CompletedDurable
<1>1. RunInv => CompletedDurable
  <2> SUFFICES ASSUME RunInv, runner = "completed", NEW id \in Accepted PROVE id \in Durable
    BY DEF CompletedDurable
  <2> USE DEF RunInv, AuditInv
  <2>1. task = "stopped" /\ queue = <<>> /\ batch = <<>> /\ Written(pending)
    BY DEF StopOrder, FlushedOut, WriterInv, BatchOfTask
  <2>2. Waiting = {}
    BY <2>1 DEF Waiting, Todo, Range
  <2>3. id \in DOMAIN log /\ log[id].table \in Table /\ Recorded(id)
    BY <2>1, <2>2, LogTables DEF TrailInv, Kept, Accepted
  <2>4. Held(log[id].table) = {}
    BY <2>1, <2>3 DEF Held, Written, Range
  <2> QED
    BY <2>3, <2>4 DEF Recorded, Durable
<1> QED
  BY <1>1, RunInvariant, PTL

(* A live run keeps the promise of the audit log.                          *)
THEOREM RunRefines == RunSpec => ImplementsAuditLog
<1>1. RunSpec => Init /\ [][Next]_vars
  <2>1. RunInit => Init
    BY DEF RunInit
  <2> QED
    BY <2>1, RunSteps, PTL DEF RunSpec
<1> QED
  BY <1>1, AuditLogInit, AuditInvInit, AuditInvStep, AuditLogStep, PTL DEF ImplementsAuditLog, AL!Spec
=============================================================================
